----------------------------- MODULE ByteBuffer -----------------------------
(***************************************************************************)
(* ByteBuffer: bytes with a position to read at and a position to write    *)
(* at, and the encodings of the values that are written to it with << and  *)
(* read with >>.  Bytes are numbers of 0 .. 255; positions count from 0,   *)
(* as in the code.                                                         *)
(*                                                                         *)
(* A call that may throw gives a result: whether it went well, the buffer  *)
(* afterwards, and the value or the exception.                             *)
(***************************************************************************)
EXTENDS Integers, SequencesExt

CONSTANT Timezone \* the C library's timezone: seconds to the west of UTC

\* A zone of whole minutes, without daylight saving time.
ByteBufferAssumption == Timezone \in Int /\ Timezone % 60 = 0

Byte == 0 .. 255

Fresh == [rpos |-> 0, wpos |-> 0, storage |-> <<>>]

\* ByteBuffer(MessageBuffer&&): both positions of what has been received are 0.
Received(bytes) == [rpos |-> 0, wpos |-> 0, storage |-> bytes]

Size(b) == Len(b.storage)
Asserted == 10000000

Ok(b, v) == [ok |-> TRUE, buf |-> b, val |-> v]
Throws(b, e) == [ok |-> FALSE, buf |-> b, val |-> e]

NotFinite == [kind |-> "not finite"]

\* Every caller passes the size of the value, then that of the buffer, to a
\* constructor whose parameters are (add, pos, size, valueSize).
PositionException(pos, cnt, size) ==
  [kind |-> "position", pos |-> pos, size |-> cnt, valueSize |-> size]

\* memcpy into the storage, which grows with zeros up to the end of what is copied.
Copied(storage, pos, bytes) ==
  LET end == pos + Len(bytes) IN
  [i \in 1 .. (IF Len(storage) < end THEN end ELSE Len(storage)) |->
     IF i \in pos + 1 .. end THEN bytes[i - pos]
     ELSE IF i \in DOMAIN storage THEN storage[i] ELSE 0]

\* Mutant: the storage is extended and the write position is not moved.
AppendBytes_Stays(b, bytes) == [b EXCEPT !.storage = Copied(@, b.wpos, bytes)]

\* append(src, cnt)
AppendBytes(b, bytes) ==
  [b EXCEPT !.storage = Copied(@, b.wpos, bytes), !.wpos = @ + Len(bytes)]

Put(b, pos, bytes) ==
  IF pos + Len(bytes) > Size(b) THEN Throws(b, PositionException(pos, Len(bytes), Size(b)))
  ELSE Ok([b EXCEPT !.storage = Copied(@, pos, bytes)], bytes)

\* Mutant: the last byte cannot be read.
Read_Short(b, n) ==
  IF b.rpos + n >= Size(b) THEN Throws(b, PositionException(b.rpos, n, Size(b)))
  ELSE Ok([b EXCEPT !.rpos = @ + n], SubSeq(b.storage, b.rpos + 1, b.rpos + n))

\* read<T>, read(dest, n), read_skip(n)
Read(b, n) ==
  IF b.rpos + n > Size(b) THEN Throws(b, PositionException(b.rpos, n, Size(b)))
  ELSE Ok([b EXCEPT !.rpos = @ + n], SubSeq(b.storage, b.rpos + 1, b.rpos + n))

------------------------------------------------------------------------------
(* Integers: little-endian, in two's complement. *)
LE(n, size) ==
  LET rest[i \in 0 .. size] == IF i = 0 THEN n ELSE rest[i - 1] \div 256
  IN  [i \in 1 .. size |-> rest[i - 1] % 256]

OfLE(bytes, signed) ==
  LET top == IF signed /\ bytes[Len(bytes)] >= 128 THEN -1 ELSE 0
  IN  FoldRight(LAMBDA x, acc : x + 256 * acc, bytes, top)

\* float and double: not finite when the exponent is all ones; no less a byte than that.
IsFinite(bytes) ==
  LET n == Len(bytes)
      least == IF n = 4 THEN 128 ELSE 240
  IN  ~(bytes[n] % 128 = 127 /\ bytes[n - 1] >= least)

ReadFloat(b, n) ==
  LET r == Read(b, n) IN
  IF r.ok /\ ~IsFinite(r.val) THEN Throws(r.buf, NotFinite) ELSE r

------------------------------------------------------------------------------
(* Strings end with a 0, which is not part of them.  A string is read up to the 0 or
   to the end of the buffer, and reading one never throws. *)
ReadString(b) ==
  LET left == SubSeq(b.storage, b.rpos + 1, Size(b))
      zeros == {i \in DOMAIN left : left[i] = 0}
      n == IF zeros = {} THEN Len(left) ELSE Min(zeros) - 1
      skip == IF zeros = {} THEN n ELSE n + 1
  IN  Ok([b EXCEPT !.rpos = @ + skip], SubSeq(left, 1, n))

------------------------------------------------------------------------------
(* A packed GUID is a byte with a bit for every byte of the GUID that is not 0, and
   these bytes. *)
Bits(mark) == {i \in 1 .. 8 : (mark \div 2^(i - 1)) % 2 = 1}

PackGUID(guid) ==
  <<SumSet({2^(i - 1) : i \in {j \in 1 .. 8 : guid[j] # 0}})>>
    \o SelectSeq(guid, LAMBDA x : x # 0)

\* Mutant: the bytes are stored one after the other.
Unpack_Dense(marked, bytes) ==
  [i \in 1 .. 8 |-> IF i <= Len(bytes) THEN bytes[i] ELSE 0]

Unpack(marked, bytes) ==
  [i \in 1 .. 8 |-> IF i \in marked THEN bytes[Cardinality({j \in marked : j <= i})] ELSE 0]

\* Mutant: bytes that are missing are taken for 0.
ReadPackGUID_Lenient(b) ==
  LET mark == Read(b, 1) IN
  IF ~mark.ok THEN mark
  ELSE LET marked == Bits(mark.val[1])
       IN  Ok([b EXCEPT !.rpos = Size(b)],
              Unpack(marked, SubSeq(b.storage, b.rpos + 2, Size(b)) \o [i \in 1 .. 8 |-> 0]))

\* The bytes are read one by one, up to the one that is missing.
ReadPackGUID(b) ==
  LET mark == Read(b, 1) IN
  IF ~mark.ok THEN mark
  ELSE LET marked == Bits(mark.val[1])
           bytes == Read(mark.buf, Cardinality(marked))
       IN  IF bytes.ok THEN Ok(bytes.buf, Unpack(marked, bytes.val))
           ELSE Throws([b EXCEPT !.rpos = Size(b)], PositionException(Size(b), 1, Size(b)))

------------------------------------------------------------------------------
(* A packed time.  localtime_r gives the fields of the minute in the zone; the seconds
   and what a year exceeds 2031 by are lost, and the day of the week is not read.  mktime
   takes fields of the zone, and to its result timezone is added once more. *)
Leaps(y) == y \div 4 - y \div 100 + y \div 400
YearStart(y) == 365 * (y - 1970) + Leaps(y - 1) - Leaps(1969)
MonthStart(y, m) ==
  YearStart(y) + <<0, 31, 59, 90, 120, 151, 181, 212, 243, 273, 304, 334>>[m + 1]
    + (IF m >= 2 THEN Leaps(y) - Leaps(y - 1) ELSE 0)

localtime(t) ==
  LET secs == t - Timezone
      day == secs \div 86400
      y == CHOOSE n \in 1970 .. 2099 : day \in YearStart(n) .. YearStart(n + 1) - 1
      m == Max({n \in 0 .. 11 : MonthStart(y, n) <= day})
  IN  [min |-> (secs \div 60) % 60, hour |-> (secs \div 3600) % 24, wday |-> (day + 4) % 7,
       mday |-> day - MonthStart(y, m) + 1, mon |-> m, year |-> y - 1900]

mktime(lt) ==
  LET day == MonthStart(lt.year + 1900 + lt.mon \div 12, lt.mon % 12) + lt.mday - 1
  IN  day * 86400 + lt.hour * 3600 + lt.min * 60 + Timezone

PackTime(time) ==
  LET lt == localtime(time)
  IN  (lt.year - 100) * 2^24 + lt.mon * 2^20 + (lt.mday - 1) * 2^14
        + lt.wday * 2^11 + lt.hour * 2^6 + lt.min

UnpackTime(n) ==
  mktime([min |-> n % 64, hour |-> (n \div 2^6) % 32, mday |-> ((n \div 2^14) % 64) + 1,
          mon |-> (n \div 2^20) % 16, year |-> ((n \div 2^24) % 32) + 100]) + Timezone

------------------------------------------------------------------------------
(* vector, list and map: the number of the elements in 32 bits, and the elements;
   reading stops at the first one that is missing, those before it are lost. *)
CountSize == 4

ReadElements(b, size) ==
  LET count == Read(b, CountSize) IN
  IF ~count.ok THEN count
  ELSE LET n == OfLE(count.val, FALSE)
           left == (Size(count.buf) - count.buf.rpos) \div size
           done == [count.buf EXCEPT !.rpos = @ + left * size]
           all == Read(count.buf, n * size)
       IN  IF n > left THEN Throws(done, PositionException(done.rpos, size, Size(b)))
           ELSE Ok(all.buf, [i \in 1 .. n |->
                  OfLE(SubSeq(all.val, (i - 1) * size + 1, i * size), FALSE)])

(* Values: an integer has a size and may be signed; a float is its bytes. *)
Encode(v) ==
  CASE v.type = "int" -> LE(v.val, v.size)
    [] v.type = "float" -> v.val
    [] v.type = "string" -> Append(v.val, 0)
    [] v.type = "guid" -> PackGUID(v.val)
    [] v.type = "time" -> LE(PackTime(v.val), 4)
    [] v.type = "list" -> LE(Len(v.val), CountSize)
                            \o FlattenSeq([i \in DOMAIN v.val |-> LE(v.val[i], v.size)])

ReadInt(b, size, signed) ==
  LET r == Read(b, size) IN
  IF r.ok THEN Ok(r.buf, OfLE(r.val, signed)) ELSE r

ReadPackedTime(b) ==
  LET r == ReadInt(b, 4, FALSE) IN
  IF r.ok THEN Ok(r.buf, UnpackTime(r.val)) ELSE r

\* Reading a value of the type of v.
Decode(b, v) ==
  CASE v.type = "int" -> ReadInt(b, v.size, v.signed)
    [] v.type = "float" -> ReadFloat(b, Len(v.val))
    [] v.type = "string" -> ReadString(b)
    [] v.type = "guid" -> ReadPackGUID(b)
    [] v.type = "time" -> ReadPackedTime(b)
    [] v.type = "list" -> ReadElements(b, v.size)
=============================================================================
