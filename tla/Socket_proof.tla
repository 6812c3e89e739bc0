---------------------------- MODULE Socket_proof ----------------------------
(***************************************************************************)
(* The two sides of a socket.  Reading: the two buffers implement a        *)
(* channel of messages, for any size of the header and of a block, and any *)
(* messages, cut in any way.  Writing: the queue never has two writes      *)
(* under way, never gets stuck, and keeps the order of each thread, for    *)
(* any number of threads and packets.                                      *)
(*                                                                         *)
(* Induction over data is by a least counterexample: the numbers for which *)
(* something does not hold are a set, and what it would hold for first is  *)
(* refuted.                                                                *)
(***************************************************************************)
EXTENDS Framing, WriteQueue, SequenceTheorems, FiniteSetTheorems, WellFoundedInduction, TLAPS

------------------------------------------------------------------------------
(* Reading.                                                                *)

\* A set of natural numbers has a least element.
LEMMA LeastNatural ==
  ASSUME NEW T, T \subseteq Nat, T # {}
  PROVE  \E x \in T : \A y \in T : x <= y
<1> DEFINE R == OpToRel(<, Nat)
<1>1. IsWellFoundedOn(R, Nat)
  BY NatLessThanWellFounded
<1>2. \A x, y \in Nat : <<y, x>> \in R <=> y < x
  BY DEF OpToRel
<1> HIDE DEF R
<1>3. PICK x \in T : \A y \in T : ~ (<<y, x>> \in R)
  BY <1>1, WFMin
<1>4. \A y \in T : ~ (y < x)
  BY <1>2, <1>3
<1> QED  BY <1>3, <1>4

\* Messages have sizes, and the constants are numbers.
LEMMA Numeric ==
  /\ HeaderSize \in Nat /\ HeaderSize > 0 /\ Block \in Nat /\ Block > 0 /\ MaxSent \in Nat
  /\ \A m \in Messages : /\ m.size \in Nat /\ m.need \in Nat
                          /\ BodySent(m) \in Nat /\ Size(m) \in Nat
BY FramingAssumption DEF Size, BodySent

\* The body that is asked for is the one that was sent, or more than a buffer can hold;
\* and a message is whole when its body is as long as what is read of it.
LEMMA BodyFacts ==
  ASSUME NEW m \in Messages
  PROVE  /\ BodySize(m) \in Nat
         /\ BodySize(m) <= MaxLength => m.size >= HeaderSize /\ BodySize(m) = BodySent(m)
         /\ IsValid(m) /\ m.size >= HeaderSize /\ BodySent(m) >= m.need => IsWhole(m)
<1>1. /\ m.size \in Nat /\ m.need \in Nat /\ HeaderSize \in Nat /\ WordMod \in Nat
      /\ MaxLength \in Nat /\ MaxLength + HeaderSize < WordMod
  BY FramingAssumption
<1> QED  BY <1>1 DEF BodySize, BodySent, IsWhole

IsInput == input \in Seq(Messages)

LEMMA InputFacts ==
  ASSUME IsInput
  PROVE  /\ Len(input) \in Nat /\ DOMAIN input = 1 .. Len(input)
         /\ \A k \in 1 .. Len(input) : /\ input[k] \in Messages /\ BodySent(input[k]) \in Nat
                                       /\ Size(input[k]) \in Nat
                                       /\ Size(input[k]) = HeaderSize + BodySent(input[k])
BY Numeric DEF IsInput, Size

\* The recursive function Start exists: it is defined for the messages up to the first
\* one for which it would not be.
IsStart(f, n) ==
  f = [k \in 1 .. n + 1 |-> IF k = 1 THEN 0 ELSE f[k - 1] + Size(input[k - 1])]

LEMMA StartExists ==
  ASSUME IsInput
  PROVE  \A n \in 0 .. Len(input) : \E f : IsStart(f, n)
<1> DEFINE T == {n \in 0 .. Len(input) : ~ \E f : IsStart(f, n)}
<1> SUFFICES ASSUME T # {}
             PROVE  FALSE
  OBVIOUS
<1>0. Len(input) \in Nat
  BY InputFacts
<1>1. PICK n \in T : \A m \in T : n <= m
  <2>1. T \subseteq Nat
    BY <1>0
  <2> HIDE DEF T
  <2> QED  BY <2>1, LeastNatural
<1>2. n \in 0 .. Len(input) /\ ~ \E f : IsStart(f, n)
  BY <1>1
<1>3. CASE n = 0
  <2> DEFINE f == [k \in 1 .. 1 |-> 0]
  <2>1. f = [k \in 1 .. 0 + 1 |-> IF k = 1 THEN 0 ELSE f[k - 1] + Size(input[k - 1])]
    OBVIOUS
  <2> QED  BY <1>2, <1>3, <2>1 DEF IsStart
<1>4. CASE n # 0
  <2>1. n - 1 \in 0 .. Len(input) /\ n - 1 \notin T /\ n \in Nat
    BY <1>0, <1>1, <1>2, <1>4
  <2>2. PICK f : IsStart(f, n - 1)
    BY <2>1
  <2>3. f = [k \in 1 .. n |-> IF k = 1 THEN 0 ELSE f[k - 1] + Size(input[k - 1])]
    BY <2>1, <2>2 DEF IsStart
  <2> DEFINE g == [k \in 1 .. n + 1 |-> IF k = n + 1 THEN f[n] + Size(input[n]) ELSE f[k]]
             r == [k \in 1 .. n + 1 |-> IF k = 1 THEN 0 ELSE g[k - 1] + Size(input[k - 1])]
  <2>4. \A k \in 1 .. n : g[k] = f[k]
    BY <2>1
  <2>5. \A k \in 1 .. n + 1 : g[k] = r[k]
    <3> SUFFICES ASSUME NEW k \in 1 .. n + 1
                 PROVE  g[k] = r[k]
      OBVIOUS
    <3>1. CASE k = n + 1
      <4>1. k # 1 /\ k - 1 = n /\ n \in 1 .. n
        BY <1>4, <2>1, <3>1
      <4>2. g[k] = f[n] + Size(input[n])
        BY <3>1
      <4>3. r[k] = g[n] + Size(input[n])
        BY <4>1
      <4> QED  BY <2>4, <4>1, <4>2, <4>3
    <3>2. CASE k \in 1 .. n
      <4>1. g[k] = IF k = 1 THEN 0 ELSE f[k - 1] + Size(input[k - 1])
        BY <2>3, <2>4, <3>2
      <4>2. k # 1 => k - 1 \in 1 .. n
        BY <2>1, <3>2
      <4>3. r[k] = IF k = 1 THEN 0 ELSE g[k - 1] + Size(input[k - 1])
        OBVIOUS
      <4> QED  BY <2>4, <4>1, <4>2, <4>3
    <3> QED  BY <2>1, <3>1, <3>2
  <2>6. g = r
    BY <2>5
  <2> QED  BY <1>2, <2>6 DEF IsStart
<1> QED  BY <1>3, <1>4

\* The first byte of a message follows the last one of the message before it.
LEMMA StartDef ==
  ASSUME IsInput
  PROVE  /\ Start = [k \in 1 .. Len(input) + 1 |-> Start[k]]
         /\ Start[1] = 0
         /\ \A k \in 1 .. Len(input) : Start[k + 1] = Start[k] + Size(input[k])
<1>0. Len(input) \in Nat
  BY InputFacts
<1>1. \E f : f = [k \in 1 .. Len(input) + 1 |->
                    IF k = 1 THEN 0 ELSE f[k - 1] + Size(input[k - 1])]
  <2>1. Len(input) \in 0 .. Len(input)
    BY <1>0
  <2> QED  BY <2>1, StartExists DEF IsStart
<1>2. Start = [k \in 1 .. Len(input) + 1 |->
                 IF k = 1 THEN 0 ELSE Start[k - 1] + Size(input[k - 1])]
  BY <1>1 DEF Start
<1> HIDE DEF Start
<1>3. \A k \in 1 .. Len(input) + 1 :
        Start[k] = IF k = 1 THEN 0 ELSE Start[k - 1] + Size(input[k - 1])
  BY <1>2
<1>4. Start[1] = 0
  BY <1>0, <1>3
<1>5. \A k \in 1 .. Len(input) :
        k + 1 \in 1 .. Len(input) + 1 /\ k + 1 # 1 /\ (k + 1) - 1 = k
  BY <1>0
<1>6. \A k \in 1 .. Len(input) : Start[k + 1] = Start[k] + Size(input[k])
  BY <1>3, <1>5
<1>7. Start = [k \in 1 .. Len(input) + 1 |-> Start[k]]
  BY <1>2
<1> QED  BY <1>4, <1>6, <1>7

\* The messages follow each other: none begins before another has ended.
LEMMA StartFacts ==
  ASSUME IsInput
  PROVE  /\ \A k \in 1 .. Len(input) + 1 : Start[k] \in Nat
         /\ \A k \in 1 .. Len(input) + 1 : \A j \in 1 .. Len(input) :
              j < k => Start[j] + HeaderSize <= Start[k]
         /\ Total \in Nat
<1>0. Len(input) \in Nat /\ HeaderSize \in Nat
  BY InputFacts, Numeric
<1>1. \A k \in 1 .. Len(input) :
        /\ Start[k + 1] = Start[k] + (HeaderSize + BodySent(input[k]))
        /\ BodySent(input[k]) \in Nat
  BY StartDef, InputFacts
<1>2. Start[1] = 0
  BY StartDef
<1> DEFINE Good(k) == /\ Start[k] \in Nat
                      /\ \A j \in 1 .. Len(input) : j < k => Start[j] + HeaderSize <= Start[k]
           T == {k \in 1 .. Len(input) + 1 : ~ Good(k)}
<1>3. T = {}
  <2> SUFFICES ASSUME T # {}
               PROVE  FALSE
    OBVIOUS
  <2>1. PICK k \in T : \A m \in T : k <= m
    <3>1. T \subseteq Nat
      BY <1>0
    <3> HIDE DEF T
    <3> QED  BY <3>1, LeastNatural
  <2>2. k \in 1 .. Len(input) + 1 /\ ~ Good(k)
    BY <2>1
  <2>3. k # 1
    BY <1>0, <1>2, <2>2
  <2> DEFINE i == k - 1
  <2>4. i \in 1 .. Len(input) /\ k = i + 1 /\ i \in 1 .. Len(input) + 1 /\ ~ (k <= i)
    BY <1>0, <2>2, <2>3
  <2>5. Good(i)
    BY <2>1, <2>4
  <2> HIDE DEF i
  <2>6. Start[k] = Start[i] + (HeaderSize + BodySent(input[i])) /\ BodySent(input[i]) \in Nat
    BY <1>1, <2>4
  <2>7. Start[k] \in Nat /\ Start[i] + HeaderSize <= Start[k] /\ Start[i] <= Start[k]
    BY <1>0, <2>5, <2>6, SMTT(60)
  <2>8. ASSUME NEW j \in 1 .. Len(input), j < k
        PROVE  Start[j] + HeaderSize <= Start[k]
    <3>1. CASE j = i
      BY <2>7, <3>1
    <3>2. CASE j < i
      <4>1. Start[j] \in Nat
        BY <1>0, <2>1, <2>4, <3>2
      <4>2. Start[j] + HeaderSize <= Start[i] /\ Start[i] \in Nat
        BY <2>5, <3>2
      <4> QED  BY <1>0, <2>7, <4>1, <4>2, SMTT(30)
    <3> QED  BY <1>0, <2>4, <2>8, <3>1, <3>2
  <2> QED  BY <2>2, <2>7, <2>8
<1>4. \A k \in 1 .. Len(input) + 1 : Good(k)
  BY <1>3
<1>5. Len(input) + 1 \in 1 .. Len(input) + 1
  BY <1>0
<1> QED  BY <1>4, <1>5 DEF Total

-----------------------------------------------------------------------------
(* The inductive invariant.                                                *)

\* The message that is being read is the one after those delivered.
Current == Len(delivered) + 1

BufferType == [storage : Seq(0 .. Total), wpos : Nat]
IsBuffer(b) == b \in BufferType /\ b.wpos <= Len(b.storage)

\* What is in a buffer: the bytes that follow first in the stream.
Holds(b, first) == \A i \in 1 .. b.wpos : b.storage[i] = first + i

FramingTypes ==
  /\ input \in SeqOf(Messages, MaxSent)
  /\ arrived \in Nat /\ arrived <= Total
  /\ IsBuffer(header) /\ Len(header.storage) = HeaderSize
  /\ IsBuffer(data)
  /\ reading \in {"header", "data", "nothing", "aborted"}
  /\ open \in BOOLEAN

\* What has been delivered are the first messages, all of them whole.
DeliveredFirst ==
  /\ delivered \in Seq(Seq(Nat)) /\ Len(delivered) <= Len(input)
  /\ \A j \in 1 .. Len(delivered) : IsWhole(input[j]) /\ delivered[j] = Body(j)

\* While a header is read, its buffer has the bytes of it that have arrived, and nothing
\* is left of an earlier body.
HeaderPartly ==
  reading = "header" =>
    /\ header.wpos < HeaderSize /\ data = Empty
    /\ arrived = Start[Current] + header.wpos
    /\ Holds(header, Start[Current])

\* While a body is read, its header is whole, and its buffer has what has arrived of it.
BodyPartly ==
  reading = "data" =>
    /\ Current <= Len(input) /\ IsValid(input[Current]) /\ input[Current].size >= HeaderSize
    /\ header.storage = Numbers(Start[Current], HeaderSize)
    /\ Len(data.storage) = BodySent(input[Current]) /\ data.wpos < BodySent(input[Current])
    /\ arrived = Start[Current] + HeaderSize + data.wpos
    /\ Holds(data, Start[Current] + HeaderSize)

FramingInv == FramingTypes /\ DeliveredFirst /\ HeaderPartly /\ BodyPartly

-----------------------------------------------------------------------------
(* Bytes and buffers.                                                      *)

LEMMA NumbersFacts ==
  ASSUME NEW first \in Nat, NEW len \in Nat
  PROVE  /\ Numbers(first, len) \in Seq(Nat)
         /\ Len(Numbers(first, len)) = len /\ DOMAIN Numbers(first, len) = 1 .. len
         /\ \A i \in 1 .. len : Numbers(first, len)[i] = first + i
<1>1. \A i \in 1 .. len : first + i \in Nat
  OBVIOUS
<1> QED  BY <1>1 DEF Numbers

\* A buffer that has grown by the bytes of a message.
LEMMA GrowFacts ==
  ASSUME IsInput, NEW size \in Nat
  PROVE  LET b == Grow(Empty, size)
         IN  IsBuffer(b) /\ Len(b.storage) = size /\ b.wpos = 0
<1> DEFINE zeros == [i \in 1 .. size |-> NoByte]
           b == Grow(Empty, size)
<1>1. Total \in Nat
  BY StartFacts
<1>2. NoByte \in 0 .. Total
  BY <1>1 DEF NoByte
<1>3. zeros \in Seq(0 .. Total) /\ Len(zeros) = size
  BY <1>2
<1> HIDE DEF zeros
<1>4. <<>> \in Seq(0 .. Total) /\ Len(<<>>) = 0
  BY EmptySeq
<1>5. <<>> \o zeros \in Seq(0 .. Total) /\ Len(<<>> \o zeros) = 0 + Len(zeros)
  BY <1>3, <1>4, ConcatProperties
<1>6. b = [storage |-> <<>> \o zeros, wpos |-> 0]
  BY DEF Grow, Empty, zeros
<1> HIDE DEF b
<1>7. b.storage = <<>> \o zeros /\ b.wpos = 0 /\ b \in BufferType
  BY <1>5, <1>6 DEF BufferType
<1> QED  BY <1>3, <1>5, <1>7 DEF IsBuffer, b

LEMMA EmptyFacts ==
  ASSUME IsInput
  PROVE  IsBuffer(Empty) /\ Empty.storage = <<>> /\ Empty.wpos = 0 /\ Len(Empty.storage) = 0
<1>1. <<>> \in Seq(0 .. Total) /\ Len(<<>>) = 0
  BY EmptySeq
<1> QED  BY <1>1 DEF Empty, IsBuffer, BufferType

LEMMA ResetFacts ==
  ASSUME NEW b, IsBuffer(b)
  PROVE  LET r == ResetWritePointer(b)
         IN  IsBuffer(r) /\ r.storage = b.storage /\ r.wpos = 0
<1> DEFINE r == ResetWritePointer(b)
<1>1. b \in BufferType
  BY DEF IsBuffer
<1>2. r = [b EXCEPT !.wpos = 0]
  BY DEF ResetWritePointer
<1>3. r \in BufferType /\ r.storage = b.storage /\ r.wpos = 0
  BY <1>1, <1>2 DEF BufferType
<1> HIDE DEF r
<1>4. Len(b.storage) \in Nat
  BY <1>1 DEF BufferType
<1> QED  BY <1>3, <1>4 DEF IsBuffer, r

\* The next bytes of the stream, written where the last ones ended, follow them.
LEMMA WrittenFacts ==
  ASSUME IsInput, NEW b, IsBuffer(b), NEW first \in Nat, NEW len \in Nat,
         b.wpos + len <= Len(b.storage), arrived = first + b.wpos, arrived + len <= Total,
         Holds(b, first), NEW w, w = Written(b, Numbers(arrived, len))
  PROVE  /\ IsBuffer(w) /\ Len(w.storage) = Len(b.storage) /\ w.wpos = b.wpos + len
         /\ Holds(w, first)
         /\ w.wpos = Len(w.storage) => w.storage = Numbers(first, Len(b.storage))
<1> DEFINE bytes == Numbers(arrived, len)
           s == [i \in DOMAIN b.storage |->
                   IF i - b.wpos \in DOMAIN bytes THEN bytes[i - b.wpos] ELSE b.storage[i]]
<1>1. /\ b.storage \in Seq(0 .. Total) /\ b.wpos \in Nat /\ Len(b.storage) \in Nat
      /\ DOMAIN b.storage = 1 .. Len(b.storage) /\ Total \in Nat
      /\ \A i \in 1 .. Len(b.storage) : b.storage[i] \in 0 .. Total
  BY StartFacts, SMTT(60) DEF IsBuffer, BufferType
<1>2. arrived \in Nat
  BY <1>1
<1>3. DOMAIN bytes = 1 .. len /\ Len(bytes) = len /\ \A i \in 1 .. len : bytes[i] = arrived + i
  BY <1>2, NumbersFacts
<1>4. w = [storage |-> s, wpos |-> b.wpos + len]
  BY <1>3 DEF Written
<1> HIDE DEF bytes
<1>5. \A i \in 1 .. Len(b.storage) :
        s[i] = IF i - b.wpos \in 1 .. len THEN arrived + (i - b.wpos) ELSE b.storage[i]
  BY <1>1, <1>3
<1>6. s = [i \in 1 .. Len(b.storage) |-> s[i]]
  BY <1>1
<1> HIDE DEF s
<1>7. \A i \in 1 .. Len(b.storage) : s[i] \in 0 .. Total
  <2> SUFFICES ASSUME NEW i \in 1 .. Len(b.storage)
               PROVE  s[i] \in 0 .. Total
    OBVIOUS
  <2>1. CASE i - b.wpos \in 1 .. len
    <3>1. s[i] = arrived + (i - b.wpos)
      BY <1>5, <2>1
    <3> DEFINE d == i - b.wpos
    <3>2. d \in 1 .. len
      BY <2>1
    <3> HIDE DEF d
    <3>3. arrived + d <= arrived + len /\ arrived + d \in Nat
      BY <1>2, <3>2
    <3>4. arrived + d \in 0 .. Total
      BY <1>1, <1>2, <3>3
    <3> QED  BY <3>1, <3>4 DEF d
  <2>2. CASE i - b.wpos \notin 1 .. len
    BY <1>1, <1>5, <2>2
  <2> QED  BY <2>1, <2>2
<1>8. s \in Seq(0 .. Total) /\ Len(s) = Len(b.storage)
  <2>1. s \in [1 .. Len(b.storage) -> 0 .. Total]
    BY <1>6, <1>7
  <2>2. DOMAIN s = 1 .. Len(b.storage)
    BY <1>6
  <2>3. s \in Seq(0 .. Total)
    BY <1>1, <2>1, SeqDef
  <2> QED  BY <1>1, <2>2, <2>3, LenProperties
<1>9. w.storage = s /\ w.wpos = b.wpos + len /\ w \in BufferType
  BY <1>1, <1>4, <1>8, SMTT(30) DEF BufferType
<1>10. IsBuffer(w)
  BY <1>8, <1>9 DEF IsBuffer
<1>11. \A i \in 1 .. b.wpos + len : s[i] = first + i
  <2> SUFFICES ASSUME NEW i \in 1 .. b.wpos + len
               PROVE  s[i] = first + i
    OBVIOUS
  <2>0. i \in 1 .. Len(b.storage)
    BY <1>1, SMTT(30)
  <2>1. CASE i <= b.wpos
    <3>1. i - b.wpos \notin 1 .. len /\ i \in 1 .. b.wpos
      BY <1>1, <2>1
    <3>2. b.storage[i] = first + i
      BY <3>1 DEF Holds
    <3> QED  BY <1>5, <2>0, <3>1, <3>2
  <2>2. CASE ~ (i <= b.wpos)
    <3>0. i \in Nat /\ b.wpos \in Nat /\ len \in Nat /\ i <= b.wpos + len /\ b.wpos < i
      BY <1>1, <2>2
    <3>1. i - b.wpos \in 1 .. len
      BY ONLY <3>0
    <3>2. s[i] = arrived + (i - b.wpos)
      BY <1>5, <2>0, <3>1
    <3> QED  BY <1>1, <3>2
  <2> QED  BY <2>1, <2>2
<1>12. Holds(w, first)
  BY <1>9, <1>11 DEF Holds
<1>13. ASSUME w.wpos = Len(w.storage)
       PROVE  w.storage = Numbers(first, Len(b.storage))
  <2> DEFINE n == Len(b.storage)
             v == Numbers(first, n)
  <2>1. v \in Seq(Nat) /\ Len(v) = n /\ \A i \in 1 .. n : v[i] = first + i
    BY <1>1, NumbersFacts
  <2> HIDE DEF v
  <2>2. s \in Seq(Nat)
    BY <1>6, <1>7, <1>8
  <2>3. \A i \in 1 .. n : s[i] = v[i]
    BY <1>8, <1>9, <1>11, <1>13, <2>1
  <2>4. s = v
    BY <1>8, <2>1, <2>2, <2>3, SeqEqual
  <2> QED  BY <1>9, <2>4 DEF v
<1> QED  BY <1>8, <1>9, <1>10, <1>12, <1>13

-----------------------------------------------------------------------------
(* The steps.                                                              *)

\* The stream does not change.
LEMMA StreamFixed ==
  ASSUME input' = input
  PROVE  /\ Start' = Start /\ Total' = Total /\ BufferType' = BufferType
         /\ \A k : (Body(k))' = Body(k)
         /\ LastWhole' = LastWhole /\ WellFormed' = WellFormed
<1>1. Start' = Start
  BY DEF Start
<1> HIDE DEF Start
<1>2. Total' = Total
  BY <1>1 DEF Total
<1>3. \A k : (Body(k))' = Body(k)
  BY <1>1 DEF Body
<1>4. LastWhole' = LastWhole
  BY DEF LastWhole, Broken
<1>5. WellFormed' = WellFormed
  BY <1>3, <1>4 DEF WellFormed
<1>6. BufferType' = BufferType
  BY <1>2 DEF BufferType
<1> QED  BY <1>1, <1>2, <1>3, <1>4, <1>5, <1>6

LEMMA InvFacts ==
  ASSUME FramingInv
  PROVE  /\ IsInput /\ Len(delivered) \in Nat /\ Len(input) \in Nat
         /\ Current \in 1 .. Len(input) + 1 /\ Start[Current] \in Nat /\ Total \in Nat
         /\ arrived \in Nat
         /\ Current <= Len(input) => /\ BodySent(input[Current]) \in Nat
                                     /\ Current \in 1 .. Len(input)
                                     /\ Start[Current + 1] =
                                          Start[Current] + HeaderSize + BodySent(input[Current])
<1>1. IsInput
  <2>1. input \in UNION {[1 .. m -> Messages] : m \in 0 .. MaxSent}
    BY DEF FramingInv, FramingTypes, SeqOf
  <2>2. PICK m \in 0 .. MaxSent : input \in [1 .. m -> Messages]
    BY <2>1
  <2>3. m \in Nat
    BY <2>2, Numeric
  <2> QED  BY <2>2, <2>3, SeqDef DEF IsInput
<1>2. Len(delivered) \in Nat /\ Len(delivered) <= Len(input) /\ Len(input) \in Nat
  BY <1>1, InputFacts, LenProperties DEF FramingInv, DeliveredFirst
<1>3. Current \in 1 .. Len(input) + 1 /\ (Current <= Len(input) => Current \in 1 .. Len(input))
  BY <1>2 DEF Current
<1>4. Start[Current] \in Nat /\ Total \in Nat
  BY <1>1, <1>3, StartFacts
<1>5. ASSUME Current <= Len(input)
      PROVE  /\ BodySent(input[Current]) \in Nat
             /\ Start[Current + 1] = Start[Current] + HeaderSize + BodySent(input[Current])
  <2>1. /\ BodySent(input[Current]) \in Nat /\ Size(input[Current]) = HeaderSize + BodySent(input[Current])
        /\ Start[Current + 1] = Start[Current] + Size(input[Current])
    BY <1>1, <1>3, <1>5, InputFacts, StartDef
  <2> QED  BY <1>4, <2>1, Numeric
<1>6. arrived \in Nat
  BY DEF FramingInv, FramingTypes
<1> QED  BY <1>1, <1>2, <1>3, <1>4, <1>5, <1>6

\* A header that has arrived is the one of a message, and of no other.
LEMMA HeaderOfCurrent ==
  ASSUME FramingInv, Current <= Len(input)
  PROVE  HeaderOf(Numbers(Start[Current], HeaderSize)) = {Current}
<1> DEFINE K == Current
           H == HeaderOf(Numbers(Start[K], HeaderSize))
<1>1. IsInput /\ K \in 1 .. Len(input) /\ Len(input) \in Nat
  BY InvFacts
<1>2. K \in H
  BY <1>1, InputFacts DEF HeaderOf
<1>3. ASSUME NEW k \in H
      PROVE  k = K
  <2>1. k \in 1 .. Len(input) /\ Numbers(Start[K], HeaderSize) = Numbers(Start[k], HeaderSize)
    BY <1>1, <1>3, InputFacts DEF HeaderOf
  <2>2. /\ Start[K] \in Nat /\ Start[k] \in Nat
        /\ k < K => Start[k] + HeaderSize <= Start[K]
        /\ K < k => Start[K] + HeaderSize <= Start[k]
    BY <1>1, <2>1, StartFacts
  <2>3. Numbers(Start[K], HeaderSize)[1] = Start[K] + 1 /\ Numbers(Start[k], HeaderSize)[1] = Start[k] + 1
    <3>1. HeaderSize \in Nat /\ 1 \in 1 .. HeaderSize
      BY Numeric
    <3> QED  BY <2>2, <3>1, NumbersFacts
  <2>4. Start[K] = Start[k]
    BY <2>1, <2>2, <2>3
  <2> QED  BY <1>1, <2>1, <2>2, <2>4, Numeric
<1> QED  BY <1>2, <1>3

\* The reader is handed the current message.
Hands == /\ Current <= Len(input) /\ IsWhole(input[Current])
         /\ delivered' = Append(delivered, Body(Current))
         /\ open' = open

\* The reader is handed nothing; the socket may be closed.
Keeps == delivered' = delivered /\ open' \in {open, FALSE}

LEMMA HandsFacts ==
  ASSUME FramingInv, Hands, input' = input
  PROVE  DeliveredFirst' /\ Current' = Current + 1
<1> DEFINE K == Current
<1>1. IsInput /\ K \in 1 .. Len(input) /\ Len(input) \in Nat /\ Start[K] \in Nat
      /\ BodySent(input[K]) \in Nat /\ IsWhole(input[K])
  BY InvFacts DEF Hands
<1>2. Body(K) \in Seq(Nat)
  <2>1. Start[K] + HeaderSize \in Nat
    BY <1>1, Numeric
  <2> QED  BY <1>1, <2>1, NumbersFacts DEF Body
<1>3. delivered \in Seq(Seq(Nat)) /\ K = Len(delivered) + 1 /\ Len(delivered) \in Nat
  BY InvFacts DEF FramingInv, DeliveredFirst, Current
<1>4. /\ delivered' \in Seq(Seq(Nat)) /\ Len(delivered') = K
      /\ \A j \in 1 .. Len(delivered) : delivered'[j] = delivered[j]
      /\ delivered'[K] = Body(K)
  BY <1>2, <1>3, AppendProperties DEF Hands
<1>5. \A j \in 1 .. K : IsWhole(input[j]) /\ delivered'[j] = Body(j)
  <2> SUFFICES ASSUME NEW j \in 1 .. K
               PROVE  IsWhole(input[j]) /\ delivered'[j] = Body(j)
    OBVIOUS
  <2>1. CASE j = K
    BY <1>1, <1>4, <2>1
  <2>2. CASE j # K
    <3>1. j \in 1 .. Len(delivered)
      BY <1>3, <2>2
    <3> QED  BY <1>4, <3>1 DEF FramingInv, DeliveredFirst
  <2> QED  BY <2>1, <2>2
<1>6. DeliveredFirst'
  BY <1>1, <1>4, <1>5, StreamFixed DEF DeliveredFirst
<1>7. Current' = K + 1
  BY <1>4 DEF Current
<1> QED  BY <1>6, <1>7

LEMMA KeepsFacts ==
  ASSUME FramingInv, Keeps, input' = input
  PROVE  DeliveredFirst' /\ Current' = Current
BY StreamFixed DEF FramingInv, DeliveredFirst, Keeps, Current

\* AsyncReadHeader after a message has been handed over: the next header is expected where
\* it ended.
LEMMA NextHeader ==
  ASSUME FramingInv, Hands, input' = input, NEW h, IsBuffer(h), Len(h.storage) = HeaderSize,
         arrived' = Start[Current + 1], arrived' <= Total, AsyncReadHeader(h, open)
  PROVE  FramingInv'
<1> DEFINE K == Current
           r == ResetWritePointer(h)
<1>1. IsBuffer(r) /\ r.storage = h.storage /\ r.wpos = 0
  BY ResetFacts
<1> HIDE DEF r
<1>2. data' = Empty /\ reading' \in {"header", "nothing"} /\ header' \in {h, r}
      /\ (reading' = "header" => header' = r)
  BY DEF AsyncReadHeader, r
<1>3. IsInput /\ Start[K + 1] \in Nat
  <2>1. K \in 1 .. Len(input) /\ Len(input) \in Nat /\ IsInput
    BY InvFacts DEF Hands
  <2>2. K + 1 \in 1 .. Len(input) + 1
    BY <2>1
  <2> QED  BY <2>1, <2>2, StartFacts
<1>4. DeliveredFirst' /\ Current' = K + 1
  BY HandsFacts
<1>5. IsBuffer(header') /\ IsBuffer(data') /\ Len(header'.storage) = HeaderSize
  BY <1>1, <1>2, <1>3, EmptyFacts
<1>6. FramingTypes'
  <2>1. open' \in BOOLEAN /\ input \in SeqOf(Messages, MaxSent)
    BY DEF Hands, FramingInv, FramingTypes
  <2> QED  BY <1>2, <1>3, <1>5, <2>1, StreamFixed DEF FramingTypes, IsBuffer
<1>7. HeaderPartly'
  <2> SUFFICES ASSUME reading' = "header"
               PROVE  /\ header'.wpos < HeaderSize /\ data' = Empty
                      /\ arrived' = Start[K + 1] + header'.wpos
                      /\ Holds(header', Start[K + 1])
    BY <1>4, StreamFixed DEF HeaderPartly, Holds
  <2>1. header'.wpos = 0
    BY <1>1, <1>2
  <2> QED  BY <1>2, <1>3, <2>1, Numeric DEF Holds
<1>8. BodyPartly'
  BY <1>2 DEF BodyPartly
<1> QED  BY <1>4, <1>6, <1>7, <1>8 DEF FramingInv

\* A read that is not finished, or is given up.
LEMMA KeepsTypes ==
  ASSUME FramingInv, Keeps, input' = input, arrived' \in Nat, arrived' <= Total,
         IsBuffer(header'), Len(header'.storage) = HeaderSize, IsBuffer(data'),
         reading' \in {"header", "data", "nothing", "aborted"}
  PROVE  FramingTypes' /\ DeliveredFirst' /\ Current' = Current /\ Start' = Start
<1>1. open' \in BOOLEAN /\ input \in SeqOf(Messages, MaxSent)
  BY DEF Keeps, FramingInv, FramingTypes
<1>2. FramingTypes'
  BY <1>1, StreamFixed DEF FramingTypes, IsBuffer
<1> QED  BY <1>2, KeepsFacts, StreamFixed

LEMMA HeaderStep ==
  ASSUME FramingInv, NEW len \in Lens, ReadHeaderHandlerInternal(len)
  PROVE  FramingInv' /\ input' = input /\ (Hands \/ Keeps)
<1> DEFINE K == Current
           h == Written(header, Numbers(arrived, len))
<1>1. /\ reading = "header" /\ Piece(header, len) /\ input' = input
      /\ IF IsMessageReady(h) THEN ReadHeaderHandler(h)
         ELSE header' = h /\ UNCHANGED <<data, reading, open, delivered>>
  BY DEF ReadHeaderHandlerInternal
<1>2. /\ IsInput /\ K \in 1 .. Len(input) + 1 /\ Start[K] \in Nat /\ arrived \in Nat
      /\ Total \in Nat /\ Len(input) \in Nat
  BY InvFacts
<1>3. /\ header.wpos < HeaderSize /\ data = Empty /\ arrived = Start[K] + header.wpos
      /\ Holds(header, Start[K])
      /\ IsBuffer(header) /\ IsBuffer(data) /\ Len(header.storage) = HeaderSize
      /\ header.wpos \in Nat
  BY <1>1 DEF FramingInv, FramingTypes, HeaderPartly, IsBuffer, BufferType
<1>4. /\ len \in Nat /\ header.wpos + len <= HeaderSize /\ arrived + len <= Total
      /\ arrived' = arrived + len
  BY <1>1, <1>3, Numeric DEF Piece, GetMissingSize, Lens
<1>5. /\ IsBuffer(h) /\ Len(h.storage) = HeaderSize /\ h.wpos = header.wpos + len
      /\ Holds(h, Start[K])
      /\ h.wpos = HeaderSize => h.storage = Numbers(Start[K], HeaderSize)
  <2> DEFINE first == Start[K]
  <2>1. /\ first \in Nat /\ arrived = first + header.wpos /\ Holds(header, first)
        /\ header.wpos + len <= Len(header.storage)
    BY <1>2, <1>3, <1>4
  <2>2. h = Written(header, Numbers(arrived, len))
    OBVIOUS
  <2> HIDE DEF first, h
  <2>3. /\ IsBuffer(h) /\ Len(h.storage) = Len(header.storage) /\ h.wpos = header.wpos + len
        /\ Holds(h, first)
        /\ h.wpos = Len(h.storage) => h.storage = Numbers(first, Len(header.storage))
    <3>1. /\ IsInput /\ IsBuffer(header) /\ first \in Nat /\ len \in Nat
          /\ header.wpos + len <= Len(header.storage) /\ arrived = first + header.wpos
          /\ arrived + len <= Total /\ Holds(header, first)
      BY <1>2, <1>3, <1>4, <2>1
    <3> QED  BY ONLY <3>1, <2>2, WrittenFacts
  <2> QED  BY <1>3, <2>3 DEF first
<1> HIDE DEF h
<1>6. /\ arrived' = Start[K] + h.wpos /\ arrived' \in Nat /\ arrived' <= Total
      /\ h.wpos \in Nat /\ h.wpos <= HeaderSize
  BY <1>2, <1>3, <1>4, <1>5, SMTT(60)
<1>7. CASE ~ IsMessageReady(h)
  <2>1. header' = h /\ UNCHANGED <<data, reading, open, delivered>>
    BY <1>1, <1>7
  <2>2. h.wpos < HeaderSize
    BY <1>5, <1>6, <1>7, Numeric DEF IsMessageReady
  <2>3. Keeps
    BY <2>1 DEF Keeps
  <2>4. FramingTypes' /\ DeliveredFirst' /\ Current' = Current /\ Start' = Start
    BY <1>1, <1>3, <1>5, <1>6, <2>1, <2>3, KeepsTypes
  <2>5. HeaderPartly'
    BY <1>3, <1>5, <1>6, <2>1, <2>2, <2>4 DEF HeaderPartly, Holds
  <2>6. BodyPartly'
    BY <1>1, <2>1 DEF BodyPartly
  <2> QED  BY <1>1, <2>3, <2>4, <2>5, <2>6 DEF FramingInv
<1>8. CASE IsMessageReady(h)
  <2>1. h.wpos = HeaderSize /\ h.storage = Numbers(Start[K], HeaderSize) /\ ReadHeaderHandler(h)
    BY <1>1, <1>5, <1>8 DEF IsMessageReady
  <2>2. arrived' = Start[K] + HeaderSize
    BY <1>6, <2>1
  <2>3. K <= Len(input)
    <3> SUFFICES ASSUME K = Len(input) + 1
                 PROVE  FALSE
      BY <1>2
    <3>1. Total = Start[K]
      BY DEF Total
    <3> QED  BY <1>2, <1>6, <2>2, <3>1, Numeric
  <2>4. HeaderOf(h.storage) = {K}
    BY <2>1, <2>3, HeaderOfCurrent
  <2>5. /\ BodySent(input[K]) \in Nat /\ Start[K + 1] = Start[K] + HeaderSize + BodySent(input[K])
        /\ K \in 1 .. Len(input)
    BY <2>3, InvFacts
  <2> DEFINE size == BodySize(input[K])
  <2>6. /\ size \in Nat
        /\ size <= MaxLength => input[K].size >= HeaderSize /\ size = BodySent(input[K])
        /\ /\ IsValid(input[K]) /\ input[K].size >= HeaderSize
           /\ BodySent(input[K]) >= input[K].need
           => IsWhole(input[K])
        /\ input[K].need \in Nat
    <3>1. input[K] \in Messages
      BY <2>5, <1>2, InputFacts
    <3> QED  BY <3>1, BodyFacts, Numeric
  <2>7. MessageOf(h) = input[K]
    <3>1. (CHOOSE m \in {K} : TRUE) = K
      OBVIOUS
    <3> QED  BY <2>4, <3>1 DEF MessageOf
  <2>8. \/ IsValid(input[K]) /\ AsyncReadData(h, size) /\ open' = open
        \/ open' = FALSE /\ reading' = "nothing" /\ header' = h /\ UNCHANGED <<data, delivered>>
    BY <2>1, <2>4, <2>7 DEF ReadHeaderHandler
  <2> HIDE DEF size
  <2>9. CASE /\ header' = h /\ data' \in {data, Empty} /\ UNCHANGED delivered
             /\ reading' \in {"nothing", "aborted"} /\ open' \in {open, FALSE}
    <3>1. Keeps
      BY <2>9 DEF Keeps
    <3>2. FramingTypes' /\ DeliveredFirst'
      BY <1>1, <1>3, <1>5, <1>6, <2>9, <3>1, KeepsTypes
    <3>3. HeaderPartly' /\ BodyPartly'
      BY <2>9 DEF HeaderPartly, BodyPartly
    <3> QED  BY <1>1, <3>1, <3>2, <3>3 DEF FramingInv
  <2>10. CASE /\ IsValid(input[K]) /\ open' = open /\ size = 0
              /\ ~ (0 < input[K].need)
              /\ delivered' = Append(delivered, <<>>) /\ AsyncReadHeader(h, open)
    <3>1. 0 <= MaxLength /\ HeaderSize \in Nat
      BY FramingAssumption
    <3>2. BodySent(input[K]) = 0 /\ IsWhole(input[K])
      BY <2>6, <2>10, <3>1
    <3>3. Body(K) = <<>>
      <4>1. Start[K] + HeaderSize \in Nat
        BY <1>2, Numeric
      <4>2. Body(K) \in Seq(Nat) /\ Len(Body(K)) = 0
        <5>1. 0 \in Nat
          OBVIOUS
        <5> QED  BY <3>2, <4>1, <5>1, NumbersFacts DEF Body
      <4> QED  BY <4>2, EmptySeq
    <3>4. Hands
      BY <2>3, <2>10, <3>2, <3>3 DEF Hands
    <3>5. arrived' = Start[K + 1]
      BY <1>2, <2>2, <2>5, <3>2, Numeric
    <3>6. FramingInv'
      BY <1>1, <1>5, <1>6, <2>10, <3>4, <3>5, NextHeader
    <3> QED  BY <1>1, <3>4, <3>6
  <2>11. CASE /\ IsValid(input[K]) /\ open' = open /\ size # 0 /\ ~ (size > MaxLength)
              /\ data' = Grow(data, size) /\ reading' = "data" /\ header' = h
              /\ UNCHANGED delivered
    <3>1. MaxLength \in Nat
      BY FramingAssumption
    <3>2. input[K].size >= HeaderSize /\ size = BodySent(input[K])
      BY <2>6, <2>11, <3>1
    <3>3. IsBuffer(data') /\ Len(data'.storage) = size /\ data'.wpos = 0
      BY <1>2, <1>3, <2>6, <2>11, GrowFacts
    <3>4. Keeps
      BY <2>11 DEF Keeps
    <3>5. FramingTypes' /\ DeliveredFirst' /\ Current' = Current /\ Start' = Start
      BY <1>1, <1>5, <1>6, <2>11, <3>3, <3>4, KeepsTypes
    <3>6. HeaderPartly'
      BY <2>11 DEF HeaderPartly
    <3>7. size > 0 /\ arrived' = Start[K] + HeaderSize + 0
      BY <1>2, <2>2, <2>6, <2>11, Numeric
    <3>8. Holds(data', Start[K] + HeaderSize)
      BY <3>3 DEF Holds
    <3>9. BodyPartly'
      BY <1>1, <2>1, <2>3, <2>11, <3>2, <3>3, <3>5, <3>7, <3>8 DEF BodyPartly, Holds
    <3> QED  BY <1>1, <3>4, <3>5, <3>6, <3>9 DEF FramingInv
  <2>12. CASE IsValid(input[K]) /\ AsyncReadData(h, size) /\ open' = open
    <3>1. CASE ~ open
      BY <2>9, <2>12, <3>1 DEF AsyncReadData
    <3>2. CASE open /\ size > MaxLength
      <4>1. size # 0
        BY <3>2, FramingAssumption
      <4> QED  BY <2>9, <2>12, <3>2, <4>1 DEF AsyncReadData, Abort
    <3>3. CASE open /\ size = 0
      <4>0. ~ (size > MaxLength) /\ data.storage = <<>> /\ Len(data.storage) = 0
        BY <1>3, <3>3, FramingAssumption DEF Empty
      <4>1. ReadDataHandler(h, data, open) /\ Len(data.storage) = 0 /\ data.storage = <<>>
        BY <2>12, <3>3, <4>0 DEF AsyncReadData
      <4>2. CASE 0 < input[K].need
        BY <2>7, <2>9, <2>12, <4>1, <4>2 DEF ReadDataHandler, Abort
      <4>3. CASE ~ (0 < input[K].need)
        BY <2>7, <2>10, <2>12, <3>3, <4>1, <4>3 DEF ReadDataHandler
      <4> QED  BY <4>2, <4>3
    <3>4. CASE open /\ size # 0 /\ ~ (size > MaxLength)
      BY <2>11, <2>12, <3>4 DEF AsyncReadData
    <3>5. open \in BOOLEAN
      BY DEF FramingInv, FramingTypes
    <3> QED  BY <3>1, <3>2, <3>3, <3>4, <3>5
  <2> QED  BY <2>8, <2>9, <2>12
<1> QED  BY <1>7, <1>8

LEMMA BodyStep ==
  ASSUME FramingInv, NEW len \in Lens, ReadDataHandlerInternal(len)
  PROVE  FramingInv' /\ input' = input /\ (Hands \/ Keeps)
<1> DEFINE K == Current
           first == Start[K] + HeaderSize
           size == BodySent(input[K])
           b == Written(data, Numbers(arrived, len))
<1>1. /\ reading = "data" /\ Piece(data, len) /\ input' = input /\ open' = open
      /\ IF IsMessageReady(b) THEN ReadDataHandler(header, b, open)
         ELSE data' = b /\ UNCHANGED <<header, reading, delivered>>
  BY DEF ReadDataHandlerInternal
<1>2. /\ IsInput /\ Start[K] \in Nat /\ arrived \in Nat /\ Total \in Nat /\ Len(input) \in Nat
  BY InvFacts
<1>3. /\ K <= Len(input) /\ IsValid(input[K]) /\ input[K].size >= HeaderSize
      /\ header.storage = Numbers(Start[K], HeaderSize)
      /\ Len(data.storage) = size /\ data.wpos < size /\ arrived = first + data.wpos
      /\ Holds(data, first)
      /\ IsBuffer(header) /\ IsBuffer(data) /\ Len(header.storage) = HeaderSize
      /\ data.wpos \in Nat
  BY <1>1 DEF FramingInv, FramingTypes, BodyPartly, IsBuffer, BufferType
<1>4. size \in Nat /\ first \in Nat /\ Start[K + 1] = first + size
  BY <1>2, <1>3, InvFacts, Numeric, SMTT(60)
<1> HIDE DEF first, size
<1>5. /\ len \in Nat /\ data.wpos + len <= size /\ arrived + len <= Total
      /\ arrived' = arrived + len
  BY <1>1, <1>3, <1>4, Numeric, SMTT(60) DEF Piece, GetMissingSize, Lens
<1>6. /\ IsBuffer(b) /\ Len(b.storage) = size /\ b.wpos = data.wpos + len
      /\ Holds(b, first)
      /\ b.wpos = size => b.storage = Numbers(first, size)
  <2>1. data.wpos + len <= Len(data.storage)
    BY <1>3, <1>5
  <2>2. b = Written(data, Numbers(arrived, len))
    OBVIOUS
  <2> HIDE DEF b
  <2>3. /\ IsBuffer(b) /\ Len(b.storage) = Len(data.storage) /\ b.wpos = data.wpos + len
        /\ Holds(b, first)
        /\ b.wpos = Len(b.storage) => b.storage = Numbers(first, Len(data.storage))
    <3>1. /\ IsInput /\ IsBuffer(data) /\ first \in Nat /\ len \in Nat
          /\ data.wpos + len <= Len(data.storage) /\ arrived = first + data.wpos
          /\ arrived + len <= Total /\ Holds(data, first)
      BY <1>2, <1>3, <1>4, <1>5, <2>1
    <3> QED  BY ONLY <3>1, <2>2, WrittenFacts
  <2> QED  BY <1>3, <2>3
<1> HIDE DEF b
<1>7. /\ arrived' = first + b.wpos /\ arrived' \in Nat /\ arrived' <= Total
      /\ b.wpos \in Nat /\ b.wpos <= size
  <2>1. data.wpos \in Nat /\ len \in Nat /\ first \in Nat /\ size \in Nat
    BY <1>3, <1>4, <1>5
  <2>2. /\ b.wpos = data.wpos + len /\ arrived' = (first + data.wpos) + len
        /\ data.wpos + len <= size /\ arrived' <= Total
    BY <1>3, <1>5, <1>6
  <2> QED  BY <2>1, <2>2
<1>8. CASE ~ IsMessageReady(b)
  <2>1. data' = b /\ UNCHANGED <<header, reading, delivered>>
    BY <1>1, <1>8
  <2>2. b.wpos < size
    BY <1>4, <1>6, <1>7, <1>8 DEF IsMessageReady
  <2>3. Keeps
    BY <1>1, <2>1 DEF Keeps
  <2>4. FramingTypes' /\ DeliveredFirst' /\ Current' = Current /\ Start' = Start
    BY <1>1, <1>3, <1>6, <1>7, <2>1, <2>3, KeepsTypes
  <2>5. HeaderPartly'
    BY <1>1, <2>1 DEF HeaderPartly
  <2>6. BodyPartly'
    BY <1>1, <1>3, <1>6, <1>7, <2>1, <2>2, <2>4 DEF BodyPartly, Holds, first, size
  <2> QED  BY <1>1, <2>3, <2>4, <2>5, <2>6 DEF FramingInv
<1>9. CASE IsMessageReady(b)
  <2>1. /\ b.wpos = size /\ b.storage = Body(K) /\ ReadDataHandler(header, b, open)
    BY <1>1, <1>6, <1>9 DEF IsMessageReady, Body, first, size
  <2>2. MessageOf(header) = input[K] /\ input[K] \in Messages /\ input[K].need \in Nat
    <3>1. HeaderOf(header.storage) = {K} /\ (CHOOSE m \in {K} : TRUE) = K
      BY <1>3, HeaderOfCurrent
    <3>2. K \in 1 .. Len(input)
      BY <1>3, InvFacts
    <3> QED  BY <1>2, <3>1, <3>2, InputFacts, Numeric DEF MessageOf
  <2>3. CASE size < input[K].need
    <3>1. /\ header' = header /\ data' = Empty /\ UNCHANGED delivered /\ reading' = "aborted"
      BY <1>6, <2>1, <2>2, <2>3 DEF ReadDataHandler, Abort
    <3>2. Keeps
      BY <1>1, <3>1 DEF Keeps
    <3>3. IsBuffer(data')
      BY <1>2, <3>1, EmptyFacts
    <3>4. FramingTypes' /\ DeliveredFirst'
      BY <1>1, <1>3, <1>7, <3>1, <3>2, <3>3, KeepsTypes
    <3>5. HeaderPartly' /\ BodyPartly'
      BY <3>1 DEF HeaderPartly, BodyPartly
    <3> QED  BY <1>1, <3>2, <3>4, <3>5 DEF FramingInv
  <2>4. CASE ~ (size < input[K].need)
    <3>1. delivered' = Append(delivered, b.storage) /\ AsyncReadHeader(header, open)
      BY <1>6, <2>1, <2>2, <2>4 DEF ReadDataHandler
    <3>2. IsWhole(input[K])
      BY <1>3, <1>4, <2>2, <2>4, BodyFacts DEF size
    <3>3. Hands
      BY <1>1, <1>3, <2>1, <3>1, <3>2 DEF Hands
    <3>4. arrived' = Start[K + 1]
      BY <1>4, <1>7, <2>1
    <3>5. FramingInv'
      BY <1>1, <1>3, <1>7, <3>1, <3>3, <3>4, NextHeader
    <3> QED  BY <1>1, <3>3, <3>5
  <2> QED  BY <2>3, <2>4
<1> QED  BY <1>8, <1>9

LEMMA CloseStep ==
  ASSUME FramingInv, ReadFails \/ CloseReading \/ UNCHANGED framingVars
  PROVE  FramingInv' /\ input' = input /\ Keeps
<1>1. /\ UNCHANGED <<input, arrived, header, data, delivered>>
      /\ open' \in {open, FALSE} /\ reading' \in {reading, "nothing"}
  BY DEF ReadFails, CloseReading, framingVars
<1>2. Keeps
  BY <1>1 DEF Keeps
<1>3. FramingTypes' /\ DeliveredFirst' /\ Current' = Current /\ Start' = Start
  BY <1>1, <1>2, KeepsTypes DEF FramingInv, FramingTypes
<1>4. HeaderPartly'
  BY <1>1, <1>3 DEF FramingInv, HeaderPartly, Holds
<1>5. BodyPartly'
  BY <1>1, <1>3 DEF FramingInv, BodyPartly, Holds
<1> QED  BY <1>1, <1>2, <1>3, <1>4, <1>5 DEF FramingInv


\* A step hands the reader the current message, or nothing.
LEMMA StepKeeps ==
  ASSUME FramingInv, [FramingNext]_framingVars
  PROVE  FramingInv' /\ input' = input /\ (Hands \/ Keeps)
<1>1. \/ \E len \in Lens : ReadHeaderHandlerInternal(len)
      \/ \E len \in Lens : ReadDataHandlerInternal(len)
      \/ ReadFails \/ CloseReading \/ UNCHANGED framingVars
  BY DEF FramingNext
<1> QED  BY <1>1, HeaderStep, BodyStep, CloseStep

LEMMA InitialInv ==
  ASSUME FramingInit
  PROVE  FramingInv
<1>1. IsInput
  <2>1. input \in UNION {[1 .. m -> Messages] : m \in 0 .. MaxSent}
    BY DEF FramingInit, SeqOf
  <2>2. PICK m \in 0 .. MaxSent : input \in [1 .. m -> Messages]
    BY <2>1
  <2>3. m \in Nat
    BY <2>2, Numeric
  <2> QED  BY <2>2, <2>3, SeqDef DEF IsInput
<1>2. Start[1] = 0 /\ Total \in Nat /\ Len(input) \in Nat
  BY <1>1, StartDef, StartFacts, InputFacts
<1>3. IsBuffer(header) /\ Len(header.storage) = HeaderSize /\ header.wpos = 0
  BY <1>1, Numeric, GrowFacts DEF FramingInit
<1>4. IsBuffer(data) /\ data = Empty
  BY <1>1, EmptyFacts DEF FramingInit
<1>5. delivered \in Seq(Seq(Nat)) /\ Len(delivered) = 0
  BY EmptySeq DEF FramingInit
<1>6. FramingTypes
  BY <1>2, <1>3, <1>4 DEF FramingTypes, FramingInit
<1>7. DeliveredFirst
  BY <1>2, <1>5 DEF DeliveredFirst
<1>8. HeaderPartly
  <2>1. Current = 1
    BY <1>5 DEF Current
  <2> QED  BY <1>2, <1>3, <1>4, <2>1, Numeric DEF HeaderPartly, Holds, FramingInit
<1>9. BodyPartly
  BY DEF BodyPartly, FramingInit
<1> QED  BY <1>6, <1>7, <1>8, <1>9 DEF FramingInv

LEMMA FramingInvariant == FramingSpec => []FramingInv
<1>1. FramingInv /\ [FramingNext]_framingVars => FramingInv'
  BY StepKeeps
<1> QED  BY <1>1, InitialInv, PTL DEF FramingSpec

-----------------------------------------------------------------------------
(* The channel.                                                            *)

\* Every message up to one that is handed over is before the first that is not whole.
LEMMA HandsWellFormed ==
  ASSUME FramingInv, Hands
  PROVE  Len(delivered) < Len(WellFormed) /\ WellFormed[Current] = Body(Current)
<1> DEFINE K == Current
           first == CHOOSE k \in Broken : \A j \in Broken : k <= j
<1>1. /\ K \in 1 .. Len(input) /\ Len(input) \in Nat /\ Len(delivered) \in Nat
      /\ K = Len(delivered) + 1 /\ K \in Nat
  BY InvFacts DEF Hands, Current
<1>2. \A j \in 1 .. K : IsWhole(input[j])
  <2> SUFFICES ASSUME NEW j \in 1 .. K
               PROVE  IsWhole(input[j])
    OBVIOUS
  <2>1. j = K \/ j \in 1 .. Len(delivered)
    BY <1>1
  <2> QED  BY <2>1 DEF Hands, FramingInv, DeliveredFirst
<1>3. \A j \in Broken : j \in Nat /\ K < j
  BY <1>1, <1>2 DEF Broken
<1>4. LastWhole \in Nat /\ K <= LastWhole
  <2>1. CASE Broken = {}
    BY <1>1, <2>1 DEF LastWhole
  <2>2. CASE Broken # {}
    <3>1. Broken \subseteq Nat
      BY <1>3
    <3>2. \E k \in Broken : \A j \in Broken : k <= j
      BY <2>2, <3>1, LeastNatural
    <3>3. first \in Broken
      BY <3>2
    <3>4. LastWhole = first - 1
      BY <2>2 DEF LastWhole
    <3> HIDE DEF first
    <3>5. first \in Nat /\ K < first
      BY <1>3, <3>3
    <3> QED  BY <1>1, <3>4, <3>5
  <2> QED  BY <2>1, <2>2
<1>5. K \in 1 .. LastWhole
  BY <1>1, <1>4
<1>6. WellFormed[K] = Body(K)
  BY <1>5 DEF WellFormed
<1>7. Len(WellFormed) = LastWhole
  <2> DEFINE bodies == {Body(k) : k \in 1 .. LastWhole}
  <2>1. WellFormed \in [1 .. LastWhole -> bodies] /\ DOMAIN WellFormed = 1 .. LastWhole
    BY DEF WellFormed
  <2>2. WellFormed \in Seq(bodies)
    BY <1>4, <2>1, SeqDef
  <2> QED  BY <1>4, <2>1, <2>2, LenProperties
<1> QED  BY <1>1, <1>4, <1>6, <1>7

\* The state of a socket maps to that of a channel, and so does its every step.
LEMMA StepRefines ==
  ASSUME FramingInv, [FramingNext]_framingVars
  PROVE  [ChannelOfMessages!Next]_<<WellFormed, delivered, open>>
<1>1. input' = input /\ (Hands \/ Keeps) /\ open \in BOOLEAN
  BY StepKeeps DEF FramingInv, FramingTypes
<1>2. WellFormed' = WellFormed
  BY <1>1, StreamFixed
<1>3. CASE Hands
  <2>1. /\ Len(delivered) < Len(WellFormed)
        /\ delivered' = Append(delivered, WellFormed[Len(delivered) + 1])
        /\ open' = open
    BY <1>3, HandsWellFormed DEF Hands, Current
  <2>2. ChannelOfMessages!Deliver
    BY <1>2, <2>1 DEF ChannelOfMessages!Deliver
  <2> QED  BY <2>2 DEF ChannelOfMessages!Next
<1>4. CASE Keeps
  <2>1. CASE open' = open
    BY <1>2, <1>4, <2>1 DEF Keeps
  <2>2. CASE open' # open
    <3>1. open = TRUE /\ open' = FALSE /\ delivered' = delivered
      BY <1>1, <1>4, <2>2 DEF Keeps
    <3>2. ChannelOfMessages!Close
      BY <1>2, <3>1 DEF ChannelOfMessages!Close
    <3> QED  BY <3>2 DEF ChannelOfMessages!Next
  <2> QED  BY <2>1, <2>2
<1> QED  BY <1>1, <1>3, <1>4

LEMMA InitRefines ==
  ASSUME FramingInit
  PROVE  ChannelOfMessages!Init
BY DEF FramingInit, ChannelOfMessages!Init

LEMMA PartWritten ==
  ASSUME NEW b, IsBuffer(b), NEW first \in Nat, Holds(b, first)
  PROVE  SubSeq(b.storage, 1, b.wpos) = Numbers(first, b.wpos)
<1> DEFINE s == b.storage
           n == b.wpos
           part == SubSeq(s, 1, n)
           v == Numbers(first, n)
<1>1. s \in Seq(0 .. Total) /\ n \in Nat /\ Len(s) \in Nat /\ n <= Len(s)
  BY DEF IsBuffer, BufferType
<1>2. v \in Seq(Nat) /\ Len(v) = n /\ \A i \in 1 .. n : v[i] = first + i
  BY <1>1, NumbersFacts
<1>3. \A i \in 1 .. n : s[i] = first + i
  BY DEF Holds
<1> HIDE DEF s, n, v
<1>4. Len(part) = n /\ DOMAIN part = 1 .. n /\ \A i \in 1 .. n : part[i] = s[i]
  BY <1>1
<1>5. part = [i \in 1 .. n |-> part[i]]
  BY <1>1, <1>4, SubSeqProperties
<1>6. v = [i \in 1 .. n |-> v[i]]
  BY <1>2
<1>7. part = v
  BY <1>2, <1>3, <1>4, <1>5, <1>6, SMTT(30)
<1> QED  BY <1>7 DEF s, n, v

LEMMA InvRecent ==
  ASSUME FramingInv
  PROVE  BuffersAreRecent
<1>1. ~ Misframed
  <2> SUFFICES ASSUME reading = "data"
               PROVE  HeaderOf(header.storage) # {}
    BY DEF Misframed
  <2> QED  BY HeaderOfCurrent DEF FramingInv, BodyPartly
<1>2. IsBuffer(header) /\ IsBuffer(data) /\ header.wpos \in Nat /\ data.wpos \in Nat
  BY DEF FramingInv, FramingTypes, IsBuffer, BufferType
<1>3. Start[Current] \in Nat /\ arrived \in Nat
  BY InvFacts
<1>4. ASSUME reading = "header"
      PROVE  SubSeq(header.storage, 1, header.wpos) = Numbers(arrived - header.wpos, header.wpos)
  <2>1. arrived = Start[Current] + header.wpos /\ Holds(header, Start[Current])
    BY <1>4 DEF FramingInv, HeaderPartly
  <2>2. arrived - header.wpos = Start[Current]
    BY <1>2, <1>3, <2>1
  <2> QED  BY <1>2, <1>3, <2>1, <2>2, PartWritten
<1>5. ASSUME reading = "data"
      PROVE  SubSeq(data.storage, 1, data.wpos) = Numbers(arrived - data.wpos, data.wpos)
  <2> DEFINE first == Start[Current] + HeaderSize
  <2>1. arrived = first + data.wpos /\ Holds(data, first)
    BY <1>5 DEF FramingInv, BodyPartly
  <2>2. first \in Nat
    BY <1>3, Numeric
  <2> HIDE DEF first
  <2>3. arrived - data.wpos = first
    BY <1>2, <2>1, <2>2
  <2> QED  BY <1>2, <2>1, <2>2, <2>3, PartWritten
<1>6. reading \in {"header", "data", "nothing", "aborted"}
  BY DEF FramingInv, FramingTypes
<1> QED  BY <1>1, <1>4, <1>5, <1>6 DEF BuffersAreRecent

-----------------------------------------------------------------------------
(* However the network cuts what a client sends, the reader is handed its messages, each
   whole, in order, and none after one that it turns down or that ends the program: of a
   size that IsValid rejects, that wraps around, or that is less than what is read
   (ReadHeaderHandlerInternal and ReadDataHandlerInternal, Socket.h:166-214).  The
   buffers hold nothing but the bytes of the current message.                  *)
THEOREM FramingImplementsChannel == FramingSpec => ImplementsChannel
<1>1. FramingInv /\ [FramingNext]_framingVars =>
        [ChannelOfMessages!Next]_<<WellFormed, delivered, open>>
  BY StepRefines
<1>2. FramingInit => ChannelOfMessages!Init
  BY InitRefines
<1>3. FramingInv => BuffersAreRecent
  BY InvRecent
<1> QED  BY <1>1, <1>2, <1>3, FramingInvariant, PTL
         DEF FramingSpec, ImplementsChannel, ChannelOfMessages!Spec

(* No more bytes are read than the client has sent, and none is written behind the end of
   a buffer (MessageBuffer, WriteCompleted).                                    *)
THEOREM FramingTypesCorrect == FramingSpec => []FramingTypeOK
<1>1. FramingInv => FramingTypeOK
  <2> SUFFICES ASSUME FramingInv
               PROVE  FramingTypeOK
    OBVIOUS
  <2>1. arrived \in 0 .. Total
    BY InvFacts DEF FramingInv, FramingTypes
  <2>2. \A b \in {header, data} : b.storage \in Seq(0 .. Total) /\ b.wpos \in 0 .. Len(b.storage)
    <3> SUFFICES ASSUME NEW b \in {header, data}
                 PROVE  b.storage \in Seq(0 .. Total) /\ b.wpos \in 0 .. Len(b.storage)
      OBVIOUS
    <3>1. IsBuffer(b)
      BY DEF FramingInv, FramingTypes
    <3>2. b.storage \in Seq(0 .. Total) /\ b.wpos \in Nat /\ b.wpos <= Len(b.storage)
      BY <3>1 DEF IsBuffer, BufferType
    <3> QED  BY <3>2, LenProperties
  <2> QED  BY <2>1, <2>2 DEF FramingTypeOK, FramingInv, FramingTypes
<1> QED  BY <1>1, FramingInvariant, PTL


------------------------------------------------------------------------------
(* Writing.                                                                *)

\* FrontIsFlying needs NothingStuck to be inductive: a sender that finds the queue
\* empty must know that nothing is being written.
WritingInv == TypeOK /\ FrontIsFlying /\ NothingStuck

LEMMA WritingStarts == Init => WritingInv
<1> SUFFICES ASSUME Init
             PROVE  WritingInv
  OBVIOUS
<1>1. 0 \in 0 .. MaxPackets
  BY WriteQueueAssumption
<1>2. <<>> \in Seq(Packets)
  OBVIOUS
<1>3. TypeOK
  BY <1>1, <1>2 DEF Init, TypeOK
<1> QED  BY <1>3 DEF Init, WritingInv, FrontIsFlying, NothingStuck

LEMMA SendKeepsWritingInv ==
  ASSUME WritingInv, NEW t \in Threads, SendPacket(t)
  PROVE  WritingInv'
<1>1. sent[t] + 1 \in 0 .. MaxPackets
  BY WriteQueueAssumption DEF SendPacket, WritingInv, TypeOK
<1>2. TypeOK'
  BY <1>1 DEF SendPacket, WritingInv, TypeOK
<1>3. FrontIsFlying' /\ NothingStuck'
  BY DEF SendPacket, WritingInv, FrontIsFlying, NothingStuck
<1> QED  BY <1>2, <1>3 DEF WritingInv

LEMMA WriteKeepsWritingInv ==
  ASSUME WritingInv, NEW t \in Threads, AsyncWrite(t)
  PROVE  WritingInv'
<1>1. <<t, sent[t]>> \in Packets
  BY WriteQueueAssumption DEF AsyncWrite, WritingInv, TypeOK, Packets
<1>2. /\ queue' \in Seq(Packets)
      /\ queue' # <<>>
      /\ Head(queue') = IF queue = <<>> THEN <<t, sent[t]>> ELSE Head(queue)
  BY <1>1 DEF AsyncWrite, WritingInv, TypeOK
<1>3. TypeOK'
  BY <1>1, <1>2 DEF AsyncWrite, WritingInv, TypeOK
<1>4. FrontIsFlying' /\ NothingStuck'
  BY <1>2 DEF AsyncWrite, WritingInv, FrontIsFlying, NothingStuck
<1> QED  BY <1>3, <1>4 DEF WritingInv

LEMMA WrittenKeepsWritingInv ==
  ASSUME WritingInv, NEW p \in Packets, WriteHandler(p)
  PROVE  WritingInv'
<1>1. /\ queue \in Seq(Packets) /\ queue # <<>>
      /\ flying = {p} /\ p = Head(queue)
  BY DEF WriteHandler, WritingInv, TypeOK, FrontIsFlying
<1>2. queue' \in Seq(Packets) /\ (queue' # <<>> => Head(queue') \in Packets)
  BY <1>1 DEF WriteHandler
<1>3. flying' = IF queue' # <<>> THEN {Head(queue')} ELSE {}
  BY <1>1 DEF WriteHandler
<1>4. wire' \in Seq(Packets)
  BY DEF WriteHandler, WritingInv, TypeOK
<1>5. TypeOK'
  BY <1>2, <1>3, <1>4 DEF WriteHandler, WritingInv, TypeOK
<1>6. FrontIsFlying' /\ NothingStuck'
  BY <1>3 DEF FrontIsFlying, NothingStuck
<1> QED  BY <1>5, <1>6 DEF WritingInv

LEMMA WritingStep == WritingInv /\ [Next]_vars => WritingInv'
<1> SUFFICES ASSUME WritingInv, [Next]_vars
             PROVE  WritingInv'
  OBVIOUS
<1>1. ASSUME NEW t \in Threads, SendPacket(t) \/ AsyncWrite(t)
      PROVE  WritingInv'
  BY <1>1, SendKeepsWritingInv, WriteKeepsWritingInv
<1>2. ASSUME NEW p \in Packets, WriteHandler(p)
      PROVE  WritingInv'
  BY <1>2, WrittenKeepsWritingInv
<1>3. ASSUME NEW p \in Packets, WriteFails(p)
      PROVE  WritingInv'
  BY <1>3 DEF WriteFails, WritingInv, TypeOK, FrontIsFlying, NothingStuck
<1>4. CASE CloseSocket
  BY <1>4 DEF CloseSocket, WritingInv, TypeOK, FrontIsFlying, NothingStuck
<1>5. CASE DelayedCloseSocket
  BY <1>5 DEF DelayedCloseSocket, WritingInv, TypeOK, FrontIsFlying, NothingStuck
<1>6. CASE UNCHANGED vars
  BY <1>6 DEF vars, WritingInv, TypeOK, FrontIsFlying, NothingStuck
<1> QED  BY <1>1, <1>2, <1>3, <1>4, <1>5, <1>6 DEF Next

\* In every behaviour the invariant holds.
THEOREM WritingInvariant == Spec => []WritingInv
<1> QED  BY WritingStarts, WritingStep, PTL DEF Spec

\* However many threads send to a socket, one write is under way at a time and it is
\* of the front of the queue (Socket.h:216-232, WorldSocket.cpp:95-118).
THEOREM OneWriteAtATime == Spec => []FrontIsFlying
<1>1. WritingInv => FrontIsFlying
  BY DEF WritingInv
<1> QED  BY <1>1, WritingInvariant, PTL

\* The queue of an open socket is always being written.
THEOREM QueueIsDrained == Spec => []NothingStuck
<1>1. WritingInv => NothingStuck
  BY DEF WritingInv
<1> QED  BY <1>1, WritingInvariant, PTL

------------------------------------------------------------------------------
(* The order of the packets of a thread.                                   *)

\* The places of the packets of t among the first k of s.
PlacesOf(t, s, k) == {j \in 1 .. k : s[j][1] = t}

InOrderIn(s) ==
  \A i \in 1 .. Len(s) : s[i][2] = 1 + Cardinality(PlacesOf(s[i][1], s, i - 1))

\* What has been written and what waits is one line, and a thread that has the socket open
\* before it waits for the lock has all it sent before in the line.
Line == wire \o queue
InLine(t) == Cardinality(PlacesOf(t, Line, Len(Line)))

OrderInv ==
  /\ WritingInv
  /\ InOrderIn(Line)
  /\ \A t \in Threads : IF t \in locking THEN sent[t] = InLine(t) + 1
                                         ELSE closed \/ sent[t] = InLine(t)

LEMMA PlacesCount ==
  ASSUME NEW t, NEW s, NEW k \in Nat
  PROVE  IsFiniteSet(PlacesOf(t, s, k)) /\ Cardinality(PlacesOf(t, s, k)) \in Nat
<1>1. IsFiniteSet(1 .. k)
  BY FS_Interval
<1>2. PlacesOf(t, s, k) \in SUBSET (1 .. k)
  BY DEF PlacesOf
<1>3. IsFiniteSet(PlacesOf(t, s, k))
  BY <1>1, <1>2, FS_Subset
<1> QED BY <1>3, FS_CardinalityType

\* The places among the first k depend on the first k only.
LEMMA SamePlaces ==
  ASSUME NEW t, NEW s, NEW r, NEW k \in Nat, \A j \in 1 .. k : s[j] = r[j]
  PROVE  PlacesOf(t, s, k) = PlacesOf(t, r, k)
BY DEF PlacesOf

\* One more packet of p's thread, with the next number, keeps the order.
LEMMA AppendInOrder ==
  ASSUME NEW s \in Seq(Packets), NEW p \in Packets, InOrderIn(s),
         p[2] = 1 + Cardinality(PlacesOf(p[1], s, Len(s)))
  PROVE  LET r == Append(s, p)
         IN  /\ InOrderIn(r)
             /\ \A t : Cardinality(PlacesOf(t, r, Len(r))) =
                         IF t = p[1] THEN Cardinality(PlacesOf(t, s, Len(s))) + 1
                                     ELSE Cardinality(PlacesOf(t, s, Len(s)))
<1> DEFINE r == Append(s, p)
           n == Len(s)
<1>1. /\ n \in Nat /\ Len(r) = n + 1 /\ r[n + 1] = p
      /\ \A j \in 1 .. n : r[j] = s[j]
  OBVIOUS
<1> HIDE DEF r, n
<1>2. \A t, k : k \in 0 .. n => PlacesOf(t, r, k) = PlacesOf(t, s, k)
  BY <1>1 DEF PlacesOf
<1>3. InOrderIn(r)
  <2> SUFFICES ASSUME NEW i \in 1 .. n + 1
               PROVE  r[i][2] = 1 + Cardinality(PlacesOf(r[i][1], r, i - 1))
    BY <1>1 DEF InOrderIn
  <2>1. i - 1 \in 0 .. n
    BY <1>1
  <2>2. PlacesOf(r[i][1], r, i - 1) = PlacesOf(r[i][1], s, i - 1)
    BY <1>2, <2>1
  <2>3. CASE i = n + 1
    <3>1. i - 1 = n /\ r[i] = p
      BY <1>1, <2>3
    <3> QED BY <2>2, <3>1 DEF n
  <2>4. CASE i # n + 1
    <3>1. i \in 1 .. n /\ r[i] = s[i]
      BY <1>1, <2>4
    <3> QED BY <2>2, <3>1 DEF InOrderIn, n
  <2> QED BY <2>3, <2>4
<1>4. ASSUME NEW t
      PROVE  Cardinality(PlacesOf(t, r, n + 1)) =
               IF t = p[1] THEN Cardinality(PlacesOf(t, s, n)) + 1
                           ELSE Cardinality(PlacesOf(t, s, n))
  <2> DEFINE P == PlacesOf(t, s, n)
  <2>1. PlacesOf(t, r, n + 1) = IF t = p[1] THEN P \union {n + 1} ELSE P
    BY <1>1 DEF PlacesOf
  <2>2. n + 1 \notin P
    BY <1>1 DEF PlacesOf
  <2>3. IsFiniteSet(P)
    BY <1>1, PlacesCount
  <2> HIDE DEF P
  <2>4. Cardinality(P \union {n + 1}) = Cardinality(P) + 1
    BY <2>2, <2>3, FS_AddElement
  <2> QED BY <2>1, <2>4 DEF P
<1> QED BY <1>1, <1>3, <1>4 DEF r, n

\* What stands first in a line in order is in order.
LEMMA PrefixInOrder ==
  ASSUME NEW s \in Seq(Packets), NEW r \in Seq(Packets), InOrderIn(s \o r)
  PROVE  InOrderIn(s)
<1> DEFINE l == s \o r
<1>1. /\ Len(s) \in Nat /\ Len(r) \in Nat /\ Len(l) = Len(s) + Len(r)
      /\ \A j \in 1 .. Len(s) : l[j] = s[j]
  OBVIOUS
<1> HIDE DEF l
<1>2. \A t, k : k \in 0 .. Len(s) => PlacesOf(t, l, k) = PlacesOf(t, s, k)
  BY <1>1 DEF PlacesOf
<1> SUFFICES ASSUME NEW i \in 1 .. Len(s)
             PROVE  s[i][2] = 1 + Cardinality(PlacesOf(s[i][1], s, i - 1))
  BY DEF InOrderIn
<1>3. i \in 1 .. Len(l) /\ l[i] = s[i] /\ i - 1 \in 0 .. Len(s)
  BY <1>1
<1>4. l[i][2] = 1 + Cardinality(PlacesOf(l[i][1], l, i - 1))
  BY <1>3 DEF InOrderIn, l
<1> QED BY <1>2, <1>3, <1>4

\* The line grows at its end, and a packet that is written moves from one part to the other.
LEMMA LineMoves ==
  ASSUME NEW w \in Seq(Packets), NEW q \in Seq(Packets), NEW p \in Packets
  PROVE  /\ w \o q \in Seq(Packets)
         /\ w \o Append(q, p) = Append(w \o q, p)
         /\ q # << >> => Append(w, Head(q)) \o Tail(q) = w \o q
<1>1. w \o Append(q, p) = Append(w \o q, p)
  OBVIOUS
<1>2. q # << >> => Append(w, Head(q)) \o Tail(q) = w \o q
  OBVIOUS
<1>3. w \o q \in Seq(Packets)
  OBVIOUS
<1> QED BY <1>1, <1>2, <1>3, Zenon

LEMMA OrderStarts == Init => OrderInv
<1> SUFFICES ASSUME Init
             PROVE  OrderInv
  OBVIOUS
<1>1. WritingInv
  BY WritingStarts
<1>2. Line = << >> /\ Len(Line) = 0
  BY DEF Init, Line
<1>3. \A t : PlacesOf(t, Line, 0) = {}
  BY DEF PlacesOf
<1>4. \A t : InLine(t) = 0
  BY <1>2, <1>3, FS_EmptySet DEF InLine
<1> QED BY <1>1, <1>2, <1>4 DEF OrderInv, InOrderIn, Init

LEMMA AsyncWriteKeepsOrder ==
  ASSUME OrderInv, NEW t \in Threads, AsyncWrite(t)
  PROVE  OrderInv'
<1> DEFINE p == <<t, sent[t]>>
<1>1. WritingInv'
  BY WriteKeepsWritingInv DEF OrderInv
<1>2. wire \in Seq(Packets) /\ queue \in Seq(Packets) /\ p \in Packets
  <2>1. t \in locking /\ sent[t] \in 0 .. MaxPackets /\ sent[t] > 0 /\ MaxPackets \in Nat
    BY WriteQueueAssumption DEF AsyncWrite, OrderInv, WritingInv, TypeOK
  <2> QED BY <2>1 DEF OrderInv, WritingInv, TypeOK, Packets
<1>3. p[1] = t /\ p[2] = 1 + InLine(t)
  <2>1. sent[t] = InLine(t) + 1
    BY DEF AsyncWrite, OrderInv
  <2>2. InLine(t) \in Nat
    <3>1. Len(Line) \in Nat
      BY <1>2, LineMoves DEF Line
    <3> QED BY <3>1, PlacesCount DEF InLine
  <2> QED BY <2>1, <2>2
<1> HIDE DEF p
<1>4. /\ wire' = wire /\ queue' = Append(queue, p) /\ locking' = locking \ {t}
      /\ closed' = closed /\ sent' = sent
  BY DEF AsyncWrite, p
<1>5. Line \in Seq(Packets) /\ Line' = Append(Line, p)
  BY <1>2, <1>4, LineMoves DEF Line
<1>6. /\ InOrderIn(Append(Line, p))
      /\ \A u : Cardinality(PlacesOf(u, Append(Line, p), Len(Append(Line, p)))) =
                  IF u = p[1] THEN InLine(u) + 1 ELSE InLine(u)
  BY <1>2, <1>3, <1>5, AppendInOrder DEF OrderInv, InLine
<1>7. InOrderIn(Line)' /\ \A u : InLine(u)' = IF u = t THEN InLine(u) + 1 ELSE InLine(u)
  BY <1>3, <1>5, <1>6 DEF InOrderIn, InLine
<1>8. \A u \in Threads : IF u \in locking' THEN sent'[u] = InLine(u)' + 1
                                           ELSE closed' \/ sent'[u] = InLine(u)'
  BY <1>4, <1>7 DEF OrderInv, AsyncWrite
<1> QED BY <1>1, <1>7, <1>8 DEF OrderInv

\* The other steps leave the line as it is.
LEMMA SameLine ==
  ASSUME OrderInv, WritingInv', Line' = Line,
         \A t \in Threads : IF t \in locking' THEN sent'[t] = InLine(t) + 1
                                              ELSE closed' \/ sent'[t] = InLine(t)
  PROVE  OrderInv'
<1>1. InOrderIn(Line)' /\ \A t : InLine(t)' = InLine(t)
  BY DEF OrderInv, InOrderIn, InLine
<1> QED BY <1>1 DEF OrderInv

LEMMA OrderStep == OrderInv /\ [Next]_vars => OrderInv'
<1> SUFFICES ASSUME OrderInv, [Next]_vars
             PROVE  OrderInv'
  OBVIOUS
<1>1. WritingInv'
  BY WritingStep DEF OrderInv
<1>2. ASSUME NEW t \in Threads, SendPacket(t)
      PROVE  OrderInv'
  <2>1. Line' = Line
    BY <1>2 DEF SendPacket, Line
  <2>2. t \notin locking /\ sent[t] \in Nat /\ sent' = [sent EXCEPT ![t] = @ + 1]
        /\ sent \in [Threads -> 0 .. MaxPackets]
    BY <1>2, WriteQueueAssumption DEF SendPacket, OrderInv, WritingInv, TypeOK
  <2>3. closed' = closed /\ locking' = IF closed THEN locking ELSE locking \union {t}
    BY <1>2 DEF SendPacket
  <2>4. \A u \in Threads : IF u \in locking' THEN sent'[u] = InLine(u) + 1
                                             ELSE closed' \/ sent'[u] = InLine(u)
    BY <2>2, <2>3 DEF OrderInv
  <2> QED BY <1>1, <2>1, <2>4, SameLine
<1>3. ASSUME NEW t \in Threads, AsyncWrite(t)
      PROVE  OrderInv'
  BY <1>3, AsyncWriteKeepsOrder
<1>4. ASSUME NEW p \in Packets, WriteHandler(p)
      PROVE  OrderInv'
  <2>1. wire \in Seq(Packets) /\ queue \in Seq(Packets) /\ queue # << >> /\ p = Head(queue)
    BY <1>4 DEF WriteHandler, OrderInv, WritingInv, TypeOK, FrontIsFlying
  <2>2. Line' = Line
    BY <1>4, <2>1, LineMoves DEF WriteHandler, Line
  <2>3. \A t \in Threads : IF t \in locking' THEN sent'[t] = InLine(t) + 1
                                             ELSE closed' \/ sent'[t] = InLine(t)
    BY <1>4 DEF WriteHandler, OrderInv
  <2> QED BY <1>1, <2>2, <2>3, SameLine
<1>5. ASSUME Line' = Line, locking' = locking, sent' = sent, closed => closed'
      PROVE  OrderInv'
  <2>1. \A t \in Threads : IF t \in locking' THEN sent'[t] = InLine(t) + 1
                                             ELSE closed' \/ sent'[t] = InLine(t)
    BY <1>5 DEF OrderInv
  <2> QED BY <1>1, <1>5, <2>1, SameLine
<1>6. ASSUME NEW p \in Packets, WriteFails(p)
      PROVE  OrderInv'
  BY <1>5, <1>6 DEF WriteFails, Line
<1>7. CASE CloseSocket \/ DelayedCloseSocket
  BY <1>5, <1>7 DEF CloseSocket, DelayedCloseSocket, Line
<1>8. CASE UNCHANGED vars
  BY <1>5, <1>8 DEF vars, Line
<1> QED BY <1>2, <1>3, <1>4, <1>6, <1>7, <1>8 DEF Next

\* The packets of a thread reach the connection in the order it sent them, none twice and
\* none left out before a later one, however the threads and the completions of the writes
\* are interleaved and whenever the socket is closed (WorldSocket.cpp:95-118).
THEOREM PacketsInOrder == Spec => []InOrder
<1>1. OrderInv => InOrder
  <2> SUFFICES ASSUME OrderInv
               PROVE  InOrder
    OBVIOUS
  <2>1. wire \in Seq(Packets) /\ queue \in Seq(Packets) /\ DOMAIN wire = 1 .. Len(wire)
    BY DEF OrderInv, WritingInv, TypeOK
  <2>2. InOrderIn(wire)
    BY <2>1, PrefixInOrder DEF OrderInv, Line
  <2> QED BY <2>1, <2>2 DEF InOrder, InOrderIn, PlacesOf
<1> QED BY <1>1, OrderStarts, OrderStep, PTL DEF Spec
==============================================================================
