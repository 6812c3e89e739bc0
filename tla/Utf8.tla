-------------------------------- MODULE Utf8 --------------------------------
(***************************************************************************)
(* UTF-8 and UTF-16, as utf8cpp (core.h, checked.h) converts them and      *)
(* Util.cpp wraps it.  A string is a sequence of octets and a wide string  *)
(* a sequence of units.  What throws in the code is a result with ok =     *)
(* FALSE here.                                                             *)
(*                                                                         *)
(* Util.cpp makes wide strings of as many units as there are code points,  *)
(* and utf8to16 writes two units of one above 0xffff: what is written past *)
(* the end is undefined behaviour, marked as an overrun.                   *)
(*                                                                         *)
(* A string, or a wide one, is made unit by unit.                          *)
(***************************************************************************)
EXTENDS Integers, Sequences, SequencesExt

CONSTANTS Octets,    \* a subset of 0 .. 255
          Units,     \* the values of wchar_t: 0 .. 2^32 - 1
          MaxOctets, \* a bound on the length of a string
          MaxUnits   \* and of a wide string

Utf8Assumption ==
  /\ Octets \subseteq 0 .. 255 /\ Units \subseteq Nat
  /\ MaxOctets \in Nat /\ MaxUnits \in Nat

LEAD_SURROGATE_MIN == 55296  \* 0xd800
TRAIL_SURROGATE_MIN == 56320 \* 0xdc00
TRAIL_SURROGATE_MAX == 57343 \* 0xdfff
CODE_POINT_MAX == 1114111    \* 0x10ffff
FOUR_OCTETS == 65536         \* 0x10000

is_trail(octet) == octet \div 64 = 2
is_lead_surrogate(cp) == cp \in LEAD_SURROGATE_MIN .. TRAIL_SURROGATE_MIN - 1
is_trail_surrogate(cp) == cp \in TRAIL_SURROGATE_MIN .. TRAIL_SURROGATE_MAX

\* Mutant: the surrogates are code points.
is_code_point_valid_Any(cp) == cp <= CODE_POINT_MAX

is_code_point_valid(cp) ==
  cp <= CODE_POINT_MAX /\ cp \notin LEAD_SURROGATE_MIN .. TRAIL_SURROGATE_MAX

\* The length that the first octet announces, and 0 for none.
sequence_length(lead) ==
  CASE lead < 128 -> 1
    [] lead \div 32 = 6 -> 2
    [] lead \div 16 = 14 -> 3
    [] lead \div 8 = 30 -> 4
    [] OTHER -> 0

is_overlong_sequence(cp, length) ==
  \/ cp < 128 /\ length # 1
  \/ cp \in 128 .. 2047 /\ length # 2
  \/ cp \in 2048 .. FOUR_OCTETS - 1 /\ length # 3

\* The bits of the first octet of a sequence, and six of every other one: the masks of
\* get_sequence_2 to _4.
LeadBits(octet, length) == IF length = 1 THEN octet ELSE octet % 2 ^ (7 - length)
GetSequence(octets) ==
  FoldLeft(LAMBDA cp, octet : 64 * cp + (octet % 64), LeadBits(octets[1], Len(octets)), Tail(octets))

\* validate_next at index i: the code point, or -1; the caller is not told more.
validate_next(text, i) ==
  LET length == sequence_length(text[i])
      cp == GetSequence(SubSeq(text, i, i + length - 1))
  IN  IF /\ length > 0 /\ i + length - 1 <= Len(text)
         /\ \A j \in i + 1 .. i + length - 1 : is_trail(text[j])
         /\ is_code_point_valid(cp) /\ ~is_overlong_sequence(cp, length)
      THEN cp ELSE -1

\* The code points of a text, to its end or to the first next that throws.
RECURSIVE CodePoints(_, _)
CodePoints(text, i) ==
  IF i > Len(text) THEN [ok |-> TRUE, cps |-> <<>>]
  ELSE LET cp == validate_next(text, i)
           rest == CodePoints(text, i + sequence_length(text[i]))
       IN  IF cp = -1 THEN [ok |-> FALSE, cps |-> <<>>]
           ELSE [ok |-> rest.ok, cps |-> <<cp>> \o rest.cps]

\* append, of a code point that is valid.
append(cp) ==
  CASE cp < 128 -> <<cp>>
    [] cp \in 128 .. 2047 -> <<192 + (cp \div 64), 128 + (cp % 64)>>
    [] cp \in 2048 .. FOUR_OCTETS - 1 ->
         <<224 + (cp \div 4096), 128 + ((cp \div 64) % 64), 128 + (cp % 64)>>
    [] OTHER -> <<240 + (cp \div 262144), 128 + ((cp \div 4096) % 64),
                  128 + ((cp \div 64) % 64), 128 + (cp % 64)>>

\* Mutant: a pair for 0xffff.
UnitsOf_Late(cp) ==
  IF cp < FOUR_OCTETS - 1 THEN <<cp>>
  ELSE <<LEAD_SURROGATE_MIN - 64 + (cp \div 1024), TRAIL_SURROGATE_MIN + (cp % 1024)>>

\* utf8to16, one code point: a pair of surrogates above 0xffff.
UnitsOf(cp) ==
  IF cp < FOUR_OCTETS THEN <<cp>>
  ELSE <<LEAD_SURROGATE_MIN - 64 + (cp \div 1024), TRAIL_SURROGATE_MIN + (cp % 1024)>>

utf8to16(text) ==
  LET d == CodePoints(text, 1)
  IN  [ok |-> d.ok, units |-> FlattenSeq([i \in DOMAIN d.cps |-> UnitsOf(d.cps[i])])]

\* mask16: a wchar_t of 32 bits loses the upper half.
Masked(wide) == [i \in DOMAIN wide |-> wide[i] % FOUR_OCTETS]

\* Mutant: a trail surrogate alone is converted like any other unit.
PairedAt_Lead(w, i) == is_lead_surrogate(w[i]) => i < Len(w) /\ is_trail_surrogate(w[i + 1])

\* utf16to8 throws at a surrogate that is not one of a pair.
PairedAt(w, i) ==
  /\ is_lead_surrogate(w[i]) => i < Len(w) /\ is_trail_surrogate(w[i + 1])
  /\ is_trail_surrogate(w[i]) => i > 1 /\ is_lead_surrogate(w[i - 1])

\* The code point at a unit, with SURROGATE_OFFSET for a pair.
Combined(w, i) ==
  IF is_lead_surrogate(w[i])
  THEN (w[i] - LEAD_SURROGATE_MIN) * 1024 + (w[i + 1] - TRAIL_SURROGATE_MIN) + FOUR_OCTETS
  ELSE w[i]

utf16to8(wide) ==
  LET w == Masked(wide)
      Octet(i) == IF is_trail_surrogate(w[i]) THEN <<>> ELSE append(Combined(w, i))
  IN  IF \A i \in DOMAIN w : PairedAt(w, i)
      THEN [ok |-> TRUE, text |-> FlattenSeq([i \in DOMAIN w |-> Octet(i)])]
      ELSE [ok |-> FALSE, text |-> <<>>]
-----------------------------------------------------------------------------
\* utf8length: the length, and the string it leaves.
utf8length(text) ==
  LET d == CodePoints(text, 1)
  IN  IF d.ok THEN [length |-> Len(d.cps), text |-> text] ELSE [length |-> 0, text |-> <<>>]

\* utf8truncate: the wide string of all the code points, cut after len units.  What is
\* left of an overrun is not said.
utf8truncate(text, len) ==
  LET d == CodePoints(text, 1)
      units == utf8to16(text).units
      Left(t) == [overrun |-> FALSE, text |-> t]
  IN  IF ~d.ok THEN Left(<<>>)
      ELSE IF Len(d.cps) <= len THEN Left(text)
      ELSE IF Len(units) > Len(d.cps) THEN [overrun |-> TRUE, text |-> <<>>]
      ELSE Left(utf16to8(SubSeq(units, 1, len)).text)

\* Utf8toWStr into a buffer for wsize units and the 0 at the end: what it returns, the
\* size it reports, the units it has written, and whether some are past the end.
Utf8toWStr(text, wsize) ==
  LET d == CodePoints(text, 1)
      units == utf8to16(text).units
      len == Len(d.cps)
      Ended(w) == [w EXCEPT ![len + 1] = 0]
  IN  IF ~d.ok \/ len > wsize
      THEN [ok |-> FALSE, wsize |-> 0, buffer |-> <<>>, overrun |-> FALSE]
      ELSE [ok |-> TRUE, wsize |-> len, buffer |-> Ended(units \o <<0>>),
            overrun |-> Len(units) > wsize + 1]

\* WStrToUtf8: the string, empty when the conversion throws.
WStrToUtf8(wide) == utf16to8(wide).text
-----------------------------------------------------------------------------
VARIABLES text, wide

vars == <<text, wide>>

Init == text = <<>> /\ wide = <<>>

AddOctet == /\ wide = <<>> /\ Len(text) < MaxOctets
            /\ \E o \in Octets : text' = Append(text, o)
            /\ UNCHANGED wide

AddUnit == /\ text = <<>> /\ Len(wide) < MaxUnits
           /\ \E u \in Units : wide' = Append(wide, u)
           /\ UNCHANGED text

Next == AddOctet \/ AddUnit

Spec == Init /\ [][Next]_vars
-----------------------------------------------------------------------------
\* The well-formed sequences of the Unicode standard (table 3-7), by the first octet: the
\* range of the second one and the number of the others.
TailOf(lead) ==
  CASE lead \in 0 .. 127 -> [first |-> {}, more |-> 0]
    [] lead \in 194 .. 223 -> [first |-> 128 .. 191, more |-> 0]
    [] lead = 224 -> [first |-> 160 .. 191, more |-> 1]
    [] lead = 237 -> [first |-> 128 .. 159, more |-> 1]
    [] lead \in (225 .. 236) \union {238, 239} -> [first |-> 128 .. 191, more |-> 1]
    [] lead = 240 -> [first |-> 144 .. 191, more |-> 2]
    [] lead \in 241 .. 243 -> [first |-> 128 .. 191, more |-> 2]
    [] lead = 244 -> [first |-> 128 .. 143, more |-> 2]
    [] OTHER -> [first |-> {}, more |-> -1]

WellFormedAt(i) ==
  LET tail == TailOf(text[i])
      last == i + tail.more + (IF tail.first = {} THEN 0 ELSE 1)
  IN  /\ tail.more >= 0 /\ last <= Len(text)
      /\ tail.first # {} => text[i + 1] \in tail.first
      /\ \A j \in i + 2 .. last : text[j] \in 128 .. 191

\* core.h:223: a sequence is accepted when it is one of those the Unicode standard
\* allows: no overlong one, no surrogate, nothing above 0x10ffff.
AcceptsUnicode == text # <<>> => (validate_next(text, 1) # -1 <=> WellFormedAt(1))

\* The code points of a string that take one unit each.
Narrow(t) == \A i \in DOMAIN CodePoints(t, 1).cps : CodePoints(t, 1).cps[i] < FOUR_OCTETS

\* checked.h:234, 207: what is converted to UTF-16 and back is the same string, and no
\* conversion of a valid string throws.  Util.cpp:323: a buffer that is large enough for
\* one unit per code point holds the wide string, and is not overrun, if no code point
\* needs two.
TextRoundTrips ==
  LET w == utf8to16(text)
  IN  w.ok => /\ utf16to8(w.units).ok /\ WStrToUtf8(w.units) = text
              /\ Narrow(text) => \A wsize \in 0 .. MaxOctets :
                   LET r == Utf8toWStr(text, wsize)
                   IN  /\ r.ok <=> Len(w.units) <= wsize
                       /\ r.ok => ~r.overrun /\ WStrToUtf8(SubSeq(r.buffer, 1, r.wsize)) = text

\* checked.h:207, 234: the same of a wide string: what can be converted to UTF-8 is the
\* same when it comes back, in 16 bits.
WideRoundTrips ==
  LET t == utf16to8(wide)
  IN  t.ok => utf8to16(t.text) = [ok |-> TRUE, units |-> Masked(wide)]

\* Util.cpp:302: utf8truncate leaves nothing of an invalid string, and of a valid one
\* its first len code points, if none of them needs a pair.  With one that does, the
\* code writes past its wide string (Util.cpp:310-313), and only then.
TruncatesToPrefix ==
  LET d == CodePoints(text, 1)
      Left(len) == IF len < Len(d.cps) THEN len ELSE Len(d.cps)
  IN  \A len \in 0 .. MaxOctets :
        LET t == utf8truncate(text, len)
        IN  /\ t.overrun <=> d.ok /\ len < Len(d.cps) /\ ~Narrow(text)
            /\ d.ok /\ ~t.overrun => IsPrefix(t.text, text) /\ utf8length(t.text).length = Left(len)
            /\ ~d.ok => t.text = <<>>
=============================================================================
