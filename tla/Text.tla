-------------------------------- MODULE Text --------------------------------
(***************************************************************************)
(* The text helpers of Util.cpp and Util.h that take a text apart: tokens, *)
(* blanks, money, periods of time and the case of letters.                 *)
(*                                                                         *)
(* A text is a sequence of characters that grows by one at a time; a       *)
(* number of seconds and a letter (its code) are given.                    *)
(***************************************************************************)
EXTENDS Integers, Sequences, SequencesExt

CONSTANTS Chars,   \* the characters of a text
          MaxText, \* a bound on its length
          Times,   \* numbers of seconds
          Letters, \* codes of letters
          Word     \* 2^32

TextAssumption == MaxText \in Nat /\ Times \subseteq Nat /\ Letters \subseteq Nat /\ Word \in Nat

Digit == [c \in {"0", "1", "2", "3", "4", "5", "6", "7", "8", "9"} |->
            CHOOSE d \in 0 .. 9 : ToString(d) = c]
isNumeric(c) == c \in DOMAIN Digit

\* A uint32 and an int32.
UInt32(x) == x % Word
Int32(x) == ((x + Word \div 2) % Word) - (Word \div 2)

\* Mutant: what follows the last separator is lost.
Tokens_Closed(text, sep) ==
  LET Step(acc, c) == IF c = sep THEN [done |-> Append(acc.done, acc.open), open |-> <<>>]
                      ELSE [acc EXCEPT !.open = Append(@, c)]
  IN  FoldLeft(Step, [done |-> <<>>, open |-> <<>>], text).done

\* Tokenizer: an empty token is kept, but not at the end.
Tokens(text, sep) ==
  LET Step(acc, c) == IF c = sep THEN [done |-> Append(acc.done, acc.open), open |-> <<>>]
                      ELSE [acc EXCEPT !.open = Append(@, c)]
      all == FoldLeft(Step, [done |-> <<>>, open |-> <<>>], text)
  IN  IF all.open = <<>> THEN all.done ELSE Append(all.done, all.open)

Invisible == {" ", "\t", "bell", "\n"}

\* Mutant: a blank after a blank is dropped, wherever the first one was.
Stripped_Once(text) ==
  LET Step(acc, c) == IF c \notin Invisible THEN [out |-> Append(acc.out, c), space |-> acc.space]
                      ELSE IF acc.space THEN acc ELSE [out |-> Append(acc.out, " "), space |-> TRUE]
  IN  FoldLeft(Step, [out |-> <<>>, space |-> FALSE], text).out

\* stripLineInvisibleChars (no text of the model holds "|TInterface", which empties it).
Stripped(text) ==
  LET Step(acc, c) == IF c \notin Invisible THEN [out |-> Append(acc.out, c), space |-> FALSE]
                      ELSE IF acc.space THEN acc ELSE [out |-> Append(acc.out, " "), space |-> TRUE]
  IN  FoldLeft(Step, [out |-> <<>>, space |-> FALSE], text).out

Count(text, chars) == Len(SelectSeq(text, LAMBDA c : c \in chars))

\* atoi: the digits a text begins with.
Atoi(text) ==
  LET Step(acc, c) == IF acc.on /\ isNumeric(c) THEN [acc EXCEPT !.n = 10 * @ + Digit[c]]
                      ELSE [acc EXCEPT !.on = FALSE]
  IN  UInt32(FoldLeft(Step, [on |-> TRUE, n |-> 0], text).n)

\* The copper of a token that has one letter of a coin in it.
Worth(token) ==
  Atoi(token) * (IF Count(token, {"g"}) = 1 THEN 10000 ELSE IF Count(token, {"s"}) = 1 THEN 100 ELSE 1)

Coins == {"g", "s", "c"}

\* Mutant: a token without a coin, or with two, is passed over.
Money_Lenient(tokens) ==
  Int32(FoldLeft(LAMBDA sum, t : IF Count(t, Coins) = 1 THEN sum + Worth(t) ELSE sum, 0, tokens))

\* The tokens of MoneyStringToMoney: one that is wrong spoils all.
Money(tokens) ==
  IF \E i \in DOMAIN tokens : Count(tokens[i], Coins) # 1 THEN 0
  ELSE Int32(FoldLeft(LAMBDA sum, t : sum + Worth(t), 0, tokens))

\* MoneyStringToMoney: some coin has to be named exactly once.
MoneyStringToMoney(text) ==
  IF \E c \in Coins : Count(text, {c}) = 1 THEN Money(Tokens(text, " ")) ELSE 0

MINUTE == 60
HOUR == 60 * MINUTE
DAY == 24 * HOUR

\* Mutant: the hours of the days are counted again.
HoursOf_All(secs) == secs \div HOUR

HoursOf(secs) == (secs % DAY) \div HOUR

RECURSIVE Decimal(_)
Decimal(n) == IF n < 10 THEN <<ToString(n)>> ELSE Append(Decimal(n \div 10), ToString(n % 10))

\* secsToTimeString, in its short form.
secsToTimeString(timeInSecs, hoursOnly) ==
  LET secs == timeInSecs % MINUTE
      minutes == (timeInSecs % HOUR) \div MINUTE
      hours == HoursOf(timeInSecs)
      days == timeInSecs \div DAY
      Part(shown, n, unit) == IF shown THEN Append(Decimal(n), unit) ELSE <<>>
  IN  Part(days # 0, days, "d") \o Part(hours # 0 \/ hoursOnly, hours, "h")
      \o Part(~hoursOnly /\ minutes # 0, minutes, "m")
      \o Part(~hoursOnly /\ (secs # 0 \/ timeInSecs = 0), secs, "s")

UnitOf == [c \in {"d", "h", "m", "s"} |-> CASE c = "d" -> DAY [] c = "h" -> HOUR [] c = "m" -> MINUTE [] c = "s" -> 1]

\* TimeStringToSecs: digits without a unit after them are ignored, and a character that is
\* neither makes it 0.
TimeStringToSecs(text) ==
  LET Step(acc, c) == IF isNumeric(c) THEN [acc EXCEPT !.buffer = UInt32(10 * @ + Digit[c])]
                      ELSE [secs |-> UInt32(acc.secs + UInt32(acc.buffer * UnitOf[c])), buffer |-> 0]
  IN  IF \E i \in DOMAIN text : ~isNumeric(text[i]) /\ text[i] \notin DOMAIN UnitOf THEN 0
      ELSE FoldLeft(Step, [secs |-> 0, buffer |-> 0], text).secs

\* Mutant: the division sign is taken for a letter.
wcharToUpper_Sign(c) ==
  CASE c \in (97 .. 122) \union (224 .. 254) \union (1072 .. 1103) -> c - 32
    [] c = 223 -> 7838
    [] c \in 257 .. 303 /\ c % 2 = 1 -> c - 1
    [] c = 1105 -> 1025
    [] OTHER -> c

\* wcharToUpper: Latin, sharp s, Latin with a sign, Cyrillic.
wcharToUpper(c) ==
  CASE c \in (97 .. 122) \union (224 .. 246) \union (248 .. 254) \union (1072 .. 1103) -> c - 32
    [] c = 223 -> 7838
    [] c \in 257 .. 303 /\ c % 2 = 1 -> c - 1
    [] c = 1105 -> 1025
    [] OTHER -> c

wcharToLower(c) ==
  CASE c \in (65 .. 90) \union (192 .. 214) \union (216 .. 222) \union (1040 .. 1071) -> c + 32
    [] c = 7838 -> 223
    [] c \in 256 .. 302 /\ c % 2 = 0 -> c + 1
    [] c = 1025 -> 1105
    [] OTHER -> c

isBasicLatinCharacter(c) == c \in (97 .. 122) \union (65 .. 90)
isExtendedLatinCharacter(c) ==
  isBasicLatinCharacter(c) \/ c \in (192 .. 214) \union (216 .. 246) \union (248 .. 254) \union (256 .. 303) \union {7838}
isCyrillicCharacter(c) == c \in (1040 .. 1103) \union {1025, 1105}
-----------------------------------------------------------------------------
VARIABLES text, secs, letter

vars == <<text, secs, letter>>

Init == /\ text = <<>>
        /\ \/ secs \in Times /\ letter = 0
           \/ secs = 0 /\ letter \in Letters

Type == /\ secs = 0 /\ letter = 0 /\ Len(text) < MaxText
        /\ \E c \in Chars : text' = Append(text, c)
        /\ UNCHANGED <<secs, letter>>

Next == Type

Spec == Init /\ [][Next]_vars
-----------------------------------------------------------------------------
Joined(tokens, sep) ==
  IF tokens = <<>> THEN <<>>
  ELSE FoldLeft(LAMBDA all, t : all \o <<sep>> \o t, Head(tokens), Tail(tokens))

\* Util.cpp:82: no token holds the separator, and the tokens with the separator between
\* them are the text, with one more separator at the end or without.
TokensRejoin ==
  LET tokens == Tokens(text, ",")
  IN  /\ text \in {Joined(tokens, ","), Append(Joined(tokens, ","), ",")}
      /\ \A i \in DOMAIN tokens : "," \notin ToSet(tokens[i])

\* Util.cpp:116: what is visible stays, in its order; each run of blanks becomes one
\* blank, and none is lost.
StrippedIsClean ==
  LET out == Stripped(text)
      Visible(t) == SelectSeq(t, LAMBDA c : c \notin Invisible)
      Runs(t) == {i \in DOMAIN t : t[i] \in Invisible /\ (i = 1 \/ t[i - 1] \notin Invisible)}
  IN  /\ Visible(out) = Visible(text)
      /\ Cardinality(Runs(out)) = Cardinality(Runs(text))
      /\ ToSet(out) \intersect Invisible \subseteq {" "}
      /\ Len(out) = Len(Visible(text)) + Cardinality(Runs(text))

\* Util.cpp:193: a text with a wrong token is worth nothing, and not what its right tokens
\* are worth.
MoneyIsAllOrNothing ==
  MoneyStringToMoney(text) # 0 =>
    \A i \in DOMAIN Tokens(text, " ") : Count(Tokens(text, " ")[i], Coins) = 1

\* Util.cpp:158, 212: a period that is written in the short form is read back as it was,
\* without the minutes and seconds when only the hours are written.
PeriodsAreReadBack ==
  /\ TimeStringToSecs(secsToTimeString(secs, FALSE)) = secs
  /\ TimeStringToSecs(secsToTimeString(secs, TRUE)) = secs - (secs % HOUR)

\* Util.h:273, 301: a letter that has another case has exactly one, which comes back to
\* it, and is a letter of the same alphabet.
CaseComesBack ==
  LET up == wcharToUpper(letter)  low == wcharToLower(letter)
  IN  /\ up # letter => wcharToLower(up) = letter /\ low = letter
      /\ low # letter => wcharToUpper(low) = letter /\ up = letter
      /\ {up, low} # {letter} =>
           \/ \A c \in {up, low} : isExtendedLatinCharacter(c)
           \/ \A c \in {up, low} : isCyrillicCharacter(c)
=============================================================================
