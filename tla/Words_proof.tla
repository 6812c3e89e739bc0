----------------------------- MODULE Words_proof -----------------------------
(***************************************************************************)
(* What is added up in words of 32 bits: accounts, the time that the main  *)
(* loop hands on, and timers, for words of any width.                      *)
(*                                                                         *)
(* An account adds up, for any table of levels, rooms, logins and reports: *)
(* what is counted when a round ends is the last report (Reported), the    *)
(* gold and the score grow with it in the arithmetic of the word (ModAdd), *)
(* and the level of a score is the number of thresholds below it           *)
(* (LevelCounts).                                                          *)
(*                                                                         *)
(* Of the time that passes the loop loses a millisecond whenever its clock *)
(* wraps and nothing else (DiffLosesWraps), and a sleep makes up for what  *)
(* the measured difference holds of the one before (Measured).             *)
(***************************************************************************)
EXTENDS Account, WorldLoop, Timers, FiniteSetTheorems, WellFoundedInduction, TLAPS

-----------------------------------------------------------------------------
(* Accounts.                                                               *)

\* A PlayerInfo whose counts are words; nothing is said of the win rate and the level.
IsInfo(i) ==
  i \in [gold : Words, all : Words, win : Words, rate : {i.rate}, score : Words,
         level : {i.level}, props : {i.props}]

\* The report that the next count takes is what UpdatePlayerData will add.
Reported ==
  /\ winGold = report /\ report \in Int /\ counted \in Seq(Int)
  /\ ai => report = 0
  /\ room = -1 => ~ ai /\ ~ over /\ report = 0

AccountInv ==
  /\ IsInfo(info) /\ IsInfo(first) /\ info.props = first.props
  /\ room \in RoomIds \union {-1} /\ ai \in BOOLEAN
  /\ Reported /\ AccountAddsUp

-----------------------------------------------------------------------------
(* Arithmetic of words.                                                    *)

LEMMA ModType ==
  ASSUME NEW W \in Nat \ {0}, NEW x \in Int
  PROVE  x % W \in 0 .. W - 1
OBVIOUS

LEMMA ModSmall ==
  ASSUME NEW W \in Nat \ {0}, NEW x \in 0 .. W - 1
  PROVE  x % W = x
OBVIOUS

\* Adding to what has wrapped is adding to what has not.
LEMMA ModAdd ==
  ASSUME NEW W \in Nat \ {0}, NEW x \in Int, NEW y \in Int
  PROVE  ((x % W) + y) % W = (x + y) % W
<1> DEFINE a == x \div W
           r == x % W
           b == (r + y) \div W
           s == (r + y) % W
           c == (x + y) \div W
           t == (x + y) % W
<1>1. x = W * a + r /\ a \in Int /\ r \in 0 .. W - 1
  OBVIOUS
<1>2. r + y = W * b + s /\ b \in Int /\ s \in 0 .. W - 1
  BY <1>1
<1>3. x + y = W * c + t /\ c \in Int /\ t \in 0 .. W - 1
  OBVIOUS
<1> HIDE DEF a, r, b, s, c, t
<1>4. W * (c - a - b) = s - t
  <2>1. W * (c - a - b) = W * c - W * a - W * b
    BY <1>1, <1>2, <1>3
  <2>2. W * a \in Int /\ W * b \in Int /\ W * c \in Int
    BY <1>1, <1>2, <1>3
  <2> QED BY <1>1, <1>2, <1>3, <2>1, <2>2
<1>5. \A q \in Int : W * q = s - t => s = t
  BY <1>2, <1>3
<1>6. c - a - b \in Int
  BY <1>1, <1>2, <1>3
<1>7. s = t
  BY <1>4, <1>5, <1>6
<1> QED BY <1>7 DEF r, s, t

-----------------------------------------------------------------------------
(* Sums.                                                                   *)

\* Every set of natural numbers has a least one.
LEMMA LeastNatural ==
  ASSUME NEW T, T \subseteq Nat, T # {}
  PROVE  \E x \in T : \A y \in T : x <= y
<1> DEFINE R == OpToRel(<, Nat)
<1>1. IsWellFoundedOn(R, Nat)
  BY NatLessThanWellFounded
<1>2. \A x, y \in Nat : <<y, x>> \in R <=> y < x
  BY DEF OpToRel
<1> HIDE DEF R
<1>3. PICK x \in T : \A y \in T : ~ (<<y, x>> \in R)
  BY <1>1, WFMin
<1>4. \A y \in T : ~ (y < x)
  BY <1>2, <1>3
<1> QED BY <1>3, <1>4

\* f is the function of the sums of the first reports in s.
IsSum(f, s, k) == f = [n \in 0 .. k |-> IF n = 0 THEN 0 ELSE f[n - 1] + s[n]]

\* There is one for every number of them.
LEMMA SumExists ==
  ASSUME NEW s \in Seq(Int)
  PROVE  \A k \in 0 .. Len(s) : \E f : IsSum(f, s, k)
<1> DEFINE T == {k \in 0 .. Len(s) : ~ \E f : IsSum(f, s, k)}
<1> SUFFICES ASSUME T # {} PROVE FALSE
  OBVIOUS
<1>1. PICK k \in T : \A j \in T : k <= j
  <2>1. T \subseteq Nat
    OBVIOUS
  <2> HIDE DEF T
  <2> QED BY <2>1, LeastNatural
<1>2. k \in 0 .. Len(s) /\ ~ \E f : IsSum(f, s, k)
  BY <1>1
<1>3. CASE k = 0
  <2> DEFINE f == [n \in 0 .. 0 |-> 0]
  <2>1. f = [n \in 0 .. 0 |-> IF n = 0 THEN 0 ELSE f[n - 1] + s[n]]
    OBVIOUS
  <2> QED BY <1>2, <1>3, <2>1 DEF IsSum
<1>4. CASE k # 0
  <2>1. k - 1 \in 0 .. Len(s) /\ k \in Nat /\ ~ (k <= k - 1)
    BY <1>2, <1>4
  <2>2. k - 1 \notin T
    BY <1>1, <2>1
  <2>3. PICK f : IsSum(f, s, k - 1)
    BY <2>1, <2>2
  <2> DEFINE g == [n \in 0 .. k |-> IF n = k THEN f[k - 1] + s[k] ELSE f[n]]
             h == [n \in 0 .. k |-> IF n = 0 THEN 0 ELSE g[n - 1] + s[n]]
  <2>4. \A n \in 0 .. k - 1 : f[n] = IF n = 0 THEN 0 ELSE f[n - 1] + s[n]
    BY <2>3 DEF IsSum
  <2>5. \A n \in 0 .. k : g[n] = h[n]
    <3> SUFFICES ASSUME NEW n \in 0 .. k PROVE g[n] = h[n]
      OBVIOUS
    <3>1. CASE n = k
      <4>1. g[n] = f[k - 1] + s[k] /\ n # 0 /\ n - 1 \in 0 .. k /\ n - 1 # k
        BY <1>4, <2>1, <3>1
      <4>2. h[n] = g[n - 1] + s[n] /\ g[n - 1] = f[n - 1]
        BY <4>1
      <4> QED BY <3>1, <4>1, <4>2
    <3>2. CASE n # k
      <4>1. n \in 0 .. k - 1 /\ g[n] = f[n]
        BY <2>1, <3>2
      <4>2. CASE n = 0
        BY <2>4, <4>1, <4>2
      <4>3. CASE n # 0
        <5>1. n - 1 \in 0 .. k /\ n - 1 # k
          BY <2>1, <4>1, <4>3
        <5>2. h[n] = f[n - 1] + s[n]
          BY <4>3, <5>1
        <5> QED BY <2>4, <4>1, <4>3, <5>2
      <4> QED BY <4>2, <4>3
    <3> QED BY <3>1, <3>2
  <2>6. g = h
    <3>1. g = [n \in 0 .. k |-> g[n]] /\ h = [n \in 0 .. k |-> h[n]]
      OBVIOUS
    <3> HIDE DEF g, h
    <3> QED BY <2>5, <3>1
  <2>7. IsSum(g, s, k)
    <3> HIDE DEF g
    <3> QED BY <2>6 DEF IsSum
  <2> QED BY <1>2, <2>7
<1> QED BY <1>3, <1>4

\* Two such functions agree, also on what follows in a longer sequence.
LEMMA SumsAgree ==
  ASSUME NEW s \in Seq(Int), NEW t \in Seq(Int), Len(s) <= Len(t), \A n \in 1 .. Len(s) : s[n] = t[n],
         NEW f, NEW g, IsSum(f, s, Len(s)), IsSum(g, t, Len(t))
  PROVE  \A n \in 0 .. Len(s) : f[n] = g[n] /\ f[n] \in Int
<1> DEFINE T == {n \in 0 .. Len(s) : ~ (f[n] = g[n] /\ f[n] \in Int)}
<1> SUFFICES ASSUME T # {} PROVE FALSE
  OBVIOUS
<1>1. PICK k \in T : \A j \in T : k <= j
  <2>1. T \subseteq Nat
    OBVIOUS
  <2> HIDE DEF T
  <2> QED BY <2>1, LeastNatural
<1>2. \A n \in 0 .. Len(s) : f[n] = IF n = 0 THEN 0 ELSE f[n - 1] + s[n]
  BY DEF IsSum
<1>3. \A n \in 0 .. Len(t) : g[n] = IF n = 0 THEN 0 ELSE g[n - 1] + t[n]
  BY DEF IsSum
<1>4. k \in 0 .. Len(s) /\ k \in 0 .. Len(t) /\ ~ (f[k] = g[k] /\ f[k] \in Int)
  BY <1>1
<1>5. CASE k = 0
  BY <1>2, <1>3, <1>4, <1>5
<1>6. CASE k # 0
  <2>1. k - 1 \in 0 .. Len(s) /\ ~ (k <= k - 1) /\ k \in 1 .. Len(s)
    BY <1>4, <1>6
  <2>2. f[k - 1] = g[k - 1] /\ f[k - 1] \in Int
    BY <1>1, <2>1
  <2>3. s[k] = t[k] /\ s[k] \in Int
    BY <2>1
  <2> QED BY <1>2, <1>3, <1>4, <1>6, <2>2, <2>3, SMTT(30)
<1> QED BY <1>5, <1>6

\* SumOf is the last value of such a function.
LEMMA SumOfIs ==
  ASSUME NEW s \in Seq(Int)
  PROVE  \E f : IsSum(f, s, Len(s)) /\ SumOf(s) = f[Len(s)]
<1> DEFINE f == CHOOSE sum : sum = [n \in 0 .. Len(s) |-> IF n = 0 THEN 0 ELSE sum[n - 1] + s[n]]
<1>1. \E sum : sum = [n \in 0 .. Len(s) |-> IF n = 0 THEN 0 ELSE sum[n - 1] + s[n]]
  <2>1. Len(s) \in 0 .. Len(s)
    OBVIOUS
  <2> QED BY <2>1, SumExists DEF IsSum
<1>2. f = [n \in 0 .. Len(s) |-> IF n = 0 THEN 0 ELSE f[n - 1] + s[n]]
  BY <1>1, Zenon
<1>3. SumOf(s) = f[Len(s)]
  BY DEF SumOf
<1> HIDE DEF f
<1>4. IsSum(f, s, Len(s))
  BY <1>2 DEF IsSum
<1> QED BY <1>3, <1>4

\* What is counted last is added last.
LEMMA SumOfAppend ==
  ASSUME NEW s \in Seq(Int), NEW x \in Int
  PROVE  SumOf(s) \in Int /\ SumOf(Append(s, x)) = SumOf(s) + x
<1> DEFINE t == Append(s, x)
<1>1. t \in Seq(Int) /\ Len(t) = Len(s) + 1 /\ t[Len(t)] = x /\ \A n \in 1 .. Len(s) : s[n] = t[n]
  OBVIOUS
<1>2. Len(s) \in Nat
  OBVIOUS
<1> HIDE DEF t
<1>3. PICK f : IsSum(f, s, Len(s)) /\ SumOf(s) = f[Len(s)]
  BY SumOfIs
<1>4. PICK g : IsSum(g, t, Len(t)) /\ SumOf(t) = g[Len(t)]
  BY <1>1, SumOfIs
<1>5. f[Len(s)] = g[Len(s)] /\ f[Len(s)] \in Int
  <2>1. Len(s) \in 0 .. Len(s) /\ Len(s) <= Len(t)
    BY <1>1, <1>2
  <2> QED BY <1>1, <1>3, <1>4, <2>1, SumsAgree
<1>6. g[Len(t)] = g[Len(s)] + x
  <2>1. Len(t) \in 0 .. Len(t) /\ Len(t) # 0 /\ Len(t) - 1 = Len(s)
    BY <1>1, <1>2
  <2>2. \A n \in 0 .. Len(t) : g[n] = IF n = 0 THEN 0 ELSE g[n - 1] + t[n]
    BY <1>4 DEF IsSum
  <2> QED BY <1>1, <2>1, <2>2
<1> QED BY <1>3, <1>4, <1>5, <1>6 DEF t

LEMMA SumOfNothing == SumOf(<< >>) = 0
<1>1. << >> \in Seq(Int) /\ Len(<< >>) = 0
  OBVIOUS
<1>2. PICK f : IsSum(f, << >>, 0) /\ SumOf(<< >>) = f[0]
  BY <1>1, SumOfIs
<1> QED BY <1>2 DEF IsSum

-----------------------------------------------------------------------------
(* What the operators of the account return.                               *)

\* A report that is counted adds one to the rounds won if it is above 0.
LEMMA WinsOfAppend ==
  ASSUME NEW s \in Seq(Int), NEW x \in Int
  PROVE  LET w == Cardinality({n \in DOMAIN s : s[n] > 0})
         IN  /\ w \in Nat
             /\ Cardinality({n \in DOMAIN Append(s, x) : Append(s, x)[n] > 0}) = w + Won(x)
<1> DEFINE t == Append(s, x)
           A == {n \in DOMAIN s : s[n] > 0}
           B == {n \in DOMAIN t : t[n] > 0}
<1>1. /\ Len(s) \in Nat /\ DOMAIN s = 1 .. Len(s) /\ DOMAIN t = 1 .. (Len(s) + 1)
      /\ t[Len(s) + 1] = x /\ \A n \in 1 .. Len(s) : t[n] = s[n]
  OBVIOUS
<1>2. IsFiniteSet(A)
  <2>1. A \in SUBSET (1 .. Len(s)) /\ IsFiniteSet(1 .. Len(s))
    BY <1>1, FS_Interval
  <2> HIDE DEF A
  <2> QED BY <2>1, FS_Subset
<1>3. Cardinality(A) \in Nat
  BY <1>2, FS_CardinalityType
<1>4. Len(s) + 1 \notin A
  BY <1>1
<1>5. B = IF x > 0 THEN A \union {Len(s) + 1} ELSE A
  BY <1>1
<1> HIDE DEF A, B, t
<1>6. Cardinality(B) = Cardinality(A) + Won(x)
  <2>1. CASE x > 0
    <3>1. Cardinality(A \union {Len(s) + 1}) = Cardinality(A) + 1
      BY <1>2, <1>4, FS_AddElement
    <3> QED BY <1>5, <2>1, <3>1 DEF Won
  <2>2. CASE ~ (x > 0)
    BY <1>3, <1>5, <2>2 DEF Won
  <2> QED BY <2>1, <2>2
<1> QED BY <1>3, <1>6 DEF A, B, t

\* The level that UpdatePlayerLevel finds is the number of thresholds reached.
LEMMA LevelCounts ==
  ASSUME AccountAssumption, NEW score \in Nat, score < LevelTable[Len(LevelTable)],
         NEW level \in LevelsOf(score)
  PROVE  level = Cardinality({i \in DOMAIN LevelTable : LevelTable[i] <= score})
<1> DEFINE N == Len(LevelTable)
           T == {i \in 1 .. N : score < LevelTable[i]}
           P(l) == score < LevelTable[l + 1] /\ \A i \in 1 .. l : LevelTable[i] <= score
<1>1. /\ N \in Nat \ {0} /\ DOMAIN LevelTable = 1 .. N
      /\ \A i \in 1 .. N : LevelTable[i] \in Nat
      /\ \A i, j \in 1 .. N : i < j => LevelTable[i] < LevelTable[j]
  BY DEF AccountAssumption
<1>2. score < LevelTable[N]
  OBVIOUS
<1>3. level = CHOOSE l \in 0 .. N - 1 : P(l)
  <2>1. ~ (score >= LevelTable[N])
    BY <1>1, <1>2
  <2> QED BY <2>1 DEF LevelsOf
<1> HIDE DEF N
<1>4. \E l \in 0 .. N - 1 : P(l)
  <2>1. T \subseteq Nat /\ T # {}
    BY <1>1, <1>2
  <2>2. PICK k \in T : \A j \in T : k <= j
    <3> HIDE DEF T
    <3> QED BY <2>1, LeastNatural
  <2>3. k \in 1 .. N /\ score < LevelTable[k]
    BY <2>2
  <2>4. \A i \in 1 .. k - 1 : LevelTable[i] <= score
    <3> SUFFICES ASSUME NEW i \in 1 .. k - 1 PROVE LevelTable[i] <= score
      OBVIOUS
    <3>1. i \in 1 .. N /\ ~ (k <= i)
      BY <1>1, <2>3
    <3>2. i \notin T
      BY <2>2, <3>1
    <3> QED BY <1>1, <3>1, <3>2
  <2>5. k - 1 \in 0 .. N - 1 /\ (k - 1) + 1 = k
    BY <1>1, <2>3
  <2> QED BY <2>3, <2>4, <2>5
<1>5. level \in 0 .. N - 1 /\ P(level)
  <2> HIDE DEF P
  <2> QED BY <1>3, <1>4, Zenon
<1>6. {i \in 1 .. N : LevelTable[i] <= score} = 1 .. level
  <2>1. \A i \in 1 .. N : LevelTable[i] <= score => i <= level
    <3> SUFFICES ASSUME NEW i \in 1 .. N, LevelTable[i] <= score, ~ (i <= level) PROVE FALSE
      OBVIOUS
    <3>1. level + 1 \in 1 .. N /\ (i = level + 1 \/ level + 1 < i)
      BY <1>1, <1>5
    <3>2. LevelTable[level + 1] <= LevelTable[i]
      BY <1>1, <3>1
    <3> QED BY <1>1, <1>5, <3>1, <3>2
  <2>2. 1 .. level \subseteq 1 .. N
    BY <1>1, <1>5
  <2>3. \A i \in 1 .. N : i <= level => i \in 1 .. level
    BY <1>1, <1>5
  <2> QED BY <1>5, <2>1, <2>2, <2>3
<1>7. Cardinality(1 .. level) = level
  <2>1. level \in Nat
    BY <1>1, <1>5
  <2> QED BY <2>1, FS_Interval
<1> QED BY <1>1, <1>6, <1>7

\* What a round won is worth, in a state where the props are those of the login.
Worth(r, props) ==
  (r + 1) * BasicScore * (IF {0, 1} \intersect props = {} THEN 1 ELSE 2)
    * (IF {13, 14, 15} \intersect props = {} THEN 1 ELSE 2)

LEMMA WorthType ==
  ASSUME AccountAssumption, NEW r \in RoomIds, NEW props
  PROVE  Worth(r, props) \in Nat
<1>1. r + 1 \in Nat /\ BasicScore \in Nat
  BY DEF AccountAssumption
<1>2. (r + 1) * BasicScore \in Nat
  BY <1>1
<1> DEFINE a == (r + 1) * BasicScore
<1> HIDE DEF a
<1>3. \A n \in Nat : n * 1 \in Nat /\ n * 2 \in Nat
  OBVIOUS
<1>4. a * (IF {0, 1} \intersect props = {} THEN 1 ELSE 2) \in Nat
  BY <1>2, <1>3 DEF a
<1> QED BY <1>3, <1>4 DEF Worth, a

LEMMA GainIsWorth ==
  ASSUME AccountAssumption, room \in RoomIds
  PROVE  Gain = Worth(room, info.props)
<1> DEFINE a == (room + 1) * BasicScore
<1>1. a \in Nat
  <2>1. room + 1 \in Nat /\ BasicScore \in Nat
    BY DEF AccountAssumption
  <2> QED BY <2>1
<1> HIDE DEF a
<1>2. \A x, y \in {1, 2} : a * (x * y) = (a * x) * y
  BY <1>1
<1> QED BY <1>2 DEF Gain, Doubled, Worth, a

-----------------------------------------------------------------------------
(* An account that begins, or that nobody plays for.                       *)

Fresh ==
  /\ IsInfo(info) /\ first = info /\ room \in RoomIds \union {-1} /\ ai \in BOOLEAN
  /\ winGold = 0 /\ ~ over /\ report = 0 /\ counted = << >>
  /\ room = -1 => ~ ai

LEMMA FreshAddsUp ==
  ASSUME AccountAssumption, Fresh
  PROVE  AccountInv
<1>1. IsInfo(info) /\ IsInfo(first) /\ info.props = first.props
  BY DEF Fresh
<1>2. info.gold \in Words /\ info.score \in Words /\ info.all \in Words /\ info.win \in Words
  BY <1>1 DEF IsInfo
<1>3. Reported
  BY DEF Fresh, Reported
<1>4. \A x \in Words : (x + 0) % Word = x
  BY SMTT(30) DEF AccountAssumption, Words
<1>5. GoldIsSum
  BY <1>2, <1>4, SumOfNothing DEF GoldIsSum, Fresh
<1>6. ScoreIsEarned
  <2> SUFFICES ASSUME room # -1
               PROVE  info.score = (first.score + Wins * Worth(room, first.props)) % Word
    BY DEF ScoreIsEarned, Worth
  <2>1. Worth(room, first.props) \in Nat
    BY WorthType DEF Fresh
  <2>2. Wins = 0
    <3>1. {n \in DOMAIN counted : counted[n] > 0} = {}
      BY DEF Fresh
    <3> QED BY <3>1, FS_EmptySet DEF Wins
  <2>3. Wins * Worth(room, first.props) = 0
    BY <2>1, <2>2
  <2> QED BY <1>2, <1>4, <2>3 DEF Fresh
<1>7. LevelIsRank
  BY DEF LevelIsRank, Fresh
<1>8. AisOnlyPlay
  <2>1. Len(counted) = 0
    BY DEF Fresh
  <2> QED BY <1>2, <1>4, <2>1 DEF AisOnlyPlay, Fresh
<1> QED BY <1>1, <1>3, <1>5, <1>6, <1>7, <1>8 DEF AccountInv, AccountAddsUp, Fresh

LEMMA NoInfoIsInfo ==
  ASSUME AccountAssumption
  PROVE  IsInfo(NoInfo)
BY DEF AccountAssumption, NoInfo, IsInfo, Words

LEMMA ConfiguredIsInfo ==
  ASSUME AccountAssumption, NEW r \in RoomIds
  PROVE  IsInfo(ConfigureAi(r))
<1> DEFINE all == (100 * r + 80) % Word
<1>1. Word \in Nat \ {0} /\ r \in Nat /\ RoomGold[r] \in Words
  BY DEF AccountAssumption
<1>2. all \in Words
  <2>1. 100 * r + 80 \in Int
    BY <1>1
  <2> QED BY <1>1, <2>1, ModType DEF Words
<1> HIDE DEF all
<1>3. (all * 2) \div 5 \in Words /\ 0 \in Words
  BY <1>1, <1>2 DEF Words
<1>4. ConfigureAi(r) = [gold |-> RoomGold[r], all |-> all, win |-> (all * 2) \div 5, rate |-> 0,
                        score |-> 0, level |-> 2 * r + 1, props |-> {}]
  BY DEF ConfigureAi, all
<1> DEFINE c == ConfigureAi(r)
<1> HIDE DEF c
<1>5. IsInfo(c)
  BY <1>1, <1>2, <1>3, <1>4 DEF c, IsInfo
<1> QED BY <1>5 DEF c

LEMMA BeginsFresh ==
  ASSUME NEW i, NEW r \in RoomIds, NEW a \in BOOLEAN, AccountAssumption, IsInfo(i), Begins(i, r, a)
  PROVE  Fresh'
<1>1. r # -1
  BY DEF AccountAssumption
<1>2. IsInfo(info')
  BY Zenon DEF Begins
<1> QED BY <1>1, <1>2 DEF Begins, Fresh, IsInfo

-----------------------------------------------------------------------------
(* Counting a round.                                                       *)

LEMMA CountKeeps ==
  ASSUME AccountAssumption, AccountInv, CheckRoundOver
  PROVE  AccountInv'
<1>1. /\ room # -1 /\ room \in RoomIds /\ room' = room /\ ai' = ai /\ first' = first /\ ~ over'
      /\ winGold' = 0 /\ report' = 0 /\ counted' = Append(counted, report)
      /\ winGold = report /\ report \in Int /\ counted \in Seq(Int)
  BY DEF CheckRoundOver, AccountInv, Reported
<1>2. PICK level \in 0 .. Len(LevelTable) + 1 : UpdatePlayerData(level)
  BY DEF CheckRoundOver
<1> DEFINE score == IF winGold > 0 THEN (info.score + Gain) % Word ELSE info.score
           all == (info.all + 1) % Word
           win == (info.win + Won(winGold)) % Word
           gold == (info.gold + winGold) % Word
           rate == ((100 * win) % Word) \div all
<1>3. level \in LevelsOf(score)
      /\ info' = [info EXCEPT !.gold = gold, !.all = all, !.win = win, !.rate = rate,
                              !.score = score, !.level = level]
  BY <1>2 DEF UpdatePlayerData
<1>4. Word \in Nat \ {0} /\ Words \subseteq Nat
  BY DEF AccountAssumption, Words
<1>5. /\ IsInfo(info) /\ IsInfo(first) /\ info.props = first.props
      /\ info.gold \in Words /\ info.score \in Words /\ info.all \in Words /\ info.win \in Words
      /\ first.gold \in Words /\ first.score \in Words /\ first.all \in Words
      /\ first.win \in Words
  BY DEF AccountInv, IsInfo
<1> DEFINE g0 == first.gold
           s0 == first.score
           n0 == first.all
<1>5a. /\ info.gold \in Nat /\ info.score \in Nat /\ info.all \in Nat /\ info.win \in Nat
       /\ g0 \in Nat /\ s0 \in Nat /\ n0 \in Nat
  BY <1>4, <1>5, Zenon
<1> DEFINE worth == Worth(room, first.props)
<1>6. worth \in Nat /\ Gain = worth
  BY <1>1, <1>5, WorthType, GainIsWorth
<1>7. Won(winGold) \in {0, 1} /\ (Won(winGold) = 1 <=> winGold > 0)
  BY DEF Won
<1>8. gold \in Words /\ all \in Words /\ win \in Words /\ score \in Words
  <2>1. \A x \in Int : x % Word \in Words
    BY <1>4, ModType DEF Words
  <2>2. winGold \in Int /\ Won(winGold) \in Int /\ Gain \in Int /\ 1 \in Int
    BY <1>1, <1>6, <1>7
  <2>3. \A x \in Nat, y \in Int : x + y \in Int
    OBVIOUS
  <2>4. /\ info.gold + winGold \in Int /\ info.all + 1 \in Int
        /\ info.win + Won(winGold) \in Int /\ info.score + Gain \in Int
    BY <1>5a, <2>2, <2>3, Zenon
  <2> QED BY <1>5, <2>1, <2>4
<1> HIDE DEF score, all, win, gold, rate, worth, g0, s0, n0
<1>9. /\ info'.gold = gold /\ info'.all = all /\ info'.win = win /\ info'.score = score
      /\ info'.level = level /\ info'.props = info.props
  BY <1>3, <1>5 DEF IsInfo
<1>10. IsInfo(info)' /\ IsInfo(first)' /\ (info.props = first.props)'
  <2>1. IsInfo(info)'
    <3>1. info' \in [gold : Words, all : Words, win : Words, rate : {rate}, score : Words,
                     level : {level}, props : {info.props}]
      BY <1>3, <1>5, <1>8 DEF IsInfo
    <3>2. info'.rate = rate
      BY <3>1
    <3> QED BY <1>9, <3>1, <3>2 DEF IsInfo
  <2>2. IsInfo(first)'
    BY <1>1, <1>5 DEF IsInfo
  <2> QED BY <1>1, <1>5, <1>9, <2>1, <2>2
<1>11. Reported'
  BY <1>1 DEF Reported
<1>12. GoldIsSum'
  <2>1. info.gold = (g0 + SumOf(counted)) % Word
    BY DEF AccountInv, AccountAddsUp, GoldIsSum, g0
  <2>2. SumOf(counted) \in Int /\ SumOf(counted') = SumOf(counted) + report
    BY <1>1, SumOfAppend
  <2>3. gold = (g0 + SumOf(counted) + report) % Word
    <3>1. g0 + SumOf(counted) \in Int
      BY <1>5a, <2>2
    <3> QED BY <1>1, <1>4, <2>1, <3>1, ModAdd DEF gold
  <2>4. g0 + SumOf(counted) + report = g0 + SumOf(counted')
    BY <1>1, <1>5a, <2>2
  <2>5. info'.gold = (first'.gold + SumOf(counted')) % Word
    BY <1>1, <1>9, <2>3, <2>4 DEF g0
  <2> QED BY <2>5 DEF GoldIsSum
<1>13. ScoreIsEarned'
  <2>1. info.score = (s0 + Wins * worth) % Word
    BY <1>1 DEF AccountInv, AccountAddsUp, ScoreIsEarned, Worth, worth, s0
  <2>2. Wins \in Nat /\ Wins' = Wins + Won(report)
    BY <1>1, WinsOfAppend DEF Wins
  <2>3. score = (s0 + Wins' * worth) % Word
    <3>1. CASE winGold > 0
      <4>1. score = (info.score + worth) % Word
        BY <1>6, <3>1 DEF score
      <4>0. \A n, w \in Nat : n * w \in Nat
        OBVIOUS
      <4>2. s0 + Wins * worth \in Int
        BY <1>6, <1>5a, <2>2, <4>0
      <4>3. score = (s0 + Wins * worth + worth) % Word
        <5> DEFINE x == s0 + Wins * worth
        <5>1. x \in Int /\ worth \in Int /\ score = ((x % Word) + worth) % Word
          BY <1>6, <2>1, <4>1, <4>2
        <5> HIDE DEF x
        <5>2. score = (x + worth) % Word
          BY <1>4, <5>1, ModAdd
        <5> QED BY <5>2 DEF x
      <4>4. \A n, w \in Nat : (n + 1) * w = n * w + w
        OBVIOUS
      <4>5. Wins' * worth = Wins * worth + worth /\ Wins * worth \in Nat
        BY <1>1, <1>6, <1>7, <2>2, <3>1, <4>0, <4>4
      <4>6. s0 + Wins * worth + worth = s0 + Wins' * worth
        BY <1>6, <1>5a, <4>5
      <4> QED BY <4>3, <4>6
    <3>2. CASE ~ (winGold > 0)
      <4>1. Wins' = Wins
        BY <1>1, <1>7, <2>2, <3>2
      <4> QED BY <2>1, <3>2, <4>1 DEF score
    <3> QED BY <3>1, <3>2
  <2>4. info'.score = (first'.score + Wins' * Worth(room', first'.props)) % Word
    BY <1>1, <1>9, <2>3 DEF worth, s0
  <2> QED BY <2>4 DEF ScoreIsEarned, Worth
<1>14. LevelIsRank'
  <2> SUFFICES ASSUME score < LevelTable[Len(LevelTable)]
               PROVE  level = Cardinality({i \in DOMAIN LevelTable : LevelTable[i] <= score})
    BY <1>9 DEF LevelIsRank
  <2> QED BY <1>3, <1>4, <1>8, LevelCounts
<1>15. AisOnlyPlay'
  <2> SUFFICES ASSUME ai
               PROVE  /\ gold = first.gold /\ win = first.win /\ score = first.score
                      /\ all = (first.all + Len(counted')) % Word
    BY <1>1, <1>9 DEF AisOnlyPlay
  <2>1. /\ info.gold = first.gold /\ info.win = first.win /\ info.score = first.score
        /\ info.all = (n0 + Len(counted)) % Word
    BY DEF AccountInv, AccountAddsUp, AisOnlyPlay, n0
  <2>2. winGold = 0 /\ Won(winGold) = 0
    BY <1>1, <1>7 DEF AccountInv, Reported
  <2>3. \A x \in Words : (x + 0) % Word = x
    BY <1>4 DEF Words
  <2>4. gold = first.gold /\ win = first.win /\ score = first.score
    BY <1>5, <2>1, <2>2, <2>3 DEF gold, win, score
  <2>5. Len(counted) \in Nat /\ Len(counted') = Len(counted) + 1
    BY <1>1
  <2>6. all = (n0 + Len(counted) + 1) % Word
    <3>1. n0 + Len(counted) \in Int
      BY <1>5a, <2>5
    <3> DEFINE x == n0 + Len(counted)
    <3>2. x \in Int /\ all = ((x % Word) + 1) % Word
      BY <2>1, <3>1 DEF all
    <3> HIDE DEF x
    <3>3. \A y \in Int : ((x % Word) + y) % Word = (x + y) % Word
      BY <1>4, <3>2, ModAdd
    <3>4. all = (x + 1) % Word
      BY <3>2, <3>3
    <3> QED BY <3>4 DEF x
  <2>7. n0 + Len(counted) + 1 = n0 + Len(counted')
    BY <1>5a, <2>5
  <2> QED BY <2>4, <2>6, <2>7 DEF n0
<1> QED BY <1>1, <1>10, <1>11, <1>12, <1>13, <1>14, <1>15 DEF AccountInv, AccountAddsUp

-----------------------------------------------------------------------------
(* What a round that ends, or nothing at all, leaves as it is.             *)

LEMMA SameAddsUp ==
  ASSUME AccountInv, UNCHANGED <<info, ai, room, first, counted>>, Reported'
  PROVE  AccountInv'
<1>1. AccountAddsUp'
  BY DEF AccountInv, AccountAddsUp, GoldIsSum, ScoreIsEarned, Wins, LevelIsRank, AisOnlyPlay
<1> QED BY <1>1 DEF AccountInv, IsInfo

LEMMA RoundOverKeeps ==
  ASSUME AccountAssumption, AccountInv, RoundOver
  PROVE  AccountInv'
<1>1. room # -1 /\ UNCHANGED <<info, ai, room, first, counted>>
  BY DEF RoundOver
<1>2. Reported'
  <2>1. CASE ~ ai /\ \E g \in Reports : HandleRoundOver(g) /\ report' = g
    BY <1>1, <2>1 DEF HandleRoundOver, AccountInv, Reported, AccountAssumption
  <2>2. CASE ai /\ ~ over /\ EndedByNeighbour /\ UNCHANGED report
    BY <1>1, <2>2 DEF EndedByNeighbour, AccountInv, Reported
  <2> QED BY <2>1, <2>2 DEF RoundOver
<1> QED BY <1>1, <1>2, SameAddsUp

LEMMA AccountStep ==
  ASSUME AccountAssumption, AccountInv, [AccountNext]_accountVars
  PROVE  AccountInv' \/ Fresh'
<1>1. CASE HandlePlayerLogin
  <2>1. PICK i \in Logins, r \in RoomIds : Begins(i, r, FALSE)
    BY <1>1 DEF HandlePlayerLogin
  <2>2. IsInfo(i)
    <3>1. i \in PlayerInfo
      BY DEF AccountAssumption
    <3> QED BY <3>1 DEF PlayerInfo, IsInfo
  <2> QED BY <2>1, <2>2, BeginsFresh
<1>2. CASE GetAiAccount
  <2>1. PICK r \in RoomIds : Begins(ConfigureAi(r), r, TRUE)
    BY <1>2 DEF GetAiAccount
  <2> QED BY <2>1, ConfiguredIsInfo, BeginsFresh
<1>3. CASE RoundOver
  BY <1>3, RoundOverKeeps
<1>4. CASE CheckRoundOver
  BY <1>4, CountKeeps
<1>5. CASE Leave
  <2>1. IsInfo(info')
    BY <1>5, NoInfoIsInfo DEF Leave
  <2> QED BY <1>5, <2>1 DEF Leave, Fresh, IsInfo
<1>6. CASE UNCHANGED accountVars
  <2>1. Reported'
    BY <1>6 DEF accountVars, AccountInv, Reported
  <2> QED BY <1>6, <2>1, SameAddsUp DEF accountVars
<1> QED BY <1>1, <1>2, <1>3, <1>4, <1>5, <1>6 DEF AccountNext

-----------------------------------------------------------------------------
\* The report that waits, the sums, the level and what an AI has, in every state of an
\* account (Player.cpp:412-478).
THEOREM AccountInvariant ==
  ASSUME AccountAssumption
  PROVE  AccountSpec => []AccountInv
<1>1. AccountInit => AccountInv
  <2>1. AccountInit => Fresh
    BY NoInfoIsInfo DEF AccountInit, Fresh
  <2> QED BY <2>1, FreshAddsUp
<1>2. Fresh => AccountInv
  BY FreshAddsUp
<1>3. AccountInv /\ [AccountNext]_accountVars => AccountInv' \/ Fresh'
  BY AccountStep
<1> QED BY <1>1, <1>2, <1>3, PTL DEF AccountSpec

\* Player.cpp:446-478: for a word of any width, any table of levels, rooms and reports, the
\* gold of a player is the sum of the last reports of its rounds, its score that of the
\* rounds won, its level the number of thresholds reached, and an AI wins nothing.
THEOREM AccountsAddUp ==
  ASSUME AccountAssumption
  PROVE  AccountSpec => []AccountAddsUp
<1>1. AccountInv => AccountAddsUp
  BY DEF AccountInv
<1> QED BY <1>1, AccountInvariant, PTL

-----------------------------------------------------------------------------
(* The time of the main loop.                                              *)

\* Nobody sets the clock back, and neither an update nor a sleep takes as long as
\* getMSTime takes to wrap, which is 49 days.
ClockGoesOn ==
  /\ Backs = {} /\ 2 * SleepConst + 1 < Width
  /\ \A t \in Ticks : t < Width
  /\ \A t \in Ticks, l \in Lates : t + l + SleepConst + 1 < Width

\* How far the loop is: what it has read of the clock, how long ago that was, and that the
\* sleep before is within what it has measured, but for the millisecond of a wrap.
LoopInv ==
  /\ clock \in Nat /\ begun \in Nat /\ pc \in {"read", "update", "sleep"}
  /\ prevSleep \in 0 .. SleepConst + 1 /\ begun <= clock
  /\ IF pc = "update" THEN curr = begun % Width ELSE prev = begun % Width
  /\ pc = "read" => clock - begun < Width /\ prevSleep <= clock - begun
  /\ pc = "update" => clock = begun /\ diff \in Nat /\ diff + 1 >= prevSleep
  /\ pc = "sleep" => clock - begun \in Ticks
  /\ toWorld = begun - begun \div Width

\* What the rooms and their timer have, and what is on its way to them.
HandedOn ==
  /\ {clock, prev, curr, diff, prevSleep, current, toWorld, toRooms} \subseteq Int
  /\ toRooms + current = toWorld - (IF pc = "update" THEN diff ELSE 0)

\* While the clock has not wrapped, the difference is the sleep and the work.
Measured ==
  /\ clock <= MaxClock /\ prevSleep <= SleepConst
  /\ pc = "update" => /\ planned = prevSleep /\ work \in Nat
                      /\ diff = work + prevSleep

LEMMA DivMod ==
  ASSUME NEW W \in Nat \ {0}, NEW x \in Nat
  PROVE  /\ x \div W \in Nat /\ x % W \in 0 .. W - 1
         /\ x = W * (x \div W) + (x % W)
OBVIOUS

\* getMSTimeDiff loses a millisecond when the clock has wrapped, and nothing else.
LEMMA DiffLosesWraps ==
  ASSUME WorldLoopAssumption, NEW x \in Nat, NEW y \in Nat, x <= y, y - x < Width
  PROVE  LET d == getMSTimeDiff(x % Width, y % Width)
         IN  d \in Nat /\ d = (y - x) - (y \div Width - x \div Width) /\ d + 1 >= y - x
<1> DEFINE W == Width
           a == x \div W
           r == x % W
           c == y \div W
           s == y % W
<1>1. W \in Nat \ {0}
  BY DEF WorldLoopAssumption
<1>2. a \in Nat /\ r \in 0 .. W - 1 /\ x = W * a + r
  BY <1>1, DivMod
<1>3. c \in Nat /\ s \in 0 .. W - 1 /\ y = W * c + s
  BY <1>1, DivMod
<1>4. x <= y /\ y - x < W
  OBVIOUS
<1>5. getMSTimeDiff(r, s) = IF r > s THEN (W - 1 - r) + s ELSE s - r
  BY DEF getMSTimeDiff
<1> HIDE DEF W, a, r, c, s
<1>6. W * (c - a) = (y - x) + r - s
  <2>1. W * (c - a) = W * c - W * a /\ W * c \in Int /\ W * a \in Int
    BY <1>1, <1>2, <1>3
  <2> QED BY <1>1, <1>2, <1>3, <2>1
<1>7. -W < W * (c - a) /\ W * (c - a) < 2 * W
  BY <1>1, <1>2, <1>3, <1>4, <1>6
<1>8. c - a \in {0, 1}
  <2>1. \A q \in Int : q >= 2 => W * q >= 2 * W
    BY <1>1
  <2>2. \A q \in Int : q <= -1 => W * q <= -W
    BY <1>1
  <2>3. c - a \in Int
    BY <1>2, <1>3
  <2>4. ~ (c - a >= 2) /\ ~ (c - a <= -1)
    BY <1>1, <1>7, <2>1, <2>2, <2>3
  <2> QED BY <2>3, <2>4
<1>9. CASE c - a = 0
  <2>1. W * (c - a) = 0
    BY <1>1, <1>9
  <2>2. y - x = s - r /\ ~ (r > s)
    BY <1>2, <1>3, <1>4, <1>6, <2>1
  <2> QED BY <1>2, <1>3, <1>4, <1>5, <1>9, <2>2 DEF W, a, r, c, s
<1>10. CASE c - a = 1
  <2>1. W * (c - a) = W
    BY <1>1, <1>10
  <2>2. y - x = W + s - r /\ r > s
    BY <1>1, <1>2, <1>3, <1>4, <1>6, <2>1
  <2> QED BY <1>1, <1>2, <1>3, <1>4, <1>5, <1>10, <2>2 DEF W, a, r, c, s
<1> QED BY <1>8, <1>9, <1>10

LEMMA LoopStarts ==
  ASSUME WorldLoopAssumption, Init
  PROVE  LoopInv /\ HandedOn
<1>1. Width \in Nat \ {0} /\ SleepConst \in Nat
  BY DEF WorldLoopAssumption
<1>2. 0 % Width = 0 /\ 0 \div Width = 0
  BY <1>1
<1>3. clock = 0 /\ begun = 0 /\ pc = "read" /\ prev = 0 /\ prevSleep = 0 /\ toWorld = 0
  BY <1>2 DEF Init, getMSTime
<1>4. LoopInv
  BY <1>1, <1>2, <1>3 DEF LoopInv
<1>5. HandedOn
  BY <1>3 DEF Init, HandedOn
<1> QED BY <1>4, <1>5

LEMMA ReadKeeps ==
  ASSUME WorldLoopAssumption, LoopInv, ReadClock
  PROVE  LoopInv' /\ diff' = (clock - begun) - (clock \div Width - begun \div Width)
<1>1. Width \in Nat \ {0}
  BY DEF WorldLoopAssumption
<1>2. /\ clock \in Nat /\ begun \in Nat /\ begun <= clock /\ clock - begun < Width
      /\ prev = begun % Width /\ prevSleep <= clock - begun /\ prevSleep \in 0 .. SleepConst + 1
      /\ toWorld = begun - begun \div Width
  BY DEF LoopInv, ReadClock
<1>3. /\ curr' = clock % Width /\ begun' = clock /\ pc' = "update" /\ prevSleep' = prevSleep
      /\ clock' = clock /\ diff' = getMSTimeDiff(begun % Width, clock % Width)
      /\ toWorld' = toWorld + diff'
  BY <1>2 DEF ReadClock, getMSTime
<1>4. /\ diff' \in Nat /\ diff' = (clock - begun) - (clock \div Width - begun \div Width)
      /\ diff' + 1 >= clock - begun
  BY <1>2, <1>3, DiffLosesWraps
<1>5. clock \div Width \in Nat /\ begun \div Width \in Nat
  BY <1>1, <1>2, DivMod
<1>6. toWorld' = clock - clock \div Width
  BY <1>2, <1>3, <1>4, <1>5
<1>7. diff' + 1 >= prevSleep
  BY <1>2, <1>4
<1> QED BY <1>2, <1>3, <1>4, <1>6, <1>7 DEF LoopInv

LEMMA UpdateKeeps ==
  ASSUME WorldLoopAssumption, ClockGoesOn, LoopInv, NEW t \in Ticks, Update(t)
  PROVE  LoopInv'
<1>1. Width \in Nat \ {0} /\ SleepConst \in Nat /\ t \in Nat /\ t < Width
      /\ 2 * SleepConst + 1 < Width
  BY DEF WorldLoopAssumption, ClockGoesOn
<1>2. /\ pc = "update" /\ clock \in Nat /\ begun = clock /\ curr = begun % Width
      /\ prevSleep \in 0 .. SleepConst + 1 /\ diff \in Nat /\ diff + 1 >= prevSleep
      /\ toWorld = begun - begun \div Width
  BY DEF LoopInv, Update
<1>3. clock' = clock + t /\ prev' = curr /\ begun' = begun /\ toWorld' = toWorld /\ Balance
  BY DEF Update
<1> DEFINE m == (SleepConst + prevSleep) % Width
<1>4. m = SleepConst + prevSleep
  BY <1>1, <1>2
<1>4a. IF diff <= m THEN prevSleep' = m - diff /\ pc' = "sleep" ELSE prevSleep' = 0 /\ pc' = "read"
  BY <1>3 DEF Balance
<1> HIDE DEF m
<1>5. CASE diff <= SleepConst + prevSleep
  <2>1. prevSleep' = SleepConst + prevSleep - diff /\ pc' = "sleep"
    BY <1>1, <1>2, <1>4, <1>4a, <1>5
  <2>2. prevSleep' \in 0 .. SleepConst + 1
    BY <1>1, <1>2, <1>5, <2>1
  <2> QED BY <1>1, <1>2, <1>3, <2>1, <2>2 DEF LoopInv
<1>6. CASE ~ (diff <= SleepConst + prevSleep)
  <2>1. prevSleep' = 0 /\ pc' = "read"
    BY <1>1, <1>2, <1>4, <1>4a, <1>6
  <2> QED BY <1>1, <1>2, <1>3, <2>1 DEF LoopInv
<1> QED BY <1>5, <1>6

LEMMA SleepKeeps ==
  ASSUME WorldLoopAssumption, ClockGoesOn, LoopInv, NEW l \in Lates, Sleep(l)
  PROVE  LoopInv'
<1>1. Width \in Nat \ {0} /\ SleepConst \in Nat /\ l \in Nat /\ Ticks \subseteq Nat
  BY DEF WorldLoopAssumption
<1>2. /\ pc = "sleep" /\ clock \in Nat /\ begun \in Nat /\ begun <= clock /\ prev = begun % Width
      /\ prevSleep \in 0 .. SleepConst + 1 /\ clock - begun \in Ticks
      /\ toWorld = begun - begun \div Width
  BY DEF LoopInv, Sleep
<1>3. /\ clock' = clock + prevSleep + l /\ pc' = "read" /\ prevSleep' = prevSleep
      /\ prev' = prev /\ begun' = begun /\ toWorld' = toWorld
  BY DEF Sleep
<1>4. (clock - begun) + l + SleepConst + 1 < Width
  BY <1>2 DEF ClockGoesOn
<1>5. clock' - begun < Width /\ prevSleep <= clock' - begun /\ begun <= clock' /\ clock' \in Nat
  BY <1>1, <1>2, <1>3, <1>4
<1> QED BY <1>2, <1>3, <1>5 DEF LoopInv

\* Whatever the clock does, what is handed on is what was given.
LEMMA HandingOn ==
  ASSUME WorldLoopAssumption, HandedOn, [Next]_vars
  PROVE  HandedOn'
<1> DEFINE numbers == {clock, prev, curr, diff, prevSleep, current, toWorld, toRooms}
<1>0. Width \in Nat \ {0} /\ SleepConst \in Int /\ Interval \in Int
      /\ \A x \in Int : x % Width \in Int
  <2>1. Width \in Nat \ {0} /\ SleepConst \in Int /\ Interval \in Int
    BY DEF WorldLoopAssumption
  <2>2. \A x \in Int : x % Width \in Int
    BY <2>1
  <2> QED BY <2>1, <2>2
<1>1. CASE ReadClock
  <2>1. getMSTime \in Int
    BY <1>0 DEF getMSTime, HandedOn
  <2>2. diff' \in Int
    BY <1>0, <1>1, <2>1 DEF ReadClock, HandedOn, getMSTimeDiff
  <2> QED BY <1>1, <2>1, <2>2 DEF ReadClock, HandedOn
<1>2. ASSUME NEW t \in Ticks, Update(t)
      PROVE  HandedOn'
  <2>1. t \in Int /\ pc = "update" /\ clock' = clock + t /\ prev' = curr /\ curr' = curr
        /\ diff' = diff /\ toWorld' = toWorld
    BY <1>2 DEF Update, WorldLoopAssumption
  <2>2. prevSleep' \in Int /\ pc' # "update"
    <3>1. (SleepConst + prevSleep) % Width \in Int
      BY <1>0 DEF HandedOn
    <3> QED BY <1>2, <3>1 DEF Update, Balance, HandedOn
  <2>3. toRooms' \in Int /\ current' \in Int /\ toRooms' + current' = toRooms + current + diff
    BY <1>2 DEF Update, UpdateRooms, HandedOn
  <2> QED BY <2>1, <2>2, <2>3 DEF HandedOn
<1>3. ASSUME NEW l \in Lates, Sleep(l)
      PROVE  HandedOn'
  <2>1. l \in Int
    BY DEF WorldLoopAssumption
  <2> QED BY <1>3, <2>1 DEF Sleep, HandedOn
<1>4. ASSUME NEW b \in Backs, SetBack(b)
      PROVE  HandedOn'
  <2>1. b \in Int
    BY DEF WorldLoopAssumption
  <2> QED BY <1>4, <2>1 DEF SetBack, HandedOn
<1>5. CASE UNCHANGED vars
  BY <1>5 DEF vars, HandedOn
<1> QED BY <1>1, <1>2, <1>3, <1>4, <1>5 DEF Next

LEMMA LoopStep ==
  ASSUME WorldLoopAssumption, ClockGoesOn, LoopInv, [Next]_vars
  PROVE  LoopInv'
<1>1. ASSUME NEW b \in Backs
      PROVE  FALSE
  BY DEF ClockGoesOn
<1>2. CASE UNCHANGED vars
  BY <1>2 DEF vars, LoopInv
<1> QED BY <1>1, <1>2, ReadKeeps, UpdateKeeps, SleepKeeps DEF Next

\* The last reading of a clock that does not reach Width.
LEMMA MeasuredStep ==
  ASSUME WorldLoopAssumption, ClockGoesOn, MaxClock < Width, LoopInv, Measured, [Next]_vars
  PROVE  Measured' /\ (SleepBalances \/ UNCHANGED vars)
<1>0. Width \in Nat \ {0} /\ SleepConst \in Nat /\ MaxClock \in Nat /\ Ticks \subseteq Nat
      /\ 2 * SleepConst + 1 < Width /\ MaxClock < Width
  BY DEF WorldLoopAssumption, ClockGoesOn
<1>1. CASE ReadClock
  <2>1. \A x \in Nat : x < Width => x \div Width = 0
    BY <1>0
  <2>2. /\ clock \in Nat /\ begun \in Nat /\ begun <= clock /\ clock <= MaxClock
        /\ prevSleep <= clock - begun /\ prevSleep \in Nat /\ prevSleep <= SleepConst
    BY <1>0, <1>1 DEF LoopInv, ReadClock, Measured
  <2>3. clock \div Width = 0 /\ begun \div Width = 0
    BY <1>0, <2>1, <2>2
  <2>4. diff' = (clock - begun) - (clock \div Width - begun \div Width)
    BY <1>1, ReadKeeps
  <2>5. diff' = clock - begun
    BY <2>2, <2>3, <2>4
  <2>6. planned' = prevSleep /\ prevSleep' = prevSleep /\ clock' = clock
        /\ work' = (clock - begun) - prevSleep /\ pc' = "update"
    BY <1>1 DEF ReadClock
  <2>7. Measured'
    BY <2>2, <2>5, <2>6 DEF Measured
  <2> QED BY <2>6, <2>7 DEF SleepBalances
<1>2. ASSUME NEW t \in Ticks, Update(t)
      PROVE  Measured' /\ SleepBalances
  <2> DEFINE m == (SleepConst + prevSleep) % Width
  <2>1. /\ pc = "update" /\ prevSleep \in Nat /\ prevSleep <= SleepConst /\ work \in Nat
        /\ diff = work + prevSleep
    BY <1>0, <1>2 DEF LoopInv, Update, Measured
  <2>2. m = SleepConst + prevSleep
    BY <1>0, <2>1
  <2>3. IF diff <= m THEN prevSleep' = m - diff /\ pc' = "sleep" ELSE prevSleep' = 0 /\ pc' = "read"
    BY <1>2 DEF Update, Balance
  <2>4. clock' <= MaxClock
    BY <1>2 DEF Update
  <2> HIDE DEF m
  <2>5. prevSleep' = IF work <= SleepConst THEN SleepConst - work ELSE 0
    BY <1>0, <2>1, <2>2, <2>3
  <2>6. prevSleep' <= SleepConst /\ pc' # "update"
    BY <1>0, <2>1, <2>3, <2>5
  <2> QED BY <2>4, <2>5, <2>6 DEF Measured, SleepBalances
<1>3. ASSUME NEW l \in Lates, Sleep(l)
      PROVE  Measured' /\ SleepBalances
  BY <1>3 DEF Sleep, Measured, SleepBalances
<1>4. ASSUME NEW b \in Backs
      PROVE  FALSE
  BY DEF ClockGoesOn
<1>5. CASE UNCHANGED vars
  BY <1>5 DEF vars, Measured
<1> QED BY <1>1, <1>2, <1>3, <1>4, <1>5 DEF Next

-----------------------------------------------------------------------------
\* RoomManager.cpp:49: on any clock, also one that is set back or wraps, the rooms get the
\* time the world was given, interval by interval.
THEOREM RoomsGetAllTime ==
  ASSUME WorldLoopAssumption
  PROVE  Spec => []RoomsGetAll
<1>1. HandedOn => RoomsGetAll
  BY DEF HandedOn, RoomsGetAll
<1>2. Init => HandedOn
  BY LoopStarts
<1>3. HandedOn /\ [Next]_vars => HandedOn'
  BY HandingOn
<1> QED BY <1>1, <1>2, <1>3, PTL DEF Spec

\* Timer.h:33-43: the world is given the time that passes but for a millisecond each time
\* the clock wraps, however long the updates take and the sleeps come late.
THEOREM WrapsLoseOne ==
  ASSUME WorldLoopAssumption, ClockGoesOn
  PROVE  Spec => [](toWorld = begun - begun \div Width)
<1>1. LoopInv => toWorld = begun - begun \div Width
  BY DEF LoopInv
<1>2. Init => LoopInv
  BY LoopStarts
<1>3. LoopInv /\ [Next]_vars => LoopInv'
  BY LoopStep
<1> QED BY <1>1, <1>2, <1>3, PTL DEF Spec

\* Timer.h:33: none is lost before the clock wraps.
THEOREM NoTimeIsLost ==
  ASSUME WorldLoopAssumption, ClockGoesOn, MaxClock < Width
  PROVE  Spec => []TimeAddsUp /\ SleepIsBalanced
<1> DEFINE I == LoopInv /\ Measured
<1>1. Init => I
  <2>1. Init => clock = 0 /\ prevSleep = 0 /\ pc = "read"
    BY DEF Init
  <2> QED BY <2>1, LoopStarts DEF Measured, WorldLoopAssumption
<1>2. I /\ [Next]_vars => I' /\ [SleepBalances]_vars
  BY LoopStep, MeasuredStep
<1>3. I => TimeAddsUp
  <2> SUFFICES ASSUME I PROVE TimeAddsUp
    OBVIOUS
  <2>1. begun \in Nat /\ begun < Width /\ toWorld = begun - begun \div Width
        /\ Width \in Nat \ {0}
    BY DEF LoopInv, Measured, WorldLoopAssumption
  <2>2. begun \div Width = 0
    BY <2>1
  <2> QED BY <2>1, <2>2 DEF TimeAddsUp
<1> QED BY <1>1, <1>2, <1>3, PTL DEF Spec, SleepIsBalanced

-----------------------------------------------------------------------------
(* The timers.                                                             *)

\* What is counted in an int32 is less than 24 days.
FitsInt32 == Start < Half /\ Period < Half /\ \A d \in Steps : d < Half

\* The periodic timer is never before its time, which is Start and then every Period, and
\* it is on time while no step has been longer than the period.
Due == Start + fired * Period - elapsed

TimersInv ==
  /\ TimersTypeOK /\ {intervals, fired, longest, elapsed} \subseteq Nat
  /\ IntervalsAddUp /\ TrackersAgree /\ NeverEarly /\ KeepsPace
  /\ Due <= expire

LEMMA Int32Same ==
  ASSUME TimersAssumption, NEW x \in Int, -Half <= x, x < Half
  PROVE  Int32(x) = x
<1>1. Half \in Nat \ {0}
  BY DEF TimersAssumption
<1> DEFINE W == 2 * Half
           y == x + Half
<1>2. W \in Nat \ {0} /\ y \in 0 .. W - 1
  BY <1>1
<1>3. \A w \in Nat \ {0}, z \in Int : z \in 0 .. w - 1 => (z % w) = z
  OBVIOUS
<1> HIDE DEF W
<1>4. (y % W) = y
  BY <1>1, <1>2, <1>3
<1>5. Int32(x) = (y % W) - Half
  BY DEF Int32, W
<1> QED BY <1>1, <1>4, <1>5

\* The larger of two numbers is one of them and no less than the other.
LEMMA LargerIs ==
  ASSUME NEW a \in Int, NEW b \in Int
  PROVE  Larger(a, b) \in {a, b} /\ Larger(a, b) >= a /\ Larger(a, b) >= b
BY DEF Larger

LEMMA TimersStart ==
  ASSUME TimersAssumption, FitsInt32, TimersInit
  PROVE  TimersInv
<1>1. Start \in Nat \ {0} /\ Period \in Nat \ {0} /\ IntervalTime \in Nat \ {0} /\ Half \in Nat
      /\ Start < Half
  BY DEF TimersAssumption, FitsInt32
<1>2. Int32(Start) = Start
  BY <1>1, Int32Same
<1>3. Larger(Start, Period) \in {Start, Period} /\ Larger(Start, Period) >= Start
  BY <1>1, LargerIs
<1>4. 0 * IntervalTime = 0 /\ 0 * Period = 0
  BY <1>1
<1>5. TimersTypeOK
  BY <1>1, <1>2, <1>3 DEF TimersInit, TimersTypeOK
<1>6. IntervalsAddUp /\ TrackersAgree /\ NeverEarly /\ KeepsPace /\ Due = Start /\ expire = Start
  BY <1>1, <1>2, <1>4 DEF TimersInit, IntervalsAddUp, TrackersAgree, NeverEarly, KeepsPace, Due
<1> QED BY <1>1, <1>5, <1>6 DEF TimersInv, TimersInit

\* An interval takes from what has passed, and leaves the rest.
LEMMA IntervalKeeps ==
  ASSUME TimersAssumption, NEW d \in Nat, intervals \in Nat, tick \in 0 .. IntervalTime - 1,
         elapsed \in Nat, IntervalsAddUp, IntervalUpdate(d), elapsed' = elapsed + d
  PROVE  intervals' \in Nat /\ tick' \in 0 .. IntervalTime - 1 /\ IntervalsAddUp'
<1> DEFINE I == IntervalTime
           now == tick + d
           q == now \div I
           r == now % I
<1>1. I \in Nat \ {0} /\ now \in Nat
  BY DEF TimersAssumption
<1>2. q \in Nat /\ r \in 0 .. I - 1 /\ now = I * q + r
  BY <1>1, DivMod
<1>3. Larger(now, 0) = now
  BY <1>1 DEF Larger
<1>4. IF now >= I THEN tick' = r /\ intervals' = intervals + q
                  ELSE tick' = now /\ intervals' = intervals
  BY <1>3 DEF IntervalUpdate
<1>5. intervals * I + tick = elapsed /\ elapsed' = intervals * I + now
  <2>1. intervals * I \in Int
    BY <1>1
  <2> QED BY <2>1 DEF IntervalsAddUp
<1> HIDE DEF I, now, q, r
<1>6. CASE now >= I
  <2>1. (intervals + q) * I = intervals * I + I * q /\ intervals * I \in Int /\ I * q \in Int
    BY <1>1, <1>2
  <2>2. (intervals + q) * I + r = elapsed'
    BY <1>1, <1>2, <1>5, <2>1
  <2> QED BY <1>2, <1>4, <1>6, <2>2 DEF IntervalsAddUp, I
<1>7. CASE ~ (now >= I)
  <2>1. now \in 0 .. I - 1
    BY <1>1, <1>7
  <2> QED BY <1>4, <1>5, <1>7, <2>1 DEF IntervalsAddUp, I
<1> QED BY <1>6, <1>7

\* What a timer whose expiry is x becomes: it is set again when it has passed.
LEMMA TimerValues ==
  ASSUME TimersAssumption, FitsInt32, NEW d \in Steps, NEW x \in 1 .. Larger(Start, Period)
  PROVE  /\ Int32(x - d) = x - d
         /\ x - d <= 0 =>
              LET e == Extended(x - d, d)
              IN  /\ e \in 1 .. Larger(Start, Period) /\ e >= x - d + Period
                  /\ d <= Period => e = x - d + Period
         /\ x - d > 0 => x - d \in 1 .. Larger(Start, Period)
<1> DEFINE L == Larger(Start, Period)
           m == Larger(Period, d)
<1>1. /\ Start \in Nat \ {0} /\ Period \in Nat \ {0} /\ Half \in Nat /\ d \in Nat
      /\ Start < Half /\ Period < Half /\ d < Half
  BY DEF TimersAssumption, FitsInt32
<1>2. L \in {Start, Period} /\ L >= Start /\ L >= Period
  BY <1>1, LargerIs
<1>3. m \in {Period, d} /\ m >= Period /\ m >= d /\ (d <= Period => m = Period)
  BY <1>1, LargerIs
<1> HIDE DEF L, m
<1>4. L \in Nat /\ L < Half /\ x \in 1 .. L
  BY <1>1, <1>2 DEF L
<1>5. Int32(x - d) = x - d
  <2>1. x - d \in Int /\ -Half <= x - d /\ x - d < Half
    BY <1>1, <1>4
  <2> QED BY <2>1, Int32Same
<1>6. ASSUME x - d <= 0
      PROVE  /\ Extended(x - d, d) = x - d + m /\ x - d + m \in 1 .. L
             /\ x - d + m >= x - d + Period /\ (d <= Period => m = Period)
  <2>1. x - d + m \in 1 .. L
    BY <1>1, <1>2, <1>3, <1>4, <1>6
  <2>2. x - d + m \in Int /\ -Half <= x - d + m /\ x - d + m < Half
    BY <1>1, <1>4, <2>1
  <2>3. Int32(x - d + m) = x - d + m
    BY <2>2, Int32Same
  <2>4. Extended(x - d, d) = x - d + m
    BY <2>3 DEF Extended, m
  <2> QED BY <1>1, <1>3, <1>4, <2>1, <2>4
<1>7. x - d > 0 => x - d \in 1 .. L
  BY <1>1, <1>4
<1> QED BY <1>5, <1>6, <1>7 DEF L

LEMMA TimersStep ==
  ASSUME TimersAssumption, FitsInt32, TimersInv, [TimersNext]_timerVars
  PROVE  TimersInv'
<1>1. CASE UNCHANGED timerVars
  BY <1>1 DEF timerVars, TimersInv, TimersTypeOK, IntervalsAddUp, TrackersAgree, NeverEarly,
              KeepsPace, Due
<1>2. ASSUME NEW d \in Steps, UpdateTimers(d)
      PROVE  TimersInv'
  <2> DEFINE L == Larger(Start, Period)
  <2>1. /\ Start \in Nat \ {0} /\ Period \in Nat \ {0} /\ Half \in Nat /\ d \in Nat
        /\ Start < Half /\ d < Half
    BY DEF TimersAssumption, FitsInt32
  <2>2. /\ tick \in 0 .. IntervalTime - 1 /\ expiry \in 1 .. Start /\ small = expiry
        /\ expire \in 1 .. L /\ tracked = expire
        /\ intervals \in Nat /\ fired \in Nat /\ longest \in Nat /\ elapsed \in Nat
        /\ IntervalsAddUp
    BY DEF TimersInv, TimersTypeOK, TrackersAgree
  <2>3. /\ elapsed' = elapsed + d /\ longest' = Larger(longest, d) /\ IntervalUpdate(d)
        /\ TrackersUpdate(d) /\ PeriodicUpdate(d) /\ TrackerUpdate(d)
    BY <1>2 DEF UpdateTimers
  <2>4. intervals' \in Nat /\ tick' \in 0 .. IntervalTime - 1 /\ IntervalsAddUp'
    BY <2>1, <2>2, <2>3, IntervalKeeps
  <2>5. longest' \in Nat /\ longest' >= d /\ longest' >= longest /\ elapsed' \in Nat
    BY <2>1, <2>2, <2>3, LargerIs
  <2>6. expiry' \in 1 .. Start /\ small' = expiry'
    <3>1. Int32(small - d) = expiry - d
      <4>1. expiry - d \in Int /\ -Half <= expiry - d /\ expiry - d < Half
        BY <2>1, <2>2
      <4> QED BY <2>2, <4>1, Int32Same
    <3>2. Restarted(expiry - d, Start) \in 1 .. Start
      BY <2>1, <2>2 DEF Restarted
    <3>3. Int32(Restarted(expiry - d, Start)) = Restarted(expiry - d, Start)
      <4> DEFINE y == Restarted(expiry - d, Start)
      <4>1. y \in Int /\ -Half <= y /\ y < Half
        BY <2>1, <3>2
      <4> HIDE DEF y
      <4>2. Int32(y) = y
        BY <4>1, Int32Same
      <4> QED BY <4>2 DEF y
    <3>4. expiry' = Restarted(expiry - d, Start) /\ small' = Int32(Restarted(Int32(small - d), Start))
      BY <2>3 DEF TrackersUpdate
    <3> QED BY <3>1, <3>2, <3>3, <3>4
  <2>7. /\ Int32(expire - d) = expire - d
        /\ expire - d <= 0 =>
             LET e == Extended(expire - d, d)
             IN  /\ e \in 1 .. L /\ e >= expire - d + Period
                 /\ d <= Period => e = expire - d + Period
        /\ expire - d > 0 => expire - d \in 1 .. L
    BY <2>2, TimerValues
  <2> DEFINE e == Extended(expire - d, d)
  <2>8. /\ expire' = IF expire - d > 0 THEN expire - d ELSE e
        /\ tracked' = IF expire - d <= 0 THEN e ELSE expire - d
        /\ fired' = IF expire - d > 0 THEN fired ELSE fired + 1
    BY <2>2, <2>3, <2>7 DEF PeriodicUpdate, TrackerUpdate
  <2> HIDE DEF e, L
  <2>9. expire' \in 1 .. L /\ tracked' = expire' /\ fired' \in Nat
    <3>1. expire - d \in Int
      BY <2>1, <2>2
    <3> QED BY <2>2, <2>7, <2>8, <3>1 DEF e
  <2>10. /\ Due' <= expire' /\ NeverEarly' /\ KeepsPace'
    <3>1. /\ Due <= expire
          /\ fired > 0 => elapsed >= Start + (fired - 1) * Period
          /\ longest <= Period => expire = Due
      BY DEF TimersInv, NeverEarly, KeepsPace, Due
    <3> DEFINE f == fired * Period
    <3>2. f \in Int /\ (fired + 1) * Period = f + Period /\ (fired - 1) * Period = f - Period
      BY <2>1, <2>2
    <3>3. expire \in Int /\ elapsed \in Nat
      BY <2>1, <2>2 DEF L, Larger
    <3>4. Due = Start + f - elapsed
      BY DEF Due
    <3> HIDE DEF f
    <3>5. CASE expire - d > 0
      <4>1. fired' = fired /\ expire' = expire - d
        BY <2>8, <3>5
      <4>2. Due' = Start + f - elapsed' /\ (fired' - 1) * Period = f - Period
        BY <3>2, <4>1 DEF Due, f
      <4>3. Due' <= expire'
        BY <2>1, <2>3, <3>1, <3>2, <3>3, <3>4, <4>1, <4>2
      <4>4. NeverEarly'
        <5>1. fired' > 0 => elapsed' >= Start + (fired' - 1) * Period
          BY <2>1, <2>2, <2>3, <3>1, <3>2, <4>1, <4>2
        <5> QED BY <5>1 DEF NeverEarly
      <4>5. KeepsPace'
        <5>1. longest' <= Period => expire' = Start + f - elapsed'
          BY <2>1, <2>2, <2>3, <2>5, <3>1, <3>2, <3>3, <3>4, <4>1
        <5> QED BY <4>1, <5>1 DEF KeepsPace, f
      <4> QED BY <4>3, <4>4, <4>5
    <3>6. CASE ~ (expire - d > 0)
      <4>1. fired' = fired + 1 /\ expire' = e /\ expire - d <= 0
        BY <2>1, <2>8, <3>3, <3>6
      <4>2. Due' = Start + (f + Period) - elapsed' /\ (fired' - 1) * Period = f
        BY <2>2, <3>2, <4>1 DEF Due, f
      <4>3. e \in Int /\ e >= expire - d + Period /\ (d <= Period => e = expire - d + Period)
        BY <2>7, <4>1 DEF e
      <4>4. Due' <= expire'
        BY <2>1, <2>3, <3>1, <3>2, <3>3, <3>4, <4>1, <4>2, <4>3
      <4>5. NeverEarly'
        <5>1. elapsed' >= Start + (fired' - 1) * Period
          BY <2>1, <2>3, <3>1, <3>2, <3>3, <3>4, <4>1, <4>2
        <5> QED BY <5>1 DEF NeverEarly
      <4>6. KeepsPace'
        <5>1. longest' <= Period => expire' = Start + (f + Period) - elapsed'
          BY <2>1, <2>2, <2>3, <2>5, <3>1, <3>2, <3>3, <3>4, <4>1, <4>3
        <5>2. fired' * Period = f + Period
          BY <3>2, <4>1 DEF f
        <5> QED BY <5>1, <5>2 DEF KeepsPace
      <4> QED BY <4>4, <4>5, <4>6
    <3> QED BY <3>5, <3>6
  <2> QED BY <2>2, <2>4, <2>5, <2>6, <2>9, <2>10 DEF TimersInv, TimersTypeOK, TrackersAgree, L
<1> QED BY <1>1, <1>2 DEF TimersNext

\* Timer.h:51-195: for any intervals, periods and steps of time, an IntervalTimer loses no
\* time, the trackers of both widths and the two interfaces of PeriodicTimer agree, and a
\* PeriodicTimer neither fires early nor falls behind without a step longer than its period.
THEOREM TimersKeepTime ==
  ASSUME TimersAssumption, FitsInt32
  PROVE  TimersSpec => [](TimersTypeOK /\ IntervalsAddUp /\ TrackersAgree /\ NeverEarly /\ KeepsPace)
<1>1. TimersInv => TimersTypeOK /\ IntervalsAddUp /\ TrackersAgree /\ NeverEarly /\ KeepsPace
  BY DEF TimersInv
<1>2. TimersInit => TimersInv
  BY TimersStart
<1>3. TimersInv /\ [TimersNext]_timerVars => TimersInv'
  BY TimersStep
<1> QED BY <1>1, <1>2, <1>3, PTL DEF TimersSpec
==============================================================================
