----------------------------- MODULE Hands_proof -----------------------------
(***************************************************************************)
(* That the cards of a table are those of one deck, for a deck of any size *)
(* up to four colours of thirteen ranks with the two jokers, any split of  *)
(* it into hands and base cards, whatever numbers shuffleCard draws,       *)
(* whoever is an AI and whoever leaves.                                    *)
(*                                                                         *)
(* Dealing: the deck stays a rearrangement of the fresh one (WholeDeck),   *)
(* the memory behind the base cards of a hand is clean whenever cards are  *)
(* dealt (CleanEnd), and what was dealt is cut from the deck               *)
(* (DealtFromDeck).  Playing: an array lists the hand of the deal without  *)
(* what was played, in its order (HandsListed), since rearrangeCards takes *)
(* one card out of such a list and keeps it one (RearrangeTakesOut); what  *)
(* a user has sent is still in its hand when the room relays it            *)
(* (MovesReady), and an AI's first card is its own, since nobody is        *)
(* updated with an empty hand (StillIn) and a hand begins with its own     *)
(* cards (AiPlaysItsOwn).                                                  *)
(***************************************************************************)
EXTENDS Hands, TLAPS

Values == 0 .. 62
Statuses == {WAIT, CARDING, CARDED}
HandSize == CardNumber + BaseSize
MemSize == CardNumber + BasicCard

\* Swaps rearrange the deck: no card is lost and none is there twice.
WholeDeck ==
  /\ deck \in [1 .. DeckSize -> Values] /\ IsInjective(deck)
  /\ ToSet(deck) = ToSet(FreshDeck)

\* What follows the base cards in memory when cards are dealt is CARD_TERMINATE, so that
\* the loops over the hand stop after them.
CleanEnd ==
  stage \in {"shuffle", "bid"} =>
    \A p \in Seats : \A i \in HandSize + 1 .. MemSize : mem[p][i] = TERMINATE

\* Where in the deck the i-th card of player p is from.
Place(p, i) == IF i <= CardNumber THEN p * CardNumber + i ELSE 3 * CardNumber + (i - CardNumber)

\* From the deal to the next round the hands are those cut from the deck.
DealtFromDeck ==
  stage # "shuffle" => \A p \in Seats : dealt[p] = [i \in 1 .. HandSize |-> deck[Place(p, i)]]

\* The room updates its three players, one per step of a tick.
InTick == /\ at \in 0 .. 2 /\ order \in [1 .. 3 -> Seats] /\ IsInjective(order)
          /\ stage \in {"shuffle", "bid"} => at = 0

\* The table and its deck.
DeckInv == HandsTypeOK /\ InTick /\ WholeDeck /\ CleanEnd /\ DealtFromDeck

MemValues == Values \union {TERMINATE}

\* Every array of cards has an end, so that no loop over it has left it.
ArraysEnd ==
  /\ mem \in [Seats -> [1 .. MemSize -> MemValues]] /\ \A p \in Seats : Terminated(mem[p])
  /\ outCards \in [Seats -> [1 .. OutSize -> MemValues]] /\ \A p \in Seats : Terminated(outCards[p])
  /\ fault = FALSE

\* The first n places of the array a hold the cards of the set S, in the order of d.
Lists(a, n, S, d) ==
  /\ \A i \in 1 .. n : a[i] # TERMINATE
  /\ a[n + 1] = TERMINATE
  /\ {a[i] : i \in 1 .. n} = S
  /\ \A i, j \in 1 .. n : i < j => Before(d, a[i], a[j])

\* A hand lists what was dealt and has not been played.
HandsListed ==
  stage \in {"bid", "play"} =>
    \A p \in Seats : \E n \in 0 .. HandSize : Lists(mem[p], n, ToSet(dealt[p]) \ played[p], dealt[p])

\* Only cards that a player was dealt, or has as the landlord, are played by it.
OwnPlayed ==
  /\ played \in [Seats -> SUBSET Values]
  /\ stage \in {"shuffle", "bid"} => \A p \in Seats : played[p] = {}
  /\ stage # "shuffle" => \A p \in Seats : played[p] \subseteq Shown(p)

Moves(H) == {<< >>} \union {<<c>> : c \in H} \union {cd \in H \X H : cd[1] # cd[2]}

\* A user's cards that the room has yet to relay are still in its hand.
MovesReady ==
  stage = "play" => \A p \in Seats :
    kind[p] = "user" /\ st[p] = CARDING => \E m \in Moves(HandOf(p)) : outCards[p] = Packed(m)

\* Who has yet to be updated in a tick has cards.
StillIn == stage = "play" /\ at > 0 => \A i \in at + 1 .. 3 : HandOf(order[i]) # {}

PlayInv == ArraysEnd /\ HandsListed /\ OwnPlayed /\ MovesReady /\ StillIn

HandsInv == DeckInv /\ PlayInv

-----------------------------------------------------------------------------
(* Arithmetic of the fresh deck.                                           *)

\* Where a card is in its colour; one case for each number of ranks.
LEMMA DivisionOfIndex ==
  ASSUME NEW n \in Nat, NEW d \in 1 .. 13, NEW c \in 1 .. 4, n < c * d
  PROVE  /\ n \div d \in 0 .. c - 1 /\ n % d \in 0 .. d - 1
         /\ n = d * (n \div d) + (n % d)
<1>1. CASE d = 1 BY <1>1, SMT
<1>2. CASE d = 2 BY <1>2, SMT
<1>3. CASE d = 3 BY <1>3, SMT
<1>4. CASE d = 4 BY <1>4, SMT
<1>5. CASE d = 5 BY <1>5, SMT
<1>6. CASE d = 6 BY <1>6, SMT
<1>7. CASE d = 7 BY <1>7, SMT
<1>8. CASE d = 8 BY <1>8, SMT
<1>9. CASE d = 9 BY <1>9, SMT
<1>10. CASE d = 10 BY <1>10, SMT
<1>11. CASE d = 11 BY <1>11, SMT
<1>12. CASE d = 12 BY <1>12, SMT
<1>13. CASE d = 13 BY <1>13, SMT
<1> QED BY <1>1, <1>2, <1>3, <1>4, <1>5, <1>6, <1>7, <1>8, <1>9, <1>10, <1>11, <1>12, <1>13

\* The deck is three hands and the base cards, which leave room in _baseCards.
LEMMA Sizes ==
  ASSUME HandsAssumption
  PROVE  /\ DeckSize \in Nat /\ CardNumber \in Nat \ {0} /\ BaseSize \in Nat \ {0}
         /\ HandSize \in Nat /\ MemSize \in Nat /\ HandSize < MemSize /\ BasicCard \in Int
         /\ Colors * Ranks \in Nat /\ DeckSize = Colors * Ranks + 2
         /\ DeckSize = 3 * CardNumber + BaseSize /\ HandSize = CardNumber + BaseSize
         /\ MemSize = CardNumber + BasicCard
<1>1. Colors * Ranks \in Nat /\ CardNumber \in Nat \ {0} /\ BasicCard \in Int
  BY DEF HandsAssumption, BaseSize, DeckSize
<1> QED BY <1>1 DEF HandsAssumption, BaseSize, DeckSize, HandSize, MemSize

\* A fresh deck has no card twice, and none of them is CARD_TERMINATE (Room.cpp:296).
LEMMA FreshDeckIsWhole ==
  ASSUME HandsAssumption
  PROVE  FreshDeck \in [1 .. DeckSize -> Values] /\ IsInjective(FreshDeck)
<1> DEFINE CR == Colors * Ranks
<1>1. CR \in Nat /\ DeckSize = CR + 2 /\ DeckSize \in Nat
  BY Sizes
<1>2. Ranks \in 1 .. 13 /\ Colors \in 1 .. 4
  BY DEF HandsAssumption
<1>3. ASSUME NEW i \in 1 .. DeckSize, i <= CR
      PROVE  LET q == (i - 1) \div Ranks
                 r == (i - 1) % Ranks
             IN  /\ FreshDeck[i] = q * 16 + r /\ q \in 0 .. 3 /\ r \in 0 .. 12
                 /\ i - 1 = Ranks * q + r
  <2>1. i - 1 \in Nat /\ i - 1 < Colors * Ranks
    BY <1>1, <1>3
  <2>2. /\ (i - 1) \div Ranks \in 0 .. Colors - 1 /\ (i - 1) % Ranks \in 0 .. Ranks - 1
        /\ i - 1 = Ranks * ((i - 1) \div Ranks) + ((i - 1) % Ranks)
    BY <2>1, <1>2, DivisionOfIndex
  <2>3. FreshDeck[i] = ((i - 1) \div Ranks) * 16 + ((i - 1) % Ranks)
    BY <1>3 DEF FreshDeck
  <2> QED BY <2>2, <2>3, <1>2
<1>4. ASSUME NEW i \in 1 .. DeckSize, ~ (i <= CR)
      PROVE  FreshDeck[i] = 61 + (i - 1 - CR) /\ FreshDeck[i] \in 61 .. 62
  BY <1>1, <1>4 DEF FreshDeck
<1>5. ASSUME NEW i \in 1 .. DeckSize, i <= CR
      PROVE  FreshDeck[i] \in 0 .. 60
  BY <1>3, <1>5
<1>6. FreshDeck \in [1 .. DeckSize -> Values]
  <2>1. \A i \in 1 .. DeckSize : FreshDeck[i] \in Values
    BY <1>4, <1>5 DEF Values
  <2>2. FreshDeck = [i \in 1 .. DeckSize |-> FreshDeck[i]]
    BY DEF FreshDeck
  <2> QED BY <2>1, <2>2
<1>7. ASSUME NEW i \in 1 .. DeckSize, NEW j \in 1 .. DeckSize, FreshDeck[i] = FreshDeck[j]
      PROVE  i = j
  <2>1. CASE i <= CR /\ j <= CR
    <3> DEFINE q == (i - 1) \div Ranks
               r == (i - 1) % Ranks
               u == (j - 1) \div Ranks
               v == (j - 1) % Ranks
    <3>1. FreshDeck[i] = q * 16 + r /\ q \in 0 .. 3 /\ r \in 0 .. 12 /\ i - 1 = Ranks * q + r
      BY <1>3, <2>1
    <3>2. FreshDeck[j] = u * 16 + v /\ u \in 0 .. 3 /\ v \in 0 .. 12 /\ j - 1 = Ranks * u + v
      BY <1>3, <2>1
    <3> HIDE DEF q, r, u, v
    <3>3. q = u /\ r = v
      BY <3>1, <3>2, <1>7
    <3> QED BY <3>1, <3>2, <3>3
  <2>2. CASE i <= CR /\ ~ (j <= CR)
    BY <1>4, <1>5, <1>7, <2>2
  <2>3. CASE ~ (i <= CR) /\ j <= CR
    BY <1>4, <1>5, <1>7, <2>3
  <2>4. CASE ~ (i <= CR) /\ ~ (j <= CR)
    BY <1>1, <1>4, <1>7, <2>4
  <2> QED BY <2>1, <2>2, <2>3, <2>4
<1> QED BY <1>6, <1>7 DEF IsInjective

-----------------------------------------------------------------------------
(* Cards, with Min and SubSeq.                                             *)

\* The loops of OutCardAi stop at the first CARD_TERMINATE (OutCardAI.cpp:15, 52, 63).
LEMMA CardsEndAtTerminate ==
  ASSUME NEW N \in Nat, NEW k \in Nat, k < N, NEW a \in [1 .. N -> Values \union {TERMINATE}],
         \A i \in 1 .. k : a[i] # TERMINATE, a[k + 1] = TERMINATE
  PROVE  Cards(a) = [i \in 1 .. k |-> a[i]]
<1> DEFINE S == {i \in DOMAIN a : a[i] = TERMINATE} \union {Len(a) + 1}
<1>1. DOMAIN a = 1 .. N /\ Len(a) = N
  OBVIOUS
<1>2. k + 1 \in S /\ \A i \in S : i \in Nat /\ k + 1 <= i
  BY <1>1
<1>3. Min(S) \in S /\ \A i \in S : Min(S) <= i
  <2> HIDE DEF S
  <2>1. \E x \in S : \A y \in S : x <= y
    BY <1>2
  <2> QED BY <2>1 DEF Min
<1>4. Min(S) = k + 1
  <2> HIDE DEF S
  <2>1. Min(S) \in Nat /\ Min(S) <= k + 1 /\ k + 1 <= Min(S)
    BY <1>2, <1>3
  <2> QED BY <2>1
<1>5. Cards(a) = SubSeq(a, 1, (k + 1) - 1)
  BY <1>4 DEF Cards
<1>6. SubSeq(a, 1, (k + 1) - 1) = [i \in 1 .. k |-> a[i]]
  <2>1. SubSeq(a, 1, k) = [i \in 1 .. k |-> a[i]]
    BY <1>1
  <2>2. (k + 1) - 1 = k
    OBVIOUS
  <2> QED BY <2>1, <2>2
<1> QED BY <1>5, <1>6

\* What such an array lists is what the loops of OutCardAi read of it.
LEMMA ListedCards ==
  ASSUME NEW N \in Nat, NEW n \in Nat, n < N, NEW a \in [1 .. N -> MemValues], NEW S, NEW d,
         Lists(a, n, S, d)
  PROVE  /\ Cards(a) = [i \in 1 .. n |-> a[i]] /\ Len(Cards(a)) = n /\ DOMAIN Cards(a) = 1 .. n
         /\ ToSet(Cards(a)) = S /\ Terminated(a)
<1>1. /\ \A i \in 1 .. n : a[i] # TERMINATE
      /\ a[n + 1] = TERMINATE /\ {a[i] : i \in 1 .. n} = S
  BY DEF Lists
<1>2. Cards(a) = [i \in 1 .. n |-> a[i]]
  BY <1>1, CardsEndAtTerminate DEF MemValues
<1>3. Len([i \in 1 .. n |-> a[i]]) = n
  OBVIOUS
<1>4. DOMAIN a = 1 .. N /\ n + 1 \in 1 .. N
  OBVIOUS
<1> QED BY <1>1, <1>2, <1>3, <1>4 DEF ToSet, Terminated

\* The cards of a move fit into _outCards, with CARD_TERMINATE behind them.
LEMMA PackedMove ==
  ASSUME HandsAssumption, NEW H \in SUBSET Values, NEW m \in Moves(H)
  PROVE  /\ Packed(m) \in [1 .. OutSize -> MemValues] /\ Terminated(Packed(m))
         /\ Len(Cards(Packed(m))) = Len(m) /\ ToSet(Cards(Packed(m))) = ToSet(m) /\ ToSet(m) \subseteq H
         /\ \A i \in 1 .. Len(m) : Packed(m)[i] = m[i]
         /\ \/ Len(m) = 0 /\ ToSet(m) = {}
            \/ Len(m) = 1 /\ ToSet(m) = {m[1]}
            \/ Len(m) = 2 /\ ToSet(m) = {m[1], m[2]} /\ m[1] # m[2]
<1> DEFINE k == Len(m)
           a == Packed(m)
<1>1. OutSize \in Nat /\ OutSize > 2
  BY Sizes DEF HandsAssumption
<1>2. /\ k \in 0 .. 2 /\ DOMAIN m = 1 .. k /\ \A i \in 1 .. k : m[i] \in H
      /\ \/ k = 0 /\ ToSet(m) = {}
         \/ k = 1 /\ ToSet(m) = {m[1]}
         \/ k = 2 /\ ToSet(m) = {m[1], m[2]} /\ m[1] # m[2]
  <2>1. CASE m = << >>
    BY <2>1 DEF ToSet
  <2>2. CASE \E c \in H : m = <<c>>
    <3>1. PICK c \in H : m = <<c>>
      BY <2>2
    <3> QED BY <3>1 DEF ToSet
  <2>3. CASE \E c, e \in H : m = <<c, e>> /\ c # e
    <3>1. PICK c \in H, e \in H : m = <<c, e>> /\ c # e
      BY <2>3
    <3> QED BY <3>1 DEF ToSet
  <2> QED BY <2>1, <2>2, <2>3 DEF Moves
<1>3. ToSet(m) \subseteq H
  BY <1>2 DEF ToSet
<1>4. a = [i \in 1 .. OutSize |-> IF i <= k THEN m[i] ELSE TERMINATE]
  BY DEF Packed
<1>5. \A i \in 1 .. k : i \in 1 .. OutSize /\ a[i] = m[i] /\ m[i] \in Values /\ m[i] # TERMINATE
  <2>1. \A x \in Values : x # TERMINATE
    BY DEF Values, TERMINATE
  <2> QED BY <1>1, <1>2, <1>4, <2>1
<1> HIDE DEF k, a
<1>6. a \in [1 .. OutSize -> MemValues]
  BY <1>1, <1>2, <1>4, <1>5 DEF MemValues
<1>7. a[k + 1] = TERMINATE /\ k \in Nat /\ k < OutSize
  BY <1>1, <1>2, <1>4
<1>8. Cards(a) = [i \in 1 .. k |-> a[i]]
  <2>1. OutSize \in Nat /\ \A i \in 1 .. k : a[i] # TERMINATE
    BY <1>1, <1>5
  <2>2. a \in [1 .. OutSize -> Values \union {TERMINATE}]
    BY <1>6 DEF MemValues
  <2> QED BY <1>7, <2>1, <2>2, CardsEndAtTerminate
<1>9. Len([i \in 1 .. k |-> a[i]]) = k
  BY <1>7
<1>10. ToSet(Cards(a)) = ToSet(m)
  BY <1>2, <1>5, <1>8 DEF ToSet
<1>11. Terminated(a)
  <2>1. DOMAIN a = 1 .. OutSize /\ k + 1 \in 1 .. OutSize
    BY <1>1, <1>6, <1>7
  <2> QED BY <1>7, <2>1 DEF Terminated
<1> QED BY <1>2, <1>3, <1>5, <1>6, <1>8, <1>9, <1>10, <1>11 DEF k, a

\* rearrangeCards takes the card out and keeps the order of the others (OutCardAI.cpp:60).
LEMMA RearrangeTakesOut ==
  ASSUME NEW N \in Nat, NEW n \in Nat, n < N, NEW a \in [1 .. N -> MemValues], NEW S,
         NEW D \in Nat, NEW d \in [1 .. D -> Values], IsInjective(d),
         Lists(a, n, S, d), NEW c \in S
  PROVE  /\ rearrangeCards(a, c) \in [1 .. N -> MemValues]
         /\ n - 1 \in Nat /\ Lists(rearrangeCards(a, c), n - 1, S \ {c}, d)
<1> DEFINE b == rearrangeCards(a, c)
           K == {i \in 1 .. n + 1 : i = n + 1 \/ a[i] = c}
           k == Min(K)
<1>1. /\ \A i \in 1 .. n : a[i] # TERMINATE
      /\ a[n + 1] = TERMINATE /\ {a[i] : i \in 1 .. n} = S
      /\ \A i, j \in 1 .. n : i < j => Before(d, a[i], a[j])
  BY DEF Lists
<1>2. \A i, j \in 1 .. n : a[i] = a[j] => i = j
  <2> SUFFICES ASSUME NEW i \in 1 .. n, NEW j \in 1 .. n, a[i] = a[j], i < j
               PROVE  FALSE
    <3>1. \A i, j \in 1 .. n : ~ (i < j) /\ ~ (j < i) => i = j
      OBVIOUS
    <3> QED BY <3>1
  <2>1. PICK x \in 1 .. D, y \in 1 .. D : x < y /\ d[x] = a[i] /\ d[y] = a[j]
    BY <1>1 DEF Before
  <2> QED BY <2>1 DEF IsInjective
<1>3. PICK h \in 1 .. n : a[h] = c
  BY <1>1
<1>4. h \in K /\ \A i \in K : i >= h
  BY <1>2, <1>3
<1>5. k = h
  <2> HIDE DEF K
  <2>1. \E x \in K : \A y \in K : x <= y
    BY <1>4
  <2>2. k \in K /\ \A y \in K : k <= y
    BY <2>1 DEF Min
  <2>3. k >= h /\ k <= h
    BY <1>4, <2>2
  <2>4. \A y \in K : y \in Int
    BY DEF K
  <2> QED BY <1>3, <2>2, <2>3, <2>4
<1>6. Len(Cards(a)) = n /\ DOMAIN a = 1 .. N
  BY ListedCards
<1>7. b = [i \in 1 .. N |-> IF i >= h /\ i < n + 1 THEN a[i + 1] ELSE a[i]]
  BY <1>5, <1>6 DEF rearrangeCards
<1> HIDE DEF b, k, K
<1>8. b \in [1 .. N -> MemValues]
  <2>1. \A i \in 1 .. N : i < n + 1 => i + 1 \in 1 .. N
    OBVIOUS
  <2> QED BY <1>7, <2>1
<1>9. n - 1 \in Nat
  BY <1>3
<1> DEFINE From(i) == IF i >= h THEN i + 1 ELSE i
<1>10. /\ \A i \in 1 .. n - 1 : From(i) \in 1 .. n /\ b[i] = a[From(i)] /\ From(i) # h
       /\ \A i, j \in 1 .. n - 1 : i < j => From(i) < From(j)
  BY <1>3, <1>7
<1>11. \A j \in 1 .. n : j # h => \E i \in 1 .. n - 1 : From(i) = j
  <2> SUFFICES ASSUME NEW j \in 1 .. n, j # h PROVE \E i \in 1 .. n - 1 : From(i) = j
    OBVIOUS
  <2>1. CASE j < h
    <3>1. j \in 1 .. n - 1 /\ From(j) = j
      BY <1>3, <2>1
    <3> QED BY <3>1
  <2>2. CASE j > h
    <3>1. j - 1 \in 1 .. n - 1 /\ From(j - 1) = j
      BY <1>3, <2>2
    <3> QED BY <3>1
  <2> QED BY <1>3, <2>1, <2>2
<1>12. b[n] = TERMINATE
  BY <1>1, <1>3, <1>7
<1> HIDE DEF From
<1>13. {b[i] : i \in 1 .. n - 1} = S \ {c}
  <2>1. ASSUME NEW i \in 1 .. n - 1 PROVE b[i] \in S \ {c}
    BY <1>1, <1>2, <1>3, <1>10
  <2>2. ASSUME NEW e \in S \ {c} PROVE \E i \in 1 .. n - 1 : b[i] = e
    <3>1. PICK j \in 1 .. n : a[j] = e
      BY <1>1
    <3>2. PICK i \in 1 .. n - 1 : From(i) = j
      BY <1>3, <1>11, <3>1
    <3> QED BY <1>10, <3>1, <3>2
  <2> QED BY <2>1, <2>2
<1>14. (n - 1) + 1 = n
  OBVIOUS
<1>15. Lists(b, n - 1, S \ {c}, d)
  BY <1>1, <1>10, <1>12, <1>13, <1>14 DEF Lists
<1> QED BY <1>8, <1>9, <1>15 DEF b

\* The loop of updateCardsFace, unrolled for moves of no card, one card and two cards.
LEMMA UpdateUnrolled ==
  ASSUME NEW a, NEW o, Len(Cards(o)) \in 0 .. 2
  PROVE  /\ Len(Cards(o)) = 0 => updateCardsFace(a, o) = a
         /\ Len(Cards(o)) = 1 => updateCardsFace(a, o) = rearrangeCards(a, o[1])
         /\ Len(Cards(o)) = 2 => updateCardsFace(a, o) = rearrangeCards(rearrangeCards(a, o[1]), o[2])
<1> DEFINE k == Len(Cards(o))
           R(x, c) == rearrangeCards(x, c)
           Is(f) == f = [n \in 0 .. k |-> IF n = 0 THEN a ELSE R(f[n - 1], o[n])]
           f == CHOOSE f : Is(f)
           g == [n \in 0 .. k |-> IF n = 0 THEN a ELSE IF n = 1 THEN R(a, o[1]) ELSE R(R(a, o[1]), o[2])]
<1>1. updateCardsFace(a, o) = f[k]
  BY DEF updateCardsFace
<1>2. k \in 0 .. 2
  OBVIOUS
<1> HIDE DEF R, k
<1>3. Is(g)
  <2>1. ASSUME NEW n \in 0 .. k
        PROVE  g[n] = IF n = 0 THEN a ELSE R(g[n - 1], o[n])
    <3>1. n = 0 \/ n = 1 \/ n = 2
      BY <1>2
    <3>2. CASE n = 0 BY <3>2
    <3>3. CASE n = 1
      <4>1. g[1 - 1] = a /\ g[n] = R(a, o[1])
        BY <3>3, <1>2
      <4> QED BY <3>3, <4>1
    <3>4. CASE n = 2
      <4>1. g[2 - 1] = R(a, o[1]) /\ g[n] = R(R(a, o[1]), o[2])
        BY <3>4, <1>2
      <4> QED BY <3>4, <4>1
    <3> QED BY <3>1, <3>2, <3>3, <3>4
  <2> QED BY <2>1
<1> HIDE DEF g
<1>4. Is(f)
  BY <1>3, Zenon
<1> HIDE DEF f
<1>5. f[0] = a
  BY <1>2, <1>4
<1>6. k >= 1 => f[1] = R(a, o[1])
  BY <1>2, <1>4, <1>5
<1>7. k >= 2 => f[2] = R(f[1], o[2])
  BY <1>2, <1>4
<1>8. /\ k = 0 => updateCardsFace(a, o) = a
      /\ k = 1 => updateCardsFace(a, o) = R(a, o[1])
      /\ k = 2 => updateCardsFace(a, o) = R(R(a, o[1]), o[2])
  BY <1>1, <1>5, <1>6, <1>7
<1> QED BY <1>8 DEF k, R

\* Taking a move out of a hand leaves the rest of it, in order (OutCardAI.cpp:45).
LEMMA UpdateTakesOut ==
  ASSUME HandsAssumption, NEW n \in 0 .. HandSize, NEW a \in [1 .. MemSize -> MemValues], NEW S,
         NEW d \in [1 .. HandSize -> Values], IsInjective(d),
         Lists(a, n, S, d), NEW H \in SUBSET Values, H \subseteq S, NEW m \in Moves(H)
  PROVE  /\ updateCardsFace(a, Packed(m)) \in [1 .. MemSize -> MemValues]
         /\ \E k \in 0 .. HandSize : Lists(updateCardsFace(a, Packed(m)), k, S \ ToSet(m), d)
<1> DEFINE o == Packed(m)
           b == rearrangeCards(a, o[1])
           e == rearrangeCards(b, o[2])
<1>1. HandSize \in Nat /\ MemSize \in Nat /\ HandSize < MemSize
  BY Sizes
<1>2. /\ Len(Cards(o)) = Len(m) /\ ToSet(m) \subseteq H
      /\ \A i \in 1 .. Len(m) : o[i] = m[i]
      /\ \/ Len(m) = 0 /\ ToSet(m) = {}
         \/ Len(m) = 1 /\ ToSet(m) = {m[1]}
         \/ Len(m) = 2 /\ ToSet(m) = {m[1], m[2]} /\ m[1] # m[2]
  BY PackedMove
<1> HIDE DEF o
<1>3. /\ Len(m) = 0 => updateCardsFace(a, o) = a
      /\ Len(m) = 1 => updateCardsFace(a, o) = b
      /\ Len(m) = 2 => updateCardsFace(a, o) = e
  <2>1. Len(Cards(o)) \in 0 .. 2
    BY <1>2
  <2> HIDE DEF b, e
  <2>2. /\ Len(Cards(o)) = 0 => updateCardsFace(a, o) = a
        /\ Len(Cards(o)) = 1 => updateCardsFace(a, o) = b
        /\ Len(Cards(o)) = 2 => updateCardsFace(a, o) = e
    BY <2>1, UpdateUnrolled, Zenon DEF b, e
  <2> QED BY <1>2, <2>2
<1>4. CASE Len(m) = 0 /\ ToSet(m) = {}
  <2>1. S \ ToSet(m) = S
    BY <1>4
  <2> QED BY <1>3, <1>4, <2>1 DEF o
<1>5. ASSUME Len(m) \in 1 .. 2
      PROVE  b \in [1 .. MemSize -> MemValues] /\ n - 1 \in Nat /\ Lists(b, n - 1, S \ {m[1]}, d)
  <2>1. o[1] = m[1] /\ m[1] \in S
    BY <1>2, <1>5
  <2>2. n \in Nat /\ n < MemSize
    BY <1>1
  <2>3. /\ rearrangeCards(a, m[1]) \in [1 .. MemSize -> MemValues]
        /\ n - 1 \in Nat /\ Lists(rearrangeCards(a, m[1]), n - 1, S \ {m[1]}, d)
    BY <1>1, <2>1, <2>2, RearrangeTakesOut
  <2> QED BY <2>1, <2>3
<1>6. CASE Len(m) = 1 /\ ToSet(m) = {m[1]}
  <2>1. b \in [1 .. MemSize -> MemValues] /\ n - 1 \in Nat /\ Lists(b, n - 1, S \ {m[1]}, d)
    BY <1>5, <1>6
  <2>2. n - 1 \in 0 .. HandSize /\ updateCardsFace(a, o) = b
    BY <1>1, <1>3, <1>6, <2>1
  <2> QED BY <1>6, <2>1, <2>2 DEF o
<1>7. CASE Len(m) = 2 /\ ToSet(m) = {m[1], m[2]} /\ m[1] # m[2]
  <2>1. b \in [1 .. MemSize -> MemValues] /\ n - 1 \in Nat /\ Lists(b, n - 1, S \ {m[1]}, d)
    BY <1>5, <1>7
  <2>2. o[2] = m[2] /\ m[2] \in S \ {m[1]}
    BY <1>2, <1>7
  <2> HIDE DEF b
  <2>3. /\ e \in [1 .. MemSize -> MemValues]
        /\ (n - 1) - 1 \in Nat /\ Lists(e, (n - 1) - 1, (S \ {m[1]}) \ {m[2]}, d)
    <3>1. n - 1 < MemSize
      BY <1>1
    <3>2. /\ rearrangeCards(b, m[2]) \in [1 .. MemSize -> MemValues]
          /\ (n - 1) - 1 \in Nat
          /\ Lists(rearrangeCards(b, m[2]), (n - 1) - 1, (S \ {m[1]}) \ {m[2]}, d)
      <4> DEFINE l == n - 1
      <4>1. l \in Nat /\ l < MemSize /\ Lists(b, l, S \ {m[1]}, d)
        BY <2>1, <3>1
      <4> HIDE DEF l
      <4>2. /\ rearrangeCards(b, m[2]) \in [1 .. MemSize -> MemValues]
            /\ l - 1 \in Nat
            /\ Lists(rearrangeCards(b, m[2]), l - 1, (S \ {m[1]}) \ {m[2]}, d)
        BY <1>1, <2>1, <2>2, <4>1, RearrangeTakesOut
      <4> QED BY <4>2 DEF l
    <3> QED BY <2>2, <3>2
  <2>4. (S \ {m[1]}) \ {m[2]} = S \ ToSet(m)
    BY <1>7
  <2>5. (n - 1) - 1 \in 0 .. HandSize /\ updateCardsFace(a, o) = e
    BY <1>1, <1>3, <1>7, <2>3 DEF b
  <2> QED BY <2>3, <2>4, <2>5 DEF o
<1> QED BY <1>2, <1>4, <1>6, <1>7

-----------------------------------------------------------------------------
(* The steps that touch the deck or the hands.                             *)

\* One turn of the loop of shuffleCard exchanges two cards.
LEMMA SwapKeepsDeck ==
  ASSUME HandsAssumption, WholeDeck, idx \in 0 .. DeckSize, NEW r \in Rands, Swap(r)
  PROVE  WholeDeck'
<1>1. DeckSize \in Nat /\ r \in 0 .. DeckSize - 1 /\ idx < DeckSize
  BY Sizes DEF HandsAssumption, Swap
<1> DEFINE i == idx + 1
           j == r + 1
<1>2. i \in 1 .. DeckSize /\ j \in 1 .. DeckSize
  BY <1>1
<1>3. deck' = [deck EXCEPT ![i] = deck[j], ![j] = deck[i]]
  BY DEF Swap
<1>4. /\ deck \in [1 .. DeckSize -> Values] /\ ToSet(deck) = ToSet(FreshDeck)
      /\ \A x, y \in 1 .. DeckSize : deck[x] = deck[y] => x = y
  BY DEF WholeDeck, IsInjective
<1> HIDE DEF i, j
<1> DEFINE To(x) == IF x = j THEN i ELSE IF x = i THEN j ELSE x
<1>5. /\ deck' \in [1 .. DeckSize -> Values]
      /\ \A x \in 1 .. DeckSize : To(x) \in 1 .. DeckSize /\ deck'[x] = deck[To(x)]
  BY <1>2, <1>3, <1>4
<1>6. \A x, y \in 1 .. DeckSize : To(x) = To(y) => x = y
  OBVIOUS
<1>7. \A x \in 1 .. DeckSize : To(To(x)) = x
  OBVIOUS
<1> HIDE DEF To
<1>8. IsInjective(deck')
  BY <1>4, <1>5, <1>6 DEF IsInjective
<1>9. ToSet(deck') = ToSet(deck)
  <2>1. \A c \in ToSet(deck') : c \in ToSet(deck)
    BY <1>4, <1>5 DEF ToSet
  <2>2. \A c \in ToSet(deck) : c \in ToSet(deck')
    <3> SUFFICES ASSUME NEW x \in 1 .. DeckSize PROVE deck[x] \in ToSet(deck')
      BY <1>4 DEF ToSet
    <3>1. deck[x] = deck'[To(x)] /\ To(x) \in 1 .. DeckSize
      BY <1>5, <1>7
    <3> QED BY <3>1, <1>5 DEF ToSet
  <2> QED BY <2>1, <2>2
<1> QED BY <1>4, <1>5, <1>8, <1>9 DEF WholeDeck

\* A place of a hand is a place of the deck, and only the base cards are in two hands.
LEMMA Places ==
  ASSUME HandsAssumption, NEW p \in Seats, NEW i \in 1 .. HandSize
  PROVE  /\ Place(p, i) \in 1 .. DeckSize
         /\ i <= CardNumber => Place(p, i) \in p * CardNumber + 1 .. (p + 1) * CardNumber
         /\ i > CardNumber => Place(p, i) \in 3 * CardNumber + 1 .. DeckSize
<1>1. p = 0 \/ p = 1 \/ p = 2
  BY DEF Seats
<1>2. CASE p = 0 BY <1>2, Sizes DEF Place
<1>3. CASE p = 1 BY <1>3, Sizes DEF Place
<1>4. CASE p = 2 BY <1>4, Sizes DEF Place
<1> QED BY <1>1, <1>2, <1>3, <1>4

\* Room::dealCards: what a player is dealt is what its places in the deck hold.
LEMMA DealCutsTheDeck ==
  ASSUME HandsAssumption, DeckInv, Deal
  PROVE  /\ DealtFromDeck' /\ CleanEnd'
         /\ \A p \in Seats : /\ mem'[p] \in [1 .. MemSize -> MemValues]
                             /\ dealt'[p] \in [1 .. HandSize -> Values]
                             /\ Lists(mem'[p], HandSize, ToSet(dealt'[p]), dealt'[p])
<1>1. deck \in [1 .. DeckSize -> Values] /\ deck' = deck /\ stage = "shuffle" /\ stage' = "bid"
  BY DEF DeckInv, WholeDeck, Deal
<1>2. /\ HandSize \in Nat /\ MemSize \in Nat /\ HandSize < MemSize /\ CardNumber \in Nat /\ BaseSize \in Nat
      /\ HandSize = CardNumber + BaseSize /\ MemSize = CardNumber + BasicCard
      /\ DeckSize = 3 * CardNumber + BaseSize
  BY Sizes
<1>3. ASSUME NEW p \in Seats
      PROVE  /\ mem'[p] = [i \in 1 .. MemSize |-> mem'[p][i]]
             /\ \A i \in 1 .. HandSize : mem'[p][i] = deck[Place(p, i)]
             /\ \A i \in HandSize + 1 .. MemSize : mem'[p][i] = TERMINATE
  <2>1. mem'[p] = DealtTo(p)
    BY DEF Deal
  <2>2. mem'[p] = [i \in 1 .. MemSize |->
                     IF i <= CardNumber THEN deck[p * CardNumber + i]
                     ELSE IF i <= CardNumber + BaseSize THEN deck[3 * CardNumber + (i - CardNumber)]
                     ELSE mem[p][i]]
    BY <2>1, <1>2 DEF DealtTo
  <2>3. \A i \in 1 .. HandSize : mem'[p][i] = deck[Place(p, i)]
    BY <2>2, <1>2 DEF Place
  <2>4. \A i \in HandSize + 1 .. MemSize : mem'[p][i] = mem[p][i]
    BY <2>2, <1>2
  <2>5. \A i \in HandSize + 1 .. MemSize : mem[p][i] = TERMINATE
    BY <1>1 DEF DeckInv, CleanEnd
  <2> QED BY <2>2, <2>3, <2>4, <2>5
<1>4. ASSUME NEW p \in Seats
      PROVE  dealt'[p] = [i \in 1 .. HandSize |-> deck'[Place(p, i)]]
  <2> DEFINE a == mem'[p]
  <2>0. HandSize + 1 \in HandSize + 1 .. MemSize
    BY <1>2
  <2>1. a = [i \in 1 .. MemSize |-> a[i]] /\ a[HandSize + 1] = TERMINATE
    BY <1>3, <2>0
  <2>2. \A i \in 1 .. HandSize : a[i] = deck[Place(p, i)] /\ a[i] # TERMINATE
    <3> SUFFICES ASSUME NEW i \in 1 .. HandSize
                 PROVE  a[i] = deck[Place(p, i)] /\ a[i] # TERMINATE
      OBVIOUS
    <3>1. Place(p, i) \in 1 .. DeckSize
      BY Places
    <3>2. a[i] = deck[Place(p, i)]
      BY <1>3
    <3>3. deck[Place(p, i)] \in 0 .. 62
      BY <3>1, <1>1 DEF Values
    <3> QED BY <3>2, <3>3 DEF TERMINATE
  <2>3. dealt'[p] = Cards(a)
    BY DEF Deal
  <2> HIDE DEF a
  <2>4. Cards(a) = [i \in 1 .. HandSize |-> a[i]]
    <3>1. \A i \in 1 .. HandSize : a[i] # TERMINATE
      BY <2>2
    <3>2. a \in [1 .. MemSize -> Values \union {TERMINATE}]
      <4>1. \A i \in 1 .. HandSize : a[i] \in Values
        BY <2>2, <1>1, Places
      <4>2. \A i \in 1 .. MemSize : i \in 1 .. HandSize \/ i \in HandSize + 1 .. MemSize
        BY <1>2
      <4>3. \A i \in HandSize + 1 .. MemSize : a[i] = TERMINATE
        BY <1>3 DEF a
      <4>4. \A i \in 1 .. MemSize : a[i] \in Values \union {TERMINATE}
        BY <4>1, <4>2, <4>3
      <4> QED BY <4>4, <2>1
    <3>3. HandSize \in Nat /\ MemSize \in Nat /\ HandSize < MemSize /\ a[HandSize + 1] = TERMINATE
      BY <1>2, <2>1
    <3> QED BY <3>1, <3>2, <3>3, CardsEndAtTerminate, Zenon
  <2> QED BY <2>2, <2>3, <2>4, <1>1
<1>5. ASSUME NEW p \in Seats
      PROVE  /\ mem'[p] \in [1 .. MemSize -> MemValues]
             /\ dealt'[p] \in [1 .. HandSize -> Values]
             /\ Lists(mem'[p], HandSize, ToSet(dealt'[p]), dealt'[p])
  <2> DEFINE a == mem'[p]
             d == dealt'[p]
  <2>0. /\ d = [i \in 1 .. HandSize |-> deck[Place(p, i)]]
        /\ a = [i \in 1 .. MemSize |-> a[i]] /\ \A i \in 1 .. HandSize : a[i] = deck[Place(p, i)]
        /\ \A i \in HandSize + 1 .. MemSize : a[i] = TERMINATE
    <3>1. dealt'[p] = [i \in 1 .. HandSize |-> deck[Place(p, i)]]
      BY <1>1, <1>4
    <3> QED BY <1>3, <3>1
  <2> HIDE DEF a, d
  <2>1. d \in [1 .. HandSize -> Values]
    <3>1. \A i \in 1 .. HandSize : Place(p, i) \in 1 .. DeckSize
      BY Places
    <3> QED BY <1>1, <2>0, <3>1
  <2>2. (\A i \in 1 .. HandSize : a[i] = d[i]) /\ \A i \in HandSize + 1 .. MemSize : a[i] = TERMINATE
    BY <2>0
  <2>3. \A i \in 1 .. MemSize : a[i] \in MemValues
    <3>1. \A i \in 1 .. MemSize : i \in 1 .. HandSize \/ i \in HandSize + 1 .. MemSize
      BY <1>2
    <3> QED BY <2>1, <2>2, <3>1 DEF MemValues
  <2>4. a \in [1 .. MemSize -> MemValues]
    BY <2>0, <2>3
  <2>5. \A i \in 1 .. HandSize : a[i] # TERMINATE
    <3>1. \A x \in Values : x # TERMINATE
      BY DEF Values, TERMINATE
    <3> QED BY <2>1, <2>2, <3>1
  <2>6. a[HandSize + 1] = TERMINATE
    BY <1>2, <2>2
  <2>7. {a[i] : i \in 1 .. HandSize} = ToSet(d)
    BY <2>1, <2>2 DEF ToSet
  <2>8. \A i, j \in 1 .. HandSize : i < j => Before(d, a[i], a[j])
    BY <2>1, <2>2 DEF Before
  <2> QED BY <2>1, <2>4, <2>5, <2>6, <2>7, <2>8 DEF Lists, a, d
<1> QED BY <1>1, <1>3, <1>4, <1>5 DEF DealtFromDeck, CleanEnd

-----------------------------------------------------------------------------
(* The statuses of the three while cards are played.                       *)

AllStatuses == Statuses \union {WAIT + LEAVING, CARDING + LEAVING, CARDED + LEAVING}

\* Neighbours sit at the table.
LEMMA SeatsOfTable ==
  ASSUME NEW p \in Seats
  PROVE  Left(p) \in Seats /\ Right(p) \in Seats
<1>1. p = 0 \/ p = 1 \/ p = 2
  BY DEF Seats
<1> QED BY <1>1 DEF Seats, Left, Right

\* Settling and telling the right neighbour writes no status of somebody who leaves.
LEMMA StatusesStay ==
  ASSUME NEW s \in [Seats -> AllStatuses], NEW p \in Seats, s[p] \in Statuses,
         NEW k \in [Seats -> {"user", "ai"}],
         \A q \in Seats : s[q] >= LEAVING => k[q] = "user"
  PROVE  /\ Settled(s, p) \in [Seats -> AllStatuses]
         /\ Settled(s, p)[p] \in Statuses
         /\ \A q \in Seats : Settled(s, p)[q] >= LEAVING => k[q] = "user" /\ q # p
<1>1. /\ Settled(s, p) \in [Seats -> AllStatuses] /\ Settled(s, p)[p] \in Statuses
      /\ \A q \in Seats \ {p} : Settled(s, p)[q] = s[q]
  BY DEF Settled, Statuses, AllStatuses, WAIT, CARDING, CARDED, LEAVING
<1>2. \A x \in Statuses : ~ (x >= LEAVING)
  BY DEF Statuses, WAIT, CARDING, CARDED, LEAVING
<1> QED BY <1>1, <1>2

\* Only an AI is told by a status that it is its turn (Player.cpp:387).
LEMMA TellingStays ==
  ASSUME NEW s \in [Seats -> AllStatuses], NEW p \in Seats,
         \A q \in Seats \ {p} : s[q] >= LEAVING => kind[q] = "user"
  PROVE  /\ TellRight(s, p) \in [Seats -> AllStatuses] /\ TellRight(s, p)[p] \in Statuses
         /\ \A q \in Seats \ {p} : TellRight(s, p)[q] >= LEAVING => kind[q] = "user"
<1>1. Right(p) \in Seats /\ Right(p) # p
  <2>1. p = 0 \/ p = 1 \/ p = 2
    BY DEF Seats
  <2> QED BY <2>1, SeatsOfTable DEF Right
<1>2. \A x \in Statuses : ~ (x >= LEAVING)
  BY DEF Statuses, WAIT, CARDING, CARDED, LEAVING
<1>3. CARDED \in Statuses /\ CARDING \in Statuses /\ Statuses \subseteq AllStatuses
  BY DEF Statuses, AllStatuses
<1> DEFINE t == [s EXCEPT ![p] = CARDED]
<1>4. t \in [Seats -> AllStatuses] /\ t[p] = CARDED /\ \A q \in Seats \ {p} : t[q] = s[q]
  BY <1>3
<1> HIDE DEF t
<1>5. TellRight(s, p) = IF kind[Right(p)] = "ai" THEN [t EXCEPT ![Right(p)] = CARDING] ELSE t
  BY DEF TellRight, t
<1>6. CASE kind[Right(p)] = "ai"
  <2>1. /\ TellRight(s, p) \in [Seats -> AllStatuses] /\ TellRight(s, p)[p] = CARDED
        /\ TellRight(s, p)[Right(p)] = CARDING
        /\ \A q \in Seats \ {p, Right(p)} : TellRight(s, p)[q] = s[q]
    BY <1>1, <1>3, <1>4, <1>5, <1>6
  <2> QED BY <2>1, <1>2, <1>3
<1>7. CASE kind[Right(p)] # "ai"
  BY <1>2, <1>3, <1>4, <1>5, <1>7
<1> QED BY <1>6, <1>7

\* checkOutCard, by a player that does not leave or by the AI that takes its seat.
LEMMA CheckOutCardTypes ==
  ASSUME HandsAssumption, HandsTypeOK, NEW p \in Seats, NEW k \in {"user", "ai"},
         NEW s \in Statuses, CheckOutCard(p, k, s), kind' = [kind EXCEPT ![p] = k]
  PROVE  /\ kind' \in [Seats -> {"user", "ai"}] /\ st' \in [Seats -> AllStatuses]
         /\ \A q \in Seats : st'[q] >= LEAVING => kind'[q] = "user"
         /\ ctype' \in [Seats -> {PASS, SINGLE, PAIR}] /\ delay' \in [Seats -> 0 .. AiDelay]
         /\ last' \in Seats \union {Nobody} /\ passes' \in 0 .. 2
<1> USE DEF Nobody
<1>1. /\ kind \in [Seats -> {"user", "ai"}] /\ st \in [Seats -> AllStatuses]
      /\ \A q \in Seats : st[q] >= LEAVING => kind[q] = "user"
      /\ ctype \in [Seats -> {PASS, SINGLE, PAIR}] /\ delay \in [Seats -> 0 .. AiDelay]
      /\ last \in Seats \union {3} /\ passes \in 0 .. 2
  BY DEF HandsTypeOK, AllStatuses, Statuses
<1>2. kind' \in [Seats -> {"user", "ai"}] /\ \A q \in Seats \ {p} : kind'[q] = kind[q]
  BY <1>1
<1>3. AiDelay \in Nat
  BY DEF HandsAssumption
<1> DEFINE s2 == [st EXCEPT ![p] = IF AiFollows(p, k, s) THEN CARDING ELSE s]
<1>4. CARDING \in Statuses /\ Statuses \subseteq AllStatuses /\ \A x \in Statuses : ~ (x >= LEAVING)
  BY DEF Statuses, AllStatuses, WAIT, CARDING, CARDED, LEAVING
<1>5. /\ s2 \in [Seats -> AllStatuses] /\ s2[p] \in Statuses
      /\ \A q \in Seats \ {p} : s2[q] = st[q]
  BY <1>1, <1>4
<1>6. \A q \in Seats \ {p} : s2[q] >= LEAVING => kind[q] = "user"
  BY <1>1, <1>5
<1>7. \A q \in Seats : s2[q] >= LEAVING => kind'[q] = "user"
  BY <1>2, <1>4, <1>5, <1>6
<1> DEFINE puts == s2[p] = CARDING /\ ~ (k = "ai" /\ Waited(p) > 0)
<1>8. CASE puts
  <2> PICK o, c : c \in {PASS, SINGLE, PAIR} /\ PutDown(p, o, c, s2)
    <3> DEFINE Puts(o, c) == PutDown(p, o, c, s2)
    <3>1. IF k = "ai" THEN Puts(AiOut(p), IF AiLeads(p) THEN SINGLE ELSE PASS) ELSE Puts(outCards[p], ctype[p])
      BY <1>8 DEF CheckOutCard
    <3> HIDE DEF Puts
    <3>2. \E o, c : c \in {PASS, SINGLE, PAIR} /\ Puts(o, c)
      <4>1. CASE k = "ai"
        <5> DEFINE c == IF AiLeads(p) THEN SINGLE ELSE PASS
        <5>1. c \in {PASS, SINGLE, PAIR} /\ Puts(AiOut(p), c)
          BY <3>1, <4>1
        <5> QED BY <5>1
      <4>2. CASE k # "ai"
        BY <1>1, <3>1, <4>2
      <4> QED BY <4>1, <4>2
    <3> QED BY <3>2 DEF Puts
  <2>1. delay' = [delay EXCEPT ![p] = IF k = "ai" THEN AiDelay ELSE @]
    BY <1>8 DEF CheckOutCard
  <2>2. delay' \in [Seats -> 0 .. AiDelay]
    BY <2>1, <1>1, <1>3
  <2> HIDE DEF s2
  <2> DEFINE t == TellRight(s2, p)
  <2>3. /\ t \in [Seats -> AllStatuses] /\ t[p] \in Statuses
        /\ \A q \in Seats \ {p} : t[q] >= LEAVING => kind[q] = "user"
    BY <1>5, <1>6, TellingStays
  <2>4. \A q \in Seats : t[q] >= LEAVING => kind'[q] = "user"
    BY <2>3, <1>2, <1>4
  <2>5. st' = Settled(t, p)
    BY DEF PutDown
  <2> HIDE DEF t
  <2>6. st' \in [Seats -> AllStatuses] /\ \A q \in Seats : st'[q] >= LEAVING => kind'[q] = "user"
    BY <2>3, <2>4, <2>5, <1>2, StatusesStay
  <2>7. ctype' = [ctype EXCEPT ![p] = c] /\ last' = p /\ passes' = IF c = PASS THEN Min({passes + 1, 2}) ELSE 0
    BY DEF PutDown
  <2>8. Min({passes + 1, 2}) \in 0 .. 2
    <3>1. \E x \in {passes + 1, 2} : \A y \in {passes + 1, 2} : x <= y
      BY <1>1
    <3>2. Min({passes + 1, 2}) \in {passes + 1, 2} /\ Min({passes + 1, 2}) <= 2
      BY <3>1 DEF Min
    <3> QED BY <3>2, <1>1
  <2> QED BY <2>2, <2>6, <2>7, <2>8, <1>1, <1>2
<1>9. CASE ~ puts
  <2>1. /\ st' = Settled(s2, p) /\ delay' = [delay EXCEPT ![p] = Waited(p)]
        /\ UNCHANGED <<ctype, last, passes>>
    BY <1>9 DEF CheckOutCard
  <2>2. Waited(p) \in 0 .. AiDelay
    BY <1>1, <1>3 DEF Waited
  <2> HIDE DEF s2
  <2>3. st' \in [Seats -> AllStatuses] /\ \A q \in Seats : st'[q] >= LEAVING => kind'[q] = "user"
    BY <2>1, <1>2, <1>5, <1>7, StatusesStay
  <2> QED BY <2>1, <2>2, <2>3, <1>1, <1>2
<1> QED BY <1>8, <1>9

\* Player::UpdatePlayer.
LEMMA UpdateTypes ==
  ASSUME HandsAssumption, HandsTypeOK, NEW p \in Seats, UpdatePlayer(p), UNCHANGED <<idx, lord>>, stage = "play"
  PROVE  HandsTypeOK' /\ stage' \in {"play", "over"}
<1>1. /\ kind \in [Seats -> {"user", "ai"}] /\ st \in [Seats -> AllStatuses]
      /\ \A q \in Seats : st[q] >= LEAVING => kind[q] = "user"
  BY DEF HandsTypeOK, AllStatuses, Statuses
<1>2. ASSUME UNCHANGED stage,
             NEW k \in {"user", "ai"}, NEW s \in Statuses, CheckOutCard(p, k, s), kind' = [kind EXCEPT ![p] = k]
      PROVE  HandsTypeOK' /\ stage' = "play"
  BY <1>2, CheckOutCardTypes DEF HandsTypeOK, AllStatuses, Statuses
<1>3. CASE st[p] < LEAVING
  <2>1. st[p] \in Statuses
    BY <1>1, <1>3 DEF AllStatuses, Statuses, WAIT, CARDING, CARDED, LEAVING
  <2>2. CheckOutCard(p, kind[p], st[p]) /\ UNCHANGED <<kind, stage>>
    BY <1>3 DEF UpdatePlayer
  <2>3. kind' = [kind EXCEPT ![p] = kind[p]] /\ kind[p] \in {"user", "ai"}
    BY <2>2, <1>1
  <2> QED BY <1>2, <2>1, <2>2, <2>3
<1>4. CASE ~ (st[p] < LEAVING) /\ "user" \in {kind[Left(p)], kind[Right(p)]}
  <2>1. st[p] % LEAVING \in Statuses
    BY <1>1, <1>4 DEF AllStatuses, Statuses, WAIT, CARDING, CARDED, LEAVING
  <2>2. kind' = [kind EXCEPT ![p] = "ai"] /\ CheckOutCard(p, "ai", st[p] % LEAVING) /\ UNCHANGED stage
    BY <1>4 DEF UpdatePlayer
  <2> QED BY <1>2, <2>1, <2>2
<1>5. CASE ~ (st[p] < LEAVING) /\ "user" \notin {kind[Left(p)], kind[Right(p)]}
  <2>1. stage' = "over" /\ UNCHANGED <<st, kind, delay, ctype, last, passes>>
    BY <1>5 DEF UpdatePlayer
  <2> QED BY <2>1 DEF HandsTypeOK
<1> QED BY <1>3, <1>4, <1>5

-----------------------------------------------------------------------------
(* Hands while cards are played.                                           *)

\* A hand is dealt no card twice, and its client shows a part of it.
LEMMA HandFacts ==
  ASSUME HandsAssumption, HandsInv, stage # "shuffle", NEW p \in Seats
  PROVE  /\ dealt[p] \in [1 .. HandSize -> Values] /\ IsInjective(dealt[p])
         /\ \A i \in 1 .. HandSize : dealt[p][i] = deck[Place(p, i)]
         /\ Shown(p) \subseteq ToSet(dealt[p]) /\ Shown(p) \in SUBSET Values
         /\ HandOf(p) \in SUBSET Values /\ HandOf(p) \subseteq ToSet(dealt[p]) \ played[p]
<1>1. /\ HandSize \in Nat /\ CardNumber \in Nat \ {0} /\ BaseSize \in Nat \ {0}
      /\ HandSize = CardNumber + BaseSize
  BY Sizes
<1>2. dealt[p] = [i \in 1 .. HandSize |-> deck[Place(p, i)]]
  BY DEF HandsInv, DeckInv, DealtFromDeck
<1>3. deck \in [1 .. DeckSize -> Values] /\ \A x, y \in 1 .. DeckSize : deck[x] = deck[y] => x = y
  BY DEF HandsInv, DeckInv, WholeDeck, IsInjective
<1>4. \A i \in 1 .. HandSize : Place(p, i) \in 1 .. DeckSize
  BY Places
<1>5. \A i, j \in 1 .. HandSize : Place(p, i) = Place(p, j) => i = j
  <2>1. p = 0 \/ p = 1 \/ p = 2
    BY DEF Seats
  <2>2. CASE p = 0 BY <2>2, <1>1 DEF Place
  <2>3. CASE p = 1 BY <2>3, <1>1 DEF Place
  <2>4. CASE p = 2 BY <2>4, <1>1 DEF Place
  <2> QED BY <2>1, <2>2, <2>3, <2>4
<1>6. dealt[p] \in [1 .. HandSize -> Values] /\ \A i \in 1 .. HandSize : dealt[p][i] = deck[Place(p, i)]
  BY <1>2, <1>3, <1>4
<1>7. IsInjective(dealt[p])
  BY <1>3, <1>4, <1>5, <1>6 DEF IsInjective
<1>8. Shown(p) \subseteq ToSet(dealt[p])
  BY <1>1, <1>6 DEF Shown, ToSet
<1>9. ToSet(dealt[p]) \subseteq Values
  BY <1>6 DEF ToSet
<1> QED BY <1>6, <1>7, <1>8, <1>9 DEF HandOf

\* No card is shown by two clients: the base cards only by the landlord's.
LEMMA ShownApart ==
  ASSUME HandsAssumption, HandsInv, stage # "shuffle", NEW p \in Seats, NEW q \in Seats, p # q
  PROVE  Shown(p) \intersect Shown(q) = {}
<1>1. /\ HandSize \in Nat /\ CardNumber \in Nat \ {0} /\ BaseSize \in Nat \ {0}
      /\ HandSize = CardNumber + BaseSize /\ DeckSize = 3 * CardNumber + BaseSize
  BY Sizes
<1>2. \A x, y \in 1 .. DeckSize : deck[x] = deck[y] => x = y
  BY DEF HandsInv, DeckInv, WholeDeck, IsInjective
<1> SUFFICES ASSUME NEW c \in Shown(p), c \in Shown(q) PROVE FALSE
  OBVIOUS
<1>3. PICK i \in 1 .. HandSize : c = deck[Place(p, i)] /\ (i <= CardNumber \/ lord = p)
  BY <1>1, HandFacts DEF Shown
<1>4. PICK j \in 1 .. HandSize : c = deck[Place(q, j)] /\ (j <= CardNumber \/ lord = q)
  BY <1>1, HandFacts DEF Shown
<1>5. Place(p, i) = Place(q, j)
  BY <1>2, <1>3, <1>4, Places
<1>6. (p = 0 \/ p = 1 \/ p = 2) /\ (q = 0 \/ q = 1 \/ q = 2)
  BY DEF Seats
<1>7. i <= CardNumber \/ j <= CardNumber
  BY <1>3, <1>4
<1> QED BY <1>1, <1>5, <1>6, <1>7 DEF Place

\* An AI leads with a card of its own: those come first in its memory (OutCardAI.cpp:36).
LEMMA AiPlaysItsOwn ==
  ASSUME HandsAssumption, HandsInv, stage = "play", NEW p \in Seats, HandOf(p) # {}
  PROVE  \E m \in Moves(HandOf(p)) : AiOut(p) = Packed(m)
<1>1. OutSize \in Nat /\ OutSize > 2
  BY Sizes DEF HandsAssumption
<1>2. NoOut = [i \in 1 .. OutSize |-> TERMINATE]
  BY DEF NoOut
<1>3. CASE AiLeads(p)
  <2> DEFINE c == mem[p][1]
             m == <<c>>
             z == IF lord = p THEN CardNumber + BaseSize ELSE CardNumber
  <2>1. c \in HandOf(p)
    <3>1. PICK n \in 0 .. HandSize : Lists(mem[p], n, ToSet(dealt[p]) \ played[p], dealt[p])
      BY DEF HandsInv, PlayInv, HandsListed
    <3>2. PICK e : e \in HandOf(p)
      OBVIOUS
    <3>3. e \in ToSet(dealt[p]) \ played[p] /\ e \in Shown(p)
      BY <3>2, HandFacts DEF HandOf
    <3>4. PICK j \in 1 .. n : mem[p][j] = e
      BY <3>1, <3>3 DEF Lists
    <3>5. CASE j = 1
      BY <3>2, <3>4, <3>5
    <3>6. CASE j # 1
      <4>1. 1 \in 1 .. n /\ j \in 1 .. n /\ 1 < j
        BY <3>6
      <4>2. c \notin played[p] /\ Before(dealt[p], c, e)
        BY <3>1, <3>4, <4>1 DEF Lists
      <4>3. DOMAIN dealt[p] = 1 .. HandSize /\ \A x, y \in 1 .. HandSize : dealt[p][x] = dealt[p][y] => x = y
        BY HandFacts DEF IsInjective
      <4>4. PICK x \in 1 .. HandSize, y \in 1 .. HandSize : x < y /\ dealt[p][x] = c /\ dealt[p][y] = e
        BY <4>2, <4>3 DEF Before
      <4>5. z \in Nat /\ HandSize \in Nat /\ z <= HandSize
        BY Sizes
      <4> HIDE DEF z
      <4>6. Shown(p) = {dealt[p][i] : i \in 1 .. z}
        BY DEF Shown, z
      <4>7. PICK w \in 1 .. z : e = dealt[p][w]
        BY <3>3, <4>6
      <4>8. y = w
        <5>1. w \in 1 .. HandSize
          BY <4>5, <4>7
        <5> QED BY <4>3, <4>4, <4>7, <5>1
      <4>9. x \in 1 .. z
        BY <4>4, <4>5, <4>8
      <4> QED BY <4>2, <4>4, <4>6, <4>9 DEF HandOf
    <3> QED BY <3>5, <3>6
  <2>2. AiOut(p) = [NoOut EXCEPT ![1] = c]
    BY <1>3 DEF AiOut
  <2>3. AiOut(p) = [i \in 1 .. OutSize |-> IF i = 1 THEN c ELSE TERMINATE]
    BY <1>1, <1>2, <2>2
  <2> HIDE DEF c
  <2>4. Len(m) = 1 /\ m[1] = c
    OBVIOUS
  <2>5. m \in Moves(HandOf(p))
    BY <2>1 DEF Moves
  <2> HIDE DEF m
  <2>6. Packed(m) = [i \in 1 .. OutSize |-> IF i = 1 THEN c ELSE TERMINATE]
    BY <2>4 DEF Packed
  <2> QED BY <2>3, <2>5, <2>6
<1>4. CASE ~ AiLeads(p)
  <2> DEFINE m == << >>
  <2>1. AiOut(p) = [i \in 1 .. OutSize |-> TERMINATE]
    BY <1>1, <1>2, <1>4 DEF AiOut
  <2>2. Packed(m) = [i \in 1 .. OutSize |-> TERMINATE]
    BY DEF Packed
  <2>3. m \in Moves(HandOf(p))
    BY DEF Moves
  <2> QED BY <2>1, <2>2, <2>3
<1> QED BY <1>3, <1>4

\* The hands of the others stay, and the move leaves the hand of the player.
LEMMA PutDownKeeps ==
  ASSUME HandsAssumption, HandsInv, stage = "play", NEW p \in Seats, NEW m \in Moves(HandOf(p)),
         NEW c, NEW s, PutDown(p, Packed(m), c, s), UNCHANGED <<stage, deck, dealt, lord>>
  PROVE  /\ ArraysEnd' /\ HandsListed' /\ OwnPlayed'
         /\ \A q \in Seats \ {p} : HandOf(q)' = HandOf(q) /\ outCards'[q] = outCards[q]
<1> DEFINE o == Packed(m)
           S(q) == ToSet(dealt[q]) \ played[q]
           Listed(a, T, q) == \E n \in 0 .. HandSize : Lists(a, n, T, dealt[q])
<1>1. /\ mem' = [mem EXCEPT ![p] = updateCardsFace(mem[p], o)]
      /\ fault' = (fault \/ ~ Terminated(mem[p]) \/ ~ Terminated(o))
      /\ played' = [played EXCEPT ![p] = played[p] \union ToSet(Cards(o))]
      /\ outCards' = [outCards EXCEPT ![p] = o]
  BY DEF PutDown
<1>2. /\ mem \in [Seats -> [1 .. MemSize -> MemValues]] /\ \A q \in Seats : Terminated(mem[q])
      /\ outCards \in [Seats -> [1 .. OutSize -> MemValues]] /\ \A q \in Seats : Terminated(outCards[q])
      /\ fault = FALSE /\ played \in [Seats -> SUBSET Values]
      /\ \A q \in Seats : played[q] \subseteq Shown(q)
      /\ \A q \in Seats : Listed(mem[q], S(q), q)
  BY DEF HandsInv, PlayInv, ArraysEnd, OwnPlayed, HandsListed
<1>3. HandOf(p) \in SUBSET Values /\ HandOf(p) \subseteq S(p)
  BY HandFacts
<1>4. /\ o \in [1 .. OutSize -> MemValues] /\ Terminated(o)
      /\ ToSet(Cards(o)) = ToSet(m) /\ ToSet(m) \subseteq HandOf(p)
  BY <1>3, PackedMove
<1> HIDE DEF o, S, Listed
<1>5. /\ updateCardsFace(mem[p], o) \in [1 .. MemSize -> MemValues]
      /\ Listed(updateCardsFace(mem[p], o), S(p) \ ToSet(m), p)
  <2>1. PICK n \in 0 .. HandSize : Lists(mem[p], n, S(p), dealt[p])
    BY <1>2 DEF Listed
  <2>2. mem[p] \in [1 .. MemSize -> MemValues]
    BY <1>2
  <2>3. dealt[p] \in [1 .. HandSize -> Values] /\ IsInjective(dealt[p])
    BY HandFacts
  <2>4. /\ updateCardsFace(mem[p], Packed(m)) \in [1 .. MemSize -> MemValues]
        /\ \E k \in 0 .. HandSize : Lists(updateCardsFace(mem[p], Packed(m)), k, S(p) \ ToSet(m), dealt[p])
    BY <1>3, <2>1, <2>2, <2>3, UpdateTakesOut, Zenon
  <2> QED BY <2>4 DEF o, Listed
<1>6. mem' \in [Seats -> [1 .. MemSize -> MemValues]]
  BY <1>1, <1>2, <1>5
<1>7. \A q \in Seats : Listed(mem'[q], ToSet(dealt[q]) \ played'[q], q)
  <2> SUFFICES ASSUME NEW q \in Seats PROVE Listed(mem'[q], ToSet(dealt[q]) \ played'[q], q)
    OBVIOUS
  <2>1. CASE q = p
    <3>1. mem'[p] = updateCardsFace(mem[p], o) /\ played'[p] = played[p] \union ToSet(m)
      BY <1>1, <1>2, <1>4
    <3>2. ToSet(dealt[p]) \ played'[p] = S(p) \ ToSet(m)
      BY <3>1 DEF S
    <3> QED BY <1>5, <2>1, <3>1, <3>2
  <2>2. CASE q # p
    <3>1. mem'[q] = mem[q] /\ played'[q] = played[q]
      BY <1>1, <1>2, <2>2
    <3> QED BY <1>2, <3>1 DEF S
  <2> QED BY <2>1, <2>2
<1>8. \A q \in Seats : Terminated(mem'[q])
  <2> SUFFICES ASSUME NEW q \in Seats PROVE Terminated(mem'[q])
    OBVIOUS
  <2>1. PICK n \in 0 .. HandSize : Lists(mem'[q], n, ToSet(dealt[q]) \ played'[q], dealt[q])
    BY <1>7 DEF Listed
  <2>2. mem'[q] \in [1 .. MemSize -> MemValues]
    BY <1>6
  <2>3. MemSize \in Nat /\ n \in Nat /\ n < MemSize
    BY Sizes
  <2> QED BY <2>1, <2>2, <2>3, ListedCards, Zenon
<1>9. ArraysEnd'
  <2>1. outCards' \in [Seats -> [1 .. OutSize -> MemValues]] /\ \A q \in Seats : Terminated(outCards'[q])
    BY <1>1, <1>2, <1>4
  <2>2. fault' = FALSE
    BY <1>1, <1>2, <1>4
  <2>3. /\ Seats' = Seats /\ MemSize' = MemSize /\ MemValues' = MemValues /\ OutSize' = OutSize
        /\ \A a : Terminated(a)' = Terminated(a)
    BY DEF Seats, MemSize, MemValues, Values, Terminated, TERMINATE
  <2> QED BY <1>6, <1>8, <2>1, <2>2 DEF ArraysEnd
<1>10. HandsListed'
  <2>1. \A q \in Seats : \E n \in 0 .. HandSize : Lists(mem'[q], n, ToSet(dealt'[q]) \ played'[q], dealt'[q])
    BY <1>7 DEF Listed
  <2> QED BY <2>1 DEF HandsListed
<1>11. \A q \in Seats : Shown(q)' = Shown(q)
  BY DEF Shown, Seats
<1>12. OwnPlayed'
  <2>1. played' \in [Seats -> SUBSET Values] /\ \A q \in Seats : played'[q] \subseteq Shown(q)
    <3>1. HandOf(p) \subseteq Shown(p)
      BY DEF HandOf
    <3> QED BY <1>1, <1>2, <1>3, <1>4, <3>1
  <2>2. stage' = "play"
    OBVIOUS
  <2> QED BY <1>11, <2>1, <2>2 DEF OwnPlayed
<1>13. \A q \in Seats \ {p} : HandOf(q)' = HandOf(q) /\ outCards'[q] = outCards[q]
  <2> SUFFICES ASSUME NEW q \in Seats \ {p} PROVE HandOf(q)' = HandOf(q) /\ outCards'[q] = outCards[q]
    OBVIOUS
  <2>1. played'[q] = played[q] /\ outCards'[q] = outCards[q]
    BY <1>1, <1>2
  <2> QED BY <1>11, <2>1 DEF HandOf
<1> QED BY <1>9, <1>10, <1>12, <1>13

\* The statuses that checkOutCard writes: the player's own, and that of an AI to the right.
LEMMA StatusesWritten ==
  ASSUME NEW s, s \in [Seats -> AllStatuses], NEW p \in Seats
  PROVE  /\ \A q \in Seats \ {p} : Settled(s, p)[q] = s[q] /\ (TellRight(s, p)[q] = s[q] \/ kind[q] = "ai")
         /\ TellRight(s, p)[p] = CARDED /\ TellRight(s, p) \in [Seats -> AllStatuses]
         /\ Settled(s, p)[p] \in {s[p], WAIT}
<1>1. Right(p) \in Seats /\ Right(p) # p
  <2>1. p = 0 \/ p = 1 \/ p = 2
    BY DEF Seats
  <2> QED BY <2>1, SeatsOfTable DEF Right
<1>2. CARDED \in AllStatuses /\ CARDING \in AllStatuses
  BY DEF AllStatuses, Statuses
<1>3. \A q \in Seats \ {p} : Settled(s, p)[q] = s[q]
  BY DEF Settled
<1>4. Settled(s, p)[p] \in {s[p], WAIT}
  BY DEF Settled
<1> DEFINE t == [s EXCEPT ![p] = CARDED]
<1>5. t \in [Seats -> AllStatuses] /\ t[p] = CARDED /\ \A q \in Seats \ {p} : t[q] = s[q]
  BY <1>2
<1>6. TellRight(s, p) = IF kind[Right(p)] = "ai" THEN [t EXCEPT ![Right(p)] = CARDING] ELSE t
  BY DEF TellRight
<1> HIDE DEF t
<1>7. CASE kind[Right(p)] = "ai"
  BY <1>1, <1>2, <1>3, <1>4, <1>5, <1>6, <1>7
<1>8. CASE kind[Right(p)] # "ai"
  BY <1>3, <1>4, <1>5, <1>6, <1>8
<1> QED BY <1>7, <1>8

\* checkOutCard, by a player that does not leave or by the AI that takes its seat.
LEMMA CheckOutCardKeeps ==
  ASSUME HandsAssumption, HandsInv, stage = "play", NEW p \in Seats, HandOf(p) # {},
         NEW k \in {"user", "ai"}, NEW s \in Statuses, k = "user" => kind[p] = "user" /\ s = st[p],
         CheckOutCard(p, k, s), kind' = [kind EXCEPT ![p] = k], UNCHANGED <<stage, deck, dealt, lord>>
  PROVE  /\ ArraysEnd' /\ HandsListed' /\ OwnPlayed' /\ MovesReady'
         /\ \A q \in Seats \ {p} : HandOf(q)' = HandOf(q)
<1>1. /\ kind \in [Seats -> {"user", "ai"}] /\ st \in [Seats -> AllStatuses]
  BY DEF HandsInv, DeckInv, HandsTypeOK, AllStatuses, Statuses
<1>2. kind'[p] = k /\ \A q \in Seats \ {p} : kind'[q] = kind[q]
  BY <1>1
<1> DEFINE s2 == [st EXCEPT ![p] = IF AiFollows(p, k, s) THEN CARDING ELSE s]
           puts == s2[p] = CARDING /\ ~ (k = "ai" /\ Waited(p) > 0)
<1>3. /\ s2 \in [Seats -> AllStatuses] /\ \A q \in Seats \ {p} : s2[q] = st[q]
      /\ k = "user" => s2[p] = st[p]
  <2>1. Statuses \subseteq AllStatuses /\ CARDING \in AllStatuses
    BY DEF Statuses, AllStatuses
  <2>2. k = "user" => ~ AiFollows(p, k, s)
    BY DEF AiFollows
  <2> QED BY <1>1, <2>1, <2>2
<1>4. \A q \in Seats : kind[q] = "user" /\ st[q] = CARDING => \E m \in Moves(HandOf(q)) : outCards[q] = Packed(m)
  BY DEF HandsInv, PlayInv, MovesReady
<1>5. ASSUME \A q \in Seats \ {p} : HandOf(q)' = HandOf(q) /\ outCards'[q] = outCards[q],
             \A q \in Seats \ {p} : st'[q] = st[q] \/ kind[q] = "ai",
             st'[p] = CARDING => k = "ai"
      PROVE  MovesReady'
  <2>1. ASSUME NEW q \in Seats, kind'[q] = "user", st'[q] = CARDING
        PROVE  \E m \in Moves(HandOf(q)') : outCards'[q] = Packed(m)
    <3>1. q # p
      BY <1>2, <1>5, <2>1
    <3>2. kind[q] = "user" /\ st[q] = CARDING /\ HandOf(q)' = HandOf(q) /\ outCards'[q] = outCards[q]
      BY <1>2, <1>5, <2>1, <3>1
    <3> QED BY <1>4, <3>2
  <2> QED BY <2>1 DEF MovesReady, Moves, Packed
<1>6. CASE puts
  <2>0. PICK m \in Moves(HandOf(p)) : \E c : PutDown(p, Packed(m), c, s2)
    <3>1. CASE k = "ai"
      <4>1. PutDown(p, AiOut(p), IF AiLeads(p) THEN SINGLE ELSE PASS, s2)
        BY <1>6, <3>1 DEF CheckOutCard
      <4>2. PICK m \in Moves(HandOf(p)) : AiOut(p) = Packed(m)
        BY AiPlaysItsOwn
      <4> QED BY <4>1, <4>2
    <3>2. CASE k # "ai"
      <4>1. PutDown(p, outCards[p], ctype[p], s2)
        BY <1>6, <3>2 DEF CheckOutCard
      <4>2. kind[p] = "user" /\ st[p] = CARDING
        BY <1>3, <1>6, <3>2
      <4>3. PICK m \in Moves(HandOf(p)) : outCards[p] = Packed(m)
        BY <1>4, <4>2
      <4> QED BY <4>1, <4>3
    <3> QED BY <3>1, <3>2
  <2>1. PICK c : PutDown(p, Packed(m), c, s2)
    BY <2>0
  <2> HIDE DEF s2
  <2>2. /\ ArraysEnd' /\ HandsListed' /\ OwnPlayed'
        /\ \A q \in Seats \ {p} : HandOf(q)' = HandOf(q) /\ outCards'[q] = outCards[q]
    BY <2>0, <2>1, PutDownKeeps
  <2> DEFINE t == TellRight(s2, p)
  <2>3. st' = Settled(t, p)
    BY <2>1 DEF PutDown
  <2>4. /\ t \in [Seats -> AllStatuses] /\ t[p] = CARDED
        /\ \A q \in Seats \ {p} : t[q] = s2[q] \/ kind[q] = "ai"
    BY <1>3, StatusesWritten
  <2> HIDE DEF t
  <2>5. st'[p] \in {CARDED, WAIT} /\ \A q \in Seats \ {p} : st'[q] = t[q]
    BY <2>3, <2>4, StatusesWritten
  <2>6. st'[p] # CARDING /\ \A q \in Seats \ {p} : st'[q] = st[q] \/ kind[q] = "ai"
    BY <1>3, <2>4, <2>5 DEF WAIT, CARDED, CARDING
  <2>7. MovesReady'
    BY <1>5, <2>2, <2>6
  <2> QED BY <2>2, <2>7
<1>7. CASE ~ puts
  <2>1. st' = Settled(s2, p) /\ UNCHANGED <<outCards, mem, fault, played>>
    BY <1>7 DEF CheckOutCard
  <2>2. s2[p] = CARDING => k = "ai"
    BY <1>7
  <2> HIDE DEF s2
  <2>3. st'[p] \in {s2[p], WAIT} /\ \A q \in Seats \ {p} : st'[q] = s2[q]
    BY <1>3, <2>1, StatusesWritten
  <2>4. (st'[p] = CARDING => k = "ai") /\ \A q \in Seats \ {p} : st'[q] = st[q] \/ kind[q] = "ai"
    BY <1>3, <2>2, <2>3 DEF WAIT, CARDING
  <2>5. \A q \in Seats : HandOf(q)' = HandOf(q) /\ outCards'[q] = outCards[q]
    BY <2>1 DEF HandOf, Shown
  <2>6. MovesReady'
    BY <1>5, <2>4, <2>5
  <2>7. ArraysEnd'
    BY <2>1 DEF HandsInv, PlayInv, ArraysEnd, Terminated
  <2>8. HandsListed'
    BY <2>1 DEF HandsInv, PlayInv, HandsListed
  <2>9. OwnPlayed'
    BY <2>1 DEF HandsInv, PlayInv, OwnPlayed, Shown
  <2> QED BY <2>5, <2>6, <2>7, <2>8, <2>9
<1> QED BY <1>6, <1>7

\* Player::Update.
LEMMA UpdateKeeps ==
  ASSUME HandsAssumption, HandsInv, stage = "play", NEW p \in Seats, HandOf(p) # {},
         UpdatePlayer(p), UNCHANGED <<deck, dealt, lord>>
  PROVE  /\ ArraysEnd' /\ HandsListed' /\ OwnPlayed' /\ MovesReady'
         /\ \A q \in Seats \ {p} : HandOf(q)' = HandOf(q)
<1>1. kind \in [Seats -> {"user", "ai"}] /\ st \in [Seats -> AllStatuses]
  BY DEF HandsInv, DeckInv, HandsTypeOK, AllStatuses, Statuses
<1>2. CASE st[p] < LEAVING
  <2>1. st[p] \in Statuses
    BY <1>1, <1>2 DEF AllStatuses, Statuses, WAIT, CARDING, CARDED, LEAVING
  <2>2. CheckOutCard(p, kind[p], st[p]) /\ UNCHANGED <<kind, stage>>
    BY <1>2 DEF UpdatePlayer
  <2>3. kind' = [kind EXCEPT ![p] = kind[p]] /\ kind[p] \in {"user", "ai"}
    BY <2>2, <1>1
  <2> DEFINE k == kind[p]
             s == st[p]
  <2>4. k \in {"user", "ai"} /\ s \in Statuses /\ (k = "user" => kind[p] = "user" /\ s = st[p])
        /\ CheckOutCard(p, k, s) /\ kind' = [kind EXCEPT ![p] = k]
    BY <2>1, <2>2, <2>3
  <2> HIDE DEF k, s
  <2> QED BY <2>2, <2>4, CheckOutCardKeeps
<1>3. CASE ~ (st[p] < LEAVING) /\ "user" \in {kind[Left(p)], kind[Right(p)]}
  <2>1. st[p] % LEAVING \in Statuses
    BY <1>1, <1>3 DEF AllStatuses, Statuses, WAIT, CARDING, CARDED, LEAVING
  <2>2. kind' = [kind EXCEPT ![p] = "ai"] /\ CheckOutCard(p, "ai", st[p] % LEAVING) /\ UNCHANGED stage
    BY <1>3 DEF UpdatePlayer
  <2> DEFINE k == "ai"
             s == st[p] % LEAVING
  <2>3. k \in {"user", "ai"} /\ s \in Statuses /\ (k = "user" => kind[p] = "user" /\ s = st[p])
        /\ CheckOutCard(p, k, s) /\ kind' = [kind EXCEPT ![p] = k]
    BY <2>1, <2>2
  <2> HIDE DEF k, s
  <2> QED BY <2>2, <2>3, CheckOutCardKeeps
<1>4. CASE ~ (st[p] < LEAVING) /\ "user" \notin {kind[Left(p)], kind[Right(p)]}
  <2>1. stage' = "over" /\ UNCHANGED <<outCards, mem, fault, played>>
    BY <1>4 DEF UpdatePlayer
  <2>2. \A q \in Seats : HandOf(q)' = HandOf(q)
    BY <2>1 DEF HandOf, Shown
  <2> QED BY <2>1, <2>2 DEF HandsInv, PlayInv, ArraysEnd, Terminated, HandsListed, OwnPlayed, MovesReady, Shown
<1> QED BY <1>2, <1>3, <1>4

-----------------------------------------------------------------------------
(* The invariant.                                                          *)

\* The constructors, and a fresh deck.
LEMMA InitEstablishes ==
  ASSUME HandsAssumption, HandsInit
  PROVE  DeckInv
<1>1. HandsTypeOK /\ InTick
  <2>1. DeckSize \in Nat
    BY Sizes
  <2>2. AiDelay \in Nat /\ \A o \in Orders : o \in [1 .. 3 -> Seats] /\ IsInjective(o)
    BY DEF HandsAssumption
  <2>3. WAIT \in Statuses /\ ~ (WAIT >= LEAVING) /\ {PASS, SINGLE} \subseteq {PASS, SINGLE, PAIR}
    BY DEF Statuses, WAIT, LEAVING
  <2> QED BY <2>1, <2>2, <2>3 DEF HandsInit, HandsTypeOK, InTick, Statuses
<1>2. WholeDeck
  BY FreshDeckIsWhole DEF HandsInit, WholeDeck
<1>3. CleanEnd
  <2>1. \A i \in HandSize + 1 .. MemSize : i \in 1 .. CardNumber + BasicCard
    BY Sizes
  <2> QED BY <2>1 DEF CleanEnd, HandsInit, NoCards
<1>4. DealtFromDeck
  BY DEF DealtFromDeck, HandsInit
<1> QED BY <1>1, <1>2, <1>3, <1>4 DEF DeckInv

\* A fresh deck is taken for every round (NewTable, DealAgain).
LEMMA FreshIsWhole ==
  ASSUME HandsAssumption, deck' = FreshDeck
  PROVE  WholeDeck'
<1>1. FreshDeck' = FreshDeck
  BY DEF FreshDeck, DeckSize
<1> QED BY <1>1, FreshDeckIsWhole DEF WholeDeck

\* One step per action.
LEMMA NextPreserves ==
  ASSUME HandsAssumption, DeckInv, [HandsNext]_handVars
  PROVE  DeckInv'
<1> USE DEF DeckInv
<1>0. DeckSize \in Nat /\ WAIT \in Statuses /\ ~ (WAIT >= LEAVING)
  BY Sizes DEF Statuses, WAIT, LEAVING
<1>1. ASSUME NEW r \in Rands, Swap(r)
      PROVE  DeckInv'
  <2>1. WholeDeck'
    BY <1>1, SwapKeepsDeck DEF HandsTypeOK
  <2>2. HandsTypeOK' /\ InTick'
    BY <1>0, <1>1 DEF Swap, play, HandsTypeOK, InTick
  <2>3. CleanEnd' /\ DealtFromDeck'
    BY <1>1 DEF Swap, CleanEnd, DealtFromDeck
  <2> QED BY <2>1, <2>2, <2>3
<1>2. CASE Deal
  <2>1. WholeDeck' /\ HandsTypeOK' /\ InTick'
    BY <1>2 DEF Deal, play, WholeDeck, HandsTypeOK, InTick
  <2> QED BY <1>2, <2>1, DealCutsTheDeck
<1>3. CASE DealAgain
  <2>1. WholeDeck'
    BY <1>3, FreshIsWhole DEF DealAgain
  <2>2. HandsTypeOK' /\ InTick' /\ CleanEnd' /\ DealtFromDeck'
    BY <1>0, <1>3 DEF DealAgain, play, HandsTypeOK, InTick, CleanEnd, DealtFromDeck
  <2> QED BY <2>1, <2>2
<1>4. CASE NewTable
  <2>1. WholeDeck'
    BY <1>4, FreshIsWhole DEF NewTable
  <2>2. stage' = "shuffle" /\ mem' = [p \in Seats |-> NoCards]
    BY <1>4 DEF NewTable
  <2>3. DealtFromDeck' /\ CleanEnd'
    <3>1. \A i \in HandSize + 1 .. MemSize : i \in 1 .. CardNumber + BasicCard
      BY Sizes
    <3> QED BY <2>2, <3>1 DEF DealtFromDeck, CleanEnd, NoCards
  <2>4. HandsTypeOK' /\ InTick'
    <3>1. AiDelay \in Nat /\ \A o \in Orders : o \in [1 .. 3 -> Seats] /\ IsInjective(o)
      BY DEF HandsAssumption
    <3>2. order' \in Orders /\ at' = 0
      BY <1>4 DEF NewTable
    <3>3. InTick'
      BY <3>1, <3>2 DEF InTick, IsInjective
    <3> QED BY <1>0, <1>4, <3>1, <3>3 DEF NewTable, HandsTypeOK, Statuses
  <2> QED BY <2>1, <2>3, <2>4
<1>5. CASE TableTick
  <2>1. /\ stage = "play" /\ at \in 0 .. 2 /\ at' = (at + 1) % 3 /\ UNCHANGED <<idx, deck, dealt, lord, order>>
        /\ UpdatePlayer(order[at + 1])
    BY <1>5 DEF TableTick, InTick
  <2>2. order[at + 1] \in Seats
    BY <2>1 DEF InTick
  <2>3. HandsTypeOK' /\ stage' \in {"play", "over"}
    BY <2>1, <2>2, UpdateTypes
  <2>5. InTick'
    BY <2>1, <2>3 DEF InTick, IsInjective
  <2>4. WholeDeck' /\ CleanEnd' /\ DealtFromDeck'
    BY <2>1, <2>3 DEF WholeDeck, CleanEnd, DealtFromDeck
  <2> QED BY <2>3, <2>4, <2>5
<1>6. ASSUME NEW l \in Lords, BeginOutCard(l)
      PROVE  DeckInv'
  <2>1. l \in Seats
    BY DEF HandsAssumption
  <2>2. HandsTypeOK' /\ InTick'
    BY <1>0, <1>6, <2>1 DEF BeginOutCard, HandsTypeOK, InTick, Statuses
  <2>3. WholeDeck' /\ CleanEnd' /\ DealtFromDeck'
    BY <1>6 DEF BeginOutCard, WholeDeck, CleanEnd, DealtFromDeck
  <2> QED BY <2>2, <2>3
<1>7. ASSUME NEW p \in Seats, HandlLogout(p)
      PROVE  DeckInv'
  <2>1. /\ kind[p] = "user" /\ st[p] < LEAVING /\ st' = [st EXCEPT ![p] = @ + LEAVING]
        /\ UNCHANGED <<cards, lord, kind, ctype, delay, order, at, last, passes>>
    BY <1>7 DEF HandlLogout, AtTable
  <2>2. /\ st \in [Seats -> AllStatuses] /\ kind \in [Seats -> {"user", "ai"}]
        /\ \A q \in Seats : st[q] >= LEAVING => kind[q] = "user"
    BY DEF HandsTypeOK, AllStatuses, Statuses
  <2>3. st[p] + LEAVING \in AllStatuses
    BY <2>1, <2>2 DEF AllStatuses, Statuses, WAIT, CARDING, CARDED, LEAVING
  <2>4. st' \in [Seats -> AllStatuses] /\ \A q \in Seats : st'[q] >= LEAVING => kind'[q] = "user"
    BY <2>1, <2>2, <2>3
  <2>5. HandsTypeOK' /\ InTick'
    BY <2>1, <2>4 DEF HandsTypeOK, InTick, cards, AllStatuses, Statuses
  <2>6. WholeDeck' /\ CleanEnd' /\ DealtFromDeck'
    BY <2>1 DEF WholeDeck, CleanEnd, DealtFromDeck, cards
  <2> QED BY <2>5, <2>6
<1>8. ASSUME NEW p \in Seats, NEW move \in MayPlay(p), HandleOutCards(p, move)
      PROVE  DeckInv'
  <2>1. /\ st' = [st EXCEPT ![p] = CARDING] /\ ctype' = [ctype EXCEPT ![p] = move[1]]
        /\ UNCHANGED <<cards, lord, kind, delay, order, at, last, passes>>
    BY <1>8 DEF HandleOutCards
  <2>2. move[1] \in {PASS, SINGLE, PAIR}
    BY <1>8 DEF MayPlay
  <2>3. CARDING \in Statuses /\ ~ (CARDING >= LEAVING)
    BY DEF Statuses, CARDING, LEAVING
  <2>4. HandsTypeOK' /\ InTick'
    BY <2>1, <2>2, <2>3 DEF HandsTypeOK, InTick, cards, Statuses
  <2>5. WholeDeck' /\ CleanEnd' /\ DealtFromDeck'
    BY <2>1 DEF WholeDeck, CleanEnd, DealtFromDeck, cards
  <2> QED BY <2>4, <2>5
<1>9. CASE UNCHANGED handVars
  BY <1>9 DEF handVars, cards, play, HandsTypeOK, InTick, WholeDeck, CleanEnd, DealtFromDeck
<1> QED BY <1>1, <1>2, <1>3, <1>4, <1>5, <1>6, <1>7, <1>8, <1>9 DEF HandsNext

\* The places of a whole deck in three hands: each card is in one of them, and the base
\* cards are in all.
LEMMA InvGivesFairness ==
  ASSUME HandsAssumption, DeckInv
  PROVE  DealIsFair
<1>1. ToSet(deck) = ToSet(FreshDeck)
  BY DEF DeckInv, WholeDeck
<1> SUFFICES ASSUME stage = "bid"
             PROVE  /\ \A p \in Seats : Len(dealt[p]) = CardNumber + BaseSize
                    /\ UNION {ToSet(dealt[p]) : p \in Seats} = ToSet(deck)
                    /\ \A p, q \in Seats : p # q =>
                         ToSet(dealt[p]) \intersect ToSet(dealt[q])
                           = {dealt[0][i] : i \in CardNumber + 1 .. CardNumber + BaseSize}
  BY <1>1 DEF DealIsFair
<1>2. /\ HandSize \in Nat /\ CardNumber \in Nat \ {0} /\ BaseSize \in Nat \ {0} /\ DeckSize \in Nat
      /\ HandSize = CardNumber + BaseSize /\ DeckSize = 3 * CardNumber + BaseSize
  BY Sizes
<1>3. \A p \in Seats : dealt[p] = [i \in 1 .. HandSize |-> deck[Place(p, i)]]
  BY DEF DeckInv, DealtFromDeck
<1>4. \A p \in Seats : DOMAIN dealt[p] = 1 .. HandSize /\ \A i \in 1 .. HandSize : dealt[p][i] = deck[Place(p, i)]
  BY <1>3, ZenonT(60)
<1>5. /\ DOMAIN deck = 1 .. DeckSize
      /\ \A x, y \in 1 .. DeckSize : deck[x] = deck[y] => x = y
  BY DEF DeckInv, WholeDeck, IsInjective
<1>6. \A p \in Seats : ToSet(dealt[p]) = {deck[Place(p, i)] : i \in 1 .. HandSize}
  BY <1>4 DEF ToSet
<1>7. \A p \in Seats : Len(dealt[p]) = CardNumber + BaseSize
  <2> SUFFICES ASSUME NEW p \in Seats
               PROVE  Len(dealt[p]) = HandSize
    BY <1>2
  <2>1. Len([i \in 1 .. HandSize |-> deck[Place(p, i)]]) = HandSize
    BY <1>2
  <2> QED BY <1>3, <2>1
<1>8. UNION {ToSet(dealt[p]) : p \in Seats} = ToSet(deck)
  <2>1. ASSUME NEW p \in Seats, NEW i \in 1 .. HandSize
        PROVE  deck[Place(p, i)] \in ToSet(deck)
    BY <1>5, Places DEF ToSet
  <2>2. ASSUME NEW x \in 1 .. DeckSize
        PROVE  \E p \in Seats : deck[x] \in ToSet(dealt[p])
    <3>1. \E p \in Seats : \E i \in 1 .. HandSize : Place(p, i) = x
      <4>1. CASE x <= CardNumber
        <5>1. x \in 1 .. HandSize /\ Place(0, x) = x /\ 0 \in Seats
          BY <1>2, <4>1 DEF Place, Seats
        <5> QED BY <5>1
      <4>2. CASE CardNumber < x /\ x <= 2 * CardNumber
        <5>1. x - CardNumber \in 1 .. HandSize /\ Place(1, x - CardNumber) = x /\ 1 \in Seats
          BY <1>2, <4>2 DEF Place, Seats
        <5> QED BY <5>1
      <4>3. CASE 2 * CardNumber < x /\ x <= 3 * CardNumber
        <5>1. x - 2 * CardNumber \in 1 .. HandSize /\ Place(2, x - 2 * CardNumber) = x /\ 2 \in Seats
          BY <1>2, <4>3 DEF Place, Seats
        <5> QED BY <5>1
      <4>4. CASE 3 * CardNumber < x
        <5>1. x - 2 * CardNumber \in 1 .. HandSize /\ Place(0, x - 2 * CardNumber) = x /\ 0 \in Seats
          BY <1>2, <4>4 DEF Place, Seats
        <5> QED BY <5>1
      <4> QED BY <1>2, <4>1, <4>2, <4>3, <4>4
    <3> QED BY <3>1, <1>6
  <2>3. \A c \in ToSet(deck) : \E x \in 1 .. DeckSize : c = deck[x]
    BY <1>5 DEF ToSet
  <2>4. \A c \in UNION {ToSet(dealt[p]) : p \in Seats} : c \in ToSet(deck)
    BY <2>1, <1>6
  <2>5. \A c \in ToSet(deck) : c \in UNION {ToSet(dealt[p]) : p \in Seats}
    BY <2>2, <2>3
  <2> QED BY <2>4, <2>5
<1>9. ASSUME NEW p \in Seats, NEW q \in Seats, p # q
      PROVE  ToSet(dealt[p]) \intersect ToSet(dealt[q])
               = {dealt[0][i] : i \in CardNumber + 1 .. CardNumber + BaseSize}
  <2>0. 0 \in Seats
    BY DEF Seats
  <2> DEFINE B == {dealt[0][i] : i \in CardNumber + 1 .. CardNumber + BaseSize}
  <2>1. ASSUME NEW i \in 1 .. HandSize, NEW j \in 1 .. HandSize, Place(p, i) = Place(q, j)
        PROVE  i > CardNumber /\ Place(p, i) = Place(0, i)
    <3>1. (p = 0 \/ p = 1 \/ p = 2) /\ (q = 0 \/ q = 1 \/ q = 2)
      BY DEF Seats
    <3> QED BY <1>2, <1>9, <2>1, <3>1 DEF Place
  <2>2. ASSUME NEW c \in ToSet(dealt[p]), c \in ToSet(dealt[q])
        PROVE  c \in B
    <3>1. PICK i \in 1 .. HandSize : c = deck[Place(p, i)]
      BY <1>6
    <3>2. PICK j \in 1 .. HandSize : c = deck[Place(q, j)]
      BY <1>6, <2>2
    <3>3. Place(p, i) = Place(q, j)
      BY <3>1, <3>2, <1>5, Places
    <3>4. i > CardNumber /\ c = deck[Place(0, i)]
      BY <2>1, <3>1, <3>3
    <3>5. c = dealt[0][i] /\ i \in CardNumber + 1 .. CardNumber + BaseSize
      BY <3>4, <1>2, <1>4, <2>0
    <3> QED BY <3>5
  <2>3. ASSUME NEW i \in CardNumber + 1 .. CardNumber + BaseSize
        PROVE  dealt[0][i] \in ToSet(dealt[p]) /\ dealt[0][i] \in ToSet(dealt[q])
    <3>1. i \in 1 .. HandSize
      BY <1>2
    <3>2. Place(p, i) = Place(0, i) /\ Place(q, i) = Place(0, i)
      BY <1>2 DEF Place
    <3>3. dealt[0][i] = deck[Place(0, i)]
      BY <1>4, <2>0, <3>1
    <3> QED BY <1>6, <3>1, <3>2, <3>3
  <2> QED BY <2>2, <2>3
<1> QED BY <1>7, <1>8, <1>9

\* The arrays of a new round end at once.
LEMMA FreshArrays ==
  ASSUME HandsAssumption
  PROVE  /\ NoCards \in [1 .. MemSize -> MemValues] /\ Terminated(NoCards)
         /\ NoOut \in [1 .. OutSize -> MemValues] /\ Terminated(NoOut)
<1>1. MemSize \in Nat \ {0} /\ OutSize \in Nat \ {0}
  BY Sizes DEF HandsAssumption
<1>2. /\ NoCards = [i \in 1 .. MemSize |-> TERMINATE]
      /\ NoOut = [i \in 1 .. OutSize |-> TERMINATE]
  BY DEF NoCards, NoOut, MemSize
<1>3. 1 \in 1 .. MemSize /\ 1 \in 1 .. OutSize /\ TERMINATE \in MemValues
  BY <1>1 DEF MemValues
<1> QED BY <1>2, <1>3 DEF Terminated

\* A step after which the cards are shuffled, whatever was played, needs the arrays only.
LEMMA NewRound ==
  ASSUME HandsAssumption, stage' = "shuffle", ArraysEnd', played' = [p \in Seats |-> {}]
  PROVE  PlayInv'
<1>1. played' \in [Seats -> SUBSET Values] /\ \A p \in Seats : played'[p] = {}
  OBVIOUS
<1> QED BY <1>1 DEF PlayInv, HandsListed, OwnPlayed, MovesReady, StillIn

\* The constructors.
LEMMA InitIsFair ==
  ASSUME HandsAssumption, HandsInit
  PROVE  PlayInv
<1>1. /\ stage = "shuffle" /\ fault = FALSE /\ mem = [p \in Seats |-> NoCards]
      /\ outCards = [p \in Seats |-> NoOut] /\ played = [p \in Seats |-> {}]
  BY DEF HandsInit
<1>2. ArraysEnd
  BY <1>1, FreshArrays DEF ArraysEnd
<1> QED BY <1>1, <1>2 DEF PlayInv, HandsListed, OwnPlayed, MovesReady, StillIn

\* What a packet leaves alone.
LEMMA HandsUndisturbed ==
  ASSUME PlayInv, UNCHANGED <<stage, mem, dealt, lord, played>>
  PROVE  HandsListed' /\ OwnPlayed'
<1>1. HandsListed'
  BY DEF PlayInv, HandsListed
<1>2. OwnPlayed'
  BY DEF PlayInv, OwnPlayed, Shown
<1> QED BY <1>1, <1>2

\* The next state's MovesReady.
LEMMA MovesReadyNext ==
  ASSUME \A q \in Seats : kind'[q] = "user" /\ st'[q] = CARDING =>
           \E m \in Moves(HandOf(q)') : outCards'[q] = Packed(m)
  PROVE  MovesReady'
BY DEF MovesReady, Moves, Packed

\* Hands and moves, one step per action.
LEMMA NextKeepsHands ==
  ASSUME HandsAssumption, HandsInv, [HandsNext]_handVars
  PROVE  PlayInv'
<1>0. PlayInv /\ InTick
  BY DEF HandsInv, DeckInv
<1>1. ASSUME NEW r \in Rands, Swap(r)
      PROVE  PlayInv'
  <2>1. stage = "shuffle" /\ stage' = "shuffle" /\ UNCHANGED <<mem, outCards, fault, played>>
    BY <1>1 DEF Swap, play
  <2> QED BY <1>0, <2>1 DEF PlayInv, ArraysEnd, Terminated, HandsListed, OwnPlayed, MovesReady, StillIn
<1>2. CASE Deal
  <2>1. /\ stage = "shuffle" /\ stage' = "bid" /\ UNCHANGED <<outCards, fault, played>>
        /\ mem' = [p \in Seats |-> mem'[p]]
    BY <1>2 DEF Deal, play
  <2>2. \A p \in Seats : /\ mem'[p] \in [1 .. MemSize -> MemValues]
                         /\ dealt'[p] \in [1 .. HandSize -> Values]
                         /\ Lists(mem'[p], HandSize, ToSet(dealt'[p]), dealt'[p])
    BY <1>2, DealCutsTheDeck DEF HandsInv
  <2>3. HandSize \in Nat /\ MemSize \in Nat /\ HandSize < MemSize
    BY Sizes
  <2>4. \A p \in Seats : Terminated(mem'[p])
    BY <2>2, <2>3, ListedCards
  <2>5. ArraysEnd'
    <3>1. mem' \in [Seats -> [1 .. MemSize -> MemValues]]
      BY <2>1, <2>2
    <3>2. /\ outCards \in [Seats -> [1 .. OutSize -> MemValues]]
          /\ \A p \in Seats : Terminated(outCards[p])
          /\ fault = FALSE
      BY <1>0 DEF PlayInv, ArraysEnd
    <3> QED BY <2>1, <2>4, <3>1, <3>2 DEF ArraysEnd, Terminated
  <2>6. played \in [Seats -> SUBSET Values] /\ \A p \in Seats : played[p] = {}
    BY <1>0, <2>1 DEF PlayInv, OwnPlayed
  <2>7. HandsListed'
    <3>1. \A p \in Seats : ToSet(dealt'[p]) \ played'[p] = ToSet(dealt'[p])
      BY <2>1, <2>6
    <3>2. HandSize \in 0 .. HandSize
      BY <2>3
    <3> QED BY <2>2, <3>1, <3>2 DEF HandsListed
  <2>8. OwnPlayed'
    BY <2>1, <2>6 DEF OwnPlayed
  <2> QED BY <2>1, <2>5, <2>7, <2>8 DEF PlayInv, MovesReady, StillIn
<1>3. CASE DealAgain
  <2>1. stage = "bid" /\ stage' = "shuffle" /\ UNCHANGED <<mem, outCards, fault, played>>
    BY <1>3 DEF DealAgain, play
  <2> QED BY <1>0, <2>1 DEF PlayInv, ArraysEnd, Terminated, HandsListed, OwnPlayed, MovesReady, StillIn
<1>4. CASE NewTable
  <2>1. /\ stage' = "shuffle" /\ fault' = fault /\ mem' = [p \in Seats |-> NoCards]
        /\ outCards' = [p \in Seats |-> NoOut] /\ played' = [p \in Seats |-> {}]
    BY <1>4 DEF NewTable
  <2>2. fault = FALSE
    BY <1>0 DEF PlayInv, ArraysEnd
  <2>3. ArraysEnd'
    BY <2>1, <2>2, FreshArrays DEF ArraysEnd, Terminated
  <2> QED BY <2>1, <2>3, NewRound
<1>5. CASE TableTick
  <2> DEFINE p == order[at + 1]
  <2>1. /\ stage = "play" /\ at \in 0 .. 2 /\ at' = (at + 1) % 3 /\ UNCHANGED <<deck, dealt, lord, order>>
        /\ (at = 0 => ~ SomeoneIsOut) /\ UpdatePlayer(p)
        /\ order \in [1 .. 3 -> Seats] /\ \A i, j \in 1 .. 3 : order[i] = order[j] => i = j
    BY <1>0, <1>5 DEF TableTick, InTick, IsInjective
  <2>2. \A i \in at + 1 .. 3 : HandOf(order[i]) # {}
    <3>1. CASE at = 0
      BY <2>1, <3>1 DEF SomeoneIsOut
    <3>2. CASE at > 0
      BY <1>0, <2>1, <3>2 DEF PlayInv, StillIn
    <3> QED BY <2>1, <3>1, <3>2
  <2>3. p \in Seats /\ HandOf(p) # {}
    BY <2>1, <2>2
  <2>4. \A i \in at + 2 .. 3 : order[i] \in Seats /\ order[i] # p
    BY <2>1
  <2> HIDE DEF p
  <2>5. /\ ArraysEnd' /\ HandsListed' /\ OwnPlayed' /\ MovesReady'
        /\ \A q \in Seats \ {p} : HandOf(q)' = HandOf(q)
    BY <2>1, <2>3, UpdateKeeps
  <2>6. \A i \in at + 2 .. 3 : HandOf(order[i])' # {}
    <3> SUFFICES ASSUME NEW i \in at + 2 .. 3 PROVE HandOf(order[i])' # {}
      OBVIOUS
    <3>1. PICK q \in Seats \ {p} : q = order[i] /\ HandOf(q) # {}
      BY <2>1, <2>2, <2>4
    <3>2. HandOf(q)' # {}
      BY <2>5, <3>1
    <3>3. order'[i] = q
      BY <2>1, <3>1
    <3> QED BY <3>2, <3>3 DEF HandOf, Shown
  <2>7. StillIn'
    <3>1. at' > 0 => at' = at + 1
      BY <2>1
    <3> QED BY <2>1, <2>6, <3>1 DEF StillIn
  <2> QED BY <2>5, <2>7 DEF PlayInv
<1>6. ASSUME NEW l \in Lords, BeginOutCard(l)
      PROVE  PlayInv'
  <2>1. /\ stage = "bid" /\ stage' = "play" /\ st' = [p \in Seats |-> WAIT]
        /\ UNCHANGED <<mem, dealt, outCards, fault, played, at>>
    BY <1>6 DEF BeginOutCard
  <2>2. at = 0
    BY <1>0, <2>1 DEF InTick
  <2>3. ArraysEnd' /\ HandsListed' /\ OwnPlayed'
    BY <1>0, <2>1 DEF PlayInv, ArraysEnd, Terminated, HandsListed, OwnPlayed
  <2>4. MovesReady' /\ StillIn'
    BY <2>1, <2>2 DEF MovesReady, StillIn, WAIT, CARDING
  <2> QED BY <2>3, <2>4 DEF PlayInv
<1>7. ASSUME NEW p \in Seats, HandlLogout(p)
      PROVE  PlayInv'
  <2>1. /\ stage = "play" /\ at = 0 /\ st' = [st EXCEPT ![p] = @ + LEAVING]
        /\ UNCHANGED <<stage, mem, dealt, lord, kind, outCards, at, fault, played>>
    BY <1>7 DEF HandlLogout, AtTable, cards
  <2>2. st \in [Seats -> AllStatuses]
    BY DEF HandsInv, DeckInv, HandsTypeOK, AllStatuses, Statuses
  <2>3. \A q \in Seats : st'[q] = CARDING => st[q] = CARDING
    BY <2>1, <2>2 DEF AllStatuses, Statuses, WAIT, CARDING, CARDED, LEAVING
  <2>4. \A q \in Seats : HandOf(q)' = HandOf(q)
    BY <2>1 DEF HandOf, Shown
  <2>5. ArraysEnd' /\ HandsListed' /\ OwnPlayed'
    BY <1>0, <2>1, HandsUndisturbed DEF PlayInv, ArraysEnd, Terminated
  <2>6. ASSUME NEW q \in Seats, kind[q] = "user", st'[q] = CARDING
        PROVE  \E w \in Moves(HandOf(q)) : outCards'[q] = Packed(w)
    BY <1>0, <2>1, <2>3, <2>6 DEF PlayInv, MovesReady
  <2>7. \A q \in Seats : kind'[q] = "user" /\ st'[q] = CARDING =>
          \E w \in Moves(HandOf(q)') : outCards'[q] = Packed(w)
    BY <2>1, <2>4, <2>6
  <2>8. MovesReady'
    BY <2>7, MovesReadyNext
  <2>9. StillIn'
    BY <2>1 DEF StillIn
  <2> QED BY <2>5, <2>8, <2>9 DEF PlayInv
<1>8. ASSUME NEW p \in Seats, NEW move \in MayPlay(p), HandleOutCards(p, move)
      PROVE  PlayInv'
  <2> DEFINE m == move[2]
  <2>1. /\ stage = "play" /\ at = 0 /\ outCards' = [outCards EXCEPT ![p] = Packed(m)]
        /\ st' = [st EXCEPT ![p] = CARDING]
        /\ UNCHANGED <<stage, mem, dealt, lord, kind, at, fault, played>>
    BY <1>8 DEF HandleOutCards, AtTable, cards
  <2>2. m \in Moves(HandOf(p))
    BY <1>8 DEF MayPlay, Moves
  <2> HIDE DEF m
  <2>3. HandOf(p) \in SUBSET Values
    BY <2>1, HandFacts
  <2>4. Packed(m) \in [1 .. OutSize -> MemValues] /\ Terminated(Packed(m))
    BY <2>2, <2>3, PackedMove
  <2>5. ArraysEnd'
    <3>1. /\ outCards \in [Seats -> [1 .. OutSize -> MemValues]]
          /\ \A q \in Seats : Terminated(outCards[q])
      BY <1>0 DEF PlayInv, ArraysEnd
    <3>2. outCards' \in [Seats -> [1 .. OutSize -> MemValues]] /\ \A q \in Seats : Terminated(outCards'[q])
      BY <2>1, <2>4, <3>1
    <3> QED BY <1>0, <2>1, <3>2 DEF PlayInv, ArraysEnd, Terminated
  <2>6. HandsListed' /\ OwnPlayed'
    BY <1>0, <2>1, HandsUndisturbed
  <2>7. \A q \in Seats : HandOf(q)' = HandOf(q)
    BY <2>1 DEF HandOf, Shown
  <2>8. ASSUME NEW q \in Seats, kind[q] = "user", st'[q] = CARDING
        PROVE  \E w \in Moves(HandOf(q)) : outCards'[q] = Packed(w)
    <3>1. outCards \in [Seats -> [1 .. OutSize -> MemValues]] /\ st \in [Seats -> AllStatuses]
      BY <1>0 DEF PlayInv, ArraysEnd, HandsInv, DeckInv, HandsTypeOK, AllStatuses, Statuses
    <3>2. CASE q = p
      BY <2>1, <2>2, <3>1, <3>2
    <3>3. CASE q # p
      <4>1. st[q] = CARDING /\ outCards'[q] = outCards[q]
        BY <2>1, <2>8, <3>1, <3>3
      <4> QED BY <1>0, <2>1, <2>8, <4>1 DEF PlayInv, MovesReady
    <3> QED BY <3>2, <3>3
  <2>9. MovesReady'
    <3>1. \A q \in Seats : kind'[q] = "user" /\ st'[q] = CARDING =>
            \E w \in Moves(HandOf(q)') : outCards'[q] = Packed(w)
      BY <2>1, <2>7, <2>8
    <3> QED BY <3>1, MovesReadyNext
  <2>10. StillIn'
    BY <2>1 DEF StillIn
  <2> QED BY <2>5, <2>6, <2>9, <2>10 DEF PlayInv
<1>9. CASE UNCHANGED handVars
  <2>1. UNCHANGED <<stage, mem, dealt, lord, kind, st, outCards, order, at, fault, played>>
    BY <1>9 DEF handVars, cards, play
  <2>2. ArraysEnd' /\ HandsListed' /\ OwnPlayed'
    BY <1>0, <2>1, HandsUndisturbed DEF PlayInv, ArraysEnd, Terminated
  <2>3. MovesReady'
    <3>1. CASE stage = "play"
      <4>1. \A q \in Seats : HandOf(q)' = HandOf(q)
        BY <2>1 DEF HandOf, Shown
      <4>2. \A q \in Seats : kind'[q] = "user" /\ st'[q] = CARDING =>
              \E m \in Moves(HandOf(q)') : outCards'[q] = Packed(m)
        BY <1>0, <2>1, <3>1, <4>1 DEF PlayInv, MovesReady
      <4> QED BY <4>2, MovesReadyNext
    <3>2. CASE stage # "play"
      BY <2>1, <3>2 DEF MovesReady
    <3> QED BY <3>1, <3>2
  <2>4. StillIn'
    BY <1>0, <2>1 DEF PlayInv, StillIn, HandOf, Shown
  <2> QED BY <2>2, <2>3, <2>4 DEF PlayInv
<1> QED BY <1>1, <1>2, <1>3, <1>4, <1>5, <1>6, <1>7, <1>8, <1>9 DEF HandsNext

\* What the arrays hold are the hands of the deal without what was played, everybody has
\* played its own cards, and every array has its end.
LEMMA InvGivesHands ==
  ASSUME HandsAssumption, HandsInv
  PROVE  HandIsTrue /\ PlayedOnce /\ NoOverrun
<1>1. NoOverrun
  BY DEF HandsInv, PlayInv, ArraysEnd, NoOverrun
<1>2. PlayedOnce
  <2> SUFFICES ASSUME NEW p \in Seats, NEW q \in Seats, p # q
               PROVE  played[p] \intersect played[q] = {}
    BY DEF PlayedOnce
  <2>1. CASE stage = "shuffle"
    BY <2>1 DEF HandsInv, PlayInv, OwnPlayed
  <2>2. CASE stage # "shuffle"
    <3>1. played[p] \subseteq Shown(p) /\ played[q] \subseteq Shown(q)
      BY <2>2 DEF HandsInv, PlayInv, OwnPlayed
    <3> QED BY <2>2, <3>1, ShownApart
  <2> QED BY <2>1, <2>2
<1>3. HandIsTrue
  <2> SUFFICES ASSUME stage = "play", NEW p \in Seats
               PROVE  /\ ToSet(Cards(mem[p])) = ToSet(dealt[p]) \ played[p]
                      /\ \A i, j \in DOMAIN Cards(mem[p]) :
                           i < j => Before(dealt[p], Cards(mem[p])[i], Cards(mem[p])[j])
    BY DEF HandIsTrue
  <2> DEFINE a == mem[p]
             S == ToSet(dealt[p]) \ played[p]
             d == dealt[p]
  <2>1. PICK n \in 0 .. HandSize : Lists(a, n, S, d)
    BY DEF HandsInv, PlayInv, HandsListed
  <2>2. a \in [1 .. MemSize -> MemValues]
    BY DEF HandsInv, PlayInv, ArraysEnd
  <2>3. MemSize \in Nat /\ n \in Nat /\ n < MemSize
    BY Sizes
  <2> HIDE DEF a, S, d
  <2>4. /\ Cards(a) = [i \in 1 .. n |-> a[i]] /\ DOMAIN Cards(a) = 1 .. n
        /\ ToSet(Cards(a)) = S
    BY <2>1, <2>2, <2>3, ListedCards
  <2>5. \A i, j \in 1 .. n : i < j => Before(d, a[i], a[j])
    BY <2>1 DEF Lists
  <2> QED BY <2>4, <2>5 DEF a, S, d
<1> QED BY <1>1, <1>2, <1>3

-----------------------------------------------------------------------------
\* The deck, the hands, the moves that wait and the statuses, in every state of a table
\* (Room.cpp:282-319, Player.cpp:342-392, OutCardAI.cpp:12-74).
THEOREM HandsInvariant ==
  ASSUME HandsAssumption
  PROVE  HandsSpec => []HandsInv
<1>1. HandsInit => HandsInv
  BY InitEstablishes, InitIsFair DEF HandsInv
<1>2. HandsInv /\ [HandsNext]_handVars => HandsInv'
  BY NextPreserves, NextKeepsHands DEF HandsInv
<1> QED BY <1>1, <1>2, PTL DEF HandsSpec

\* The statuses, kinds, delays and passes of the three keep their types (Player.cpp:342).
THEOREM HandsTypesCorrect ==
  ASSUME HandsAssumption
  PROVE  HandsSpec => []HandsTypeOK
<1>1. HandsInv => HandsTypeOK
  BY DEF HandsInv, DeckInv
<1> QED BY <1>1, HandsInvariant, PTL

\* Room.cpp:296: whatever rand() answers, shuffling leaves a whole deck, everybody is
\* dealt as many cards, each card is dealt, and only the base cards are in two hands.
\* OutCardAI.cpp:45: whoever plays a hand and whoever leaves, it is what was dealt without
\* what was played, in its order; Player.cpp:384: no card is played twice; OutCardAI.cpp:15,
\* 52, 63: the loops over the cards stay inside the arrays.
THEOREM CardsStayTrue ==
  ASSUME HandsAssumption
  PROVE  HandsSpec => []CardsAreTrue
<1>1. HandsInv => CardsAreTrue
  BY InvGivesFairness, InvGivesHands DEF CardsAreTrue, HandsInv
<1> QED BY <1>1, HandsInvariant, PTL
==============================================================================
