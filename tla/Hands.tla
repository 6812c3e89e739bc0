------------------------------- MODULE Hands -------------------------------
(***************************************************************************)
(* The cards of one table: the room shuffles and deals them, a landlord is *)
(* found (module Player has the bidding), and the three players play in    *)
(* turn, users by their clients' packets, AIs by OutCardAi, until somebody *)
(* has no cards.  A user may leave, and an AI takes over its cards.        *)
(*                                                                         *)
(* A Player holds its cards in _cards, followed in memory by _baseCards,   *)
(* and OutCardAi reads both as one array up to CARD_TERMINATE: mem[p].     *)
(* Between two ticks of the room the world handles packets; in a tick the  *)
(* room updates its players one after the other.                           *)
(*                                                                         *)
(* A client plays when the packets it was sent say that it is its turn,    *)
(* cards it has, and passes only what others have led; somebody's client   *)
(* ends the round when a hand is empty, before the next tick.              *)
(***************************************************************************)
EXTENDS Integers, FiniteSetsExt, SequencesExt

CONSTANTS Colors, Ranks, \* 4 and 13: the cards besides the two jokers
          CardNumber,  \* CARD_NUMBER, 17
          BasicCard,   \* BASIC_CARD, 7: the size of _baseCards
          OutSize,     \* the size of _outCards, 24
          AiDelay,     \* CONFIG_AI_DELAY in ticks
          Rands,       \* the values of rand() % 54
          Orders,      \* the orders in which the room may hold its players
          Lords,       \* who may become landlord
          InitialAis,  \* which seats are AIs at first
          Leavers      \* which users may leave

Seats == 0 .. 2
DeckSize == Colors * Ranks + 2
BaseSize == DeckSize - 3 * CardNumber
TERMINATE == 100
PASS == 0
SINGLE == 1
PAIR == 2

HandsAssumption ==
  /\ Colors \in 1 .. 4 /\ Ranks \in 1 .. 13 /\ CardNumber \in Nat \ {0} /\ OutSize \in Nat /\ AiDelay \in Nat
  /\ BaseSize > 0 /\ BasicCard \in Nat /\ BasicCard > BaseSize /\ OutSize > CardNumber + BaseSize
  /\ Rands \subseteq 0 .. DeckSize - 1 /\ Lords \subseteq Seats
  /\ InitialAis \subseteq SUBSET Seats /\ Leavers \subseteq Seats
  /\ Orders \subseteq {o \in [1 .. 3 -> Seats] : IsInjective(o)}

VARIABLES stage,  \* what the table is doing
          idx,    \* iIdx of shuffleCard
          deck,   \* cards of Room::dealCards
          mem,    \* _cards and _baseCards of each player
          lord,   \* _landlordPlayerId
          kind,   \* _playerType: "user", or "ai" for both kinds of AI
          st,     \* _gameStatus: WAIT_OUT_CARD, OUT_CARDING, OUT_CARDED, or leaving besides
          ctype,  \* _cardType
          outCards, \* _outCards
          delay,  \* _aiDelay
          order,  \* the order of the room's map
          at,     \* how many players the tick has updated; 0 between ticks
          fault,  \* an array has been read past its end
          dealt,  \* the cards each player was dealt
          played, \* the cards each player has played
          told,   \* whose clients have been told that it is their turn
          last,   \* who played or passed last
          passes, \* how often in a row players have passed, at most 2
          turn    \* for how many ticks the player after last has had its turn

cards == <<stage, idx, deck, mem, dealt>>
play == <<lord, kind, st, ctype, outCards, delay, order, at, fault, played, told, last, passes, turn>>
handVars == <<cards, play>>

WAIT == 7
CARDING == 8
CARDED == 9
LEAVING == 16

Left(p) == (p + 2) % 3
Right(p) == (p + 1) % 3
Nobody == 3

------------------------------------------------------------------------------
(* Shuffling and dealing.                                                  *)

\* shuffleCard, first part: the colour and the rank, and the two jokers.
FreshDeck ==
  [i \in 1 .. DeckSize |->
     IF i <= Colors * Ranks THEN ((i - 1) \div Ranks) * 16 + ((i - 1) % Ranks)
     ELSE 61 + (i - 1 - Colors * Ranks)]

\* resetGame and the constructor
NoCards == [i \in 1 .. CardNumber + BasicCard |-> TERMINATE]
NoOut == [i \in 1 .. OutSize |-> TERMINATE]

\* Mutant: the cards below the base cards, and what follows the deck, are dealt too.
DealtTo_All(p) ==
  [i \in 1 .. CardNumber + BasicCard |->
     IF i <= CardNumber THEN deck[p * CardNumber + i]
     ELSE IF 3 * CardNumber + (i - CardNumber) <= DeckSize
          THEN deck[3 * CardNumber + (i - CardNumber)] ELSE 0]

\* Mutant: the second player's cards begin with the first player's last.
DealtTo_Overlapping(p) ==
  [i \in 1 .. CardNumber + BasicCard |->
     IF i <= CardNumber THEN deck[IF p = 1 THEN CardNumber + i - 1 ELSE p * CardNumber + i]
     ELSE IF i <= CardNumber + BaseSize THEN deck[3 * CardNumber + (i - CardNumber)]
     ELSE TERMINATE]

\* Room::dealCards, Player::dealCards: the p-th part of the deck, and the base cards
\* for everyone.
DealtTo(p) ==
  [i \in 1 .. CardNumber + BasicCard |->
     IF i <= CardNumber THEN deck[p * CardNumber + i]
     ELSE IF i <= CardNumber + BaseSize THEN deck[3 * CardNumber + (i - CardNumber)]
     ELSE mem[p][i]]

\* The cards of an array, up to CARD_TERMINATE.
Cards(a) == LET n == Min({i \in DOMAIN a : a[i] = TERMINATE} \union {Len(a) + 1})
            IN  SubSeq(a, 1, n - 1)

Terminated(a) == \E i \in DOMAIN a : a[i] = TERMINATE

HandsInit ==
  /\ stage = "shuffle" /\ idx = 0 /\ deck = FreshDeck
  /\ mem = [p \in Seats |-> NoCards] /\ dealt = [p \in Seats |-> << >>]
  /\ lord = Nobody /\ \E ais \in InitialAis : kind = [p \in Seats |-> IF p \in ais THEN "ai" ELSE "user"]
  /\ st = [p \in Seats |-> WAIT]
  /\ ctype \in [Seats -> {PASS, SINGLE}] \* the constructor leaves it as the heap has it
  /\ outCards = [p \in Seats |-> NoOut]
  /\ delay = [p \in Seats |-> AiDelay]
  /\ order \in Orders /\ at = 0 /\ fault = FALSE
  /\ played = [p \in Seats |-> {}] /\ told = {} /\ last = Nobody /\ passes = 0 /\ turn = 0

\* Mutant: a card is copied, not swapped.
Swap_Copy(r) ==
  /\ stage = "shuffle" /\ idx < DeckSize
  /\ deck' = [deck EXCEPT ![idx + 1] = deck[r + 1]]
  /\ idx' = idx + 1
  /\ UNCHANGED <<stage, mem, dealt, play>>

\* shuffleCard: one turn of its loop.
Swap(r) ==
  /\ stage = "shuffle" /\ idx < DeckSize
  /\ deck' = [deck EXCEPT ![idx + 1] = deck[r + 1], ![r + 1] = deck[idx + 1]]
  /\ idx' = idx + 1
  /\ UNCHANGED <<stage, mem, dealt, play>>

Deal ==
  /\ stage = "shuffle" /\ idx = DeckSize
  /\ mem' = [p \in Seats |-> DealtTo(p)]
  /\ dealt' = [p \in Seats |-> Cards(mem'[p])]
  /\ stage' = "bid"
  /\ UNCHANGED <<idx, deck, play>>

\* Nobody wants to be landlord: the cards are dealt again.
DealAgain ==
  /\ stage = "bid"
  /\ stage' = "shuffle" /\ idx' = 0 /\ deck' = FreshDeck
  /\ UNCHANGED <<mem, dealt, play>>

\* beginOutCard
BeginOutCard(l) ==
  /\ stage = "bid"
  /\ stage' = "play"
  /\ lord' = l /\ st' = [p \in Seats |-> WAIT]
  /\ told' = {l} \intersect {p \in Seats : kind[p] = "user"} /\ last' = Nobody /\ passes' = 0 /\ turn' = 0
  /\ UNCHANGED <<idx, deck, mem, dealt, kind, ctype, outCards, delay, order, at, fault, played>>

------------------------------------------------------------------------------
(* OutCardAi.                                                              *)

\* Mutant: the card is left in its place.
rearrangeCards_Keeps(a, c) == a

\* rearrangeCards: the cards after the first that is c move up.
rearrangeCards(a, c) ==
  LET n == Len(Cards(a)) + 1
      k == Min({i \in 1 .. n : i = n \/ a[i] = c})
  IN  [i \in DOMAIN a |-> IF i >= k /\ i < n THEN a[i + 1] ELSE a[i]]

\* updateCardsFace: the cards of o are taken out of a, one after the other.
updateCardsFace(a, o) ==
  LET without[n \in 0 .. Len(Cards(o))] ==
        IF n = 0 THEN a ELSE rearrangeCards(without[n - 1], o[n])
  IN  without[Len(Cards(o))]

\* Mutant: one pass is enough to lead.
AiLeads_EitherPassed(p) ==
  \/ lord = p /\ Len(Cards(mem[p])) = CardNumber + BaseSize
  \/ PASS \in {ctype[Left(p)], ctype[Right(p)]}

\* OutCard: an AI leads with its first card, and passes otherwise.
AiLeads(p) ==
  \/ lord = p /\ Len(Cards(mem[p])) = CardNumber + BaseSize
  \/ ctype[Left(p)] = PASS /\ ctype[Right(p)] = PASS

AiOut(p) == [NoOut EXCEPT ![1] = IF AiLeads(p) THEN mem[p][1] ELSE TERMINATE]

------------------------------------------------------------------------------
(* Player::Update while the cards are played.                              *)

\* A client shows the base cards to the landlord only.
Shown(p) == {dealt[p][i] : i \in 1 .. (IF lord = p THEN CardNumber + BaseSize ELSE CardNumber)}

HandOf(p) == Shown(p) \ played[p]

\* Somebody has played all the cards its client shows.
SomeoneIsOut == stage = "play" /\ \E p \in Seats : HandOf(p) = {}

\* Mutant: the delay of an AI does not run while cards are played.
Waited_Not(p) == delay[p]

\* UpdateAiDelay
Waited(p) == IF kind[p] = "ai" /\ st[p] = CARDING /\ delay[p] > 0 THEN delay[p] - 1 ELSE delay[p]

\* checkOutCard, first part: the AI landlord begins, and an AI follows its left.
AiFollows(p, k, s) == k = "ai" /\ ((s = WAIT /\ lord = p) \/ st[Left(p)] = CARDED)

\* Mutant: a player does not wait again.
Settled_Not(s, p) == s

\* Last part: when the right one has followed, p waits again.
Settled(s, p) ==
  IF s[p] = CARDED /\ s[Right(p)] = CARDED THEN [s EXCEPT ![p] = WAIT] ELSE s

\* The cards are on the table, and an AI to the right is told that it is its turn.
TellRight(s, p) ==
  LET t == [s EXCEPT ![p] = CARDED]
  IN  IF kind[Right(p)] = "ai" THEN [t EXCEPT ![Right(p)] = CARDING] ELSE t

\* p's cards o of type c are sent to the table and taken out of its hand.
PutDown(p, o, c, s) ==
  /\ st' = Settled(TellRight(s, p), p)
  /\ outCards' = [outCards EXCEPT ![p] = o] /\ ctype' = [ctype EXCEPT ![p] = c]
  /\ mem' = [mem EXCEPT ![p] = updateCardsFace(@, o)]
  /\ fault' = (fault \/ ~ Terminated(mem[p]) \/ ~ Terminated(o))
  /\ played' = [played EXCEPT ![p] = @ \union ToSet(Cards(o))]
  /\ told' = IF kind[Right(p)] = "user" THEN told \union {Right(p)} ELSE told
  /\ passes' = IF c = PASS THEN Min({passes + 1, 2}) ELSE 0
  /\ last' = p /\ turn' = 0

\* The ticks of the turn, counted as the tick begins.
Turn == IF at = 0 /\ turn < AiDelay + 2 THEN turn + 1 ELSE turn

\* checkOutCard of a player of kind k and status s.
CheckOutCard(p, k, s) ==
  LET s2 == [st EXCEPT ![p] = IF AiFollows(p, k, s) THEN CARDING ELSE s]
      waits == k = "ai" /\ Waited(p) > 0
  IN  IF s2[p] = CARDING /\ ~ waits
      THEN /\ IF k = "ai" THEN PutDown(p, AiOut(p), IF AiLeads(p) THEN SINGLE ELSE PASS, s2)
                          ELSE PutDown(p, outCards[p], ctype[p], s2)
           /\ delay' = [delay EXCEPT ![p] = IF k = "ai" THEN AiDelay ELSE @]
      ELSE /\ st' = Settled(s2, p)
           /\ delay' = [delay EXCEPT ![p] = Waited(p)]
           /\ turn' = Turn
           /\ UNCHANGED <<outCards, ctype, mem, fault, played, told, last, passes>>

\* Mutant: the flag of the leaving user stays.
UpdatePlayer_KeepsFlag(p) ==
  IF st[p] < LEAVING THEN CheckOutCard(p, kind[p], st[p]) /\ UNCHANGED <<kind, stage>>
  ELSE kind' = [kind EXCEPT ![p] = "ai"] /\ CheckOutCard(p, "user", st[p]) /\ UNCHANGED stage

\* Update: checkOutPlayer leaves the game to an AI, or ends it when nobody is left.
UpdatePlayer(p) ==
  IF st[p] < LEAVING THEN CheckOutCard(p, kind[p], st[p]) /\ UNCHANGED <<kind, stage>>
  ELSE IF "user" \in {kind[Left(p)], kind[Right(p)]}
  THEN kind' = [kind EXCEPT ![p] = "ai"] /\ CheckOutCard(p, "ai", st[p] % LEAVING) /\ UNCHANGED stage
  ELSE /\ stage' = "over"
       /\ UNCHANGED <<st, kind, delay, turn, outCards, ctype, mem, fault, played, told, last, passes>>

TableTick ==
  /\ stage = "play" /\ (at = 0 => ~ SomeoneIsOut)
  /\ UpdatePlayer(order[at + 1])
  /\ at' = (at + 1) % 3
  /\ UNCHANGED <<idx, deck, dealt, lord, order>>

------------------------------------------------------------------------------
(* The clients' packets.                                                   *)

AtTable(p) == stage = "play" /\ at = 0 /\ kind[p] = "user" /\ st[p] < LEAVING

\* What a client may play: cards of its hand, or a pass when others have led.
MayPlay(p) ==
  ({SINGLE} \X {<<c>> : c \in HandOf(p)})
    \union ({PAIR} \X {cd \in HandOf(p) \X HandOf(p) : cd[1] # cd[2]})
    \union (IF last = Nobody \/ passes = 2 THEN {} ELSE {<<PASS, << >>>>})

Packed(cs) == [i \in 1 .. OutSize |-> IF i <= Len(cs) THEN cs[i] ELSE TERMINATE]

\* HandleOutCards
HandleOutCards(p, move) ==
  /\ AtTable(p) /\ p \in told /\ ~ SomeoneIsOut
  /\ ctype' = [ctype EXCEPT ![p] = move[1]] /\ outCards' = [outCards EXCEPT ![p] = Packed(move[2])]
  /\ st' = [st EXCEPT ![p] = CARDING]
  /\ told' = told \ {p}
  /\ UNCHANGED <<cards, lord, kind, delay, order, at, fault, played, last, passes, turn>>

\* HandlLogout
HandlLogout(p) ==
  /\ AtTable(p) /\ p \in Leavers
  /\ st' = [st EXCEPT ![p] = @ + LEAVING] /\ told' = told \ {p}
  /\ UNCHANGED <<cards, lord, kind, ctype, outCards, delay, order, at, fault, played, last, passes, turn>>

\* The round is over: everybody is reset, and others may sit down, with the _cardType
\* they had.
NewTable ==
  /\ stage = "over" \/ (SomeoneIsOut /\ at = 0)
  /\ stage' = "shuffle" /\ idx' = 0 /\ deck' = FreshDeck
  /\ mem' = [p \in Seats |-> NoCards] /\ dealt' = [p \in Seats |-> << >>]
  /\ lord' = Nobody /\ \E ais \in InitialAis : kind' = [p \in Seats |-> IF p \in ais THEN "ai" ELSE "user"]
  /\ st' = [p \in Seats |-> WAIT] /\ ctype' \in [Seats -> {PASS, SINGLE}]
  /\ outCards' = [p \in Seats |-> NoOut] /\ delay' = [p \in Seats |-> AiDelay]
  /\ order' \in Orders /\ at' = 0 /\ fault' = fault
  /\ played' = [p \in Seats |-> {}] /\ told' = {} /\ last' = Nobody /\ passes' = 0 /\ turn' = 0

HandsNext ==
  \/ \E r \in Rands : Swap(r)
  \/ Deal \/ DealAgain \/ NewTable \/ TableTick
  \/ \E l \in Lords : BeginOutCard(l)
  \/ \E p \in Seats : HandlLogout(p) \/ (stage = "play" /\ \E move \in MayPlay(p) : HandleOutCards(p, move))

HandsSpec == HandsInit /\ [][HandsNext]_handVars

------------------------------------------------------------------------------
HandsTypeOK ==
  /\ stage \in {"shuffle", "bid", "play", "over"} /\ idx \in 0 .. DeckSize
  /\ lord \in Seats \union {Nobody} /\ kind \in [Seats -> {"user", "ai"}]
  /\ st \in [Seats -> {WAIT, CARDING, CARDED} \union {WAIT + LEAVING, CARDING + LEAVING, CARDED + LEAVING}]
  /\ \A p \in Seats : st[p] >= LEAVING => kind[p] = "user"
  /\ ctype \in [Seats -> {PASS, SINGLE, PAIR}] /\ delay \in [Seats -> 0 .. AiDelay]
  /\ last \in Seats \union {Nobody} /\ passes \in 0 .. 2

\* Room.cpp:296: however the random numbers fall, shuffling leaves a whole deck, and
\* dealing gives each player its own cards and everyone the same base cards.
DealIsFair ==
  /\ ToSet(deck) = ToSet(FreshDeck)
  /\ stage = "bid" =>
       /\ \A p \in Seats : Len(dealt[p]) = CardNumber + BaseSize
       /\ UNION {ToSet(dealt[p]) : p \in Seats} = ToSet(deck)
       /\ \A p, q \in Seats : p # q =>
            ToSet(dealt[p]) \intersect ToSet(dealt[q]) = {dealt[0][i] : i \in CardNumber + 1 .. CardNumber + BaseSize}

\* OutCardAI.cpp:15, 52, 63: the loops over the cards of a hand and of a move find
\* CARD_TERMINATE inside the arrays.
NoOverrun == ~ fault /\ \A p \in Seats : Terminated(mem[p])

\* c is in d before e.
Before(d, c, e) == \E i, j \in DOMAIN d : i < j /\ d[i] = c /\ d[j] = e

\* OutCardAI.cpp:45: whoever plays for it, a player's hand is what it was dealt without
\* what it has played, in the order of the deal; an AI that takes over plays from it.
HandIsTrue ==
  stage = "play" => \A p \in Seats :
    /\ ToSet(Cards(mem[p])) = ToSet(dealt[p]) \ played[p]
    /\ \A i, j \in DOMAIN Cards(mem[p]) :
         i < j => Before(dealt[p], Cards(mem[p])[i], Cards(mem[p])[j])

\* Player.cpp:384: no card is played twice, though everyone's hand holds the base cards.
PlayedOnce == \A p, q \in Seats : p # q => played[p] \intersect played[q] = {}

\* However the random numbers fall, whoever plays a hand, and whoever leaves, the cards of
\* the table are those of one deck (Room.cpp:296, Player.cpp:384, OutCardAI.cpp:45), and
\* the loops over them stay inside the arrays.
CardsAreTrue == DealIsFair /\ HandIsTrue /\ PlayedOnce /\ NoOverrun

Plays(p) == stage = "play" /\ last' = p /\ (last # p \/ played' # played \/ turn' < turn)

\* Player.cpp:346, 386, 390: the statuses of the three pass the turn to the right, when
\* the landlord is a user and nobody leaves.
PlaysInTurn == \A p \in Seats : Plays(p) => last \in {Left(p), Nobody}

\* OutCardAI.cpp:31: an AI leads when it begins, or when both others have passed since
\* somebody played cards, and never otherwise: _cardType may be from an earlier round.
EarnsItsLead ==
  \A p \in Seats : Plays(p) /\ kind'[p] = "ai" => (ctype'[p] = SINGLE <=> last = Nobody \/ passes = 2)

\* Player.cpp:282, 347, 387: an AI that has its turn plays or passes when its delay is
\* over, whether it was told by its neighbour or sees that it has played.
AiAnswers == \A p \in Seats : stage = "play" /\ kind[p] = "ai" /\ last = Left(p) => turn <= AiDelay + 1
=============================================================================
