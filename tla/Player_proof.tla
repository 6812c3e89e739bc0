---------------------------- MODULE Player_proof ----------------------------
(***************************************************************************)
(* Lemmas about the operators of Player.tla: what a method of class Player *)
(* keeps of the memory it is called on.                                    *)
(***************************************************************************)
EXTENDS Player, TLAPS

\* Assignments to one field of a player.
PutQueue(m, p, v)   == [m EXCEPT !.pl[p].q = v]
PutLeft(m, p, v)    == [m EXCEPT !.pl[p].left = v]
PutRight(m, p, v)   == [m EXCEPT !.pl[p].right = v]
PutStarted(m, p, v) == [m EXCEPT !.pl[p].started = v]
PutExp(m, p, v)     == [m EXCEPT !.pl[p].exp = v]
PutDelay(m, p, v)   == [m EXCEPT !.pl[p].delay = v]
PutDefault(m, p, v) == [m EXCEPT !.pl[p].deflt = v]
PutBid(m, p, v)     == [m EXCEPT !.pl[p].bid = v]
PutLord(m, p, v)    == [m EXCEPT !.pl[p].lord = v]
PutDesk(m, p, v)    == [m EXCEPT !.pl[p].desk = v]
PutKind(m, p, v)    == [m EXCEPT !.pl[p].kind = v]

\* From m to n nothing has changed that a session, or the room's map, knows of a
\* player, and nobody has logged out.
Calm(m, n) ==
  /\ n \in Memory
  /\ n.ses = m.ses
  /\ \A x \in Players : /\ n.pl[x].alive = m.pl[x].alive
                        /\ n.pl[x].id = m.pl[x].id
                        /\ n.pl[x].kind = m.pl[x].kind
                        /\ n.pl[x].sess = m.pl[x].sess
                        /\ n.pl[x].st = LOG_OUTED => m.pl[x].st = LOG_OUTED

LEMMA CalmSelf == ASSUME NEW m \in Memory PROVE Calm(m, m)
  BY DEF Calm

LEMMA CalmTrans ==
  ASSUME NEW m, NEW n, NEW k, Calm(m, n), Calm(n, k)
  PROVE  Calm(m, k)
  BY DEF Calm

LEMMA PutStatusCalm ==
  ASSUME NEW m \in Memory, NEW p \in Players, NEW s \in Status \ {DEALING, LOG_OUTED}
  PROVE  Calm(m, SetStatus(m, p, s))
  <1>1. SetStatus(m, p, s) \in Memory
    BY DEF SetStatus, Memory, PlayerRecord
  <1> QED BY <1>1, SMTT(30) DEF SetStatus, Calm, Memory, PlayerRecord

LEMMA CalmStatus ==
  ASSUME NEW k, NEW m, Calm(k, m), NEW p \in Players, NEW s \in Status \ {DEALING, LOG_OUTED}
  PROVE  Calm(k, SetStatus(m, p, s))
  <1>1. m \in Memory
    BY DEF Calm
  <1>2. Calm(m, SetStatus(m, p, s))
    BY <1>1, PutStatusCalm
  <1> QED BY <1>2, CalmTrans

LEMMA PutQueueCalm ==
  ASSUME NEW m \in Memory, NEW p \in Players, NEW v \in NULL .. THREE
  PROVE  Calm(m, PutQueue(m, p, v))
  <1>1. PutQueue(m, p, v) \in Memory
    BY DEF PutQueue, Memory, PlayerRecord
  <1> QED BY <1>1, SMTT(30) DEF PutQueue, Calm, Memory, PlayerRecord

LEMMA CalmQueue ==
  ASSUME NEW k, NEW m, Calm(k, m), NEW p \in Players, NEW v \in NULL .. THREE
  PROVE  Calm(k, PutQueue(m, p, v))
  <1>1. m \in Memory
    BY DEF Calm
  <1>2. Calm(m, PutQueue(m, p, v))
    BY <1>1, PutQueueCalm
  <1> QED BY <1>2, CalmTrans

LEMMA PutLeftCalm ==
  ASSUME NEW m \in Memory, NEW p \in Players, NEW v \in Players \union {Null}
  PROVE  Calm(m, PutLeft(m, p, v))
  <1>1. PutLeft(m, p, v) \in Memory
    BY DEF PutLeft, Memory, PlayerRecord
  <1> QED BY <1>1, SMTT(30) DEF PutLeft, Calm, Memory, PlayerRecord

LEMMA CalmLeft ==
  ASSUME NEW k, NEW m, Calm(k, m), NEW p \in Players, NEW v \in Players \union {Null}
  PROVE  Calm(k, PutLeft(m, p, v))
  <1>1. m \in Memory
    BY DEF Calm
  <1>2. Calm(m, PutLeft(m, p, v))
    BY <1>1, PutLeftCalm
  <1> QED BY <1>2, CalmTrans

LEMMA PutRightCalm ==
  ASSUME NEW m \in Memory, NEW p \in Players, NEW v \in Players \union {Null}
  PROVE  Calm(m, PutRight(m, p, v))
  <1>1. PutRight(m, p, v) \in Memory
    BY DEF PutRight, Memory, PlayerRecord
  <1> QED BY <1>1, SMTT(30) DEF PutRight, Calm, Memory, PlayerRecord

LEMMA CalmRight ==
  ASSUME NEW k, NEW m, Calm(k, m), NEW p \in Players, NEW v \in Players \union {Null}
  PROVE  Calm(k, PutRight(m, p, v))
  <1>1. m \in Memory
    BY DEF Calm
  <1>2. Calm(m, PutRight(m, p, v))
    BY <1>1, PutRightCalm
  <1> QED BY <1>2, CalmTrans

LEMMA PutStartedCalm ==
  ASSUME NEW m \in Memory, NEW p \in Players, NEW v \in BOOLEAN
  PROVE  Calm(m, PutStarted(m, p, v))
  <1>1. PutStarted(m, p, v) \in Memory
    BY DEF PutStarted, Memory, PlayerRecord
  <1> QED BY <1>1, SMTT(30) DEF PutStarted, Calm, Memory, PlayerRecord

LEMMA CalmStarted ==
  ASSUME NEW k, NEW m, Calm(k, m), NEW p \in Players, NEW v \in BOOLEAN
  PROVE  Calm(k, PutStarted(m, p, v))
  <1>1. m \in Memory
    BY DEF Calm
  <1>2. Calm(m, PutStarted(m, p, v))
    BY <1>1, PutStartedCalm
  <1> QED BY <1>2, CalmTrans

LEMMA PutExpCalm ==
  ASSUME NEW m \in Memory, NEW p \in Players, NEW v \in -1 .. WaitTime
  PROVE  Calm(m, PutExp(m, p, v))
  <1>1. PutExp(m, p, v) \in Memory
    BY DEF PutExp, Memory, PlayerRecord
  <1> QED BY <1>1, SMTT(30) DEF PutExp, Calm, Memory, PlayerRecord

LEMMA CalmExp ==
  ASSUME NEW k, NEW m, Calm(k, m), NEW p \in Players, NEW v \in -1 .. WaitTime
  PROVE  Calm(k, PutExp(m, p, v))
  <1>1. m \in Memory
    BY DEF Calm
  <1>2. Calm(m, PutExp(m, p, v))
    BY <1>1, PutExpCalm
  <1> QED BY <1>2, CalmTrans

LEMMA PutDelayCalm ==
  ASSUME NEW m \in Memory, NEW p \in Players, NEW v \in 0 .. AiDelay
  PROVE  Calm(m, PutDelay(m, p, v))
  <1>1. PutDelay(m, p, v) \in Memory
    BY DEF PutDelay, Memory, PlayerRecord
  <1> QED BY <1>1 DEF PutDelay, Calm, Memory, PlayerRecord

LEMMA CalmDelay ==
  ASSUME NEW k, NEW m, Calm(k, m), NEW p \in Players, NEW v \in 0 .. AiDelay
  PROVE  Calm(k, PutDelay(m, p, v))
  <1>1. m \in Memory
    BY DEF Calm
  <1>2. Calm(m, PutDelay(m, p, v))
    BY <1>1, PutDelayCalm
  <1> QED BY <1>2, CalmTrans

LEMMA PutDefaultCalm ==
  ASSUME NEW m \in Memory, NEW p \in Players, NEW v \in Ids \union {Null}
  PROVE  Calm(m, PutDefault(m, p, v))
  <1>1. PutDefault(m, p, v) \in Memory
    BY DEF PutDefault, Memory, PlayerRecord
  <1> QED BY <1>1, SMTT(30) DEF PutDefault, Calm, Memory, PlayerRecord

LEMMA CalmDefault ==
  ASSUME NEW k, NEW m, Calm(k, m), NEW p \in Players, NEW v \in Ids \union {Null}
  PROVE  Calm(k, PutDefault(m, p, v))
  <1>1. m \in Memory
    BY DEF Calm
  <1>2. Calm(m, PutDefault(m, p, v))
    BY <1>1, PutDefaultCalm
  <1> QED BY <1>2, CalmTrans

LEMMA PutBidCalm ==
  ASSUME NEW m \in Memory, NEW p \in Players, NEW v \in -1 .. 3
  PROVE  Calm(m, PutBid(m, p, v))
  <1>1. PutBid(m, p, v) \in Memory
    BY DEF PutBid, Memory, PlayerRecord
  <1> QED BY <1>1, SMTT(30) DEF PutBid, Calm, Memory, PlayerRecord

LEMMA CalmBid ==
  ASSUME NEW k, NEW m, Calm(k, m), NEW p \in Players, NEW v \in -1 .. 3
  PROVE  Calm(k, PutBid(m, p, v))
  <1>1. m \in Memory
    BY DEF Calm
  <1>2. Calm(m, PutBid(m, p, v))
    BY <1>1, PutBidCalm
  <1> QED BY <1>2, CalmTrans

LEMMA PutLordCalm ==
  ASSUME NEW m \in Memory, NEW p \in Players, NEW v \in Ids \union {Null}
  PROVE  Calm(m, PutLord(m, p, v))
  <1>1. PutLord(m, p, v) \in Memory
    BY DEF PutLord, Memory, PlayerRecord
  <1> QED BY <1>1, SMTT(30) DEF PutLord, Calm, Memory, PlayerRecord

LEMMA CalmLord ==
  ASSUME NEW k, NEW m, Calm(k, m), NEW p \in Players, NEW v \in Ids \union {Null}
  PROVE  Calm(k, PutLord(m, p, v))
  <1>1. m \in Memory
    BY DEF Calm
  <1>2. Calm(m, PutLord(m, p, v))
    BY <1>1, PutLordCalm
  <1> QED BY <1>2, CalmTrans

LEMMA PutDeskCalm ==
  ASSUME NEW m \in Memory, NEW p \in Players,
         NEW v \in (Players \union {Null}) \X (Players \union {Null})
  PROVE  Calm(m, PutDesk(m, p, v))
  <1>1. PutDesk(m, p, v) \in Memory
    BY SMTT(60) DEF PutDesk, Memory, PlayerRecord
  <1> QED BY <1>1, SMTT(30) DEF PutDesk, Calm, Memory, PlayerRecord

LEMMA CalmDesk ==
  ASSUME NEW k, NEW m, Calm(k, m), NEW p \in Players,
         NEW v \in (Players \union {Null}) \X (Players \union {Null})
  PROVE  Calm(k, PutDesk(m, p, v))
  <1>1. m \in Memory
    BY DEF Calm
  <1>2. Calm(m, PutDesk(m, p, v))
    BY <1>1, PutDeskCalm
  <1> QED BY <1>2, CalmTrans

LEMMA CalmFault ==
  ASSUME NEW k, NEW m, Calm(k, m)
  PROVE  Calm(k, [m EXCEPT !.fault = TRUE])
  <1>1. m \in Memory
    BY DEF Calm
  <1>2. [m EXCEPT !.fault = TRUE] \in Memory
    BY <1>1 DEF Memory
  <1> QED BY <1>1, <1>2 DEF Calm, Memory

LEMMA CalmUsing ==
  ASSUME NEW k, NEW m, Calm(k, m), NEW S, NEW r,
         ~ m.fault /\ (\A x \in S : Live(m, x)) => Calm(k, r)
  PROVE  Calm(k, Using(m, S, r))
  BY CalmFault DEF Using

LEMMA CalmSending ==
  ASSUME NEW k, NEW m, Calm(k, m), NEW S, NEW r,
         ~ m.fault /\ (\A x \in S : Live(m, x)) => Calm(k, r)
  PROVE  Calm(k, Sending(m, S, r))
  BY CalmFault DEF Using, Sending

LEMMA StatusValues ==
  /\ \A s \in 0 .. 11 : s \in Status
  /\ LOG_OUTING \in Status /\ LOG_OUTED \in Status
  BY DEF Status, LOG_OUTING, LOG_OUTED

LEMMA MemoryTypes ==
  ASSUME NEW m \in Memory, NEW p \in Players
  PROVE  /\ m.pl[p] \in PlayerRecord
         /\ m.pl[p].left \in Players \union {Null} /\ m.pl[p].right \in Players \union {Null}
         /\ m.pl[p].id \in Ids \union {Null} /\ m.pl[p].deflt \in Ids \union {Null}
         /\ m.pl[p].lord \in Ids \union {Null} /\ m.pl[p].st \in Status
         /\ m.pl[p].q \in NULL .. THREE /\ m.pl[p].bid \in -1 .. 3
         /\ m.pl[p].exp \in -1 .. WaitTime /\ m.pl[p].delay \in 0 .. AiDelay
         /\ m.pl[p].kind \in Kinds /\ m.pl[p].alive \in BOOLEAN
  BY DEF Memory, PlayerRecord

------------------------------------------------------------------------------
(* The methods that do not log anybody out.                                *)

LEMMA CalmSetStart ==
  ASSUME NEW k, NEW m, Calm(k, m), NEW p \in Players
  PROVE  Calm(k, SetStart(m, p))
  <1>1. SetStart(m, p) = PutStarted(SetStatus(m, p, STARTING), p, TRUE)
    BY DEF SetStart, SetStatus, PutStarted
  <1>2. STARTING \in Status \ {DEALING, LOG_OUTED}
    BY StatusValues DEF STARTING, DEALING, LOG_OUTED
  <1> QED BY <1>1, <1>2, CalmStatus, CalmStarted

LEMMA CalmRunClocks ==
  ASSUME NEW m \in Memory, NEW p \in Players, NEW d \in Nat
  PROVE  Calm(m, RunClocks(m, p, d))
  <1> DEFINE e == IF m.pl[p].q \in {ONE, TWO} THEN Less(m.pl[p].exp, d, -1) ELSE m.pl[p].exp
             w == IF PlaysItself(m, p) /\ m.pl[p].st \in {GRABING, OUT_CARDING}
                    THEN Less(m.pl[p].delay, d, 0) ELSE m.pl[p].delay
  <1>1. RunClocks(m, p, d) = PutDelay(PutExp(m, p, e), p, w)
    <2>1. PutExp(m, p, e).pl[p].delay = m.pl[p].delay
      BY DEF PutExp, Memory, PlayerRecord
    <2> QED BY <2>1 DEF RunClocks, PutExp, PutDelay
  <1>2. e \in -1 .. WaitTime
    BY MemoryTypes, PlayerTimeAssumption DEF Less
  <1>3. w \in 0 .. AiDelay
    BY MemoryTypes, PlayerTimeAssumption DEF Less
  <1> HIDE DEF e, w
  <1> QED BY <1>1, <1>2, <1>3, CalmSelf, CalmExp, CalmDelay

LEMMA CalmCheckQueueStatus ==
  ASSUME NEW k, NEW m, Calm(k, m), NEW p \in Players
  PROVE  Calm(k, CheckQueueStatus(m, p))
  <1> DEFINE l == m.pl[p].left
             r == m.pl[p].right
             flag == CASE l # Null /\ r # Null -> THREE
                       [] l = Null /\ r = Null -> m.pl[p].q
                       [] OTHER -> TWO
             n == [m EXCEPT !.pl[p].q = flag]
             f == [n EXCEPT !.pl[p].desk = <<l, r>>]
  <1>1. m \in Memory
    BY DEF Calm
  <1>2. /\ flag \in NULL .. THREE
        /\ l \in Players \union {Null} /\ r \in Players \union {Null}
    BY <1>1, MemoryTypes DEF NULL, TWO, THREE
  <1>3. Calm(k, n)
    <2> HIDE DEF flag
    <2> QED BY <1>2, CalmQueue DEF PutQueue
  <1>4. Calm(k, f)
    <2> HIDE DEF n, l, r
    <2> QED BY <1>2, <1>3, CalmDesk DEF PutDesk
  <1>5. CheckQueueStatus(m, p) =
          IF m.fault \/ m.pl[p].q = flag THEN m
          ELSE IF m.pl[p].kind # "user" THEN n
          ELSE Using(m, Neighbours(m, p), Sending(m, {p}, IF flag = THREE THEN f ELSE n))
    BY DEF CheckQueueStatus
  <1> HIDE DEF flag, n, f
  <1>6. Calm(k, Sending(m, {p}, IF flag = THREE THEN f ELSE n))
    BY <1>3, <1>4, CalmSending
  <1>7. Calm(k, Using(m, Neighbours(m, p), Sending(m, {p}, IF flag = THREE THEN f ELSE n)))
    BY <1>6, CalmUsing
  <1> QED BY <1>3, <1>5, <1>7

LEMMA CalmCheckStart ==
  ASSUME NEW k, NEW m, Calm(k, m), NEW p \in Players
  PROVE  Calm(k, CheckStart(m, p))
  <1>1. STARTED \in Status \ {DEALING, LOG_OUTED}
    BY StatusValues DEF STARTED, DEALING, LOG_OUTED
  <1>2. Calm(k, Sending(m, Neighbours(m, p), SetStatus(m, p, STARTED)))
    BY <1>1, CalmStatus, CalmSending
  <1> QED BY <1>2 DEF CheckStart

LEMMA CalmChooseDefault ==
  ASSUME NEW k, NEW m, Calm(k, m), NEW p \in Players, NEW who
  PROVE  Calm(k, ChooseDefault(m, p, who))
  <1> DEFINE l == m.pl[p].left
             r == m.pl[p].right
             first == CASE who = 0 -> p [] who = 1 -> l [] OTHER -> r
             id == m.pl[first].id
             n == [m EXCEPT !.pl[p].deflt = id, !.pl[l].deflt = id, !.pl[r].deflt = id]
  <1>1. m \in Memory
    BY DEF Calm
  <1>2. l \in Players \union {Null} /\ r \in Players \union {Null}
    BY <1>1, MemoryTypes
  <1>3. ASSUME Live(m, l), Live(m, r)
        PROVE  Calm(k, n)
    <2>1. l \in Players /\ r \in Players
      BY <1>2, <1>3 DEF Live
    <2>2. first \in Players
      BY <2>1
    <2>3. id \in Ids \union {Null}
      <3> HIDE DEF first
      <3> QED BY <1>1, <2>2, MemoryTypes
    <2>4. n = PutDefault(PutDefault(PutDefault(m, p, id), l, id), r, id)
      BY DEF PutDefault
    <2> HIDE DEF l, r, id, n
    <2> QED BY <2>1, <2>3, <2>4, CalmDefault
  <1>4. Calm(k, Using(m, {l, r}, n))
    <2> HIDE DEF l, r, n
    <2> QED BY <1>3, CalmUsing
  <1>5. ChooseDefault(m, p, who) = IF m.pl[p].deflt # Null THEN m ELSE Using(m, {l, r}, n)
    BY DEF ChooseDefault
  <1> QED BY <1>4, <1>5

LEMMA CalmCheckDealCards ==
  ASSUME NEW k, NEW m, Calm(k, m), NEW p \in Players, NEW who
  PROVE  Calm(k, CheckDealCards(m, p, who))
  <1> DEFINE n == ChooseDefault(m, p, who)
             s == IF n.pl[p].deflt = n.pl[p].id /\ PlaysItself(n, p) THEN GRABING ELSE DEALED
  <1>1. Calm(k, n)
    BY CalmChooseDefault
  <1>2. s \in Status \ {DEALING, LOG_OUTED}
    BY StatusValues DEF GRABING, DEALED, DEALING, LOG_OUTED
  <1>3. CheckDealCards(m, p, who) =
          IF m.fault \/ m.pl[p].st # DEALING THEN m ELSE Sending(n, {p}, SetStatus(n, p, s))
    BY DEF CheckDealCards, Dealt
  <1> HIDE DEF n, s
  <1>4. Calm(k, Sending(n, {p}, SetStatus(n, p, s)))
    BY <1>1, <1>2, CalmStatus, CalmSending
  <1> QED BY <1>3, <1>4

LEMMA CalmFindLandlord ==
  ASSUME NEW k, NEW m, Calm(k, m), NEW p \in Players
  PROVE  Calm(k, FindLandlord(m, p))
  <1> DEFINE l == m.pl[p].left
             r == m.pl[p].right
             bids == {m.pl[p].bid, m.pl[l].bid, m.pl[r].bid}
             top == Max(bids)
             winner == CASE top = m.pl[p].bid -> p
                         [] top # m.pl[p].bid /\ top = m.pl[l].bid -> l
                         [] OTHER -> r
             n == IF -1 \notin bids \/ top = 3
                    THEN [m EXCEPT !.pl[p].lord = m.pl[winner].id] ELSE m
  <1>1. m \in Memory
    BY DEF Calm
  <1>2. l \in Players \union {Null} /\ r \in Players \union {Null}
    BY <1>1, MemoryTypes
  <1>3. ASSUME Live(m, l), Live(m, r)
        PROVE  Calm(k, n)
    <2>1. l \in Players /\ r \in Players
      BY <1>2, <1>3 DEF Live
    <2>2. winner \in Players
      <3> HIDE DEF top, l, r
      <3> QED BY <2>1
    <2>3. m.pl[winner].id \in Ids \union {Null}
      <3> HIDE DEF winner
      <3> QED BY <1>1, <2>2, MemoryTypes
    <2> HIDE DEF winner, top, bids
    <2> QED BY <2>3, CalmLord DEF PutLord
  <1>4. Calm(k, Using(m, {l, r}, n))
    <2> HIDE DEF l, r, n
    <2> QED BY <1>3, CalmUsing
  <1>5. FindLandlord(m, p) =
          IF m.fault \/ m.pl[p].lord # Null THEN m ELSE Using(m, {l, r}, n)
    BY DEF FindLandlord
  <1> QED BY <1>4, <1>5

LEMMA CalmBeginOutCard ==
  ASSUME NEW k, NEW m, Calm(k, m), NEW p \in Players
  PROVE  Calm(k, BeginOutCard(m, p))
  <1> DEFINE l == m.pl[p].left
             r == m.pl[p].right
             lord == m.pl[p].lord
             n == [m EXCEPT !.pl[l].lord = lord, !.pl[r].lord = lord,
                            !.pl[p].st = WAIT_OUT_CARD, !.pl[l].st = WAIT_OUT_CARD,
                            !.pl[r].st = WAIT_OUT_CARD]
  <1>1. m \in Memory
    BY DEF Calm
  <1>2. /\ l \in Players \union {Null} /\ r \in Players \union {Null}
        /\ lord \in Ids \union {Null}
    BY <1>1, MemoryTypes
  <1>3. WAIT_OUT_CARD \in Status \ {DEALING, LOG_OUTED}
    BY StatusValues DEF WAIT_OUT_CARD, DEALING, LOG_OUTED
  <1>4. ASSUME Live(m, l), Live(m, r)
        PROVE  Calm(k, n)
    <2>1. l \in Players /\ r \in Players
      BY <1>2, <1>4 DEF Live
    <2>2. n = SetStatus(SetStatus(SetStatus(PutLord(PutLord(m, l, lord), r, lord),
                p, WAIT_OUT_CARD), l, WAIT_OUT_CARD), r, WAIT_OUT_CARD)
      BY DEF PutLord, SetStatus
    <2> HIDE DEF l, r, lord, n
    <2> QED BY <1>2, <1>3, <2>1, <2>2, CalmLord, CalmStatus
  <1>5. BeginOutCard(m, p) = Using(m, {l, r}, n)
    BY DEF BeginOutCard
  <1> HIDE DEF l, r, n
  <1> QED BY <1>4, <1>5, CalmUsing

LEMMA CalmAiTakesTurn ==
  ASSUME NEW k, NEW m, Calm(k, m), NEW p \in Players
  PROVE  Calm(k, AiTakesTurn(m, p))
  <1> DEFINE l == m.pl[p].left
             n == IF m.pl[l].st = GRABED THEN SetStatus(m, p, GRABING) ELSE m
  <1>1. GRABING \in Status \ {DEALING, LOG_OUTED}
    BY StatusValues DEF GRABING, DEALING, LOG_OUTED
  <1>2. Calm(k, SetStatus(m, p, GRABING))
    BY <1>1, CalmStatus
  <1>3. Calm(k, Using(m, {l}, n))
    BY <1>2, CalmUsing
  <1> QED BY <1>2, <1>3 DEF AiTakesTurn

LEMMA CalmBidOfAi ==
  ASSUME NEW k, NEW m, Calm(k, m), NEW p \in Players, NEW roll \in 0 .. 3
  PROVE  Calm(k, BidOfAi(m, p, roll))
  <1> DEFINE b == AiBid(m, p, roll)
             n == [m EXCEPT !.pl[p].bid = b, !.pl[p].delay = AiDelay]
  <1>1. b \in -1 .. 3
    BY DEF AiBid
  <1>2. n = PutDelay(PutBid(m, p, b), p, AiDelay)
    BY DEF PutBid, PutDelay
  <1>3. AiDelay \in 0 .. AiDelay
    BY PlayerTimeAssumption
  <1> HIDE DEF b
  <1>4. Calm(k, n)
    BY <1>1, <1>2, <1>3, CalmBid, CalmDelay
  <1>5. BidOfAi(m, p, roll) =
          IF ~ PlaysItself(m, p) THEN m ELSE Using(m, {m.pl[p].left, m.pl[p].right}, n)
    BY DEF BidOfAi, b
  <1> HIDE DEF n
  <1> QED BY <1>4, <1>5, CalmUsing

LEMMA CalmBidIsSent ==
  ASSUME NEW k, NEW m, Calm(k, m), NEW p \in Players
  PROVE  Calm(k, BidIsSent(m, p))
  <1>1. GRABED \in Status \ {DEALING, LOG_OUTED}
    BY StatusValues DEF GRABED, DEALING, LOG_OUTED
  <1> QED BY <1>1, CalmStatus, CalmSending DEF BidIsSent

LEMMA CalmAnnounceBid ==
  ASSUME NEW k, NEW m, Calm(k, m), NEW p \in Players, NEW roll \in 0 .. 3
  PROVE  Calm(k, AnnounceBid(m, p, roll))
  BY CalmBidOfAi, CalmFindLandlord, CalmBidIsSent DEF AnnounceBid

LEMMA CalmDealAgain ==
  ASSUME NEW k, NEW m, Calm(k, m), NEW p \in Players
  PROVE  Calm(k, DealAgain(m, p))
  <1> DEFINE l == m.pl[p].left
             r == m.pl[p].right
             n == [m EXCEPT !.pl[p].deflt = Null, !.pl[p].bid = -1, !.pl[p].st = STARTED]
             u == IF m.pl[r].bid # 0 THEN m ELSE n
             v == IF m.pl[l].bid # 0 THEN m ELSE Using(m, {r}, u)
  <1>1. STARTED \in Status \ {DEALING, LOG_OUTED}
    BY StatusValues DEF STARTED, DEALING, LOG_OUTED
  <1>2. n = SetStatus(PutBid(PutDefault(m, p, Null), p, -1), p, STARTED)
    BY DEF PutBid, PutDefault, SetStatus
  <1>3. Calm(k, n)
    <2>1. -1 \in -1 .. 3 /\ Null \in Ids \union {Null}
      OBVIOUS
    <2>2. Calm(k, PutDefault(m, p, Null))
      BY <2>1, CalmDefault
    <2>3. Calm(k, PutBid(PutDefault(m, p, Null), p, -1))
      BY <2>1, <2>2, CalmBid
    <2> HIDE DEF n
    <2> QED BY <1>1, <1>2, <2>3, CalmStatus
  <1>4. DealAgain(m, p) = IF m.pl[p].bid # 0 THEN m ELSE Using(m, {l}, v)
    BY DEF DealAgain
  <1> HIDE DEF n
  <1>5. Calm(k, u)
    BY <1>3
  <1>6. Calm(k, v)
    <2> HIDE DEF u
    <2> QED BY <1>5, CalmUsing
  <1> HIDE DEF v
  <1> QED BY <1>4, <1>6, CalmUsing

LEMMA CalmCheckGrabLandlord ==
  ASSUME NEW k, NEW m, Calm(k, m), NEW p \in Players, NEW roll \in 0 .. 3
  PROVE  Calm(k, CheckGrabLandlord(m, p, roll))
  <1> DEFINE n == AnnounceBid(AiTakesTurn(m, p), p, roll)
             f == FindLandlord(DealAgain(n, p), p)
  <1>1. Calm(k, n)
    BY CalmAiTakesTurn, CalmAnnounceBid
  <1>2. Calm(k, f)
    <2> HIDE DEF n
    <2> QED BY <1>1, CalmDealAgain, CalmFindLandlord
  <1>3. Calm(k, BeginGame(f, p))
    <2> HIDE DEF f
    <2> QED BY <1>2, CalmBeginOutCard DEF BeginGame
  <1> QED BY <1>1, <1>3 DEF CheckGrabLandlord, SettleBids

LEMMA CalmAiPlaysNext ==
  ASSUME NEW k, NEW m, Calm(k, m), NEW p \in Players
  PROVE  Calm(k, AiPlaysNext(m, p))
  <1> DEFINE a == IF m.pl[p].st = WAIT_OUT_CARD THEN FindLandlord(m, p) ELSE m
             l == a.pl[p].left
             n == SetStatus(a, p, OUT_CARDING)
             u == IF a.pl[l].st = OUT_CARDED THEN n ELSE a
  <1>1. Calm(k, a)
    BY CalmFindLandlord
  <1>2. OUT_CARDING \in Status \ {DEALING, LOG_OUTED}
    BY StatusValues DEF OUT_CARDING, DEALING, LOG_OUTED
  <1> HIDE DEF a
  <1>3. Calm(k, n)
    BY <1>1, <1>2, CalmStatus
  <1> HIDE DEF n
  <1>4. Calm(k, u)
    BY <1>1, <1>3
  <1> HIDE DEF u
  <1>5. Calm(k, Using(a, {l}, u))
    BY <1>1, <1>4, CalmUsing
  <1>6. AiPlaysNext(m, p) =
          IF ~ PlaysItself(m, p) THEN m
          ELSE IF a.fault THEN a ELSE IF AiStarts(a, p) THEN n ELSE Using(a, {l}, u)
    BY DEF AiPlaysNext, AiPlays, a, n, u
  <1> QED BY <1>1, <1>3, <1>5, <1>6

LEMMA CalmOutCards ==
  ASSUME NEW k, NEW m, Calm(k, m), NEW p \in Players
  PROVE  Calm(k, OutCards(m, p))
  <1> DEFINE l == m.pl[p].left
             r == m.pl[p].right
             d == IF PlaysItself(m, p) THEN AiDelay ELSE m.pl[p].delay
             n == [m EXCEPT !.pl[p].st = OUT_CARDED,
                            !.pl[p].delay = IF PlaysItself(m, p) THEN AiDelay ELSE @]
             S == IF PlaysItself(m, p) THEN {p, l, r} ELSE {p}
             u == IF PlaysItself(m, r) THEN SetStatus(n, r, OUT_CARDING) ELSE n
             v == Sending(m, {p, l, r}, u)
  <1>1. m \in Memory
    BY DEF Calm
  <1>2. r \in Players \union {Null} /\ d \in 0 .. AiDelay
    BY <1>1, MemoryTypes, PlayerTimeAssumption
  <1>3. /\ OUT_CARDING \in Status \ {DEALING, LOG_OUTED}
        /\ OUT_CARDED \in Status \ {DEALING, LOG_OUTED}
    BY StatusValues DEF OUT_CARDING, OUT_CARDED, DEALING, LOG_OUTED
  <1>4. Calm(k, n)
    <2>1. SetStatus(m, p, OUT_CARDED).pl[p].delay = m.pl[p].delay
      BY <1>1 DEF SetStatus, Memory, PlayerRecord
    <2>2. n = PutDelay(SetStatus(m, p, OUT_CARDED), p, d)
      BY <2>1 DEF SetStatus, PutDelay
    <2> HIDE DEF n, d
    <2> QED BY <1>2, <1>3, <2>2, CalmStatus, CalmDelay
  <1> HIDE DEF n
  <1>5. ASSUME Live(m, r)
        PROVE  Calm(k, u)
    <2>1. r \in Players
      BY <1>2, <1>5 DEF Live
    <2> HIDE DEF r
    <2> QED BY <1>3, <1>4, <2>1, CalmStatus
  <1>6. Calm(k, v)
    <2> HIDE DEF u, l, r
    <2> QED BY <1>5, CalmSending
  <1>7. OutCards(m, p) =
          IF m.fault \/ m.pl[p].st # OUT_CARDING \/ (PlaysItself(m, p) /\ m.pl[p].delay > 0)
            THEN m ELSE Using(m, S, v)
    BY DEF OutCards, n
  <1> HIDE DEF v, S
  <1> QED BY <1>6, <1>7, CalmUsing

LEMMA CalmRightFollowed ==
  ASSUME NEW k, NEW m, Calm(k, m), NEW p \in Players
  PROVE  Calm(k, RightFollowed(m, p))
  <1> DEFINE r == m.pl[p].right
             n == IF m.pl[r].st = OUT_CARDED THEN SetStatus(m, p, WAIT_OUT_CARD) ELSE m
  <1>1. WAIT_OUT_CARD \in Status \ {DEALING, LOG_OUTED}
    BY StatusValues DEF WAIT_OUT_CARD, DEALING, LOG_OUTED
  <1>2. Calm(k, n)
    BY <1>1, CalmStatus
  <1>3. RightFollowed(m, p) =
          IF m.fault \/ m.pl[p].st # OUT_CARDED THEN m ELSE Using(m, {r}, n)
    BY DEF RightFollowed
  <1> HIDE DEF n
  <1> QED BY <1>2, <1>3, CalmUsing

LEMMA CalmCheckOutCard ==
  ASSUME NEW k, NEW m, Calm(k, m), NEW p \in Players
  PROVE  Calm(k, CheckOutCard(m, p))
  BY CalmAiPlaysNext, CalmOutCards, CalmRightFollowed DEF CheckOutCard

LEMMA CalmResetGame ==
  ASSUME NEW k, NEW m, Calm(k, m), NEW p \in Players
  PROVE  Calm(k, ResetGame(m, p))
  <1> DEFINE q == IF WasUser(m, p) THEN NULL ELSE m.pl[p].q
             a == PutExp(PutQueue(m, p, q), p, WaitTime)
             b == PutDelay(a, p, AiDelay)
             c == PutRight(PutLeft(b, p, Null), p, Null)
             d == PutBid(PutDefault(c, p, Null), p, -1)
  <1>1. ResetGame(m, p) = PutLord(d, p, Null)
    BY Zenon DEF ResetGame, PutQueue, PutExp, PutDelay, PutLeft, PutRight, PutDefault, PutBid, PutLord
  <1>2. q \in NULL .. THREE
    <2>1. m.pl[p].q \in NULL .. THREE
      BY MemoryTypes DEF Calm
    <2> QED BY <2>1 DEF NULL, THREE
  <1>3. /\ WaitTime \in -1 .. WaitTime /\ AiDelay \in 0 .. AiDelay /\ -1 \in -1 .. 3
        /\ Null \in Players \union {Null} /\ Null \in Ids \union {Null}
    BY PlayerTimeAssumption
  <1> HIDE DEF q
  <1>4. Calm(k, a)
    BY <1>2, <1>3, CalmQueue, CalmExp
  <1> HIDE DEF a
  <1>5. Calm(k, b)
    BY <1>3, <1>4, CalmDelay
  <1> HIDE DEF b
  <1>6. Calm(k, c)
    BY <1>3, <1>5, CalmLeft, CalmRight
  <1> HIDE DEF c
  <1>7. Calm(k, d)
    BY <1>3, <1>6, CalmDefault, CalmBid
  <1> HIDE DEF d
  <1> QED BY <1>1, <1>3, <1>7, CalmLord

\* The memory in which x is over its round and its left neighbour has been told.
OverAndTold(n, x) ==
  LET t == SetStatus(n, x, ROUNDOVERED)
      l == t.pl[x].left
  IN  IF MustBeTold(t, l) THEN SetStatus(t, l, ROUNDOVERING) ELSE t

\* RoundIsOver(n, x, Rec), with v for the value of its call of Rec.
RoundIsOverAt(n, x, v) ==
  LET t == SetStatus(n, x, ROUNDOVERED)
      l == t.pl[x].left
      r == t.pl[x].right
      a == OverAndTold(n, x)
      k == IF n.pl[x].st # ROUNDOVERING THEN n
           ELSE Sending(n, {x}, Using(t, {l}, Using(a, {r}, IF MustBeTold(a, r) THEN v ELSE a)))
  IN  IF n.fault \/ k.fault \/ k.pl[x].st # ROUNDOVERED THEN k ELSE ResetGame(k, x)

\* The memory and the player that Rec is called with.
NextOver(n, x) == SetStatus(OverAndTold(n, x), SetStatus(n, x, ROUNDOVERED).pl[x].right,
                            ROUNDOVERING)
NextOf(n, x) == SetStatus(n, x, ROUNDOVERED).pl[x].right

LEMMA RoundStatuses ==
  /\ ROUNDOVERING \in Status \ {DEALING, LOG_OUTED}
  /\ ROUNDOVERED \in Status \ {DEALING, LOG_OUTED}
  BY StatusValues DEF ROUNDOVERING, ROUNDOVERED, DEALING, LOG_OUTED

LEMMA CalmOverAndTold ==
  ASSUME NEW k, NEW n, Calm(k, n), NEW x \in Players,
         SetStatus(n, x, ROUNDOVERED).pl[x].left \in Players
  PROVE  Calm(k, OverAndTold(n, x))
  <1> DEFINE t == SetStatus(n, x, ROUNDOVERED)
             l == t.pl[x].left
  <1>1. Calm(k, t)
    BY RoundStatuses, CalmStatus
  <1>2. Calm(k, SetStatus(t, l, ROUNDOVERING))
    <2>1. l \in Players
      OBVIOUS
    <2> HIDE DEF t, l
    <2> QED BY <1>1, <2>1, RoundStatuses, CalmStatus
  <1> QED BY <1>1, <1>2 DEF OverAndTold

LEMMA CalmNextOver ==
  ASSUME NEW k, NEW n, Calm(k, n), NEW x \in Players,
         SetStatus(n, x, ROUNDOVERED).pl[x].left \in Players,
         NextOf(n, x) \in Players
  PROVE  Calm(k, NextOver(n, x))
  BY CalmOverAndTold, RoundStatuses, CalmStatus DEF NextOver, NextOf

LEMMA CalmRoundIsOverAt ==
  ASSUME NEW k, NEW n, Calm(k, n), NEW x \in Players, NEW v,
         (SetStatus(n, x, ROUNDOVERED).pl[x].left \in Players /\ NextOf(n, x) \in Players)
           => Calm(k, v)
  PROVE  Calm(k, RoundIsOverAt(n, x, v))
  <1> DEFINE t == SetStatus(n, x, ROUNDOVERED)
             l == t.pl[x].left
             r == t.pl[x].right
             a == OverAndTold(n, x)
             w == IF MustBeTold(a, r) THEN v ELSE a
             u == Using(t, {l}, Using(a, {r}, w))
             e == IF n.pl[x].st # ROUNDOVERING THEN n ELSE Sending(n, {x}, u)
  <1>1. Calm(k, t)
    BY RoundStatuses, CalmStatus
  <1>2. l \in Players \union {Null} /\ r \in Players \union {Null}
    <2>1. t \in Memory
      BY <1>1 DEF Calm
    <2> HIDE DEF t
    <2> QED BY <2>1, MemoryTypes
  <1>3. ASSUME Live(t, l)
        PROVE  Calm(k, Using(a, {r}, w))
    <2>1. l \in Players
      BY <1>2, <1>3 DEF Live
    <2>2. Calm(k, a)
      BY <2>1, CalmOverAndTold
    <2>3. ASSUME Live(a, r)
          PROVE  Calm(k, v)
      <3>1. r \in Players
        BY <1>2, <2>3 DEF Live
      <3> QED BY <2>1, <3>1 DEF NextOf
    <2> HIDE DEF a, r
    <2> QED BY <2>2, <2>3, CalmUsing
  <1>4. Calm(k, u)
    <2> HIDE DEF t, l, a, r, w
    <2> QED BY <1>1, <1>3, CalmUsing
  <1> HIDE DEF u
  <1>5. Calm(k, e)
    BY <1>4, CalmSending
  <1>6. RoundIsOverAt(n, x, v) =
          IF n.fault \/ e.fault \/ e.pl[x].st # ROUNDOVERED THEN e ELSE ResetGame(e, x)
    BY DEF RoundIsOverAt, u
  <1> HIDE DEF e
  <1> QED BY <1>5, <1>6, CalmResetGame

\* The recursion, from its bottom up.
LEMMA CalmRoundIsOver1 ==
  ASSUME NEW k, NEW n, Calm(k, n), NEW x \in Players
  PROVE  Calm(k, RoundIsOver1(n, x))
  <1> DEFINE v == Round(NextOver(n, x), NextOf(n, x))
  <1>1. (SetStatus(n, x, ROUNDOVERED).pl[x].left \in Players /\ NextOf(n, x) \in Players)
          => Calm(k, v)
    BY CalmNextOver, CalmFault DEF Round
  <1>2. RoundIsOver1(n, x) = RoundIsOverAt(n, x, v)
    BY DEF RoundIsOver1, RoundIsOver, PassOn, RoundIsOverAt, OverAndTold, NextOver, NextOf
  <1> HIDE DEF v
  <1> QED BY <1>1, <1>2, CalmRoundIsOverAt

LEMMA CalmRoundIsOver2 ==
  ASSUME NEW k, NEW n, Calm(k, n), NEW x \in Players
  PROVE  Calm(k, RoundIsOver2(n, x))
  <1> DEFINE v == RoundIsOver1(NextOver(n, x), NextOf(n, x))
  <1>1. (SetStatus(n, x, ROUNDOVERED).pl[x].left \in Players /\ NextOf(n, x) \in Players)
          => Calm(k, v)
    BY CalmNextOver, CalmRoundIsOver1, SMTT(30)
  <1>2. RoundIsOver2(n, x) = RoundIsOverAt(n, x, v)
    BY DEF RoundIsOver2, RoundIsOver, PassOn, RoundIsOverAt, OverAndTold, NextOver, NextOf
  <1> HIDE DEF v
  <1> QED BY <1>1, <1>2, CalmRoundIsOverAt

LEMMA CalmRoundIsOver3 ==
  ASSUME NEW k, NEW n, Calm(k, n), NEW x \in Players
  PROVE  Calm(k, RoundIsOver3(n, x))
  <1> DEFINE v == RoundIsOver2(NextOver(n, x), NextOf(n, x))
  <1>1. (SetStatus(n, x, ROUNDOVERED).pl[x].left \in Players /\ NextOf(n, x) \in Players)
          => Calm(k, v)
    BY CalmNextOver, CalmRoundIsOver2, SMTT(30)
  <1>2. RoundIsOver3(n, x) = RoundIsOverAt(n, x, v)
    BY DEF RoundIsOver3, RoundIsOver, PassOn, RoundIsOverAt, OverAndTold, NextOver, NextOf
  <1> HIDE DEF v
  <1> QED BY <1>1, <1>2, CalmRoundIsOverAt

LEMMA CalmCheckRoundOver ==
  ASSUME NEW k, NEW n, Calm(k, n), NEW x \in Players
  PROVE  Calm(k, CheckRoundOver(n, x))
  <1> DEFINE v == RoundIsOver3(NextOver(n, x), NextOf(n, x))
  <1>1. (SetStatus(n, x, ROUNDOVERED).pl[x].left \in Players /\ NextOf(n, x) \in Players)
          => Calm(k, v)
    BY CalmNextOver, CalmRoundIsOver3
  <1>2. CheckRoundOver(n, x) = RoundIsOverAt(n, x, v)
    BY DEF CheckRoundOver, RoundIsOver, PassOn, RoundIsOverAt, OverAndTold, NextOver, NextOf
  <1> HIDE DEF v
  <1> QED BY <1>1, <1>2, CalmRoundIsOverAt

LEMMA CalmAddNeighbour ==
  ASSUME NEW k, NEW m, Calm(k, m), NEW p \in Players, NEW x \in Players
  PROVE  Calm(k, AddNeighbour(m, p, x))
  <1> DEFINE n == CASE m.pl[p].left = Null -> PutRight(PutLeft(m, p, x), x, p)
                    [] m.pl[p].left # Null /\ m.pl[p].right = Null ->
                         PutLeft(PutRight(m, p, x), x, p)
                    [] OTHER -> m
             u == IF x \in {m.pl[p].left, m.pl[p].right} THEN m ELSE PutExp(n, p, WaitTime)
  <1>1. x \in Players \union {Null} /\ p \in Players \union {Null} /\ WaitTime \in -1 .. WaitTime
    BY PlayerTimeAssumption
  <1>2. Calm(k, n)
    BY <1>1, CalmLeft, CalmRight
  <1>3. AddNeighbour(m, p, x) = Using(m, {p, x}, u)
    BY DEF AddNeighbour, PutLeft, PutRight, PutExp
  <1> HIDE DEF n
  <1>4. Calm(k, u)
    BY <1>1, <1>2, CalmExp
  <1> HIDE DEF u
  <1> QED BY <1>3, <1>4, CalmUsing

------------------------------------------------------------------------------
(* Leaving: checkOutPlayer.                                                *)

\* A player that has a session is allocated, is a user's, has not left, and is the
\* player of that session.
Attached(m, p) ==
  m.pl[p].sess # Null =>
    /\ m.pl[p].alive
    /\ m.pl[p].kind = "user"
    /\ p \in Users
    /\ m.pl[p].st # LOG_OUTED
    /\ m.ses[m.pl[p].sess] = p

\* A session's player points back at it, and only AiPlayerPool makes AIs.
Backs(m) ==
  /\ m \in Memory
  /\ \A c \in Clients : m.ses[c] # Null => m.pl[m.ses[c]].sess = c
  /\ \A p \in Players : m.pl[p].kind = "ai" => p \in Ais

Sound(m) == Backs(m) /\ \A p \in Players : Attached(m, p)

\* The same while x is leaving: it may have left and be replaced, and still have
\* its session.
Leaving(m, x) ==
  /\ Backs(m)
  /\ \A p \in Players \ {x} : Attached(m, p)
  /\ m.pl[x].sess # Null => m.ses[m.pl[x].sess] = x

\* From m to n no player loses its id.
Kept(m, n) == \A x \in Players : m.pl[x].id # Null => n.pl[x].id # Null

LEMMA KeptTrans ==
  ASSUME NEW m, NEW n, NEW k, Kept(m, n), Kept(n, k)
  PROVE  Kept(m, k)
  BY DEF Kept

LEMMA CalmKept ==
  ASSUME NEW m, NEW n, Calm(m, n)
  PROVE  Kept(m, n)
  BY DEF Calm, Kept

LEMMA SoundCalm ==
  ASSUME NEW m, NEW n, Sound(m), Calm(m, n)
  PROVE  Sound(n) /\ Kept(m, n) /\ n \in Memory
  <1>1. m \in Memory /\ n \in Memory
    BY DEF Sound, Backs, Calm
  <1>2. \A c \in Clients : m.ses[c] \in Players \union {Null}
    BY <1>1 DEF Memory
  <1>3. Backs(n)
    BY <1>1, <1>2 DEF Sound, Backs, Calm
  <1>4. \A p \in Players : Attached(n, p)
    BY DEF Sound, Attached, Calm
  <1> QED BY <1>1, <1>3, <1>4, CalmKept DEF Sound

LEMMA LeavingOut ==
  ASSUME NEW m, Sound(m), NEW x \in Players
  PROVE  Leaving(SetStatus(m, x, LOG_OUTED), x) /\ Kept(m, SetStatus(m, x, LOG_OUTED))
  <1> DEFINE n == SetStatus(m, x, LOG_OUTED)
  <1>1. m \in Memory
    BY DEF Sound, Backs
  <1>2. n \in Memory
    BY <1>1, StatusValues DEF SetStatus, Memory, PlayerRecord
  <1>3. /\ n.ses = m.ses
        /\ \A p \in Players : /\ n.pl[p].sess = m.pl[p].sess /\ n.pl[p].alive = m.pl[p].alive
                              /\ n.pl[p].kind = m.pl[p].kind /\ n.pl[p].id = m.pl[p].id
                              /\ n.pl[p].st = IF p = x THEN LOG_OUTED ELSE m.pl[p].st
    BY <1>1 DEF SetStatus, Memory, PlayerRecord
  <1>4. \A c \in Clients : m.ses[c] \in Players \union {Null}
    BY <1>1 DEF Memory
  <1> HIDE DEF n
  <1>5. Backs(n)
    BY <1>2, <1>3, <1>4 DEF Sound, Backs
  <1>6. Leaving(n, x)
    BY <1>3, <1>5 DEF Sound, Attached, Leaving
  <1>7. Kept(m, n)
    BY <1>3 DEF Kept
  <1> QED BY <1>6, <1>7 DEF n

LEMMA LeavingReplaced ==
  ASSUME NEW m, NEW x \in Players, Leaving(m, x)
  PROVE  Leaving(PutKind(m, x, "replace"), x) /\ Kept(m, PutKind(m, x, "replace"))
  <1> DEFINE n == PutKind(m, x, "replace")
  <1>1. m \in Memory
    BY DEF Leaving, Backs
  <1>2. n \in Memory
    BY <1>1, SMTT(30) DEF PutKind, Memory, PlayerRecord, Kinds
  <1>3. /\ n.ses = m.ses
        /\ \A p \in Players : /\ n.pl[p].sess = m.pl[p].sess /\ n.pl[p].alive = m.pl[p].alive
                              /\ n.pl[p].st = m.pl[p].st /\ n.pl[p].id = m.pl[p].id
                              /\ n.pl[p].kind = IF p = x THEN "replace" ELSE m.pl[p].kind
    BY <1>1 DEF PutKind, Memory, PlayerRecord
  <1>4. \A c \in Clients : m.ses[c] \in Players \union {Null}
    BY <1>1 DEF Memory
  <1> HIDE DEF n
  <1>5. Backs(n)
    BY <1>2, <1>3, <1>4 DEF Leaving, Backs
  <1>6. Leaving(n, x)
    BY <1>3, <1>5 DEF Attached, Leaving
  <1>7. Kept(m, n)
    BY <1>3 DEF Kept
  <1> QED BY <1>6, <1>7 DEF n

LEMMA SoundLeaving ==
  ASSUME NEW m, Sound(m), NEW x \in Players
  PROVE  Leaving(m, x) /\ Kept(m, m)
  BY DEF Sound, Leaving, Attached, Kept

\* The session and the player that leaves forget each other.
LEMMA SoundDropSession ==
  ASSUME NEW m, NEW x \in Players, Leaving(m, x)
  PROVE  Sound(DropSession(m, x)) /\ Kept(m, DropSession(m, x))
  <1>1. m \in Memory
    BY DEF Leaving, Backs
  <1>2. CASE m.pl[x].sess = Null
    <2>1. DropSession(m, x) = m
      BY <1>2 DEF DropSession
    <2>2. Sound(m) /\ Kept(m, m)
      BY <1>2 DEF Leaving, Sound, Attached, Kept
    <2> QED BY <2>1, <2>2
  <1>3. CASE m.pl[x].sess # Null
    <2> DEFINE c == m.pl[x].sess
               a == [m EXCEPT !.ses[c] = Null]
               n == [a EXCEPT !.pl[x].sess = Null]
    <2>1. DropSession(m, x) = n
      BY <1>3 DEF DropSession
    <2>2. c \in Clients
      BY <1>1, <1>3 DEF Memory, PlayerRecord
    <2>3. a \in Memory
      <3> HIDE DEF c
      <3> QED BY <1>1, <2>2 DEF Memory
    <2>4. n \in Memory
      <3> HIDE DEF a
      <3> QED BY <2>3 DEF Memory, PlayerRecord
    <2>5. /\ \A d \in Clients : n.ses[d] = IF d = c THEN Null ELSE m.ses[d]
          /\ \A p \in Players : /\ n.pl[p].sess = IF p = x THEN Null ELSE m.pl[p].sess
                                /\ n.pl[p].alive = m.pl[p].alive
                                /\ n.pl[p].st = m.pl[p].st /\ n.pl[p].id = m.pl[p].id
                                /\ n.pl[p].kind = m.pl[p].kind
      BY <1>1, <2>2 DEF Memory, PlayerRecord
    <2>6. /\ \A d \in Clients : m.ses[d] \in Players \union {Null}
          /\ \A p \in Players : m.pl[p].sess \in Clients \union {Null}
      BY <1>1 DEF Memory, PlayerRecord
    <2>7. m.ses[c] = x
      BY <1>3 DEF Leaving
    <2> HIDE DEF a, n, c
    <2>8. Backs(n)
      BY <2>2, <2>4, <2>5, <2>6, <1>3 DEF Leaving, Backs, c
    <2>9. \A p \in Players : Attached(n, p)
      BY <2>2, <2>5, <2>6, <2>7 DEF Leaving, Attached
    <2>10. Kept(m, n)
      BY <2>5 DEF Kept
    <2> QED BY <2>1, <2>8, <2>9, <2>10 DEF Sound
  <1> QED BY <1>2, <1>3

LEMMA LeavingGame ==
  ASSUME NEW m, Sound(m), NEW x \in Players, MidGame(m.pl[x].st % 16)
  PROVE  Leaving(LeaveGame(m, x), x) /\ Kept(m, LeaveGame(m, x))
  <1> DEFINE l == m.pl[x].left
             r == m.pl[x].right
             stays == m.pl[l].kind = "user" \/ m.pl[r].kind = "user"
             s == m.pl[x].st % 16
             b == SetStatus(SetStatus(m, l, LOG_OUTING), r, LOG_OUTING)
             n == IF stays THEN SetStatus(m, x, s) ELSE SetStatus(b, x, LOG_OUTED)
             f == [m EXCEPT !.fault = TRUE]
  <1>1. m \in Memory /\ Calm(m, m)
    BY CalmSelf DEF Sound, Backs
  <1>2. l \in Players \union {Null} /\ r \in Players \union {Null}
    BY <1>1, MemoryTypes
  <1>3. /\ s \in Status \ {DEALING, LOG_OUTED}
        /\ LOG_OUTING \in Status \ {DEALING, LOG_OUTED}
    BY StatusValues DEF MidGame, DEALED, OUT_CARDED, LOG_OUTING, DEALING, LOG_OUTED
  <1>4. ASSUME Live(m, l), Live(m, r)
        PROVE  Leaving(n, x) /\ Kept(m, n)
    <2>1. l \in Players /\ r \in Players
      BY <1>2, <1>4 DEF Live
    <2>2. Calm(m, SetStatus(m, x, s))
      <3> HIDE DEF s
      <3> QED BY <1>1, <1>3, CalmStatus
    <2>3. Calm(m, b)
      <3> HIDE DEF l, r
      <3> QED BY <1>1, <1>3, <2>1, CalmStatus
    <2> HIDE DEF b, s, stays
    <2>4. Leaving(SetStatus(m, x, s), x) /\ Kept(m, SetStatus(m, x, s))
      BY <2>2, SoundCalm, SoundLeaving
    <2>5. Sound(b) /\ Kept(m, b)
      BY <2>3, SoundCalm
    <2>6. Leaving(SetStatus(b, x, LOG_OUTED), x) /\ Kept(m, SetStatus(b, x, LOG_OUTED))
      BY <2>5, LeavingOut, KeptTrans
    <2> QED BY <2>4, <2>6
  <1>5. Leaving(f, x) /\ Kept(m, f)
    <2>1. Calm(m, f)
      BY <1>1, CalmFault
    <2> HIDE DEF f
    <2> QED BY <2>1, SoundCalm, SoundLeaving
  <1>6. LeaveGame(m, x) = Using(m, {l, r}, PutKind(n, x, "replace"))
    BY DEF LeaveGame, SetStatus, PutKind
  <1> HIDE DEF n, l, r, f
  <1>7. ASSUME Live(m, l), Live(m, r)
        PROVE  Leaving(PutKind(n, x, "replace"), x) /\ Kept(m, PutKind(n, x, "replace"))
    BY <1>4, <1>7, LeavingReplaced, KeptTrans
  <1>8. Using(m, {l, r}, PutKind(n, x, "replace"))
          = IF m.fault \/ ~ Live(m, l) \/ ~ Live(m, r) THEN f ELSE PutKind(n, x, "replace")
    BY DEF Using, f
  <1> QED BY <1>5, <1>6, <1>7, <1>8

LEMMA SoundForgotten ==
  ASSUME NEW n, Sound(n), NEW y \in Players \union {Null}, NEW k, NEW v,
         y \in Players => Calm(n, k),
         y \in Players => (Sound(v) /\ Kept(n, v))
  PROVE  Sound(Forgotten(n, y, k, v)) /\ Kept(n, Forgotten(n, y, k, v))
  <1> DEFINE f == [n EXCEPT !.fault = TRUE]
  <1>1. n \in Memory /\ Calm(n, n)
    BY CalmSelf DEF Sound, Backs
  <1>2. Calm(n, f)
    BY <1>1, CalmFault
  <1>3. Forgotten(n, y, k, v) =
          IF n.fault \/ y = Null THEN n
          ELSE IF ~ Live(n, y) THEN f ELSE IF k.pl[y].kind = "ai" THEN v ELSE k
    BY DEF Forgotten, Using
  <1> HIDE DEF f
  <1>4. /\ Sound(f) /\ Kept(n, f) /\ Kept(n, n)
        /\ y \in Players => Sound(k) /\ Kept(n, k)
    BY <1>1, <1>2, SoundCalm
  <1> QED BY <1>3, <1>4

\* CheckOut(n, x, Rec), with v and w for the values of its two calls of Rec.
LeftAt(n, x, v) == Forgotten(n, n.pl[x].left, FreeLeft(n, x), v)
RightAt(n, x, w) == Forgotten(n, n.pl[x].right, FreeRight(n, x), w)
CheckOutAt(n, x, v, w) ==
  IF n.fault \/ n.pl[x].st \notin 16 .. 31 THEN n
  ELSE Sending(n, {x} \union Neighbours(n, x),
         DropSession(IF MidGame(n.pl[x].st % 16) THEN LeaveGame(n, x)
                     ELSE HasLeft(RightAt(LeftAt(n, x, v), x, w), x), x))

LEMMA SoundToldLeft ==
  ASSUME NEW n, Sound(n), NEW x \in Players, n.pl[x].left \in Players
  PROVE  Sound(ToldLeft(n, x)) /\ Kept(n, ToldLeft(n, x))
  <1> DEFINE l == n.pl[x].left
             k == PutRight(n, l, Null)
  <1>1. n \in Memory /\ Calm(n, n) /\ l \in Players /\ Null \in Players \union {Null}
    BY CalmSelf DEF Sound, Backs
  <1>2. LOG_OUTING \in Status \ {DEALING, LOG_OUTED}
    BY StatusValues DEF LOG_OUTING, DEALING, LOG_OUTED
  <1>3. ToldLeft(n, x) = SetStatus(k, l, LOG_OUTING)
    BY DEF ToldLeft, FreeLeft, PutRight
  <1> HIDE DEF l
  <1>4. Calm(n, k)
    BY <1>1, CalmRight
  <1> HIDE DEF k
  <1>5. Calm(n, SetStatus(k, l, LOG_OUTING))
    BY <1>1, <1>2, <1>4, CalmStatus
  <1> QED BY <1>3, <1>5, SoundCalm

LEMMA SoundToldRight ==
  ASSUME NEW n, Sound(n), NEW x \in Players, n.pl[x].right \in Players
  PROVE  Sound(ToldRight(n, x)) /\ Kept(n, ToldRight(n, x))
  <1> DEFINE r == n.pl[x].right
             k == PutLeft(n, r, Null)
  <1>1. n \in Memory /\ Calm(n, n) /\ r \in Players /\ Null \in Players \union {Null}
    BY CalmSelf DEF Sound, Backs
  <1>2. LOG_OUTING \in Status \ {DEALING, LOG_OUTED}
    BY StatusValues DEF LOG_OUTING, DEALING, LOG_OUTED
  <1>3. ToldRight(n, x) = SetStatus(k, r, LOG_OUTING)
    BY DEF ToldRight, FreeRight, PutLeft
  <1> HIDE DEF r
  <1>4. Calm(n, k)
    BY <1>1, CalmLeft
  <1> HIDE DEF k
  <1>5. Calm(n, SetStatus(k, r, LOG_OUTING))
    BY <1>1, <1>2, <1>4, CalmStatus
  <1> QED BY <1>3, <1>5, SoundCalm

LEMMA SoundLeftAt ==
  ASSUME NEW n, Sound(n), NEW x \in Players, NEW v,
         n.pl[x].left \in Players => (Sound(v) /\ Kept(n, v))
  PROVE  Sound(LeftAt(n, x, v)) /\ Kept(n, LeftAt(n, x, v))
  <1> DEFINE l == n.pl[x].left
             k == PutRight(n, l, Null)
  <1>1. n \in Memory /\ Calm(n, n) /\ Null \in Players \union {Null}
    BY CalmSelf DEF Sound, Backs
  <1>2. l \in Players \union {Null}
    BY <1>1, MemoryTypes
  <1>3. LeftAt(n, x, v) = Forgotten(n, l, k, v)
    BY DEF LeftAt, FreeLeft, PutRight
  <1>4. l \in Players => (Sound(v) /\ Kept(n, v))
    OBVIOUS
  <1> HIDE DEF l
  <1>5. l \in Players => Calm(n, k)
    BY <1>1, CalmRight
  <1> HIDE DEF k
  <1> QED BY <1>2, <1>3, <1>4, <1>5, SoundForgotten

LEMMA SoundRightAt ==
  ASSUME NEW n, Sound(n), NEW x \in Players, NEW v,
         n.pl[x].right \in Players => (Sound(v) /\ Kept(n, v))
  PROVE  Sound(RightAt(n, x, v)) /\ Kept(n, RightAt(n, x, v))
  <1> DEFINE r == n.pl[x].right
             k == PutLeft(n, r, Null)
  <1>1. n \in Memory /\ Calm(n, n) /\ Null \in Players \union {Null}
    BY CalmSelf DEF Sound, Backs
  <1>2. r \in Players \union {Null}
    BY <1>1, MemoryTypes
  <1>3. RightAt(n, x, v) = Forgotten(n, r, k, v)
    BY DEF RightAt, FreeRight, PutLeft
  <1>4. r \in Players => (Sound(v) /\ Kept(n, v))
    OBVIOUS
  <1> HIDE DEF r
  <1>5. r \in Players => Calm(n, k)
    BY <1>1, CalmLeft
  <1> HIDE DEF k
  <1> QED BY <1>2, <1>3, <1>4, <1>5, SoundForgotten

LEMMA SoundCheckOutAt ==
  ASSUME NEW n, Sound(n), NEW x \in Players, NEW v, NEW w,
         n.pl[x].left \in Players => (Sound(v) /\ Kept(n, v)),
         LeftAt(n, x, v).pl[x].right \in Players => (Sound(w) /\ Kept(LeftAt(n, x, v), w))
  PROVE  Sound(CheckOutAt(n, x, v, w)) /\ Kept(n, CheckOutAt(n, x, v, w))
  <1> DEFINE a == LeftAt(n, x, v)
             b == RightAt(a, x, w)
             g == IF MidGame(n.pl[x].st % 16) THEN LeaveGame(n, x) ELSE HasLeft(b, x)
             f == [n EXCEPT !.fault = TRUE]
             d == DropSession(g, x)
             S == {x} \union Neighbours(n, x)
  <1>1. n \in Memory /\ Calm(n, n) /\ Null \in Players \union {Null}
    BY CalmSelf DEF Sound, Backs
  <1>2. Sound(a) /\ Kept(n, a)
    BY SoundLeftAt
  <1>3. Sound(b) /\ Kept(n, b)
    <2>1. a.pl[x].right \in Players => (Sound(w) /\ Kept(a, w))
      OBVIOUS
    <2> HIDE DEF a
    <2> QED BY <1>2, <2>1, SoundRightAt, KeptTrans
  <1> HIDE DEF a, b
  <1>4. Leaving(HasLeft(b, x), x) /\ Kept(n, HasLeft(b, x))
    <2> DEFINE e == PutRight(PutLeft(b, x, Null), x, Null)
    <2>1. b \in Memory /\ Calm(b, b)
      BY <1>3, CalmSelf DEF Sound, Backs
    <2>2. Calm(b, e)
      BY <1>1, <2>1, CalmLeft, CalmRight
    <2>3. HasLeft(b, x) = SetStatus(e, x, LOG_OUTED)
      BY DEF HasLeft, PutLeft, PutRight, SetStatus
    <2> HIDE DEF e
    <2>4. Sound(e) /\ Kept(n, e)
      BY <1>3, <2>2, SoundCalm, KeptTrans
    <2> QED BY <2>3, <2>4, LeavingOut, KeptTrans
  <1>5. Leaving(g, x) /\ Kept(n, g)
    BY <1>4, LeavingGame
  <1> HIDE DEF g
  <1>6. Sound(d) /\ Kept(n, d)
    BY <1>5, SoundDropSession, KeptTrans
  <1>7. /\ Sound(f) /\ Kept(n, f)
        /\ Kept(n, n)
    <2>1. Calm(n, f)
      BY <1>1, CalmFault
    <2> HIDE DEF f
    <2> QED BY <1>1, <2>1, SoundCalm
  <1> HIDE DEF d, S
  <1>8. Sending(n, S, d) \in {f, d}
    BY DEF Sending, Using
  <1>9. CheckOutAt(n, x, v, w) =
          IF n.fault \/ n.pl[x].st \notin 16 .. 31 THEN n ELSE Sending(n, S, d)
    BY DEF CheckOutAt, S, d, g, b, a
  <1> HIDE DEF f
  <1> QED BY <1>6, <1>7, <1>8, <1>9

\* The recursion, from its bottom up.
LEMMA SoundRound ==
  ASSUME NEW n, Sound(n), NEW x \in Players
  PROVE  Sound(Round(n, x)) /\ Kept(n, Round(n, x))
  <1>1. n \in Memory /\ Calm(n, n)
    BY CalmSelf DEF Sound, Backs
  <1>2. Calm(n, Round(n, x))
    BY <1>1, CalmFault DEF Round
  <1> QED BY <1>2, SoundCalm

LEMMA SoundCheckOut1 ==
  ASSUME NEW n, Sound(n), NEW x \in Players
  PROVE  Sound(CheckOut1(n, x)) /\ Kept(n, CheckOut1(n, x))
  <1> DEFINE v == Round(ToldLeft(n, x), n.pl[x].left)
             a == LeftAt(n, x, v)
             w == Round(ToldRight(a, x), a.pl[x].right)
  <1>1. n.pl[x].left \in Players => Sound(v) /\ Kept(n, v)
    BY SoundToldLeft, SoundRound, KeptTrans
  <1>2. Sound(a) /\ Kept(n, a)
    <2> HIDE DEF v
    <2> QED BY <1>1, SoundLeftAt
  <1>3. a.pl[x].right \in Players => Sound(w) /\ Kept(a, w)
    <2> HIDE DEF a
    <2> QED BY <1>2, SoundToldRight, SoundRound, KeptTrans
  <1>4. CheckOut1(n, x) = CheckOutAt(n, x, v, w)
    BY DEF CheckOut1, CheckOut, LeaveTable, LeftForgets, RightForgets, CheckOutAt, LeftAt, RightAt
  <1> HIDE DEF v, w
  <1> QED BY <1>1, <1>3, <1>4, SoundCheckOutAt DEF a

LEMMA SoundCheckOut2 ==
  ASSUME NEW n, Sound(n), NEW x \in Players
  PROVE  Sound(CheckOut2(n, x)) /\ Kept(n, CheckOut2(n, x))
  <1> DEFINE v == CheckOut1(ToldLeft(n, x), n.pl[x].left)
             a == LeftAt(n, x, v)
             w == CheckOut1(ToldRight(a, x), a.pl[x].right)
  <1>1. n.pl[x].left \in Players => Sound(v) /\ Kept(n, v)
    BY SoundToldLeft, SoundCheckOut1, KeptTrans
  <1>2. Sound(a) /\ Kept(n, a)
    <2> HIDE DEF v
    <2> QED BY <1>1, SoundLeftAt
  <1>3. a.pl[x].right \in Players => Sound(w) /\ Kept(a, w)
    <2> HIDE DEF a
    <2> QED BY <1>2, SoundToldRight, SoundCheckOut1, KeptTrans
  <1>4. CheckOut2(n, x) = CheckOutAt(n, x, v, w)
    BY DEF CheckOut2, CheckOut, LeaveTable, LeftForgets, RightForgets, CheckOutAt, LeftAt, RightAt
  <1> HIDE DEF v, w
  <1> QED BY <1>1, <1>3, <1>4, SoundCheckOutAt DEF a

LEMMA SoundCheckOut3 ==
  ASSUME NEW n, Sound(n), NEW x \in Players
  PROVE  Sound(CheckOut3(n, x)) /\ Kept(n, CheckOut3(n, x))
  <1> DEFINE v == CheckOut2(ToldLeft(n, x), n.pl[x].left)
             a == LeftAt(n, x, v)
             w == CheckOut2(ToldRight(a, x), a.pl[x].right)
  <1>1. n.pl[x].left \in Players => Sound(v) /\ Kept(n, v)
    BY SoundToldLeft, SoundCheckOut2, KeptTrans
  <1>2. Sound(a) /\ Kept(n, a)
    <2> HIDE DEF v
    <2> QED BY <1>1, SoundLeftAt
  <1>3. a.pl[x].right \in Players => Sound(w) /\ Kept(a, w)
    <2> HIDE DEF a
    <2> QED BY <1>2, SoundToldRight, SoundCheckOut2, KeptTrans
  <1>4. CheckOut3(n, x) = CheckOutAt(n, x, v, w)
    BY DEF CheckOut3, CheckOut, LeaveTable, LeftForgets, RightForgets, CheckOutAt, LeftAt, RightAt
  <1> HIDE DEF v, w
  <1> QED BY <1>1, <1>3, <1>4, SoundCheckOutAt DEF a

LEMMA SoundCheckOutPlayer ==
  ASSUME NEW n, Sound(n), NEW x \in Players
  PROVE  Sound(CheckOutPlayer(n, x)) /\ Kept(n, CheckOutPlayer(n, x))
  <1> DEFINE v == CheckOut3(ToldLeft(n, x), n.pl[x].left)
             a == LeftAt(n, x, v)
             w == CheckOut3(ToldRight(a, x), a.pl[x].right)
  <1>1. n.pl[x].left \in Players => Sound(v) /\ Kept(n, v)
    BY SoundToldLeft, SoundCheckOut3, KeptTrans
  <1>2. Sound(a) /\ Kept(n, a)
    <2> HIDE DEF v
    <2> QED BY <1>1, SoundLeftAt
  <1>3. a.pl[x].right \in Players => Sound(w) /\ Kept(a, w)
    <2> HIDE DEF a
    <2> QED BY <1>2, SoundToldRight, SoundCheckOut3, KeptTrans
  <1>4. CheckOutPlayer(n, x) = CheckOutAt(n, x, v, w)
    BY DEF CheckOutPlayer, CheckOut, LeaveTable, LeftForgets, RightForgets, CheckOutAt, LeftAt, RightAt
  <1> HIDE DEF v, w
  <1> QED BY <1>1, <1>3, <1>4, SoundCheckOutAt DEF a


LEMMA SoundUpdate ==
  ASSUME NEW m, Sound(m), NEW p \in Players, NEW d \in Nat, NEW who, NEW roll \in 0 .. 3
  PROVE  Sound(Update(m, p, d, who, roll)) /\ Kept(m, Update(m, p, d, who, roll))
  <1> DEFINE a == RunClocks(m, p, d)
             b == CheckOutPlayer(a, p)
             c == CheckStart(CheckQueueStatus(b, p), p)
             e == CheckGrabLandlord(CheckDealCards(c, p, who), p, roll)
             f == CheckRoundOver(CheckOutCard(e, p), p)
             g == [m EXCEPT !.fault = TRUE]
  <1>1. m \in Memory /\ Calm(m, m)
    BY CalmSelf DEF Sound, Backs
  <1>2. Sound(a) /\ Kept(m, a)
    BY <1>1, CalmRunClocks, SoundCalm
  <1> HIDE DEF a
  <1>3. Sound(b) /\ Kept(m, b)
    BY <1>2, SoundCheckOutPlayer, KeptTrans
  <1>4. b \in Memory /\ Calm(b, b)
    BY <1>3, CalmSelf DEF Sound, Backs
  <1> HIDE DEF b
  <1>5. Calm(b, c)
    BY <1>4, CalmCheckQueueStatus, CalmCheckStart
  <1> HIDE DEF c
  <1>6. Calm(b, e)
    BY <1>5, CalmCheckDealCards, CalmCheckGrabLandlord
  <1> HIDE DEF e
  <1>7. Calm(b, f)
    BY <1>6, CalmCheckOutCard, CalmCheckRoundOver
  <1>8. Update(m, p, d, who, roll) = Using(m, {p}, f)
    BY DEF Update, a, b, c, e, f
  <1> HIDE DEF f
  <1>9. Sound(f) /\ Kept(m, f)
    BY <1>3, <1>7, SoundCalm, KeptTrans
  <1>10. Sound(g) /\ Kept(m, g)
    <2>1. Calm(m, g)
      BY <1>1, CalmFault
    <2> HIDE DEF g
    <2> QED BY <2>1, SoundCalm
  <1>11. Using(m, {p}, f) \in {f, g}
    BY DEF Using
  <1> HIDE DEF g
  <1> QED BY <1>8, <1>9, <1>10, <1>11

LEMMA LoggingOutStatus ==
  ASSUME NEW s \in Status, s # LOG_OUTED
  PROVE  LoggingOut(s) \in Status \ {DEALING, LOG_OUTED}
  <1>1. CASE s \in 0 .. 11
    BY <1>1 DEF LoggingOut, Status, LOG_OUTING, LOG_OUTED, DEALING
  <1>2. CASE s \in {LOG_OUTING + x : x \in 0 .. 11}
    BY <1>2 DEF LoggingOut, Status, LOG_OUTING, LOG_OUTED, DEALING
  <1> QED BY <1>1, <1>2 DEF Status

LEMMA SoundLogOutPlayer ==
  ASSUME NEW m, Sound(m), NEW p \in Players, m.pl[p].st # LOG_OUTED
  PROVE  Sound(LogOutPlayer(m, p)) /\ Kept(m, LogOutPlayer(m, p))
  <1> DEFINE a == SetStatus(m, p, LoggingOut(m.pl[p].st))
             b == CheckOutPlayer(a, p)
             g == [m EXCEPT !.fault = TRUE]
  <1>1. m \in Memory /\ Calm(m, m) /\ m.pl[p].st \in Status
    BY CalmSelf, MemoryTypes DEF Sound, Backs
  <1>2. Calm(m, a)
    BY <1>1, LoggingOutStatus, CalmStatus
  <1> HIDE DEF a
  <1>3. Sound(b) /\ Kept(m, b)
    BY <1>2, SoundCalm, SoundCheckOutPlayer, KeptTrans
  <1>4. Sound(g) /\ Kept(m, g)
    <2>1. Calm(m, g)
      BY <1>1, CalmFault
    <2> HIDE DEF g
    <2> QED BY <2>1, SoundCalm
  <1>5. LogOutPlayer(m, p) \in {b, g}
    BY DEF LogOutPlayer, Using, a
  <1> HIDE DEF b, g
  <1> QED BY <1>3, <1>4, <1>5

\* A player that has logged out has no session that could still point at it.
LEMMA SoundDelete ==
  ASSUME NEW m, Sound(m), NEW p \in Players, m.pl[p].st = LOG_OUTED
  PROVE  Sound(Delete(m, p)) /\ Kept(m, Delete(m, p))
  <1> DEFINE n == [m EXCEPT !.pl[p].alive = FALSE]
             g == [m EXCEPT !.fault = TRUE]
  <1>1. m \in Memory /\ Calm(m, m)
    BY CalmSelf DEF Sound, Backs
  <1>2. n \in Memory
    <2>1. ASSUME NEW v \in BOOLEAN
          PROVE  [m EXCEPT !.pl[p].alive = v] \in Memory
      BY <1>1 DEF Memory, PlayerRecord
    <2> QED BY <2>1
  <1>3. /\ n.ses = m.ses
        /\ \A x \in Players : /\ n.pl[x].sess = m.pl[x].sess
                              /\ n.pl[x].kind = m.pl[x].kind /\ n.pl[x].id = m.pl[x].id
                              /\ n.pl[x].st = m.pl[x].st
                              /\ x # p => n.pl[x].alive = m.pl[x].alive
    BY <1>1, ZenonT(60) DEF Memory, PlayerRecord
  <1>4. \A c \in Clients : m.ses[c] \in Players \union {Null}
    BY <1>1 DEF Memory
  <1>5. Sound(g) /\ Kept(m, g)
    <2>1. Calm(m, g)
      BY <1>1, CalmFault
    <2> HIDE DEF g
    <2> QED BY <2>1, SoundCalm
  <1>6. Delete(m, p) \in {n, g}
    BY DEF Delete, Using
  <1> HIDE DEF n, g
  <1>7. Backs(n)
    BY <1>2, <1>3, <1>4 DEF Sound, Backs
  <1>8. \A x \in Players : Attached(n, x)
    BY <1>3 DEF Sound, Attached
  <1>9. Kept(m, n)
    BY <1>3 DEF Kept
  <1> QED BY <1>5, <1>6, <1>7, <1>8, <1>9 DEF Sound

\* Nor has one that plays for itself.
LEMMA SoundReleased ==
  ASSUME NEW m, Sound(m), NEW p \in Players, PlaysItself(m, p)
  PROVE  /\ Sound(SetStatus(m, p, LOG_OUTED)) /\ Kept(m, SetStatus(m, p, LOG_OUTED))
         /\ SetStatus(m, p, LOG_OUTED).pl[p].kind = m.pl[p].kind
  <1> DEFINE n == SetStatus(m, p, LOG_OUTED)
  <1>1. m \in Memory
    BY DEF Sound, Backs
  <1>2. Leaving(n, p) /\ Kept(m, n)
    BY LeavingOut
  <1>3. n.pl[p].sess = m.pl[p].sess /\ n.pl[p].kind = m.pl[p].kind
    BY <1>1 DEF SetStatus, Memory, PlayerRecord
  <1>4. m.pl[p].sess = Null
    BY DEF Sound, Attached, PlaysItself
  <1> HIDE DEF n
  <1> QED BY <1>2, <1>3, <1>4 DEF Leaving, Attached, Sound, n

LEMMA NewPlayerType ==
  ASSUME NEW c \in Clients \union {Null}
  PROVE  NewPlayer(c) \in PlayerRecord
  BY StatusValues, PlayerTimeAssumption
  DEF NewPlayer, PlayerRecord, Kinds, NULL, THREE, WAIT_START, NoDesk

\* configureAiPlayer may take an object that has not been allocated before: m is the
\* memory with it.
LEMMA SoundNewAi ==
  ASSUME NEW m, Sound(m), NEW a \in Ais
  PROVE  LET n == [m EXCEPT !.pl[a] = NewPlayer(Null)]
         IN  /\ Sound(n)
             /\ \A x \in Players \ {a} : n.pl[x].id = m.pl[x].id
  <1> DEFINE r == NewPlayer(Null)
             n == [m EXCEPT !.pl[a] = r]
  <1>1. m \in Memory /\ a \in Players
    BY DEF Sound, Backs, Players
  <1>2. r \in PlayerRecord
    BY NewPlayerType
  <1>3. r.sess = Null /\ r.kind = "user" /\ r.st = WAIT_START
    BY DEF NewPlayer
  <1> HIDE DEF r
  <1>4. n \in Memory
    BY <1>1, <1>2 DEF Memory
  <1>5. n.ses = m.ses /\ \A x \in Players : n.pl[x] = IF x = a THEN r ELSE m.pl[x]
    BY <1>1 DEF Memory
  <1>6. \A c \in Clients : m.ses[c] \in Players \union {Null}
    BY <1>1 DEF Memory
  <1>7. m.pl[a].sess = Null
    BY <1>1, PlayerAssumption DEF Sound, Attached
  <1> HIDE DEF n
  <1>8. \A c \in Clients : n.ses[c] # Null => n.pl[n.ses[c]].sess = c
    <2> TAKE c \in Clients
    <2>1. c # Null
      BY PlayerAssumption
    <2> QED BY <1>5, <1>6, <1>7, <2>1 DEF Sound, Backs
  <1>9. Backs(n)
    BY <1>3, <1>4, <1>5, <1>8 DEF Sound, Backs
  <1>10. \A x \in Players : Attached(n, x)
    BY <1>3, <1>5 DEF Sound, Attached
  <1>11. \A x \in Players \ {a} : n.pl[x].id = m.pl[x].id
    BY <1>5
  <1> QED BY <1>9, <1>10, <1>11 DEF Sound, n, r

\* It becomes an AI with an id of its own.
NamedAi(m, a, id) == SetStart([m EXCEPT !.pl[a].id = id, !.pl[a].kind = "ai"], a)

LEMMA SoundNamedAi ==
  ASSUME NEW m, Sound(m), NEW a \in Ais, NEW id \in Ids
  PROVE  /\ Sound(NamedAi(m, a, id)) /\ Kept(m, NamedAi(m, a, id))
         /\ NamedAi(m, a, id).pl[a].id = id
  <1> DEFINE b == [m EXCEPT !.pl[a].id = id]
             n == PutKind(b, a, "ai")
             k == SetStart(n, a)
  <1>1. m \in Memory /\ a \in Players
    BY DEF Sound, Backs, Players
  <1>2. b \in Memory
    BY <1>1 DEF Memory, PlayerRecord
  <1>3. n \in Memory
    <2> HIDE DEF b
    <2> QED BY <1>1, <1>2, SMTT(60) DEF PutKind, Memory, PlayerRecord, Kinds
  <1>4. /\ n.ses = m.ses
        /\ \A x \in Players : /\ n.pl[x].sess = m.pl[x].sess
                              /\ n.pl[x].alive = m.pl[x].alive /\ n.pl[x].st = m.pl[x].st
                              /\ n.pl[x].kind = IF x = a THEN "ai" ELSE m.pl[x].kind
                              /\ n.pl[x].id = IF x = a THEN id ELSE m.pl[x].id
    BY <1>1 DEF PutKind, Memory, PlayerRecord
  <1>5. \A c \in Clients : m.ses[c] \in Players \union {Null}
    BY <1>1 DEF Memory
  <1>6. m.pl[a].sess = Null
    BY <1>1, PlayerAssumption DEF Sound, Attached
  <1>7. [m EXCEPT !.pl[a].id = id, !.pl[a].kind = "ai"] = n
    BY DEF PutKind
  <1> HIDE DEF b, n
  <1>8. Backs(n)
    BY <1>3, <1>4, <1>5 DEF Sound, Backs
  <1>9. \A x \in Players : Attached(n, x)
    BY <1>4, <1>6 DEF Sound, Attached
  <1>10. Kept(m, n)
    BY <1>4, PlayerAssumption DEF Kept, Ids
  <1>11. Calm(n, k)
    BY <1>1, <1>3, CalmSelf, CalmSetStart
  <1>12. k.pl[a].id = id
    BY <1>1, <1>4, <1>11 DEF Calm
  <1> HIDE DEF k
  <1>13. Sound(k) /\ Kept(m, k)
    BY <1>8, <1>9, <1>10, <1>11, SoundCalm, KeptTrans DEF Sound
  <1> QED BY <1>7, <1>12, <1>13 DEF k, NamedAi

\* HandlePlayerLogin: a session without a player gets one that was never allocated.
LoggedIn(m, c, u) ==
  [m EXCEPT !.pl[u] = [NewPlayer(c) EXCEPT !.id = c, !.q = ONE], !.ses[c] = u]

LEMMA SoundLogin ==
  ASSUME NEW m, Sound(m), NEW c \in Clients, NEW u \in Users,
         m.ses[c] = Null, m.pl[u].id = Null, ~ m.pl[u].alive
  PROVE  /\ Sound(LoggedIn(m, c, u)) /\ Kept(m, LoggedIn(m, c, u))
         /\ LoggedIn(m, c, u).pl[u].id = c
  <1> DEFINE a == [NewPlayer(c) EXCEPT !.id = c]
             r == [a EXCEPT !.q = ONE]
             b == [m EXCEPT !.pl[u] = r]
             n == [b EXCEPT !.ses[c] = u]
  <1>1. m \in Memory /\ u \in Players /\ c # Null /\ u # Null
    BY PlayerAssumption DEF Sound, Backs, Players
  <1>2. NewPlayer(c) \in PlayerRecord
    BY NewPlayerType
  <1>3. a \in PlayerRecord
    BY <1>2 DEF PlayerRecord, Ids
  <1>4. r \in PlayerRecord
    <2> HIDE DEF a
    <2> QED BY <1>3 DEF PlayerRecord, ONE, NULL, THREE
  <1>5. /\ r.sess = c /\ r.kind = "user" /\ r.st = WAIT_START /\ r.alive
        /\ r.id = c
    BY DEF NewPlayer
  <1> HIDE DEF a, r
  <1>6. b \in Memory
    BY <1>1, <1>4 DEF Memory
  <1>7. n \in Memory
    <2> HIDE DEF b
    <2> QED BY <1>1, <1>6 DEF Memory
  <1>8. /\ \A x \in Players : n.pl[x] = IF x = u THEN r ELSE m.pl[x]
        /\ \A d \in Clients : n.ses[d] = IF d = c THEN u ELSE m.ses[d]
    BY <1>1 DEF Memory
  <1>9. /\ \A d \in Clients : m.ses[d] \in Players \union {Null}
        /\ \A p \in Players : m.pl[p].sess \in Clients \union {Null}
    BY <1>1 DEF Memory, PlayerRecord
  <1>10. m.pl[u].sess = Null
    BY <1>1 DEF Sound, Attached
  <1>11. n = LoggedIn(m, c, u)
    BY DEF a, r, LoggedIn
  <1> HIDE DEF b, n
  <1>12. \A d \in Clients : n.ses[d] # Null => n.pl[n.ses[d]].sess = d
    <2> TAKE d \in Clients
    <2>1. d # Null
      BY PlayerAssumption
    <2> QED BY <1>1, <1>5, <1>8, <1>9, <1>10, <2>1 DEF Sound, Backs
  <1>13. Backs(n)
    BY <1>5, <1>7, <1>8, <1>12 DEF Sound, Backs
  <1>14. \A x \in Players : Attached(n, x)
    <2> TAKE x \in Players
    <2>1. CASE x = u
      BY <1>1, <1>5, <1>8, <2>1 DEF Attached, WAIT_START, LOG_OUTED
    <2>2. CASE x # u
      <3>1. n.pl[x] = m.pl[x]
        BY <1>8, <2>2
      <3>2. m.pl[x].sess # Null => n.ses[m.pl[x].sess] = m.ses[m.pl[x].sess]
        BY <1>1, <1>8, <1>9, PlayerAssumption DEF Sound, Attached
      <3> QED BY <3>1, <3>2 DEF Sound, Attached
    <2> QED BY <2>1, <2>2
  <1>15. Kept(m, n)
    BY <1>1, <1>5, <1>8 DEF Kept
  <1>16. n.pl[u].id = c
    BY <1>1, <1>5, <1>8
  <1> QED BY <1>11, <1>13, <1>14, <1>15, <1>16 DEF Sound
=============================================================================
