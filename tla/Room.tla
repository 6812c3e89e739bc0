-------------------------------- MODULE Room --------------------------------
(***************************************************************************)
(* One room: the players in it, its queues of one, two and three, the pool *)
(* of AI players, and the clients.                                         *)
(*                                                                         *)
(* Session handlers run between two Room::Update calls (RoomUpdater.tla    *)
(* proves that they never overlap), so pc is "sessions" when they may run; *)
(* Room::Update then goes through its four loops, one iteration per step,  *)
(* in the order of the code: the player map, UpdateOne, UpdateTwo,         *)
(* UpdateThree.                                                            *)
(*                                                                         *)
(* A client sends what the game lets its user do; which of the legal       *)
(* moments it may log out or lose its connection at is a parameter.        *)
(***************************************************************************)
EXTENDS Player, SequencesExt

CONSTANTS Diffs,       \* the times between two room updates, in units of time
          PoolSize,    \* CONFIG_AI_PLAYER_COUNT
          Scores,      \* the bids a client makes
          LogoutAt,    \* the statuses at which a client may send CMSG_LOG_OUT
          DropAt,      \* the statuses at which a connection may be lost
          LateLeaves,  \* whether a client may leave while its table closes the round
          StartAt,     \* the statuses at which a client may send CMSG_WAIT_START
          AnyOrder,    \* whether a new player may come anywhere in the order of the map
          FreshIds     \* whether configureAiPlayer draws an id that is not in the room

ASSUME RoomAssumption ==
  /\ Diffs \subseteq Nat /\ Scores \subseteq 0 .. 3 /\ PoolSize \in Nat
  /\ \E s \in [1 .. PoolSize -> Ais] : IsInjective(s)

VARIABLES mem,    \* the Player objects and the sessions' pointers to them
          map,    \* _playerMap, in the order of its iteration: entries [id, p]
          one,    \* _OnePlayerList
          two,    \* _twoPlayerList: pairs <<p0, p1>>
          three,  \* _threePlayerList: triples <<p0, p1, p2>>
          pool,   \* AiPlayerPool::_aiPlayerList, its back at the end
          pc,     \* "sessions", or the loop of Room::Update that is running
          pos,    \* the iterator of that loop
          diff    \* the argument of Room::Update

vars == <<mem, map, one, two, three, pool, pc, pos, diff>>
lists == <<one, two, three>>

\* An object that has not been allocated yet.
Unused(m, S) == {x \in S : ~ m.pl[x].alive /\ m.pl[x].id = Null}

\* The objects of a pool in the order of its constructor.
FirstAis == CHOOSE s \in [1 .. PoolSize -> Ais] : IsInjective(s)

Init ==
  /\ pool = FirstAis
  /\ mem = [pl |-> [p \in Players |->
                      [NewPlayer(Null) EXCEPT !.alive = p \in ToSet(FirstAis)]],
            ses |-> [c \in Clients |-> Null],
            fault |-> FALSE]
  /\ map = <<>> /\ one = <<>> /\ two = <<>> /\ three = <<>>
  /\ pc = "sessions" /\ pos = 0 /\ diff = 0

\* _playerMap[id] = p: an entry of that id is overwritten in its place, a new one
\* may come anywhere in the iteration of the hash map (first, in the library of
\* GCC, when its bucket is empty).
MapWith(id, p) ==
  IF \E i \in DOMAIN map : map[i].id = id
    THEN {[i \in DOMAIN map |-> IF map[i].id = id THEN [id |-> id, p |-> p] ELSE map[i]]}
    ELSE {InsertAt(map, i, [id |-> id, p |-> p]) :
            i \in IF AnyOrder THEN 1 .. Len(map) + 1 ELSE {1}}

------------------------------------------------------------------------------
(* The session handlers, and what the client knows when it sends.          *)

Self(c) == mem.ses[c]
Me(c) == mem.pl[Self(c)]
Idling == pc = "sessions" /\ ~ mem.fault
Playing(c) == Idling /\ Self(c) # Null

\* HandlePlayerLogin: a new Player, in the room's map and in its first queue.
Login(c) ==
  /\ Idling
  /\ Self(c) = Null
  /\ Unused(mem, Users) # {}
  /\ LET u == CHOOSE x \in Unused(mem, Users) : TRUE
     IN  /\ mem' = [mem EXCEPT !.pl[u] = [NewPlayer(c) EXCEPT !.id = c, !.q = ONE],
                               !.ses[c] = u]
         /\ map' \in MapWith(c, u)
         /\ one' = Append(one, u)
  /\ UNCHANGED <<two, three, pool, pc, pos, diff>>

\* HandleWaitStart: the first time, and again for another round.
WaitStart(c) ==
  /\ Playing(c)
  /\ Me(c).st \in StartAt
  /\ mem' = SetStart(mem, Self(c))
  /\ UNCHANGED <<map, lists, pool, pc, pos, diff>>

\* The bid is p's to make: it is the first bidder, or its left neighbour has bid.
MayBid(m, p) ==
  /\ m.pl[p].st = DEALED
  /\ m.pl[p].bid = -1
  /\ m.pl[p].lord = Null
  /\ m.pl[p].deflt = m.pl[p].id \/ m.pl[m.pl[p].left].bid # -1

\* HandleGrabLandlord
GrabLandlord(c, score) ==
  /\ Playing(c)
  /\ MayBid(mem, Self(c))
  /\ mem' = [mem EXCEPT !.pl[Self(c)].bid = score, !.pl[Self(c)].st = GRABING]
  /\ UNCHANGED <<map, lists, pool, pc, pos, diff>>

\* Somebody at p's table has been told that the round is over.
Seats(m, p) == {p} \union Neighbours(m, p)
Finishing(m, p) == \E x \in Seats(m, p) : m.pl[x].st \in {ROUNDOVERING, ROUNDOVERED}

\* The cards are p's to play: it is the landlord and nobody has played, or its
\* left neighbour has just played.
MayPlay(m, p) ==
  LET l == m.pl[m.pl[p].left].st
      r == m.pl[m.pl[p].right].st
  IN  /\ m.pl[p].st = WAIT_OUT_CARD
      /\ \/ m.pl[p].lord = m.pl[p].id /\ l = WAIT_OUT_CARD /\ r = WAIT_OUT_CARD
         \/ l = OUT_CARDED

\* HandleOutCards
PlayCards(c) ==
  /\ Playing(c)
  /\ MayPlay(mem, Self(c)) /\ ~ Finishing(mem, Self(c))
  /\ mem' = SetStatus(mem, Self(c), OUT_CARDING)
  /\ UNCHANGED <<map, lists, pool, pc, pos, diff>>

\* HandleRoundOver: the last card has been relayed to everyone, so no client has
\* cards on the way; an AI, which is not told, may be about to play.
FinishRound(c) ==
  /\ Playing(c)
  /\ Me(c).st \in {WAIT_OUT_CARD, OUT_CARDED}
  /\ \/ Finishing(mem, Self(c))
     \/ /\ \E x \in Seats(mem, Self(c)) : mem.pl[x].st = OUT_CARDED
        /\ \A x \in Seats(mem, Self(c)) :
             mem.pl[x].kind = "user" => mem.pl[x].st # OUT_CARDING
  /\ mem' = SetStatus(mem, Self(c), ROUNDOVERING)
  /\ UNCHANGED <<map, lists, pool, pc, pos, diff>>

MayLeave(c) == LateLeaves \/ ~ Finishing(mem, Self(c))

\* HandlLogout: only a flag, the next Player::Update does the rest.
AskToLogOut(c) ==
  /\ Playing(c) /\ MayLeave(c)
  /\ Me(c).st \in LogoutAt
  /\ mem' = SetStatus(mem, Self(c), LoggingOut(Me(c).st))
  /\ UNCHANGED <<map, lists, pool, pc, pos, diff>>

\* The connection is lost: World::UpdateSessions deletes the session, whose
\* destructor logs the player out at once.
Drop(c) ==
  /\ Playing(c) /\ MayLeave(c)
  /\ Me(c).st \in DropAt
  /\ mem' = LogOutPlayer(mem, Self(c))
  /\ UNCHANGED <<map, lists, pool, pc, pos, diff>>

------------------------------------------------------------------------------
(* getAiPlayer takes the back of the pool, or a new object when the pool   *)
(* is empty.                                                               *)
AiTaken == IF pool # <<>> THEN Last(pool) ELSE CHOOSE x \in Unused(mem, Ais) : TRUE
CanTakeAi == pool # <<>> \/ Unused(mem, Ais) # {}
PoolLeft == IF pool # <<>> THEN Front(pool) ELSE pool

\* A bound: time passes, and waits run out, only while the instance has another AI.
AiBound == CanTakeAi

------------------------------------------------------------------------------
(* Room::Update: the loop over the players.                                *)

StartUpdate(d) ==
  /\ Idling
  /\ d # 0 => AiBound
  /\ pc' = "map"
  /\ pos' = 1
  /\ diff' = d
  /\ UNCHANGED <<mem, map, lists, pool>>

\* Mutant: the one who left is deleted whether or not a queue holds it.
Visited_DeletesSeated(p, m) ==
  LET left == ~ m.fault /\ LogOut(m, p) /\ ~ InTheGame(m, p)
      queued == ~ m.fault /\ ~ left /\ m.pl[p].st = STARTED /\ Idle(m, p)
  IN  /\ mem' = CASE left -> Delete(m, p)
                  [] queued -> [m EXCEPT !.pl[p].q = ONE]
                  [] OTHER -> m
      /\ one' = IF queued THEN Append(one, p) ELSE one
      /\ IF left
           THEN map' = RemoveAt(map, pos) /\ UNCHANGED pos
           ELSE pos' = pos + 1 /\ UNCHANGED map

\* p has been updated to m.  One that has logged out leaves the map, and is deleted
\* if no queue holds it; one that has started and waits nowhere is queued.
Visited(p, m) ==
  LET left == ~ m.fault /\ LogOut(m, p)
      queued == ~ m.fault /\ ~ left /\ m.pl[p].st = STARTED /\ Idle(m, p)
  IN  /\ mem' = CASE left /\ ~ InTheGame(m, p) /\ Idle(m, p) -> Delete(m, p)
                  [] queued -> [m EXCEPT !.pl[p].q = ONE]
                  [] OTHER -> m
      /\ one' = IF queued THEN Append(one, p) ELSE one
      /\ IF left /\ ~ InTheGame(m, p)
           THEN map' = RemoveAt(map, pos) /\ UNCHANGED pos
           ELSE pos' = pos + 1 /\ UNCHANGED map

Visit(who, roll) ==
  /\ pc = "map" /\ ~ mem.fault
  /\ pos <= Len(map)
  /\ Visited(map[pos].p, Update(mem, map[pos].p, diff, who, roll))
  /\ UNCHANGED <<two, three, pool, pc, diff>>

\* A loop has come to its end and the next one begins.
EndLoop ==
  /\ ~ mem.fault
  /\ \/ pc = "map" /\ pos > Len(map) /\ pc' = "one"
     \/ pc = "one" /\ one = <<>> /\ pc' = "two"
     \/ pc = "two" /\ pos > Len(two) /\ pc' = "three"
     \/ pc = "three" /\ pos > Len(three) /\ pc' = "sessions"
  /\ pos' = IF pc' \in {"two", "three"} THEN 1 ELSE 0
  /\ diff' = IF pc' = "sessions" THEN 0 ELSE diff
  /\ UNCHANGED <<mem, map, lists, pool>>

------------------------------------------------------------------------------
(* UpdateOne: matching the players that wait alone.                        *)

\* getPlayerFromOne on the list s.q: the front leaves the list, and one that has
\* logged out is deleted and not returned.
Pop(s) ==
  IF s.q = <<>> THEN [s EXCEPT !.p = Null]
  ELSE LET p == Head(s.q)
           out == Live(s.m, p) /\ LogOut(s.m, p)
       IN  [m |-> IF out THEN Delete(s.m, p) ELSE Using(s.m, {p}, s.m),
            q |-> Tail(s.q),
            p |-> IF out THEN Null ELSE p]

Popping == [m |-> mem, q |-> one, p |-> Null]

\* Three or more wait: the first three make a table, unless one has logged out.
MatchThree ==
  LET a == Pop(Popping)
      b == Pop(a)
      c == Pop(b)
  IN  /\ pc = "one" /\ ~ mem.fault
      /\ Len(one) > 2
      /\ one' = c.q
      /\ IF c.m.fault \/ Null \in {a.p, b.p, c.p}
           THEN mem' = c.m /\ UNCHANGED three
           ELSE /\ mem' = AddNeighbour(AddNeighbour(AddNeighbour(c.m, a.p, b.p), b.p, c.p),
                                       c.p, a.p)
                /\ three' = Append(three, <<a.p, b.p, c.p>>)
      /\ UNCHANGED <<map, two, pool, pc, pos, diff>>

\* Two wait.
MatchTwo ==
  LET a == Pop(Popping)
      b == Pop(a)
  IN  /\ pc = "one" /\ ~ mem.fault
      /\ Len(one) = 2
      /\ one' = b.q
      /\ IF b.m.fault \/ Null \in {a.p, b.p}
           THEN mem' = b.m /\ UNCHANGED two
           ELSE /\ mem' = AddNeighbour(AddNeighbour(b.m, a.p, b.p), b.p, a.p)
                /\ two' = Append(two, <<a.p, b.p>>)
      /\ UNCHANGED <<map, three, pool, pc, pos, diff>>

\* configureAiPlayer gives the AI an id and a type and starts it, and leaves its
\* queue flags, its clocks and the rest as they are.
NewIds == IF FreshIds THEN AiIds \ {map[i].id : i \in DOMAIN map} ELSE AiIds

ConfigureAi(m, a, id) ==
  LET n == IF m.pl[a].alive THEN m ELSE [m EXCEPT !.pl[a] = NewPlayer(Null)]
  IN  SetStart([n EXCEPT !.pl[a].id = id, !.pl[a].kind = "ai"], a)

\* One waits: when its time is up it gets an AI, otherwise it goes on waiting.
MatchOne ==
  LET a == Pop(Popping)
  IN  /\ pc = "one" /\ ~ mem.fault
      /\ Len(one) = 1
      /\ IF a.p # Null /\ ~ a.m.fault /\ Expired(a.m, a.p)
           THEN /\ CanTakeAi
                /\ one' = a.q
                /\ two' = Append(two, <<a.p, AiTaken>>)
                /\ pool' = PoolLeft
                /\ \E id \in NewIds :
                     /\ mem' = LET n == ConfigureAi(a.m, AiTaken, id)
                               IN  AddNeighbour(AddNeighbour(n, a.p, AiTaken), AiTaken, a.p)
                     /\ map' \in MapWith(id, AiTaken)
                /\ UNCHANGED <<pc, pos>>
           ELSE /\ mem' = a.m
                /\ one' = IF a.p = Null THEN a.q ELSE Append(a.q, a.p)
                /\ pc' = "two" /\ pos' = 1
                /\ UNCHANGED <<two, map, pool>>
      /\ UNCHANGED <<three, diff>>

------------------------------------------------------------------------------
(* UpdateTwo: pairs that break up or get their third player.               *)

\* The macros RELEASE and OUT_TWO, on the memory, the pool and the first queue.
ReleaseAi(s, p) == [s EXCEPT !.pool = Append(@, p)]

\* Mutant: users are released to the pool of AIs too.
Release_Any(s, p) == ReleaseAi(s, p)

Release(s, p) ==
  IF s.m.pl[p].kind = "ai" THEN ReleaseAi(s, p) ELSE [s EXCEPT !.m = Delete(@, p)]
OutTwo(s, p) ==
  IF s.m.pl[p].kind = "ai" THEN ReleaseAi(s, p) ELSE [s EXCEPT !.q = Append(@, p)]

\* LogoutTwo: the one who left is released, the other waits alone again.
LogoutTwo(s, p0, p1) ==
  CASE LogOut(s.m, p0) /\ ~ LogOut(s.m, p1) -> OutTwo(Release(s, p0), p1)
    [] ~ LogOut(s.m, p0) /\ LogOut(s.m, p1) -> Release(OutTwo(s, p0), p1)
    [] OTHER -> Release(Release(s, p0), p1)

PairIsIntact(pair) == \A i \in 1 .. 2 : ~ LogOut(mem, pair[i])
Here(S) == \A x \in S : Live(mem, x)

\* The pair's memory has a freed player in it.
TouchFreed(S) == mem' = Using(mem, S, mem)

BreakPair ==
  /\ pc = "two" /\ ~ mem.fault
  /\ pos <= Len(two)
  /\ ~ (Here(ToSet(two[pos])) /\ PairIsIntact(two[pos]))
  /\ IF ~ Here(ToSet(two[pos]))
       THEN TouchFreed(ToSet(two[pos])) /\ UNCHANGED <<one, two, pool>>
       ELSE LET s == LogoutTwo([m |-> mem, q |-> one, pool |-> pool], two[pos][1], two[pos][2])
            IN  /\ mem' = s.m
                /\ one' = s.q
                /\ pool' = s.pool
                /\ two' = RemoveAt(two, pos)
  /\ UNCHANGED <<map, three, pc, pos, diff>>

\* Mutant: the pair leaves its queue and the table is not entered in the other.
JoinPair_Lost(m, x) ==
  /\ mem' = AddNeighbour(AddNeighbour(m, two[pos][1], x), two[pos][2], x)
  /\ two' = RemoveAt(two, pos)
  /\ UNCHANGED three

\* A third player joins the pair: the front of the first queue, or an AI when the
\* time of one of the two is up.
JoinPair(m, x) ==
  /\ mem' = AddNeighbour(AddNeighbour(m, two[pos][1], x), two[pos][2], x)
  /\ three' = Append(three, <<two[pos][1], two[pos][2], x>>)
  /\ two' = RemoveAt(two, pos)

FillPair ==
  LET a == Pop(Popping)
      late == \E i \in 1 .. 2 : Expired(mem, two[pos][i])
  IN  /\ pc = "two" /\ ~ mem.fault
      /\ pos <= Len(two)
      /\ Here(ToSet(two[pos])) /\ PairIsIntact(two[pos])
      /\ one' = a.q
      /\ CASE a.m.fault ->
                mem' = a.m /\ UNCHANGED <<map, two, three, pool, pos>>
           [] ~ a.m.fault /\ a.p # Null ->
                /\ JoinPair(a.m, a.p)
                /\ map' \in MapWith(a.m.pl[a.p].id, a.p)
                /\ UNCHANGED <<pool, pos>>
           [] ~ a.m.fault /\ a.p = Null /\ late ->
                /\ CanTakeAi
                /\ pool' = PoolLeft
                /\ \E id \in NewIds : /\ JoinPair(ConfigureAi(a.m, AiTaken, id), AiTaken)
                                      /\ map' \in MapWith(id, AiTaken)
                /\ UNCHANGED pos
           [] OTHER ->
                mem' = a.m /\ pos' = pos + 1 /\ UNCHANGED <<map, two, three, pool>>
      /\ UNCHANGED <<pc, diff>>

------------------------------------------------------------------------------
(* UpdateThree: tables that break up, are dealt to, or have ended.         *)

Whole(t) == \A i \in 1 .. 3 : ~ LogOut(mem, t[i])

\* The places at t of those who have left; what becomes of them when somebody stays.
Gone(t) == {i \in 1 .. 3 : LogOut(mem, t[i])}
FreeGone(m, t, i) == IF i \in Gone(t) THEN Delete(m, t[i]) ELSE m

\* Mutant: the first of two that remain waits alone and as a pair.
LogoutThree_BothQueues(t) ==
  LET rest == SelectSeq(t, LAMBDA p : ~ LogOut(mem, p))
  IN  /\ mem' = FreeGone(FreeGone(FreeGone(mem, t, 1), t, 2), t, 3)
      /\ two' = IF Len(rest) = 2 THEN Append(two, rest) ELSE two
      /\ one' = IF rest # <<>> THEN Append(one, rest[1]) ELSE one
      /\ UNCHANGED pool

\* LogoutThree: who has left is deleted (released, when all have), and the rest
\* go back to the queue of two or of one.
LogoutThree(t) ==
  LET s == [m |-> mem, q |-> one, pool |-> pool]
      freed == FreeGone(FreeGone(FreeGone(mem, t, 1), t, 2), t, 3)
      all == Release(Release(Release(s, t[1]), t[2]), t[3])
  IN  /\ mem' = IF Gone(t) = 1 .. 3 THEN all.m ELSE freed
      /\ pool' = IF Gone(t) = 1 .. 3 THEN all.pool ELSE pool
      /\ two' = CASE Gone(t) = {1} -> Append(two, <<t[2], t[3]>>)
                  [] Gone(t) = {2} -> Append(two, <<t[1], t[3]>>)
                  [] Gone(t) = {3} -> Append(two, <<t[1], t[2]>>)
                  [] OTHER -> two
      /\ one' = CASE Gone(t) = {2, 3} -> Append(one, t[1])
                  [] Gone(t) = {1, 3} -> Append(one, t[2])
                  [] Gone(t) = {1, 2} -> Append(one, t[3])
                  [] OTHER -> one

BreakTable ==
  /\ pc = "three" /\ ~ mem.fault
  /\ pos <= Len(three)
  /\ ~ (Here(ToSet(three[pos])) /\ Whole(three[pos]))
  /\ IF ~ Here(ToSet(three[pos]))
       THEN TouchFreed(ToSet(three[pos])) /\ UNCHANGED <<one, two, pool, three>>
       ELSE LogoutThree(three[pos]) /\ three' = RemoveAt(three, pos)
  /\ UNCHANGED <<map, pc, pos, diff>>

\* allStart, allAtThree, allWaitDealCards
AllStart(t) == \A i \in 1 .. 3 : mem.pl[t[i]].started
AllAtThree(t) == \A i \in 1 .. 3 : mem.pl[t[i]].q = THREE
AllWaitDealCards(t) == \A i \in 1 .. 3 : mem.pl[t[i]].st < DEALING

\* dealCards
DealCards(t) ==
  SetStatus(SetStatus(SetStatus(mem, t[1], DEALING), t[2], DEALING), t[3], DEALING)

\* Mutant: the AIs leave the table and are not given back to the pool.
ReleaseAis_Leak(s, t) ==
  LET out(m, p) == IF PlaysItself(m, p) THEN SetStatus(m, p, LOG_OUTED) ELSE m
  IN  [s EXCEPT !.m = out(out(out(@, t[1]), t[2]), t[3])]

\* releaseAiPlayer: those that play for themselves leave, the AIs to the pool.
GiveBack(s, p) ==
  LET n == [s EXCEPT !.m = SetStatus(@, p, LOG_OUTED)]
  IN  IF ~ PlaysItself(s.m, p) THEN s
      ELSE IF n.m.pl[p].kind = "ai" THEN ReleaseAi(n, p) ELSE n
ReleaseAis(s, t) == GiveBack(GiveBack(GiveBack(s, t[1]), t[2]), t[3])

ServeTable ==
  LET t == three[pos]
      ready == AllStart(t) /\ AllAtThree(t) /\ AllWaitDealCards(t)
      n == IF ready THEN DealCards(t) ELSE mem
      over == \A i \in 1 .. 3 : RoundOver(n, t[i])
      s == ReleaseAis([m |-> n, q |-> one, pool |-> pool], t)
  IN  /\ pc = "three" /\ ~ mem.fault
      /\ pos <= Len(three)
      /\ Here(ToSet(t)) /\ Whole(t)
      /\ IF over
           THEN /\ mem' = s.m /\ pool' = s.pool
                /\ three' = RemoveAt(three, pos) /\ UNCHANGED pos
           ELSE mem' = n /\ pos' = pos + 1 /\ UNCHANGED <<pool, three>>
      /\ UNCHANGED <<map, one, two, pc, diff>>

------------------------------------------------------------------------------
ClientStep(c) == \/ Login(c) \/ WaitStart(c) \/ PlayCards(c) \/ FinishRound(c)
                 \/ AskToLogOut(c) \/ Drop(c)
                 \/ \E score \in Scores : GrabLandlord(c, score)

UpdateStep == \/ \E who \in 0 .. 2, roll \in 0 .. 3 : Visit(who, roll)
              \/ EndLoop \/ MatchThree \/ MatchTwo \/ MatchOne
              \/ BreakPair \/ FillPair \/ BreakTable \/ ServeTable

Next == \/ \E c \in Clients : ClientStep(c)
        \/ \E d \in Diffs : StartUpdate(d)
        \/ UpdateStep

Spec == Init /\ [][Next]_vars

\* The room thread finishes an update it has begun, and time passes from one to the
\* next; this is weak fairness with its enabling conditions written out.  A client
\* that has logged in starts, and bids when it may.
Updating == pc # "sessions" /\ ~ mem.fault
Ticking(d) == d # 0 /\ StartUpdate(d)

FairSpec ==
  /\ Spec
  /\ []<>(~ Updating) \/ []<><<UpdateStep>>_vars
  /\ []<>~ (Idling /\ AiBound) \/ []<><<\E d \in Diffs : Ticking(d)>>_vars
  /\ \A c \in Clients : /\ WF_vars(WaitStart(c))
                        /\ SF_vars(\E score \in Scores : GrabLandlord(c, score))

------------------------------------------------------------------------------
(* Correctness.                                                            *)

TypeOK ==
  /\ mem \in Memory
  /\ map \in Seq([id : Ids, p : Players])
  /\ one \in Seq(Players)
  /\ two \in Seq(Players \X Players)
  /\ three \in Seq(Players \X Players \X Players)
  /\ pool \in Seq(Ais)
  /\ pc \in {"sessions", "map", "one", "two", "three"}
  /\ pos \in CASE pc = "map"   -> 1 .. Len(map) + 1
               [] pc = "two"   -> 1 .. Len(two) + 1
               [] pc = "three" -> 1 .. Len(three) + 1
               [] OTHER        -> {0}
  /\ diff \in Diffs \union {0}

\* No null or freed player is ever dereferenced, no user without a session is
\* sent a packet.
NoFault == ~ mem.fault

\* A session and the player of its client point at each other, from the login until the
\* player leaves: a session never holds a player that is freed, has left or has been
\* replaced (WorldSession.cpp:54-72, 194-221; Player.cpp:57-132; Room.cpp:36-46, 122-136).
SessionLink ==
  /\ \A c \in Clients : mem.ses[c] # Null =>
       LET p == mem.pl[mem.ses[c]]
       IN  p.alive /\ p.sess = c /\ p.kind = "user" /\ p.st # LOG_OUTED
  /\ \A p \in Players : mem.pl[p].sess # Null => mem.ses[mem.pl[p].sess] = p

\* Where a player waits or sits.
Pairs(p) == {i \in DOMAIN two : p \in ToSet(two[i])}
Tables(p) == {i \in DOMAIN three : p \in ToSet(three[i])}
Places(p) == Cardinality({i \in DOMAIN one : one[i] = p}) + Cardinality(Pairs(p))
               + Cardinality(Tables(p))

\* A player that has not left is never in two places at once.
SeatedOnce ==
  Idling => \A i \in DOMAIN map : ~ LogOut(mem, map[i].p) => Places(map[i].p) <= 1

\* Nor is it in none, unless it has finished a round: it waits where an update
\* finds it another player or, after the wait time, an AI.
NobodyStranded ==
  Idling =>
    \A i \in DOMAIN map :
      ~ LogOut(mem, map[i].p) /\ ~ Idle(mem, map[i].p) => Places(map[i].p) >= 1

\* The wait of a player that waits alone is timed: Player::Update runs the clock of
\* those whose flag says that they are in the queue of one or of two.
WaitIsTimed ==
  Idling => \A i \in DOMAIN one : ~ LogOut(mem, one[i]) => mem.pl[one[i]].q \in {ONE, TWO}

\* An AI is in the pool or in the room, and at most once in the pool.
PoolConserved ==
  Idling =>
    /\ IsInjective(pool)
    /\ \A a \in Ais : mem.pl[a].alive => (a \in ToSet(pool) <=> Places(a) = 0)

\* The three at a table that nobody has left point at each other in a ring.
Ring(t) ==
  \A p \in t : LET l == mem.pl[p].left
                   r == mem.pl[p].right
               IN  {p, l, r} = t /\ mem.pl[l].right = p /\ mem.pl[r].left = p
TablesLinked ==
  Idling => \A i \in DOMAIN three :
    (\A k \in 1 .. 3 : mem.pl[three[i][k]].st \in WAIT_START .. OUT_CARDED) 
      => Ring(ToSet(three[i]))

\* The players of a running game agree on the landlord, who sits with them and
\* was not outbid.
LandlordAgreed ==
  Idling => \A i \in DOMAIN three :
    LET t == ToSet(three[i])
        best == Max({mem.pl[p].bid : p \in t})
    IN  (\A p \in t : mem.pl[p].st \in WAIT_OUT_CARD .. OUT_CARDED) =>
          \E w \in t : /\ \A x \in t : mem.pl[x].lord = mem.pl[w].id
                       /\ mem.pl[w].bid = best \/ (mem.pl[w].bid = -1 /\ best = 0)

\* Nobody sits at two tables, and a table is a ring whose players agree on the landlord
\* (Room.cpp:171-188, 213-246; Player.cpp:240-259, 325-340, 538-557).
TablesAgree == SeatedOnce /\ TablesLinked /\ LandlordAgreed

\* When the three at a table are all marked as being at a table of three, its users
\* have been sent the desk they sit at (sendThreeDesk), so they may be dealt to.
DeskKnown ==
  Idling => \A i \in DOMAIN three :
    LET t == three[i]
    IN  Here(ToSet(t)) /\ Whole(t) /\ AllAtThree(t) =>
          \A p \in ToSet(t) : mem.pl[p].kind = "user" =>
            mem.pl[p].desk = <<mem.pl[p].left, mem.pl[p].right>>

\* A client that has started does not wait for its game for ever.
Connected(c) == mem.ses[c] # Null
StatusOf(c) == mem.pl[mem.ses[c]].st
StartedIsDealt ==
  \A c \in Clients : (Connected(c) /\ StatusOf(c) = STARTED)
                        ~> (Connected(c) => StatusOf(c) \in DEALING .. OUT_CARDED)

\* Bidding comes to an end, with a landlord: nobody waits for ever for a bid.
DealtIsPlayed ==
  \A c \in Clients : (Connected(c) /\ StatusOf(c) = DEALED)
                        ~> (Connected(c) => StatusOf(c) >= WAIT_OUT_CARD)

\* From pressing start to a landlord, nobody is forgotten (Player.cpp:32, 268-330).
RoundsBegin == StartedIsDealt /\ DealtIsPlayed

\* Whoever plays the game gets its turn.
TurnComes ==
  \A c \in Clients : (Connected(c) /\ StatusOf(c) = WAIT_OUT_CARD)
                        ~> (Connected(c) => MayPlay(mem, Self(c)) \/ StatusOf(c) # WAIT_OUT_CARD)
==============================================================================
