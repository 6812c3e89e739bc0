----------------------------- MODULE Room_proof -----------------------------
(***************************************************************************)
(* Theorems about Room.tla: its types, the link of sessions and players,   *)
(* and that nobody is dealt to in a game.                                  *)
(***************************************************************************)
EXTENDS Room, Player_proof, SequenceTheorems

\* The players that have been given an id.
Named == {p \in Players : mem.pl[p].id # Null}

Entries == [id : Ids, p : Named]

Lists ==
  /\ map \in Seq(Entries)
  /\ one \in Seq(Named)
  /\ two \in Seq(Named \X Named)
  /\ three \in Seq(Named \X Named \X Named)

Iterator ==
  pos \in CASE pc = "map"   -> 1 .. Len(map) + 1
            [] pc = "two"   -> 1 .. Len(two) + 1
            [] pc = "three" -> 1 .. Len(three) + 1
            [] OTHER        -> {0}

RoomInv ==
  /\ Sound(mem)
  /\ Lists
  /\ pool \in Seq(Ais)
  /\ pc \in {"sessions", "map", "one", "two", "three"}
  /\ Iterator
  /\ diff \in Diffs \union {0}

------------------------------------------------------------------------------
(* Sequences.                                                              *)

LEMMA RemoveAtType ==
  ASSUME NEW S, NEW s \in Seq(S), NEW i \in 1 .. Len(s)
  PROVE  RemoveAt(s, i) \in Seq(S) /\ Len(RemoveAt(s, i)) = Len(s) - 1
  <1> DEFINE a == SubSeq(s, 1, i - 1)
             b == SubSeq(s, i + 1, Len(s))
  <1>1. Len(s) \in Nat
    BY LenProperties
  <1>2. a \in Seq(S) /\ Len(a) = i - 1
    BY <1>1, SubSeqProperties
  <1>3. b \in Seq(S) /\ Len(b) = Len(s) - i
    BY <1>1, SubSeqProperties
  <1>4. RemoveAt(s, i) = a \o b
    BY DEF RemoveAt
  <1> HIDE DEF a, b
  <1>5. a \o b \in Seq(S) /\ Len(a \o b) = Len(a) + Len(b)
    BY <1>2, <1>3, ConcatProperties
  <1> QED BY <1>1, <1>2, <1>3, <1>4, <1>5

LEMMA InsertAtType ==
  ASSUME NEW S, NEW s \in Seq(S), NEW i \in 1 .. Len(s) + 1, NEW e \in S
  PROVE  InsertAt(s, i, e) \in Seq(S)
  <1>1. Len(s) \in Nat
    BY LenProperties
  <1>2. SubSeq(s, 1, i - 1) \in Seq(S)
    BY <1>1, SubSeqProperties
  <1>3. SubSeq(s, i, Len(s)) \in Seq(S)
    BY <1>1, SubSeqProperties
  <1>4. <<e>> \in Seq(S)
    OBVIOUS
  <1> QED BY <1>2, <1>3, <1>4, ConcatProperties DEF InsertAt

LEMMA FrontType ==
  ASSUME NEW S, NEW s \in Seq(S), s # <<>>
  PROVE  Front(s) \in Seq(S) /\ Last(s) \in S
  <1>1. Len(s) \in Nat /\ Len(s) # 0
    BY LenProperties, EmptySeq
  <1>2. Front(s) \in Seq(S)
    BY <1>1, SubSeqProperties DEF Front
  <1>3. Last(s) \in S
    BY <1>1, ElementOfSeq DEF Last
  <1> QED BY <1>2, <1>3

------------------------------------------------------------------------------
(* The lists of the room, when the memory changes.                         *)

LEMMA MapWithType ==
  ASSUME NEW N, map \in Seq([id : Ids, p : N]), NEW id \in Ids, NEW x \in N
  PROVE  MapWith(id, x) \subseteq Seq([id : Ids, p : N])
  <1> DEFINE E == [id : Ids, p : N]
             e == [id |-> id, p |-> x]
             f == [i \in DOMAIN map |-> IF map[i].id = id THEN e ELSE map[i]]
  <1>1. e \in E
    OBVIOUS
  <1>2. Len(map) \in Nat /\ DOMAIN map = 1 .. Len(map) /\ \A i \in 1 .. Len(map) : map[i] \in E
    BY LenProperties, ElementOfSeq
  <1>3. f \in Seq(E)
    <2>1. f = [i \in 1 .. Len(map) |-> IF map[i].id = id THEN e ELSE map[i]]
      BY <1>2
    <2>2. \A i \in 1 .. Len(map) : (IF map[i].id = id THEN e ELSE map[i]) \in E
      BY <1>1, <1>2
    <2> HIDE DEF e, E, f
    <2> QED BY <1>2, <2>1, <2>2, IsASeq
  <1>4. ASSUME NEW i \in 1 .. Len(map) + 1
        PROVE  InsertAt(map, i, e) \in Seq(E)
    <2>1. map \in Seq(E)
      OBVIOUS
    <2> HIDE DEF e, E
    <2> QED BY <1>1, <2>1, InsertAtType
  <1>5. 1 \in 1 .. Len(map) + 1
    BY <1>2
  <1> DEFINE D == IF AnyOrder THEN 1 .. Len(map) + 1 ELSE {1}
  <1>6. D \subseteq 1 .. Len(map) + 1
    BY <1>5
  <1>7. \/ MapWith(id, x) = {f}
        \/ MapWith(id, x) = {InsertAt(map, i, e) : i \in D}
    BY DEF MapWith
  <1>8. \A y \in MapWith(id, x) : y \in Seq(E)
    <2> HIDE DEF e, f, E, D
    <2> QED BY <1>3, <1>4, <1>6, <1>7
  <1> QED BY <1>8

LEMMA ListsOfNamed ==
  ASSUME Lists, Named \subseteq Named'
  PROVE  /\ map \in Seq(Entries')
         /\ one \in Seq(Named')
         /\ two \in Seq((Named \X Named)')
         /\ three \in Seq((Named \X Named \X Named)')
  <1>1. /\ Entries \subseteq Entries'
        /\ Named \X Named \subseteq (Named \X Named)'
        /\ Named \X Named \X Named \subseteq (Named \X Named \X Named)'
    <2> HIDE DEF Named
    <2> QED BY DEF Entries
  <1> QED BY <1>1, SeqMonotonic DEF Lists

LEMMA ListsKept ==
  ASSUME Lists, Kept(mem, mem')
  PROVE  /\ map \in Seq(Entries')
         /\ one \in Seq(Named')
         /\ two \in Seq((Named \X Named)')
         /\ three \in Seq((Named \X Named \X Named)')
  <1>1. Named \subseteq Named'
    BY DEF Kept, Named
  <1> QED BY <1>1, ListsOfNamed

LEMMA NamedType == Named \subseteq Players
  BY DEF Named

LEMMA ListElements ==
  ASSUME Lists
  PROVE  /\ Len(map) \in Nat /\ Len(one) \in Nat /\ Len(two) \in Nat /\ Len(three) \in Nat
         /\ \A i \in 1 .. Len(map) : map[i] \in Entries
         /\ \A i \in 1 .. Len(two) : /\ two[i] \in Named \X Named
                                     /\ two[i][1] \in Named /\ two[i][2] \in Named
         /\ \A i \in 1 .. Len(three) : /\ three[i] \in Named \X Named \X Named
                                       /\ three[i][1] \in Named /\ three[i][2] \in Named
                                       /\ three[i][3] \in Named
  <1>1. Len(map) \in Nat /\ Len(one) \in Nat /\ Len(two) \in Nat /\ Len(three) \in Nat
    BY LenProperties DEF Lists
  <1>2. \A i \in 1 .. Len(map) : map[i] \in Entries
    BY ElementOfSeq DEF Lists
  <1>3. \A i \in 1 .. Len(two) : two[i] \in Named \X Named
    BY ElementOfSeq DEF Lists
  <1>4. \A i \in 1 .. Len(three) : three[i] \in Named \X Named \X Named
    BY ElementOfSeq DEF Lists
  <1> QED BY <1>1, <1>2, <1>3, <1>4

LEMMA SameLists ==
  ASSUME Lists, Kept(mem, mem'), UNCHANGED <<map, lists>>
  PROVE  Lists'
  BY ListsKept DEF Lists, lists

\* What every step does to the memory.
Step == Sound(mem') /\ Kept(mem, mem')

\* A step that leaves the lists and the loop alone.
LEMMA QuietStep ==
  ASSUME RoomInv, Step, UNCHANGED <<map, lists, pool, pc, pos, diff>>
  PROVE  RoomInv'
  <1>1. Lists'
    BY SameLists DEF RoomInv, Step
  <1>2. Iterator'
    BY DEF RoomInv, Iterator, lists
  <1> QED BY <1>1, <1>2 DEF RoomInv, Step

LEMMA CalmStep ==
  ASSUME RoomInv, Calm(mem, mem')
  PROVE  Step
  BY SoundCalm DEF RoomInv, Step

------------------------------------------------------------------------------
(* The session handlers.                                                   *)

LEMMA SelfType ==
  ASSUME RoomInv, NEW c \in Clients, Playing(c)
  PROVE  /\ mem \in Memory /\ Calm(mem, mem)
         /\ Self(c) \in Players /\ mem.pl[Self(c)].st \in Status \ {LOG_OUTED}
  <1>1. mem \in Memory /\ Self(c) \in Players
    BY DEF RoomInv, Sound, Backs, Memory, Playing, Self
  <1>2. mem.pl[Self(c)].sess # Null
    BY PlayerAssumption DEF RoomInv, Sound, Backs, Playing, Self
  <1>3. mem.pl[Self(c)].st \in Status
    BY <1>1, MemoryTypes
  <1>4. mem.pl[Self(c)].st # LOG_OUTED
    BY <1>1, <1>2 DEF RoomInv, Sound, Attached
  <1> QED BY <1>1, <1>3, <1>4, CalmSelf

LEMMA LoginStep ==
  ASSUME RoomInv, NEW c \in Clients, Login(c)
  PROVE  RoomInv' /\ Step
  <1> DEFINE U == Unused(mem, Users)
             u == CHOOSE x \in U : TRUE
             n == [mem EXCEPT !.pl[u] = [NewPlayer(c) EXCEPT !.id = c, !.q = ONE], !.ses[c] = u]
  <1>1. /\ mem.ses[c] = Null /\ U # {}
        /\ mem' = n /\ map' \in MapWith(c, u) /\ one' = Append(one, u)
        /\ UNCHANGED <<two, three, pool, pc, pos, diff>> /\ pc = "sessions"
    BY DEF Login, Self, Idling
  <1>2. u \in U
    BY <1>1
  <1> HIDE DEF u
  <1>3. u \in Users /\ u \in Players /\ mem.pl[u].id = Null /\ ~ mem.pl[u].alive
    BY <1>2 DEF Unused, Players
  <1> HIDE DEF U
  <1>4. Sound(n) /\ Kept(mem, n) /\ n.pl[u].id = c
    <2>1. Sound(mem) /\ n = LoggedIn(mem, c, u)
      BY DEF RoomInv, LoggedIn
    <2> HIDE DEF n
    <2> QED BY <1>1, <1>3, <2>1, SoundLogin
  <1> HIDE DEF n
  <1>5. Step
    BY <1>1, <1>4 DEF Step
  <1>6. u \in Named'
    BY <1>1, <1>3, <1>4, PlayerAssumption DEF Named
  <1>7. /\ map \in Seq(Entries') /\ one \in Seq(Named')
        /\ two \in Seq((Named \X Named)') /\ three \in Seq((Named \X Named \X Named)')
    BY <1>5, ListsKept DEF RoomInv, Step
  <1>8. map' \in Seq(Entries')
    <2>1. map \in Seq([id : Ids, p : Named']) /\ c \in Ids
      BY <1>7 DEF Entries, Ids
    <2>2. MapWith(c, u) \subseteq Seq([id : Ids, p : Named'])
      BY <1>6, <2>1, MapWithType
    <2> QED BY <1>1, <2>2 DEF Entries
  <1>9. one' \in Seq(Named')
    BY <1>1, <1>6, <1>7, AppendProperties
  <1>10. Lists'
    BY <1>1, <1>7, <1>8, <1>9 DEF Lists
  <1>11. Iterator'
    BY <1>1 DEF RoomInv, Iterator
  <1> QED BY <1>1, <1>5, <1>10, <1>11 DEF RoomInv, Step

LEMMA WaitStartStep ==
  ASSUME RoomInv, NEW c \in Clients, WaitStart(c)
  PROVE  RoomInv' /\ Step
  <1>1. Calm(mem, mem')
    BY SelfType, CalmSetStart DEF WaitStart
  <1> QED BY <1>1, CalmStep, QuietStep DEF WaitStart

LEMMA GrabLandlordStep ==
  ASSUME RoomInv, NEW c \in Clients, NEW score \in Scores, GrabLandlord(c, score)
  PROVE  RoomInv' /\ Step
  <1> DEFINE p == Self(c)
  <1>1. Calm(mem, mem) /\ p \in Players
    BY SelfType DEF GrabLandlord
  <1>2. mem' = SetStatus(PutBid(mem, p, score), p, GRABING)
    BY DEF GrabLandlord, PutBid, SetStatus
  <1>3. score \in -1 .. 3
    BY RoomAssumption
  <1>4. GRABING \in Status \ {DEALING, LOG_OUTED}
    BY StatusValues DEF GRABING, DEALING, LOG_OUTED
  <1> HIDE DEF p
  <1>5. Calm(mem, mem')
    BY <1>1, <1>2, <1>3, <1>4, CalmBid, CalmStatus
  <1> QED BY <1>5, CalmStep, QuietStep DEF GrabLandlord

LEMMA PlayCardsStep ==
  ASSUME RoomInv, NEW c \in Clients, PlayCards(c)
  PROVE  RoomInv' /\ Step
  <1>1. OUT_CARDING \in Status \ {DEALING, LOG_OUTED}
    BY StatusValues DEF OUT_CARDING, DEALING, LOG_OUTED
  <1>2. Calm(mem, mem')
    BY <1>1, SelfType, CalmStatus DEF PlayCards
  <1> QED BY <1>2, CalmStep, QuietStep DEF PlayCards

LEMMA FinishRoundStep ==
  ASSUME RoomInv, NEW c \in Clients, FinishRound(c)
  PROVE  RoomInv' /\ Step
  <1>1. Calm(mem, mem')
    BY RoundStatuses, SelfType, CalmStatus DEF FinishRound
  <1> QED BY <1>1, CalmStep, QuietStep DEF FinishRound

LEMMA AskToLogOutStep ==
  ASSUME RoomInv, NEW c \in Clients, AskToLogOut(c)
  PROVE  RoomInv' /\ Step
  <1>1. /\ Calm(mem, mem) /\ Self(c) \in Players
        /\ mem.pl[Self(c)].st \in Status /\ mem.pl[Self(c)].st # LOG_OUTED
    BY SelfType DEF AskToLogOut
  <1>2. LoggingOut(mem.pl[Self(c)].st) \in Status \ {DEALING, LOG_OUTED}
    BY <1>1, LoggingOutStatus
  <1>3. Calm(mem, mem')
    BY <1>1, <1>2, CalmStatus DEF AskToLogOut, Me
  <1> QED BY <1>3, CalmStep, QuietStep DEF AskToLogOut

LEMMA DropStep ==
  ASSUME RoomInv, NEW c \in Clients, Drop(c)
  PROVE  RoomInv' /\ Step
  <1>1. Self(c) \in Players /\ mem.pl[Self(c)].st # LOG_OUTED
    BY SelfType DEF Drop
  <1>2. Step
    BY <1>1, SoundLogOutPlayer DEF RoomInv, Step, Drop
  <1> QED BY <1>2, QuietStep DEF Drop

------------------------------------------------------------------------------
(* Room::Update: the loop over the map.                                    *)

LEMMA SameMemory ==
  ASSUME RoomInv, mem' = mem
  PROVE  Step
  BY DEF RoomInv, Step, Kept

LEMMA StartUpdateStep ==
  ASSUME RoomInv, NEW d \in Diffs, StartUpdate(d)
  PROVE  RoomInv' /\ Step
  <1>1. Step
    BY SameMemory DEF StartUpdate
  <1>2. Lists'
    BY <1>1, SameLists DEF RoomInv, Step, StartUpdate
  <1>3. Iterator'
    <2>1. Len(map) \in Nat
      BY ListElements DEF RoomInv
    <2> QED BY <2>1 DEF StartUpdate, Iterator
  <1> QED BY <1>1, <1>2, <1>3 DEF RoomInv, Step, StartUpdate

LEMMA EndLoopStep ==
  ASSUME RoomInv, EndLoop
  PROVE  RoomInv' /\ Step
  <1>1. Step
    BY SameMemory DEF EndLoop
  <1>2. Lists'
    BY <1>1, SameLists DEF RoomInv, Step, EndLoop
  <1>3. Iterator'
    <2>1. Len(two) \in Nat /\ Len(three) \in Nat
      BY ListElements DEF RoomInv
    <2> QED BY <2>1 DEF EndLoop, Iterator, lists
  <1>4. pc' \in {"sessions", "map", "one", "two", "three"} /\ diff' \in Diffs \union {0}
    BY DEF RoomInv, EndLoop
  <1> QED BY <1>1, <1>2, <1>3, <1>4 DEF RoomInv, Step, EndLoop

LEMMA VisitStep ==
  ASSUME RoomInv, NEW who \in 0 .. 2, NEW roll \in 0 .. 3, Visit(who, roll)
  PROVE  RoomInv' /\ Step
  <1> DEFINE p == map[pos].p
             m == Update(mem, p, diff, who, roll)
             left == ~ m.fault /\ LogOut(m, p)
             queued == ~ m.fault /\ ~ left /\ m.pl[p].st = STARTED /\ Idle(m, p)
             n == CASE left /\ ~ InTheGame(m, p) /\ Idle(m, p) -> Delete(m, p)
                    [] queued -> [m EXCEPT !.pl[p].q = ONE]
                    [] OTHER -> m
  <1>1. /\ pc = "map" /\ pos \in 1 .. Len(map) /\ Len(map) \in Nat
        /\ map[pos] \in Entries
    BY ListElements DEF Visit, RoomInv, Iterator
  <1>2. p \in Named /\ p \in Players
    BY <1>1 DEF Entries, Named
  <1>3. diff \in Nat
    BY RoomAssumption DEF RoomInv
  <1>4. /\ mem' = n
        /\ one' = IF queued THEN Append(one, p) ELSE one
        /\ \/ map' = RemoveAt(map, pos) /\ pos' = pos
           \/ pos' = pos + 1 /\ map' = map
        /\ UNCHANGED <<two, three, pool, pc, diff>>
    BY DEF Visit, Visited
  <1> HIDE DEF p
  <1>5. Sound(m) /\ Kept(mem, m)
    BY <1>2, <1>3, SoundUpdate DEF RoomInv
  <1> HIDE DEF m
  <1>6. Sound(n) /\ Kept(mem, n)
    <2>1. left => Sound(Delete(m, p)) /\ Kept(m, Delete(m, p))
      BY <1>2, <1>5, SoundDelete DEF LogOut
    <2>2. Sound([m EXCEPT !.pl[p].q = ONE]) /\ Kept(m, [m EXCEPT !.pl[p].q = ONE])
      <3>1. m \in Memory /\ Calm(m, m)
        BY <1>5, CalmSelf DEF Sound, Backs
      <3>2. ONE \in NULL .. THREE
        BY DEF ONE, NULL, THREE
      <3>3. Calm(m, PutQueue(m, p, ONE))
        BY <1>2, <3>1, <3>2, CalmQueue
      <3> QED BY <1>5, <3>3, SoundCalm DEF PutQueue
    <2>3. n \in {Delete(m, p), [m EXCEPT !.pl[p].q = ONE], m}
      OBVIOUS
    <2> QED BY <1>5, <2>1, <2>2, KeptTrans
  <1> HIDE DEF n, queued
  <1>7. Step
    BY <1>4, <1>6 DEF Step
  <1>8. p \in Named'
    BY <1>2, <1>4, <1>6 DEF Named, Kept
  <1>9. /\ map \in Seq(Entries') /\ one \in Seq(Named')
        /\ two \in Seq((Named \X Named)') /\ three \in Seq((Named \X Named \X Named)')
    BY <1>7, ListsKept DEF RoomInv, Step
  <1>10. one' \in Seq(Named')
    <2>1. Append(one, p) \in Seq(Named')
      BY <1>8, <1>9, AppendProperties
    <2> QED BY <1>4, <1>9, <2>1
  <1>11. RemoveAt(map, pos) \in Seq(Entries') /\ Len(RemoveAt(map, pos)) = Len(map) - 1
    BY <1>1, <1>9, RemoveAtType
  <1>12. Lists'
    BY <1>4, <1>9, <1>10, <1>11 DEF Lists
  <1>13. Iterator'
    BY <1>1, <1>4, <1>11 DEF Iterator
  <1> QED BY <1>4, <1>7, <1>12, <1>13 DEF RoomInv, Step

------------------------------------------------------------------------------
(* UpdateOne.                                                              *)

Popped(N) == [m : {m \in Memory : Sound(m)}, q : Seq(N), p : N \union {Null}]

LEMMA PopType ==
  ASSUME NEW N, N \subseteq Players, NEW s \in Popped(N)
  PROVE  Pop(s) \in Popped(N) /\ Kept(s.m, Pop(s).m)
  <1> DEFINE g == [s.m EXCEPT !.fault = TRUE]
             p == Head(s.q)
             out == Live(s.m, p) /\ LogOut(s.m, p)
             n == IF out THEN Delete(s.m, p) ELSE Using(s.m, {p}, s.m)
             r == IF out THEN Null ELSE p
  <1>1. s.m \in Memory /\ Sound(s.m) /\ s.q \in Seq(N) /\ s.p \in N \union {Null}
    BY DEF Popped
  <1>2. Calm(s.m, s.m) /\ Kept(s.m, s.m)
    BY <1>1, CalmSelf, CalmKept
  <1>3. CASE s.q = <<>>
    <2>1. Pop(s) = [s EXCEPT !.p = Null]
      BY <1>3 DEF Pop
    <2>2. [s EXCEPT !.p = Null] \in Popped(N) /\ [s EXCEPT !.p = Null].m = s.m
      BY DEF Popped
    <2> QED BY <1>2, <2>1, <2>2
  <1>4. CASE s.q # <<>>
    <2>1. Pop(s) = [m |-> n, q |-> Tail(s.q), p |-> r]
      BY <1>4 DEF Pop
    <2>2. p \in N /\ Tail(s.q) \in Seq(N)
      BY <1>1, <1>4, HeadTailProperties
    <2>3. p \in Players
      BY <2>2
    <2> HIDE DEF p
    <2>4. Sound(n) /\ Kept(s.m, n)
      <3>1. out => Sound(Delete(s.m, p)) /\ Kept(s.m, Delete(s.m, p))
        BY <1>1, <2>3, SoundDelete DEF LogOut
      <3>2. Calm(s.m, g)
        BY <1>2, CalmFault
      <3>3. Using(s.m, {p}, s.m) \in {g, s.m}
        BY DEF Using
      <3> HIDE DEF g, out
      <3>4. Sound(g) /\ Kept(s.m, g)
        BY <1>1, <3>2, SoundCalm
      <3> QED BY <1>1, <1>2, <3>1, <3>3, <3>4
    <2>5. n \in Memory
      BY <2>4 DEF Sound, Backs
    <2>6. r \in N \union {Null}
      BY <2>2
    <2> HIDE DEF n, r
    <2> QED BY <2>1, <2>2, <2>4, <2>5, <2>6 DEF Popped
  <1> QED BY <1>3, <1>4

LEMMA PoppingType ==
  ASSUME RoomInv
  PROVE  Popping \in Popped(Named) /\ Popping.m = mem /\ Named \subseteq Players
  BY NamedType DEF RoomInv, Lists, Popping, Popped, Sound, Backs

LEMMA Neighboured ==
  ASSUME NEW k, NEW m, Sound(k), Sound(m), Kept(k, m), NEW p \in Players, NEW x \in Players
  PROVE  Sound(AddNeighbour(m, p, x)) /\ Kept(k, AddNeighbour(m, p, x))
  <1>1. m \in Memory /\ Calm(m, m)
    BY CalmSelf DEF Sound, Backs
  <1>2. Calm(m, AddNeighbour(m, p, x))
    BY <1>1, CalmAddNeighbour
  <1> QED BY <1>2, SoundCalm, KeptTrans

LEMMA MatchThreeStep ==
  ASSUME RoomInv, MatchThree
  PROVE  RoomInv' /\ Step
  <1> DEFINE a == Pop(Popping)
             b == Pop(a)
             c == Pop(b)
             x == AddNeighbour(c.m, a.p, b.p)
             y == AddNeighbour(x, b.p, c.p)
             z == AddNeighbour(y, c.p, a.p)
  <1>1. /\ a \in Popped(Named) /\ Kept(mem, a.m)
        /\ b \in Popped(Named) /\ Kept(mem, b.m)
        /\ c \in Popped(Named) /\ Kept(mem, c.m)
    <2>1. a \in Popped(Named) /\ Kept(mem, a.m) /\ Named \subseteq Players
      BY PoppingType, PopType
    <2> HIDE DEF a
    <2>2. b \in Popped(Named) /\ Kept(mem, b.m)
      BY <2>1, PopType, KeptTrans
    <2> HIDE DEF b
    <2>3. c \in Popped(Named) /\ Kept(mem, c.m)
      BY <2>1, <2>2, PopType, KeptTrans
    <2> QED BY <2>1, <2>2, <2>3
  <1>2. /\ pc = "one" /\ one' = c.q
        /\ \/ mem' = c.m /\ three' = three
           \/ /\ Null \notin {a.p, b.p, c.p}
              /\ mem' = z /\ three' = Append(three, <<a.p, b.p, c.p>>)
        /\ UNCHANGED <<map, two, pool, pc, pos, diff>>
    BY DEF MatchThree
  <1> HIDE DEF a, b, c
  <1>3. Sound(c.m) /\ c.q \in Seq(Named)
    BY <1>1 DEF Popped
  <1>4. Null \notin {a.p, b.p, c.p} => a.p \in Named /\ b.p \in Named /\ c.p \in Named
    BY <1>1 DEF Popped
  <1>5. Null \notin {a.p, b.p, c.p} => Sound(z) /\ Kept(mem, z)
    <2> SUFFICES ASSUME Null \notin {a.p, b.p, c.p}
                 PROVE  Sound(z) /\ Kept(mem, z)
      OBVIOUS
    <2>1. a.p \in Players /\ b.p \in Players /\ c.p \in Players /\ Sound(mem)
      BY <1>4, NamedType DEF RoomInv
    <2>2. Sound(x) /\ Kept(mem, x)
      BY <1>1, <1>3, <2>1, Neighboured
    <2> HIDE DEF x
    <2>3. Sound(y) /\ Kept(mem, y)
      BY <2>1, <2>2, Neighboured
    <2> HIDE DEF y
    <2> QED BY <2>1, <2>3, Neighboured
  <1> HIDE DEF z
  <1>6. Step
    BY <1>1, <1>2, <1>3, <1>5 DEF Step
  <1>7. /\ map \in Seq(Entries')
        /\ two \in Seq((Named \X Named)') /\ three \in Seq((Named \X Named \X Named)')
        /\ Named \subseteq Named'
    BY <1>6, ListsKept DEF RoomInv, Step, Kept, Named
  <1>8. one' \in Seq(Named')
    BY <1>2, <1>3, <1>7, SeqMonotonic
  <1>9. three' \in Seq((Named \X Named \X Named)')
    <2>1. Null \notin {a.p, b.p, c.p} => <<a.p, b.p, c.p>> \in (Named \X Named \X Named)'
      BY <1>4, <1>7
    <2>2. Null \notin {a.p, b.p, c.p}
            => Append(three, <<a.p, b.p, c.p>>) \in Seq((Named \X Named \X Named)')
      BY <1>7, <2>1, AppendProperties
    <2> QED BY <1>2, <1>7, <2>2
  <1>10. Lists'
    BY <1>2, <1>7, <1>8, <1>9 DEF Lists
  <1>11. Iterator'
    BY <1>2 DEF RoomInv, Iterator
  <1> QED BY <1>2, <1>6, <1>10, <1>11 DEF RoomInv, Step

LEMMA MatchTwoStep ==
  ASSUME RoomInv, MatchTwo
  PROVE  RoomInv' /\ Step
  <1> DEFINE a == Pop(Popping)
             b == Pop(a)
             x == AddNeighbour(b.m, a.p, b.p)
             y == AddNeighbour(x, b.p, a.p)
  <1>1. /\ a \in Popped(Named) /\ Kept(mem, a.m)
        /\ b \in Popped(Named) /\ Kept(mem, b.m)
    <2>1. a \in Popped(Named) /\ Kept(mem, a.m) /\ Named \subseteq Players
      BY PoppingType, PopType
    <2> HIDE DEF a
    <2> QED BY <2>1, PopType, KeptTrans
  <1>2. /\ pc = "one" /\ one' = b.q
        /\ \/ mem' = b.m /\ two' = two
           \/ /\ Null \notin {a.p, b.p}
              /\ mem' = y /\ two' = Append(two, <<a.p, b.p>>)
        /\ UNCHANGED <<map, three, pool, pc, pos, diff>>
    BY DEF MatchTwo
  <1> HIDE DEF a, b
  <1>3. Sound(b.m) /\ b.q \in Seq(Named)
    BY <1>1 DEF Popped
  <1>4. Null \notin {a.p, b.p} => a.p \in Named /\ b.p \in Named
    BY <1>1 DEF Popped
  <1>5. Null \notin {a.p, b.p} => Sound(y) /\ Kept(mem, y)
    <2> SUFFICES ASSUME Null \notin {a.p, b.p}
                 PROVE  Sound(y) /\ Kept(mem, y)
      OBVIOUS
    <2>1. a.p \in Players /\ b.p \in Players /\ Sound(mem)
      BY <1>4, NamedType DEF RoomInv
    <2>2. Sound(x) /\ Kept(mem, x)
      BY <1>1, <1>3, <2>1, Neighboured
    <2> HIDE DEF x
    <2> QED BY <2>1, <2>2, Neighboured
  <1> HIDE DEF y
  <1>6. Step
    BY <1>1, <1>2, <1>3, <1>5 DEF Step
  <1>7. /\ map \in Seq(Entries')
        /\ two \in Seq((Named \X Named)') /\ three \in Seq((Named \X Named \X Named)')
        /\ Named \subseteq Named'
    BY <1>6, ListsKept DEF RoomInv, Step, Kept, Named
  <1>8. one' \in Seq(Named')
    BY <1>2, <1>3, <1>7, SeqMonotonic
  <1>9. two' \in Seq((Named \X Named)')
    <2>1. Null \notin {a.p, b.p} => <<a.p, b.p>> \in (Named \X Named)'
      BY <1>4, <1>7
    <2>2. Null \notin {a.p, b.p} => Append(two, <<a.p, b.p>>) \in Seq((Named \X Named)')
      BY <1>7, <2>1, AppendProperties
    <2> QED BY <1>2, <1>7, <2>2
  <1>10. Lists'
    BY <1>2, <1>7, <1>8, <1>9 DEF Lists
  <1>11. Iterator'
    BY <1>2 DEF RoomInv, Iterator
  <1> QED BY <1>2, <1>6, <1>10, <1>11 DEF RoomInv, Step

LEMMA ConfigureAiSound ==
  ASSUME NEW k, NEW m, Sound(k), Kept(k, m), Sound(m), NEW a \in Ais, NEW id \in Ids
  PROVE  /\ Sound(ConfigureAi(m, a, id)) /\ Kept(k, ConfigureAi(m, a, id))
         /\ ConfigureAi(m, a, id).pl[a].id = id
  <1> DEFINE n == [m EXCEPT !.pl[a] = NewPlayer(Null)]
             o == IF m.pl[a].alive THEN m ELSE n
             r == NamedAi(o, a, id)
  <1>1. ConfigureAi(m, a, id) = r
    BY DEF ConfigureAi, NamedAi
  <1>2. /\ Sound(n)
        /\ \A x \in Players \ {a} : n.pl[x].id = m.pl[x].id
    BY SoundNewAi
  <1>3. /\ Sound(o)
        /\ \A x \in Players \ {a} : o.pl[x].id = m.pl[x].id
    <2> HIDE DEF n
    <2> QED BY <1>2
  <1> HIDE DEF o
  <1>4. Sound(r) /\ Kept(o, r) /\ r.pl[a].id = id
    BY <1>3, SoundNamedAi
  <1>5. id # Null
    BY PlayerAssumption DEF Ids
  <1> HIDE DEF r
  <1>6. Kept(k, r)
    BY <1>3, <1>4, <1>5 DEF Kept
  <1> QED BY <1>1, <1>4, <1>6

LEMMA AiTakenType ==
  ASSUME RoomInv, CanTakeAi
  PROVE  AiTaken \in Ais /\ AiTaken \in Players /\ PoolLeft \in Seq(Ais)
  <1>1. pool \in Seq(Ais)
    BY DEF RoomInv
  <1>2. CASE pool # <<>>
    BY <1>1, <1>2, FrontType DEF AiTaken, PoolLeft, Players
  <1>3. CASE pool = <<>>
    <2>1. Unused(mem, Ais) # {}
      BY <1>3 DEF CanTakeAi
    <2>2. AiTaken \in Unused(mem, Ais)
      BY <1>3, <2>1 DEF AiTaken
    <2> QED BY <1>1, <1>3, <2>2 DEF Unused, PoolLeft, Players
  <1> QED BY <1>2, <1>3

LEMMA NewIdsType == NewIds \subseteq Ids
  BY DEF NewIds, Ids

LEMMA MatchOneStep ==
  ASSUME RoomInv, MatchOne
  PROVE  RoomInv' /\ Step
  <1> DEFINE a == Pop(Popping)
             z == AiTaken
             n(id) == ConfigureAi(a.m, z, id)
             x(id) == AddNeighbour(n(id), a.p, z)
             y(id) == AddNeighbour(x(id), z, a.p)
  <1>1. a \in Popped(Named) /\ Kept(mem, a.m) /\ Named \subseteq Players
    BY PoppingType, PopType
  <1>2. /\ pc = "one"
        /\ \/ /\ a.p # Null /\ CanTakeAi
              /\ one' = a.q
              /\ two' = Append(two, <<a.p, z>>)
              /\ pool' = PoolLeft
              /\ \E id \in NewIds : mem' = y(id) /\ map' \in MapWith(id, z)
              /\ UNCHANGED <<pc, pos>>
           \/ /\ mem' = a.m
              /\ \/ a.p = Null /\ one' = a.q
                 \/ a.p # Null /\ one' = Append(a.q, a.p)
              /\ pc' = "two" /\ pos' = 1
              /\ UNCHANGED <<two, map, pool>>
        /\ UNCHANGED <<three, diff>>
    BY DEF MatchOne
  <1> HIDE DEF a
  <1>3. Sound(a.m) /\ a.q \in Seq(Named) /\ a.p \in Named \union {Null}
    BY <1>1 DEF Popped
  <1>4. ASSUME a.p # Null, CanTakeAi, NEW id \in NewIds,
               mem' = y(id), map' \in MapWith(id, z), one' = a.q,
               two' = Append(two, <<a.p, z>>), pool' = PoolLeft, UNCHANGED <<pc, pos, three, diff>>
        PROVE  RoomInv' /\ Step
    <2>1. z \in Ais /\ z \in Players /\ PoolLeft \in Seq(Ais)
      BY <1>4, AiTakenType
    <2>2. a.p \in Named /\ a.p \in Players /\ id \in Ids /\ Sound(mem)
      BY <1>1, <1>3, <1>4, NewIdsType DEF RoomInv
    <2> HIDE DEF z
    <2>3. Sound(n(id)) /\ Kept(mem, n(id)) /\ n(id).pl[z].id = id
      BY <1>1, <1>3, <2>1, <2>2, ConfigureAiSound
    <2> HIDE DEF n
    <2>4. Sound(x(id)) /\ Kept(n(id), x(id))
      BY <2>1, <2>2, <2>3, Neighboured, ZenonT(60) DEF Kept
    <2>5. Kept(mem, x(id))
      BY <2>3, <2>4, KeptTrans
    <2> HIDE DEF x
    <2>6. Sound(y(id)) /\ Kept(n(id), y(id))
      BY <2>1, <2>2, <2>3, <2>4, Neighboured
    <2>7. Kept(mem, y(id))
      BY <2>3, <2>6, KeptTrans
    <2> HIDE DEF y
    <2>8. Step
      BY <1>4, <2>6, <2>7 DEF Step
    <2>9. z \in Named'
      BY <1>4, <2>1, <2>2, <2>3, <2>6, PlayerAssumption DEF Kept, Named, Ids
    <2>10. /\ map \in Seq(Entries') /\ two \in Seq((Named \X Named)')
           /\ three \in Seq((Named \X Named \X Named)') /\ Named \subseteq Named'
      BY <2>8, ListsKept DEF RoomInv, Step, Kept, Named
    <2>11. map' \in Seq(Entries')
      <3>1. MapWith(id, z) \subseteq Seq([id : Ids, p : Named'])
        BY <2>2, <2>9, <2>10, MapWithType DEF Entries
      <3> QED BY <1>4, <3>1 DEF Entries
    <2>12. one' \in Seq(Named')
      BY <1>3, <1>4, <2>10, SeqMonotonic
    <2>13. two' \in Seq((Named \X Named)')
      <3>1. <<a.p, z>> \in (Named \X Named)'
        BY <2>2, <2>9, <2>10
      <3> QED BY <1>4, <2>10, <3>1, AppendProperties
    <2>14. Lists'
      BY <1>4, <2>10, <2>11, <2>12, <2>13 DEF Lists
    <2>15. Iterator'
      BY <1>2, <1>4 DEF RoomInv, Iterator
    <2> QED BY <1>4, <2>1, <2>8, <2>14, <2>15 DEF RoomInv, Step
  <1>5. ASSUME mem' = a.m,
               \/ a.p = Null /\ one' = a.q
               \/ a.p # Null /\ one' = Append(a.q, a.p),
               pc' = "two", pos' = 1, UNCHANGED <<two, map, pool, three, diff>>
        PROVE  RoomInv' /\ Step
    <2>1. Step
      BY <1>1, <1>3, <1>5 DEF Step
    <2>2. /\ map \in Seq(Entries') /\ two \in Seq((Named \X Named)')
          /\ three \in Seq((Named \X Named \X Named)') /\ Named \subseteq Named'
      BY <2>1, ListsKept DEF RoomInv, Step, Kept, Named
    <2>3. one' \in Seq(Named)
      <3>1. a.p # Null => Append(a.q, a.p) \in Seq(Named)
        BY <1>3, AppendProperties
      <3> QED BY <1>3, <1>5, <3>1
    <2>4. one' \in Seq(Named')
      BY <2>2, <2>3, SeqMonotonic
    <2>5. Lists'
      BY <1>5, <2>2, <2>4 DEF Lists
    <2>6. Iterator'
      <3>1. Len(two) \in Nat
        BY ListElements DEF RoomInv
      <3> QED BY <1>5, <3>1 DEF Iterator
    <2> QED BY <1>5, <2>1, <2>5, <2>6 DEF RoomInv, Step
  <1> HIDE DEF y, z
  <1> QED BY <1>2, <1>4, <1>5

------------------------------------------------------------------------------
(* UpdateTwo.                                                              *)

Holding(N) == [m : {m \in Memory : Sound(m)}, q : Seq(N), pool : Seq(Ais)]

LEMMA DeleteKeepsStatus ==
  ASSUME NEW m \in Memory, NEW p \in Players
  PROVE  \A x \in Players : Delete(m, p).pl[x].st = m.pl[x].st
  BY DEF Delete, Using, Memory, PlayerRecord

LEMMA ReleaseAiType ==
  ASSUME NEW N, NEW s \in Holding(N), NEW p \in Players, s.m.pl[p].kind = "ai"
  PROVE  ReleaseAi(s, p) \in Holding(N) /\ ReleaseAi(s, p).m = s.m
  <1>1. s.m \in Memory /\ Sound(s.m) /\ s.pool \in Seq(Ais)
    BY DEF Holding
  <1>2. p \in Ais
    BY <1>1 DEF Sound, Backs
  <1>3. Append(s.pool, p) \in Seq(Ais)
    BY <1>1, <1>2, AppendProperties
  <1> QED BY <1>3 DEF ReleaseAi, Holding

LEMMA ReleaseType ==
  ASSUME NEW N, NEW s \in Holding(N), NEW p \in Players, LogOut(s.m, p)
  PROVE  /\ Release(s, p) \in Holding(N) /\ Kept(s.m, Release(s, p).m)
         /\ \A x \in Players : Release(s, p).m.pl[x].st = s.m.pl[x].st
  <1> DEFINE d == Delete(s.m, p)
             r == [s EXCEPT !.m = d]
  <1>1. s.m \in Memory /\ Sound(s.m)
    BY DEF Holding
  <1>2. CASE s.m.pl[p].kind = "ai"
    <2>1. Release(s, p) = ReleaseAi(s, p)
      BY <1>2 DEF Release
    <2>2. Kept(s.m, s.m)
      BY <1>1, CalmSelf, CalmKept
    <2> QED BY <1>2, <2>1, <2>2, ReleaseAiType
  <1>3. CASE s.m.pl[p].kind # "ai"
    <2>1. Release(s, p) = r
      BY <1>3 DEF Release
    <2>2. Sound(d) /\ Kept(s.m, d)
      BY <1>1, SoundDelete DEF LogOut
    <2>3. \A x \in Players : d.pl[x].st = s.m.pl[x].st
      BY <1>1, DeleteKeepsStatus
    <2> HIDE DEF d
    <2>4. r \in Holding(N) /\ r.m = d
      BY <2>2 DEF Holding, Sound, Backs
    <2> HIDE DEF r
    <2> QED BY <2>1, <2>2, <2>3, <2>4
  <1> QED BY <1>2, <1>3

LEMMA OutTwoType ==
  ASSUME NEW N, NEW s \in Holding(N), NEW p \in Players, p \in N
  PROVE  OutTwo(s, p) \in Holding(N) /\ OutTwo(s, p).m = s.m
  <1>1. CASE s.m.pl[p].kind = "ai"
    BY <1>1, ReleaseAiType DEF OutTwo
  <1>2. CASE s.m.pl[p].kind # "ai"
    <2>1. s.q \in Seq(N)
      BY DEF Holding
    <2>2. Append(s.q, p) \in Seq(N)
      BY <2>1, AppendProperties
    <2> QED BY <1>2, <2>2 DEF OutTwo, Holding
  <1> QED BY <1>1, <1>2

LEMMA LogoutTwoType ==
  ASSUME NEW N, NEW s \in Holding(N), NEW p \in Players, NEW x \in Players,
         p \in N, x \in N, LogOut(s.m, p) \/ LogOut(s.m, x)
  PROVE  LogoutTwo(s, p, x) \in Holding(N) /\ Kept(s.m, LogoutTwo(s, p, x).m)
  <1>1. CASE LogOut(s.m, p) /\ ~ LogOut(s.m, x)
    <2> DEFINE a == Release(s, p)
    <2>1. a \in Holding(N) /\ Kept(s.m, a.m)
      BY <1>1, ReleaseType
    <2>2. LogoutTwo(s, p, x) = OutTwo(a, x)
      BY <1>1 DEF LogoutTwo
    <2> HIDE DEF a
    <2> QED BY <2>1, <2>2, OutTwoType
  <1>2. CASE ~ LogOut(s.m, p) /\ LogOut(s.m, x)
    <2> DEFINE a == OutTwo(s, p)
    <2>1. a \in Holding(N) /\ a.m = s.m
      BY OutTwoType
    <2>2. LogoutTwo(s, p, x) = Release(a, x)
      BY <1>2 DEF LogoutTwo
    <2> HIDE DEF a
    <2> QED BY <1>2, <2>1, <2>2, ReleaseType
  <1>3. CASE LogOut(s.m, p) /\ LogOut(s.m, x)
    <2> DEFINE a == Release(s, p)
    <2>1. a \in Holding(N) /\ Kept(s.m, a.m) /\ LogOut(a.m, x)
      BY <1>3, ReleaseType DEF LogOut
    <2>2. LogoutTwo(s, p, x) = Release(a, x)
      BY <1>3 DEF LogoutTwo
    <2> HIDE DEF a
    <2>3. Release(a, x) \in Holding(N) /\ Kept(a.m, Release(a, x).m)
      BY <2>1, ReleaseType
    <2> QED BY <2>1, <2>2, <2>3, KeptTrans
  <1> QED BY <1>1, <1>2, <1>3

\* What the room holds at the beginning of an update of a pair or a table.
Held == [m |-> mem, q |-> one, pool |-> pool]

LEMMA HeldType ==
  ASSUME RoomInv
  PROVE  Held \in Holding(Named) /\ Held.m = mem
  BY DEF RoomInv, Lists, Held, Holding, Sound, Backs

LEMMA TouchedFreed ==
  ASSUME RoomInv, NEW S, TouchFreed(S)
  PROVE  Step
  <1>1. Calm(mem, mem)
    BY CalmSelf DEF RoomInv, Sound, Backs
  <1>2. Calm(mem, mem')
    BY <1>1, CalmUsing DEF TouchFreed
  <1> QED BY <1>2, CalmStep

LEMMA BreakPairStep ==
  ASSUME RoomInv, BreakPair
  PROVE  RoomInv' /\ Step
  <1> DEFINE p == two[pos][1]
             x == two[pos][2]
             s == LogoutTwo(Held, p, x)
  <1>1. /\ pc = "two" /\ pos \in 1 .. Len(two) /\ Len(two) \in Nat
        /\ p \in Named /\ x \in Named /\ p \in Players /\ x \in Players
    BY ListElements, NamedType DEF BreakPair, RoomInv, Iterator
  <1>2. /\ \/ TouchFreed(ToSet(two[pos])) /\ UNCHANGED <<one, two, pool>>
           \/ /\ LogOut(mem, p) \/ LogOut(mem, x)
              /\ mem' = s.m /\ one' = s.q /\ pool' = s.pool /\ two' = RemoveAt(two, pos)
        /\ UNCHANGED <<map, three, pc, pos, diff>>
    <2>1. \A i \in 1 .. 2 : i = 1 \/ i = 2
      OBVIOUS
    <2>2. ~ PairIsIntact(two[pos]) => LogOut(mem, p) \/ LogOut(mem, x)
      BY <2>1 DEF PairIsIntact
    <2> QED BY <2>2 DEF BreakPair, Held
  <1> HIDE DEF p, x
  <1>3. ASSUME TouchFreed(ToSet(two[pos])), UNCHANGED <<one, two, pool>>
        PROVE  RoomInv' /\ Step
    <2>1. Step
      BY <1>3, TouchedFreed
    <2> QED BY <1>2, <1>3, <2>1, QuietStep DEF lists
  <1>4. ASSUME LogOut(mem, p) \/ LogOut(mem, x),
               mem' = s.m, one' = s.q, pool' = s.pool, two' = RemoveAt(two, pos)
        PROVE  RoomInv' /\ Step
    <2>1. s \in Holding(Named) /\ Kept(mem, s.m)
      <3> HIDE DEF s
      <3>1. Held \in Holding(Named) /\ Held.m = mem
        BY HeldType
      <3> QED BY <1>1, <1>4, <3>1, LogoutTwoType DEF s
    <2> HIDE DEF s
    <2>2. Sound(s.m) /\ s.q \in Seq(Named) /\ s.pool \in Seq(Ais)
      BY <2>1 DEF Holding
    <2>3. Step
      BY <1>4, <2>1, <2>2 DEF Step
    <2>4. /\ map \in Seq(Entries') /\ two \in Seq((Named \X Named)')
          /\ three \in Seq((Named \X Named \X Named)') /\ Named \subseteq Named'
      BY <2>3, ListsKept DEF RoomInv, Step, Kept, Named
    <2>5. one' \in Seq(Named')
      BY <1>4, <2>2, <2>4, SeqMonotonic
    <2>6. two' \in Seq((Named \X Named)') /\ Len(two') = Len(two) - 1
      BY <1>1, <1>4, <2>4, RemoveAtType
    <2>7. Lists'
      BY <1>2, <2>4, <2>5, <2>6 DEF Lists
    <2>8. Iterator'
      BY <1>1, <1>2, <2>6 DEF Iterator
    <2> QED BY <1>2, <1>4, <2>2, <2>3, <2>7, <2>8 DEF RoomInv, Step
  <1> HIDE DEF s
  <1> QED BY <1>2, <1>3, <1>4

LEMMA JoinedPair ==
  ASSUME RoomInv, pos \in 1 .. Len(two), NEW m, Sound(m), Kept(mem, m),
         NEW x \in Players, m.pl[x].id # Null, JoinPair(m, x)
  PROVE  /\ Step /\ x \in Named'
         /\ two' \in Seq((Named \X Named)') /\ Len(two') = Len(two) - 1
         /\ three' \in Seq((Named \X Named \X Named)')
  <1> DEFINE p == two[pos][1]
             q == two[pos][2]
             y == AddNeighbour(m, p, x)
             z == AddNeighbour(y, q, x)
  <1>1. /\ p \in Named /\ q \in Named /\ p \in Players /\ q \in Players
        /\ Len(two) \in Nat
    BY ListElements, NamedType DEF RoomInv
  <1>2. mem' = z /\ three' = Append(three, <<p, q, x>>) /\ two' = RemoveAt(two, pos)
    BY DEF JoinPair
  <1> HIDE DEF p, q
  <1>3. Sound(y) /\ Kept(m, y)
    <2>1. Kept(m, m)
      BY CalmSelf, CalmKept DEF Sound, Backs
    <2> QED BY <1>1, <2>1, Neighboured
  <1> HIDE DEF y
  <1>4. Sound(z) /\ Kept(m, z)
    BY <1>1, <1>3, Neighboured
  <1> HIDE DEF z
  <1>5. Step
    BY <1>2, <1>4, KeptTrans DEF Step
  <1>6. x \in Named'
    BY <1>2, <1>4 DEF Named, Kept
  <1>7. /\ two \in Seq((Named \X Named)') /\ three \in Seq((Named \X Named \X Named)')
        /\ Named \subseteq Named'
    BY <1>5, ListsKept DEF RoomInv, Step, Kept, Named
  <1>8. two' \in Seq((Named \X Named)') /\ Len(two') = Len(two) - 1
    BY <1>2, <1>7, RemoveAtType
  <1>9. three' \in Seq((Named \X Named \X Named)')
    <2>1. <<p, q, x>> \in (Named \X Named \X Named)'
      BY <1>1, <1>6, <1>7
    <2> QED BY <1>2, <1>7, <2>1, AppendProperties
  <1> QED BY <1>5, <1>6, <1>8, <1>9

LEMMA FillPairStep ==
  ASSUME RoomInv, FillPair
  PROVE  RoomInv' /\ Step
  <1> DEFINE a == Pop(Popping)
             z == AiTaken
  <1>1. a \in Popped(Named) /\ Kept(mem, a.m) /\ Named \subseteq Players
    BY PoppingType, PopType
  <1>2. /\ pc = "two" /\ pos \in 1 .. Len(two) /\ Len(two) \in Nat
    BY ListElements DEF FillPair, RoomInv, Iterator
  <1>3. /\ one' = a.q /\ UNCHANGED <<pc, diff>>
        /\ \/ mem' = a.m /\ UNCHANGED <<map, two, three, pool>> /\ pos' \in {pos, pos + 1}
           \/ /\ a.p # Null
              /\ JoinPair(a.m, a.p) /\ map' \in MapWith(a.m.pl[a.p].id, a.p)
              /\ UNCHANGED <<pool, pos>>
           \/ /\ CanTakeAi /\ pool' = PoolLeft
              /\ \E id \in NewIds : /\ JoinPair(ConfigureAi(a.m, z, id), z)
                                    /\ map' \in MapWith(id, z)
              /\ UNCHANGED pos
    BY DEF FillPair
  <1> HIDE DEF a, z
  <1>4. Sound(a.m) /\ a.q \in Seq(Named) /\ a.p \in Named \union {Null} /\ a.m \in Memory
    BY <1>1 DEF Popped
  <1>5. ASSUME Step
        PROVE  /\ map \in Seq(Entries') /\ two \in Seq((Named \X Named)')
               /\ three \in Seq((Named \X Named \X Named)') /\ one' \in Seq(Named')
    <2>1. /\ map \in Seq(Entries') /\ two \in Seq((Named \X Named)')
          /\ three \in Seq((Named \X Named \X Named)') /\ Named \subseteq Named'
      BY <1>5, ListsKept DEF RoomInv, Step, Kept, Named
    <2> QED BY <1>3, <1>4, <2>1, SeqMonotonic
  <1>6. ASSUME mem' = a.m, UNCHANGED <<map, two, three, pool>>, pos' \in {pos, pos + 1}
        PROVE  RoomInv' /\ Step
    <2>1. Step
      BY <1>1, <1>4, <1>6 DEF Step
    <2>2. Lists'
      BY <1>5, <1>6, <2>1 DEF Lists
    <2>3. Iterator'
      BY <1>2, <1>3, <1>6 DEF Iterator
    <2> QED BY <1>3, <1>6, <2>1, <2>2, <2>3 DEF RoomInv, Step
  \* The third player is x, in the memory m, by the id the map gets.
  <1>7. ASSUME NEW m, Sound(m), Kept(mem, m), NEW x \in Players, NEW id \in Ids,
               m.pl[x].id = id, JoinPair(m, x), map' \in MapWith(id, x),
               pool' \in Seq(Ais), UNCHANGED pos
        PROVE  RoomInv' /\ Step
    <2>1. m.pl[x].id # Null
      BY <1>7, PlayerAssumption DEF Ids
    <2>2. /\ Step /\ x \in Named'
          /\ two' \in Seq((Named \X Named)') /\ Len(two') = Len(two) - 1
          /\ three' \in Seq((Named \X Named \X Named)')
      BY <1>2, <1>7, <2>1, JoinedPair
    <2>3. map' \in Seq(Entries')
      <3>1. MapWith(id, x) \subseteq Seq([id : Ids, p : Named'])
        BY <1>5, <1>7, <2>2, MapWithType DEF Entries
      <3> QED BY <1>7, <3>1 DEF Entries
    <2>4. Lists'
      BY <1>5, <2>2, <2>3 DEF Lists
    <2>5. Iterator'
      BY <1>2, <1>3, <1>7, <2>2 DEF Iterator
    <2> QED BY <1>3, <1>7, <2>2, <2>4, <2>5 DEF RoomInv, Step
  <1>8. ASSUME a.p # Null, JoinPair(a.m, a.p), map' \in MapWith(a.m.pl[a.p].id, a.p),
               UNCHANGED <<pool, pos>>
        PROVE  RoomInv' /\ Step
    <2>1. a.p \in Named /\ a.p \in Players
      BY <1>1, <1>4, <1>8
    <2>2. a.m.pl[a.p].id # Null
      BY <1>1, <2>1 DEF Named, Kept
    <2>3. a.m.pl[a.p].id \in Ids
      BY <1>4, <2>1, <2>2, MemoryTypes
    <2>4. pool' \in Seq(Ais)
      BY <1>8 DEF RoomInv
    <2> QED BY <1>1, <1>4, <1>7, <1>8, <2>1, <2>3, <2>4
  <1>9. ASSUME CanTakeAi, pool' = PoolLeft, NEW id \in NewIds,
               JoinPair(ConfigureAi(a.m, z, id), z), map' \in MapWith(id, z), UNCHANGED pos
        PROVE  RoomInv' /\ Step
    <2>1. z \in Ais /\ z \in Players /\ PoolLeft \in Seq(Ais)
      BY <1>9, AiTakenType DEF z
    <2>2. id \in Ids /\ Sound(mem)
      BY <1>9, NewIdsType DEF RoomInv
    <2> DEFINE n == ConfigureAi(a.m, z, id)
    <2>3. Sound(n) /\ Kept(mem, n) /\ n.pl[z].id = id
      BY <1>1, <1>4, <2>1, <2>2, ConfigureAiSound
    <2>4. JoinPair(n, z)
      BY <1>9
    <2> HIDE DEF n
    <2> QED BY <1>7, <1>9, <2>1, <2>2, <2>3, <2>4
  <1> QED BY <1>3, <1>6, <1>8, <1>9

------------------------------------------------------------------------------
(* UpdateThree.                                                            *)

LEMMA FreeGoneSound ==
  ASSUME NEW m \in Memory, Sound(m), Kept(mem, m),
         \A x \in Players : m.pl[x].st = mem.pl[x].st,
         NEW t, NEW i \in 1 .. 3, t[i] \in Players
  PROVE  LET n == FreeGone(m, t, i)
         IN  /\ n \in Memory /\ Sound(n) /\ Kept(mem, n)
             /\ \A x \in Players : n.pl[x].st = mem.pl[x].st
  <1>1. CASE i \in Gone(t)
    <2>1. LogOut(m, t[i]) /\ FreeGone(m, t, i) = Delete(m, t[i])
      BY <1>1 DEF Gone, LogOut, FreeGone
    <2>2. Sound(Delete(m, t[i])) /\ Kept(m, Delete(m, t[i]))
      BY <2>1, SoundDelete DEF LogOut
    <2>3. Kept(mem, Delete(m, t[i]))
      BY <2>2, KeptTrans
    <2>4. \A x \in Players : Delete(m, t[i]).pl[x].st = mem.pl[x].st
      BY DeleteKeepsStatus
    <2> QED BY <2>1, <2>2, <2>3, <2>4 DEF Sound, Backs
  <1>2. CASE i \notin Gone(t)
    BY <1>2 DEF FreeGone
  <1> QED BY <1>1, <1>2

LEMMA BreakTableStep ==
  ASSUME RoomInv, BreakTable
  PROVE  RoomInv' /\ Step
  <1> DEFINE t == three[pos]
             b1 == FreeGone(mem, t, 1)
             b2 == FreeGone(b1, t, 2)
             b3 == FreeGone(b2, t, 3)
             r1 == Release(Held, t[1])
             r2 == Release(r1, t[2])
             r3 == Release(r2, t[3])
  <1>1. /\ pc = "three" /\ pos \in 1 .. Len(three) /\ Len(three) \in Nat
        /\ t[1] \in Named /\ t[2] \in Named /\ t[3] \in Named
        /\ t[1] \in Players /\ t[2] \in Players /\ t[3] \in Players
        /\ mem \in Memory /\ Sound(mem) /\ Kept(mem, mem)
    <2>1. mem \in Memory /\ Sound(mem)
      BY DEF RoomInv, Sound, Backs
    <2> QED BY <2>1, CalmSelf, CalmKept, ListElements, NamedType
            DEF BreakTable, RoomInv, Iterator
  <1>2. /\ \/ TouchFreed(ToSet(t)) /\ UNCHANGED <<one, two, pool, three>>
           \/ /\ \/ mem' = b3 /\ pool' = pool
                 \/ Gone(t) = 1 .. 3 /\ mem' = r3.m /\ pool' = r3.pool
              /\ two' \in {Append(two, <<t[2], t[3]>>), Append(two, <<t[1], t[3]>>),
                           Append(two, <<t[1], t[2]>>), two}
              /\ one' \in {Append(one, t[1]), Append(one, t[2]), Append(one, t[3]), one}
              /\ three' = RemoveAt(three, pos)
        /\ UNCHANGED <<map, pc, pos, diff>>
    BY DEF BreakTable, LogoutThree, Held
  <1> HIDE DEF t
  <1>3. ASSUME TouchFreed(ToSet(t)), UNCHANGED <<one, two, pool, three>>
        PROVE  RoomInv' /\ Step
    <2>1. Step
      BY <1>3, TouchedFreed
    <2> QED BY <1>2, <1>3, <2>1, QuietStep DEF lists
  <1>4. Sound(b3) /\ Kept(mem, b3)
    <2>1. /\ b1 \in Memory /\ Sound(b1) /\ Kept(mem, b1)
          /\ \A x \in Players : b1.pl[x].st = mem.pl[x].st
      BY <1>1, FreeGoneSound
    <2> HIDE DEF b1
    <2>2. /\ b2 \in Memory /\ Sound(b2) /\ Kept(mem, b2)
          /\ \A x \in Players : b2.pl[x].st = mem.pl[x].st
      BY <1>1, <2>1, FreeGoneSound
    <2> HIDE DEF b2
    <2> QED BY <1>1, <2>2, FreeGoneSound
  <1>5. ASSUME Gone(t) = 1 .. 3
        PROVE  Sound(r3.m) /\ Kept(mem, r3.m) /\ r3.pool \in Seq(Ais)
    <2>1. LogOut(mem, t[1]) /\ LogOut(mem, t[2]) /\ LogOut(mem, t[3])
      BY <1>5 DEF Gone
    <2>2. Held \in Holding(Named) /\ Held.m = mem
      BY HeldType
    <2>3. /\ r1 \in Holding(Named) /\ Kept(mem, r1.m)
          /\ LogOut(r1.m, t[2]) /\ LogOut(r1.m, t[3])
      BY <1>1, <2>1, <2>2, ReleaseType DEF LogOut
    <2> HIDE DEF r1
    <2>4. r2 \in Holding(Named) /\ Kept(r1.m, r2.m) /\ LogOut(r2.m, t[3])
      BY <1>1, <2>3, ReleaseType DEF LogOut
    <2>5. Kept(mem, r2.m)
      BY <2>3, <2>4, KeptTrans
    <2> HIDE DEF r2
    <2>6. r3 \in Holding(Named) /\ Kept(r2.m, r3.m)
      BY <1>1, <2>4, ReleaseType
    <2>7. Kept(mem, r3.m)
      BY <2>5, <2>6, KeptTrans
    <2> HIDE DEF r3
    <2> QED BY <2>6, <2>7 DEF Holding
  <1> HIDE DEF b3, r3
  <1>6. ASSUME \/ mem' = b3 /\ pool' = pool
               \/ Gone(t) = 1 .. 3 /\ mem' = r3.m /\ pool' = r3.pool,
               two' \in {Append(two, <<t[2], t[3]>>), Append(two, <<t[1], t[3]>>),
                         Append(two, <<t[1], t[2]>>), two},
               one' \in {Append(one, t[1]), Append(one, t[2]), Append(one, t[3]), one},
               three' = RemoveAt(three, pos)
        PROVE  RoomInv' /\ Step
    <2>1. Step /\ pool' \in Seq(Ais)
      BY <1>4, <1>5, <1>6 DEF RoomInv, Step
    <2>2. /\ map \in Seq(Entries') /\ one \in Seq(Named') /\ two \in Seq((Named \X Named)')
          /\ three \in Seq((Named \X Named \X Named)') /\ Named \subseteq Named'
      BY <2>1, ListsKept DEF RoomInv, Step, Kept, Named
    <2>3. three' \in Seq((Named \X Named \X Named)') /\ Len(three') = Len(three) - 1
      BY <1>1, <1>6, <2>2, RemoveAtType
    <2>4. t[1] \in Named' /\ t[2] \in Named' /\ t[3] \in Named'
      BY <1>1, <2>2
    <2>5. one' \in Seq(Named')
      <3>1. \A x \in Named' : Append(one, x) \in Seq(Named')
        BY <2>2, AppendProperties
      <3> QED BY <1>6, <2>2, <2>4, <3>1
    <2>6. two' \in Seq((Named \X Named)')
      <3>1. \A x \in (Named \X Named)' : Append(two, x) \in Seq((Named \X Named)')
        BY <2>2, AppendProperties
      <3>2. /\ <<t[2], t[3]>> \in (Named \X Named)' /\ <<t[1], t[3]>> \in (Named \X Named)'
            /\ <<t[1], t[2]>> \in (Named \X Named)'
        BY <2>4
      <3>3. /\ Append(two, <<t[2], t[3]>>) \in Seq((Named \X Named)')
            /\ Append(two, <<t[1], t[3]>>) \in Seq((Named \X Named)')
            /\ Append(two, <<t[1], t[2]>>) \in Seq((Named \X Named)')
        BY <3>1, <3>2
      <3> QED BY <1>6, <2>2, <3>3
    <2>7. Lists'
      BY <1>2, <2>2, <2>3, <2>5, <2>6 DEF Lists
    <2>8. Iterator'
      BY <1>1, <1>2, <2>3 DEF Iterator
    <2> QED BY <1>2, <2>1, <2>7, <2>8 DEF RoomInv, Step
  <1> QED BY <1>2, <1>3, <1>6

LEMMA SoundDealing ==
  ASSUME NEW m, Sound(m), NEW p \in Players
  PROVE  LET n == SetStatus(m, p, DEALING)
         IN  /\ Sound(n)
             /\ \A x \in Players : /\ n.pl[x].id = m.pl[x].id
                                   /\ n.pl[x].st = IF x = p THEN DEALING ELSE m.pl[x].st
  <1> DEFINE n == SetStatus(m, p, DEALING)
  <1>1. m \in Memory
    BY DEF Sound, Backs
  <1>2. n \in Memory
    <2>1. DEALING \in Status
      BY StatusValues DEF DEALING
    <2> QED BY <1>1, <2>1 DEF SetStatus, Memory, PlayerRecord
  <1>3. /\ n.ses = m.ses
        /\ \A x \in Players : /\ n.pl[x].sess = m.pl[x].sess /\ n.pl[x].alive = m.pl[x].alive
                              /\ n.pl[x].kind = m.pl[x].kind /\ n.pl[x].id = m.pl[x].id
                              /\ n.pl[x].st = IF x = p THEN DEALING ELSE m.pl[x].st
    BY <1>1 DEF SetStatus, Memory, PlayerRecord
  <1>4. \A c \in Clients : m.ses[c] \in Players \union {Null}
    BY <1>1 DEF Memory
  <1> HIDE DEF n
  <1>5. Backs(n)
    BY <1>2, <1>3, <1>4 DEF Sound, Backs
  <1>6. \A x \in Players : Attached(n, x)
    BY <1>3 DEF Sound, Attached, DEALING, LOG_OUTED
  <1> QED BY <1>3, <1>5, <1>6 DEF Sound, n

LEMMA DealCardsSound ==
  ASSUME RoomInv, NEW t, \A i \in 1 .. 3 : t[i] \in Players
  PROVE  /\ Sound(DealCards(t))
         /\ \A x \in Players : DealCards(t).pl[x].id = mem.pl[x].id
  <1> DEFINE a == SetStatus(mem, t[1], DEALING)
             b == SetStatus(a, t[2], DEALING)
             c == SetStatus(b, t[3], DEALING)
  <1>1. Sound(mem) /\ t[1] \in Players /\ t[2] \in Players /\ t[3] \in Players
    BY DEF RoomInv
  <1>2. /\ Sound(a)
        /\ \A x \in Players : /\ a.pl[x].id = mem.pl[x].id
                              /\ a.pl[x].st = IF x = t[1] THEN DEALING ELSE mem.pl[x].st
    BY <1>1, SoundDealing
  <1> HIDE DEF a
  <1>3. /\ Sound(b)
        /\ \A x \in Players : /\ b.pl[x].id = a.pl[x].id
                              /\ b.pl[x].st = IF x = t[2] THEN DEALING ELSE a.pl[x].st
    BY <1>1, <1>2, SoundDealing
  <1> HIDE DEF b
  <1>4. /\ Sound(c)
        /\ \A x \in Players : /\ c.pl[x].id = b.pl[x].id
                              /\ c.pl[x].st = IF x = t[3] THEN DEALING ELSE b.pl[x].st
    BY <1>1, <1>3, SoundDealing
  <1>5. DealCards(t) = c
    BY DEF DealCards, a, b
  <1> HIDE DEF c
  <1> QED BY <1>2, <1>3, <1>4, <1>5

LEMMA GiveBackType ==
  ASSUME NEW N, NEW s \in Holding(N), NEW p \in Players
  PROVE  GiveBack(s, p) \in Holding(N) /\ Kept(s.m, GiveBack(s, p).m)
  <1> DEFINE k == SetStatus(s.m, p, LOG_OUTED)
             n == [s EXCEPT !.m = k]
  <1>1. s.m \in Memory /\ Sound(s.m)
    BY DEF Holding
  <1>2. CASE ~ PlaysItself(s.m, p)
    <2>1. Kept(s.m, s.m)
      BY <1>1, CalmSelf, CalmKept
    <2> QED BY <1>2, <2>1 DEF GiveBack
  <1>3. CASE PlaysItself(s.m, p)
    <2>1. Sound(k) /\ Kept(s.m, k)
      BY <1>1, <1>3, SoundReleased
    <2>2. GiveBack(s, p) = IF n.m.pl[p].kind = "ai" THEN ReleaseAi(n, p) ELSE n
      BY <1>3 DEF GiveBack
    <2> HIDE DEF k
    <2>3. n \in Holding(N) /\ n.m = k
      BY <2>1 DEF Holding, Sound, Backs
    <2> HIDE DEF n
    <2>4. n.m.pl[p].kind = "ai" => ReleaseAi(n, p) \in Holding(N) /\ ReleaseAi(n, p).m = k
      BY <2>3, ReleaseAiType
    <2> QED BY <2>1, <2>2, <2>3, <2>4
  <1> QED BY <1>2, <1>3

LEMMA ReleaseAisType ==
  ASSUME NEW N, NEW s \in Holding(N), NEW t, \A i \in 1 .. 3 : t[i] \in Players
  PROVE  ReleaseAis(s, t) \in Holding(N) /\ Kept(s.m, ReleaseAis(s, t).m)
  <1> DEFINE a == GiveBack(s, t[1])
             b == GiveBack(a, t[2])
             c == GiveBack(b, t[3])
  <1>1. t[1] \in Players /\ t[2] \in Players /\ t[3] \in Players
    OBVIOUS
  <1>2. a \in Holding(N) /\ Kept(s.m, a.m)
    BY <1>1, GiveBackType
  <1> HIDE DEF a
  <1>3. b \in Holding(N) /\ Kept(a.m, b.m)
    BY <1>1, <1>2, GiveBackType
  <1>4. Kept(s.m, b.m)
    BY <1>2, <1>3, KeptTrans
  <1> HIDE DEF b
  <1>5. c \in Holding(N) /\ Kept(b.m, c.m)
    BY <1>1, <1>3, GiveBackType
  <1>6. Kept(s.m, c.m)
    BY <1>4, <1>5, KeptTrans
  <1>7. ReleaseAis(s, t) = c
    BY DEF ReleaseAis, a, b
  <1> HIDE DEF c
  <1> QED BY <1>5, <1>6, <1>7

LEMMA ServeTableStep ==
  ASSUME RoomInv, ServeTable
  PROVE  RoomInv'
  <1> DEFINE t == three[pos]
             ready == AllStart(t) /\ AllAtThree(t) /\ AllWaitDealCards(t)
             n == IF ready THEN DealCards(t) ELSE mem
             k == [m |-> n, q |-> one, pool |-> pool]
             s == ReleaseAis(k, t)
  <1>1. /\ pc = "three" /\ pos \in 1 .. Len(three) /\ Len(three) \in Nat
        /\ \A i \in 1 .. 3 : t[i] \in Players
    <2>1. t[1] \in Players /\ t[2] \in Players /\ t[3] \in Players
      BY ListElements, NamedType DEF ServeTable, RoomInv, Iterator
    <2>2. \A i \in 1 .. 3 : i = 1 \/ i = 2 \/ i = 3
      OBVIOUS
    <2> HIDE DEF t
    <2>3. \A i \in 1 .. 3 : t[i] \in Players
      BY <2>1, <2>2
    <2> QED BY <2>3, ListElements DEF ServeTable, RoomInv, Iterator
  <1>2. /\ \/ /\ mem' = s.m /\ pool' = s.pool
              /\ three' = RemoveAt(three, pos) /\ UNCHANGED pos
           \/ mem' = n /\ pos' = pos + 1 /\ UNCHANGED <<pool, three>>
        /\ UNCHANGED <<map, one, two, pc, diff>>
    BY DEF ServeTable
  <1> HIDE DEF t
  <1>3. /\ Sound(n)
        /\ \A x \in Players : n.pl[x].id = mem.pl[x].id
    <2>1. CASE ready
      BY <1>1, <2>1, DealCardsSound
    <2>2. CASE ~ ready
      BY <2>2 DEF RoomInv
    <2> QED BY <2>1, <2>2
  <1> HIDE DEF n
  <1>4. k \in Holding(Named)
    BY <1>3 DEF RoomInv, Lists, Holding, Sound, Backs
  <1>5. s \in Holding(Named) /\ Kept(n, s.m)
    <2>1. k.m = n
      OBVIOUS
    <2> HIDE DEF k
    <2> QED BY <1>1, <1>4, <2>1, ReleaseAisType
  <1> HIDE DEF s
  <1>6. Sound(s.m) /\ s.pool \in Seq(Ais)
    BY <1>5 DEF Holding
  <1>7. Sound(mem') /\ pool' \in Seq(Ais)
    BY <1>2, <1>3, <1>6 DEF RoomInv
  <1>8. Named \subseteq Named'
    BY <1>2, <1>3, <1>5 DEF Kept, Named
  <1>9. /\ map \in Seq(Entries') /\ one \in Seq(Named') /\ two \in Seq((Named \X Named)')
         /\ three \in Seq((Named \X Named \X Named)')
    BY <1>8, ListsOfNamed DEF RoomInv
  <1>10. /\ RemoveAt(three, pos) \in Seq((Named \X Named \X Named)')
         /\ Len(RemoveAt(three, pos)) = Len(three) - 1
    BY <1>1, <1>9, RemoveAtType
  <1>11. Lists'
    BY <1>2, <1>9, <1>10 DEF Lists
  <1>12. Iterator'
    BY <1>1, <1>2, <1>10 DEF Iterator
  <1> QED BY <1>2, <1>7, <1>11, <1>12 DEF RoomInv

------------------------------------------------------------------------------
(* The invariant.                                                          *)

LEMMA FirstAisType == FirstAis \in Seq(Ais)
  <1> DEFINE S == [1 .. PoolSize -> Ais]
             T == {s \in S : IsInjective(s)}
  <1>1. FirstAis \in S
    <2>1. FirstAis = CHOOSE s \in S : IsInjective(s)
      BY DEF FirstAis
    <2>2. \E s \in S : IsInjective(s)
      BY RoomAssumption
    <2> HIDE DEF S
    <2> QED BY <2>1, <2>2
  <1>2. PoolSize \in Nat
    BY RoomAssumption
  <1> QED BY <1>1, <1>2, SeqDef

LEMMA RoomBegins ==
  ASSUME Init
  PROVE  RoomInv
  <1> DEFINE r == NewPlayer(Null)
             q(p) == [r EXCEPT !.alive = p \in ToSet(FirstAis)]
  <1>1. /\ \A p \in Players : mem.pl[p] = q(p)
        /\ \A c \in Clients : mem.ses[c] = Null
        /\ mem = [pl |-> [p \in Players |-> q(p)], ses |-> [c \in Clients |-> Null],
                  fault |-> FALSE]
    BY DEF Init
  <1>2. r \in PlayerRecord /\ r.sess = Null /\ r.kind = "user"
    <2>1. r \in PlayerRecord
      BY NewPlayerType
    <2> QED BY <2>1 DEF NewPlayer
  <1>3. \A v \in BOOLEAN : [r EXCEPT !.alive = v] \in PlayerRecord
    <2> HIDE DEF r
    <2> QED BY <1>2 DEF PlayerRecord
  <1>4. \A p \in Players : q(p) \in PlayerRecord /\ q(p).sess = Null /\ q(p).kind = "user"
    <2> TAKE p \in Players
    <2>1. (p \in ToSet(FirstAis)) \in BOOLEAN
      BY DEF ToSet
    <2>2. q(p) \in PlayerRecord
      <3> HIDE DEF r
      <3> QED BY <1>3, <2>1
    <2> HIDE DEF r
    <2> QED BY <1>2, <2>2 DEF PlayerRecord
  <1> HIDE DEF q, r
  <1>5. mem \in Memory
    BY <1>1, <1>4 DEF Memory
  <1>6. Sound(mem)
    BY <1>1, <1>4, <1>5 DEF Sound, Backs, Attached
  <1>7. Lists /\ pool \in Seq(Ais)
    BY FirstAisType DEF Init, Lists
  <1>8. Iterator /\ pc = "sessions" /\ diff = 0
    BY DEF Init, Iterator
  <1> QED BY <1>6, <1>7, <1>8 DEF RoomInv

LEMMA RoomSteps ==
  ASSUME RoomInv, [Next]_vars
  PROVE  RoomInv'
  <1>1. ASSUME NEW c \in Clients, ClientStep(c)
        PROVE  RoomInv'
    <2>1. CASE Login(c)
      BY <2>1, LoginStep
    <2>2. CASE WaitStart(c)
      BY <2>2, WaitStartStep
    <2>3. CASE PlayCards(c)
      BY <2>3, PlayCardsStep
    <2>4. CASE FinishRound(c)
      BY <2>4, FinishRoundStep
    <2>5. CASE AskToLogOut(c)
      BY <2>5, AskToLogOutStep
    <2>6. CASE Drop(c)
      BY <2>6, DropStep
    <2>7. ASSUME NEW score \in Scores, GrabLandlord(c, score)
          PROVE  RoomInv'
      BY <2>7, GrabLandlordStep
    <2> QED BY <1>1, <2>1, <2>2, <2>3, <2>4, <2>5, <2>6, <2>7 DEF ClientStep
  <1>2. ASSUME NEW d \in Diffs, StartUpdate(d)
        PROVE  RoomInv'
    BY <1>2, StartUpdateStep
  <1>3. ASSUME UpdateStep
        PROVE  RoomInv'
    <2>1. ASSUME NEW who \in 0 .. 2, NEW roll \in 0 .. 3, Visit(who, roll)
          PROVE  RoomInv'
      BY <2>1, VisitStep
    <2>2. CASE EndLoop
      BY <2>2, EndLoopStep
    <2>3. CASE MatchThree
      BY <2>3, MatchThreeStep
    <2>4. CASE MatchTwo
      BY <2>4, MatchTwoStep
    <2>5. CASE MatchOne
      BY <2>5, MatchOneStep
    <2>6. CASE BreakPair
      BY <2>6, BreakPairStep
    <2>7. CASE FillPair
      BY <2>7, FillPairStep
    <2>8. CASE BreakTable
      BY <2>8, BreakTableStep
    <2>9. CASE ServeTable
      BY <2>9, ServeTableStep
    <2>10. CASE \E who \in 0 .. 2, roll \in 0 .. 3 : Visit(who, roll)
      BY <2>1, <2>10
    <2> QED BY <1>3, <2>2, <2>3, <2>4, <2>5, <2>6, <2>7, <2>8, <2>9, <2>10 DEF UpdateStep
  <1>4. CASE UNCHANGED vars
    <2>1. Step
      BY <1>4, SameMemory DEF vars
    <2> QED BY <1>4, <2>1, QuietStep DEF vars, lists
  <1> QED BY <1>1, <1>2, <1>3, <1>4 DEF Next

\* RoomInv is inductive.
THEOREM RoomInvariant == Spec => []RoomInv
  <1>1. Init => RoomInv
    BY RoomBegins
  <1>2. RoomInv /\ [Next]_vars => RoomInv'
    BY RoomSteps
  <1> QED BY <1>1, <1>2, PTL DEF Spec

LEMMA RoomInvTypes ==
  ASSUME RoomInv
  PROVE  TypeOK
  <1>1. Named \subseteq Players
    BY NamedType
  <1>2. /\ Entries \subseteq [id : Ids, p : Players]
        /\ Named \X Named \subseteq Players \X Players
        /\ Named \X Named \X Named \subseteq Players \X Players \X Players
    <2> HIDE DEF Named
    <2> QED BY <1>1 DEF Entries
  <1>3. /\ map \in Seq([id : Ids, p : Players]) /\ one \in Seq(Players)
        /\ two \in Seq(Players \X Players) /\ three \in Seq(Players \X Players \X Players)
    BY <1>1, <1>2, SeqMonotonic DEF RoomInv, Lists
  <1> QED BY <1>3 DEF RoomInv, TypeOK, Iterator, Sound, Backs

LEMMA RoomInvLinks ==
  ASSUME RoomInv
  PROVE  SessionLink
  <1>1. ASSUME NEW c \in Clients, mem.ses[c] # Null
        PROVE  LET p == mem.pl[mem.ses[c]]
               IN  p.alive /\ p.sess = c /\ p.kind = "user" /\ p.st # LOG_OUTED
    <2>1. mem.ses[c] \in Players
      BY <1>1 DEF RoomInv, Sound, Backs, Memory
    <2>2. mem.pl[mem.ses[c]].sess = c /\ c # Null
      BY <1>1, PlayerAssumption DEF RoomInv, Sound, Backs
    <2> QED BY <2>1, <2>2 DEF RoomInv, Sound, Attached
  <1>2. \A p \in Players : mem.pl[p].sess # Null => mem.ses[mem.pl[p].sess] = p
    BY DEF RoomInv, Sound, Attached
  <1> QED BY <1>1, <1>2 DEF SessionLink

\* Whatever the clients do, and in whatever order Room::Update meets the players, the
\* room's lists hold players that have an id, the pool of AIs only AIs, and each loop of
\* Room::Update keeps its iterator within the list it goes through while it erases
\* elements of it (Room.cpp:29-58, 60-211, 364-366).
THEOREM RoomTypesCorrect == Spec => []TypeOK
  BY RoomInvariant, RoomInvTypes, PTL

\* The _player of a session and the _session of a player are never out of step: neither
\* a logout in the lobby or in a game, nor the recursion of checkOutPlayer over the
\* neighbours, nor a delete by Room::Update leaves a session with a player that is
\* freed, replaced by an AI or logged out (Player.cpp:57-132; WorldSession.cpp:54-72).
THEOREM SessionsLinked == Spec => []SessionLink
  BY RoomInvariant, RoomInvLinks, PTL
=============================================================================
