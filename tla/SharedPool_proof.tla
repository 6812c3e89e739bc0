-------------------------- MODULE SharedPool_proof --------------------------
(***************************************************************************)
(* The AIs of the pool have one place each, for any number of rooms and    *)
(* AIs, and in every order of the steps of the workers.                    *)
(***************************************************************************)
EXTENDS SharedPool, SequenceTheorems, FiniteSetTheorems, TLAPS

Places == {"visit", "lists", "back", "pop", "configure", "sit", "three", "release", "done"}

PoolTypes ==
  /\ pool \in Seq(Ais) /\ lock \in Rooms \union {None} /\ out \subseteq Ais
  /\ map \in [Rooms -> SUBSET Ais] /\ seats \in [Rooms -> SUBSET Ais]
  /\ held \in [Rooms -> Ais \union {None}] /\ pc \in [Rooms -> Places]

\* Where a worker is tells whether it has the lock, and whether it holds an AI.
Control ==
  \A r \in Rooms :
    /\ pc[r] \in {"back", "pop", "configure"} => lock = r
    /\ held[r] # None => pc[r] \in {"pop", "configure", "sit", "release"}
    /\ held[r] = None => pc[r] \notin {"pop", "configure", "sit", "release"}

\* An AI that is no longer in the pool, in the hands of the worker of r.
Has(r, a) == held[r] = a /\ pc[r] # "pop"

\* The worker that takes an AI has found it at the end of the pool.
AtTheEnd == \A r \in Rooms : pc[r] = "pop" => pool # <<>> /\ Last(pool) = held[r]

\* The pool, the tables and the workers have no AI in common.
Apart ==
  /\ IsInjective(pool)
  /\ \A r \in Rooms : \A a \in seats[r] : a \notin ToSet(pool)
  /\ \A r, s \in Rooms : \A a \in seats[r] : a \in seats[s] => r = s
  /\ \A r \in Rooms : \A a \in Ais : Has(r, a) => a \notin ToSet(pool)
  /\ \A r, s \in Rooms : \A a \in Ais : Has(r, a) => a \notin seats[s]
  /\ \A r, s \in Rooms : \A a \in Ais : Has(r, a) /\ Has(s, a) => r = s

\* What the status of an AI says: it has left when a worker gives it back, and has not when
\* one brings it to a table.
Status ==
  \A r \in Rooms : /\ pc[r] = "sit" => held[r] \notin out
                   /\ pc[r] = "release" => held[r] \in out

\* Apart from the pool, what the other rooms see.
PoolInv ==
  /\ PoolTypes /\ Control /\ AtTheEnd /\ Apart /\ Status
  /\ SeatedIsVisited /\ ForgottenUnlessTaken

-----------------------------------------------------------------------------
(* Sequences without repetition.                                           *)

LEMMA SeqFacts ==
  ASSUME NEW S, NEW q \in Seq(S)
  PROVE  /\ Len(q) \in Nat /\ DOMAIN q = 1 .. Len(q)
         /\ ToSet(q) \subseteq S
         /\ \A a : a \in ToSet(q) <=> (\E i \in 1 .. Len(q) : q[i] = a)
<1>1. Len(q) \in Nat /\ DOMAIN q = 1 .. Len(q) /\ \A i \in 1 .. Len(q) : q[i] \in S
  BY LenProperties
<1> QED  BY <1>1 DEF ToSet

LEMMA AppendOne ==
  ASSUME NEW S, NEW q \in Seq(S), NEW e \in S, IsInjective(q), e \notin ToSet(q)
  PROVE  /\ Append(q, e) \in Seq(S) /\ IsInjective(Append(q, e))
         /\ \A a : a \in ToSet(Append(q, e)) <=> (a = e \/ a \in ToSet(q))
<1> DEFINE z == Append(q, e)
           n == Len(q)
<1>1. /\ z \in Seq(S) /\ Len(z) = n + 1 /\ z[n + 1] = e
      /\ \A i \in 1 .. n : z[i] = q[i]
  BY AppendProperties
<1> HIDE DEF z
<1>2. /\ n \in Nat /\ DOMAIN q = 1 .. n /\ DOMAIN z = 1 .. n + 1
      /\ \A a : a \in ToSet(q) <=> (\E i \in 1 .. n : q[i] = a)
      /\ \A a : a \in ToSet(z) <=> (\E i \in 1 .. n + 1 : z[i] = a)
  BY <1>1, SeqFacts
<1> HIDE DEF n
<1>3. \A i \in 1 .. n + 1 : i = n + 1 \/ i \in 1 .. n
  BY <1>2
<1>4. \A i \in 1 .. n : q[i] # e /\ i \in 1 .. n + 1
  BY <1>2
<1>5. \A i, j \in 1 .. n : q[i] = q[j] => i = j
  BY <1>2 DEF IsInjective
<1>6. \A i, j \in 1 .. n + 1 : z[i] = z[j] => i = j
  BY <1>1, <1>3, <1>4, <1>5
<1>7. IsInjective(z)
  BY <1>2, <1>6 DEF IsInjective
<1>8. n + 1 \in 1 .. n + 1
  BY <1>2
<1>9. \A a : a \in ToSet(z) <=> (a = e \/ a \in ToSet(q))
  BY <1>1, <1>2, <1>3, <1>4, <1>8
<1> QED  BY <1>1, <1>7, <1>9 DEF z

LEMMA FrontOne ==
  ASSUME NEW S, NEW q \in Seq(S), q # <<>>, IsInjective(q)
  PROVE  /\ Front(q) \in Seq(S) /\ IsInjective(Front(q)) /\ Last(q) \in ToSet(q)
         /\ \A a : a \in ToSet(Front(q)) <=> (a \in ToSet(q) /\ a # Last(q))
<1> DEFINE z == Front(q)
           n == Len(q)
<1>1. /\ n \in Nat /\ DOMAIN q = 1 .. n /\ \A i \in 1 .. n : q[i] \in S
      /\ \A a : a \in ToSet(q) <=> (\E i \in 1 .. n : q[i] = a)
  BY SeqFacts, LenProperties
<1>2. n # 0
  BY EmptySeq
<1> DEFINE m == n - 1
<1>3. m \in Nat /\ n = m + 1 /\ m \in Int /\ 1 \in Int
  BY <1>1, <1>2
<1>4. z = SubSeq(q, 1, m) /\ Last(q) = q[n]
  BY DEF Front, Last
<1> HIDE DEF m, n, z
<1>5. \A i \in 1 .. m : q[i] \in S
  BY <1>1, <1>3
<1>6. /\ SubSeq(q, 1, m) \in Seq(S)
      /\ Len(SubSeq(q, 1, m)) = IF 1 <= m THEN m - 1 + 1 ELSE 0
      /\ \A i \in 1 .. m - 1 + 1 : SubSeq(q, 1, m)[i] = q[1 + i - 1]
  BY <1>3, <1>5, SubSeqProperties
<1>7. /\ z \in Seq(S) /\ Len(z) = m
      /\ \A i \in 1 .. m : z[i] = q[i]
  BY <1>3, <1>4, <1>6
<1>8. /\ DOMAIN z = 1 .. m
      /\ \A a : a \in ToSet(z) <=> (\E i \in 1 .. m : z[i] = a)
  BY <1>7, SeqFacts
<1>9. \A i, j \in 1 .. n : q[i] = q[j] => i = j
  BY <1>1 DEF IsInjective
<1>10. /\ \A i \in 1 .. m : i \in 1 .. n /\ i # n
       /\ \A i \in 1 .. n : i = n \/ i \in 1 .. m
       /\ n \in 1 .. n
  BY <1>1, <1>3
<1>11. IsInjective(z)
  BY <1>7, <1>8, <1>9, <1>10 DEF IsInjective
<1>12. \A a : a \in ToSet(z) <=> (a \in ToSet(q) /\ a # Last(q))
  BY <1>1, <1>4, <1>7, <1>8, <1>9, <1>10
<1> QED  BY <1>1, <1>4, <1>7, <1>10, <1>11, <1>12 DEF z

LEMMA EmptyOne ==
  /\ IsInjective(<<>>) /\ ToSet(<<>>) = {}
  /\ \A S : <<>> \in Seq(S)
BY EmptySeq DEF IsInjective, ToSet

-----------------------------------------------------------------------------
(* The steps.                                                              *)

\* A worker that goes from one place to another.
LEMMA GoesFacts ==
  ASSUME PoolTypes, NEW r \in Rooms, NEW from, NEW to \in Places, Goes(r, from, to)
  PROVE  /\ pc[r] = from /\ pc'[r] = to /\ pc' \in [Rooms -> Places]
         /\ \A s \in Rooms : s # r => pc'[s] = pc[s]
BY DEF PoolTypes, Goes

\* Nothing but the place of the worker changes, and it is not one where an AI is held.
LEMMA MoveStep ==
  ASSUME PoolInv, NEW r \in Rooms, UNCHANGED <<pool, out, map, seats, held>>,
         pc' \in [Rooms -> Places], \A s \in Rooms : s # r => pc'[s] = pc[s],
         held[r] = None, pc'[r] \notin {"pop", "configure", "sit", "release"},
         pc'[r] = "back" => lock' = r,
         lock' \in Rooms \union {None}, \A s \in Rooms : s # r /\ lock = s => lock' = s
  PROVE  PoolInv'
<1>0. None \notin Ais
  BY SharedPoolAssumption
<1>1. PoolTypes'
  BY DEF PoolInv, PoolTypes
<1>2. Control'
  BY DEF PoolInv, Control
<1>3. AtTheEnd'
  BY DEF PoolInv, AtTheEnd
<1>4. \A s \in Rooms : \A a \in Ais : Has(s, a)' <=> Has(s, a)
  BY <1>0 DEF Has
<1>5. Apart'
  BY <1>4 DEF PoolInv, Apart
<1>6. Status'
  BY DEF PoolInv, Status
<1>7. SeatedIsVisited' /\ ForgottenUnlessTaken'
  BY DEF PoolInv, SeatedIsVisited, ForgottenUnlessTaken
<1> QED  BY <1>1, <1>2, <1>3, <1>5, <1>6, <1>7 DEF PoolInv

LEMMA VisitStep ==
  ASSUME PoolInv, NEW r \in Rooms, Visit(r)
  PROVE  PoolInv'
<1>0. None \notin Ais
  BY SharedPoolAssumption
<1>1. UNCHANGED <<pool, lock, out, seats, held>> /\ map' = [map EXCEPT ![r] = @ \ out]
  BY DEF Visit
<1>2. /\ pc[r] = "visit" /\ pc'[r] = "lists" /\ pc' \in [Rooms -> Places]
      /\ \A s \in Rooms : s # r => pc'[s] = pc[s]
  BY GoesFacts DEF Visit, PoolInv, Places
<1>3. /\ map' \in [Rooms -> SUBSET Ais] /\ map'[r] = map[r] \ out
      /\ \A s \in Rooms : s # r => map'[s] = map[s]
  BY <1>1 DEF PoolInv, PoolTypes
<1>4. PoolTypes'
  BY <1>1, <1>2, <1>3 DEF PoolInv, PoolTypes
<1>5. Control'
  BY <1>1, <1>2 DEF PoolInv, Control
<1>6. AtTheEnd' /\ Status'
  BY <1>1, <1>2 DEF PoolInv, AtTheEnd, Status
<1>7. \A s \in Rooms : \A a \in Ais : Has(s, a)' <=> Has(s, a)
  BY <1>1, <1>2 DEF Has
<1>8. Apart'
  BY <1>1, <1>7 DEF PoolInv, Apart
<1>9. SeatedIsVisited'
  BY <1>1, <1>3 DEF PoolInv, SeatedIsVisited
<1>10. ForgottenUnlessTaken'
  BY <1>1, <1>3 DEF PoolInv, ForgottenUnlessTaken
<1> QED  BY <1>4, <1>5, <1>6, <1>8, <1>9, <1>10 DEF PoolInv

LEMMA GetStep ==
  ASSUME PoolInv, NEW r \in Rooms, GetAiPlayer(r)
  PROVE  PoolInv'
<1>1. /\ UNCHANGED <<pool, out, map, seats, held>> /\ lock = None /\ lock' = r
      /\ pc[r] = "lists" /\ pc'[r] = "back" /\ pc' \in [Rooms -> Places]
      /\ \A s \in Rooms : s # r => pc'[s] = pc[s]
  BY GoesFacts DEF GetAiPlayer, Lock, PoolInv, Places
<1>2. held[r] = None
  BY <1>1 DEF PoolInv, Control
<1>3. \A s \in Rooms : s # None
  BY SharedPoolAssumption
<1> QED  BY <1>1, <1>2, <1>3, MoveStep

\* A new AI is at no table and with no worker.
LEMMA AllocatedFacts ==
  ASSUME NEW a \in Ais \ Allocated
  PROVE  \A s \in Rooms : a \notin seats[s] /\ held[s] # a
<1>1. a \notin UNION {seats[r] : r \in Rooms} /\ a \notin {held[r] : r \in Rooms} \ {None}
  BY DEF Allocated
<1>2. a # None
  BY SharedPoolAssumption
<1> QED  BY <1>1, <1>2

\* A worker takes hold of an AI: the last of the pool, or a new one that is put there.
LEMMA BackStep ==
  ASSUME PoolInv, NEW r \in Rooms, Back(r)
  PROVE  PoolInv'
<1>0. None \notin Ais
  BY SharedPoolAssumption
<1>1. /\ UNCHANGED <<lock, out, map, seats>>
      /\ pc[r] = "back" /\ pc'[r] = "pop" /\ pc' \in [Rooms -> Places]
      /\ \A s \in Rooms : s # r => pc'[s] = pc[s]
  BY GoesFacts DEF Back, PoolInv, Places
<1>2. lock = r /\ held[r] = None /\ \A s \in Rooms : s # r => pc[s] \notin {"back", "pop", "configure"}
  BY <1>1 DEF PoolInv, Control
<1>3. PICK a \in Ais :
        /\ held' = [held EXCEPT ![r] = a] /\ pool' # <<>> /\ Last(pool') = a
        /\ pool' \in Seq(Ais) /\ IsInjective(pool')
        /\ \/ pool' = pool
           \/ ToSet(pool) = {} /\ ToSet(pool') = {a}
              /\ \A s \in Rooms : a \notin seats[s] /\ held[s] # a
  <2>1. CASE pool # <<>>
    <3>1. Last(pool) \in Ais
      BY <2>1, FrontOne, SeqFacts DEF PoolInv, PoolTypes, Apart
    <3> QED  BY <2>1, <3>1 DEF Back, PoolInv, PoolTypes, Apart
  <2>2. CASE pool = <<>>
    <3>1. PICK a \in Ais \ Allocated : held' = [held EXCEPT ![r] = a] /\ pool' = <<a>>
      BY <2>2 DEF Back
    <3>2. \A s \in Rooms : a \notin seats[s] /\ held[s] # a
      BY <3>1, AllocatedFacts
    <3>3. <<a>> = Append(<<>>, a)
      OBVIOUS
    <3>4. <<a>> \in Seq(Ais) /\ <<a>> # <<>> /\ Len(<<a>>) = 1 /\ <<a>>[1] = a
      OBVIOUS
    <3>5. IsInjective(<<a>>) /\ \A b : b \in ToSet(<<a>>) <=> b = a
      <4>1. <<>> \in Seq(Ais) /\ IsInjective(<<>>) /\ ToSet(<<>>) = {} /\ a \notin ToSet(<<>>)
        BY EmptyOne
      <4>2. /\ IsInjective(Append(<<>>, a))
            /\ \A b : b \in ToSet(Append(<<>>, a)) <=> (b = a \/ b \in ToSet(<<>>))
        BY <4>1, AppendOne
      <4> QED  BY <3>3, <4>1, <4>2
    <3>6. ToSet(<<a>>) = {a}
      BY <3>5
    <3> QED  BY <2>2, <3>1, <3>2, <3>4, <3>5, <3>6, EmptyOne DEF Last
  <2> QED  BY <2>1, <2>2
<1>4. held'[r] = a /\ \A s \in Rooms : s # r => held'[s] = held[s]
  BY <1>3 DEF PoolInv, PoolTypes
<1>5. PoolTypes'
  BY <1>1, <1>3 DEF PoolInv, PoolTypes
<1>6. Control'
  BY <1>0, <1>1, <1>2, <1>4 DEF PoolInv, Control
<1>7. AtTheEnd'
  BY <1>1, <1>2, <1>3, <1>4 DEF AtTheEnd
<1>8. \A s \in Rooms : \A b \in Ais : Has(s, b)' <=> Has(s, b)
  BY <1>0, <1>1, <1>2, <1>4 DEF Has
<1>9. Apart'
  <2>1. CASE pool' = pool
    BY <1>1, <1>8, <2>1 DEF PoolInv, Apart
  <2>2. CASE /\ ToSet(pool) = {} /\ ToSet(pool') = {a}
             /\ \A s \in Rooms : a \notin seats[s] /\ held[s] # a
    <3>1. \A s \in Rooms : ~ Has(s, a)
      BY <2>2 DEF Has
    <3>2. \A s \in Rooms : \A b \in seats[s] : b \notin ToSet(pool')
      BY <2>2
    <3>3. \A s \in Rooms : \A b \in Ais : Has(s, b) => b \notin ToSet(pool')
      BY <2>2, <3>1
    <3> QED  BY <1>1, <1>3, <1>8, <3>2, <3>3 DEF PoolInv, Apart
  <2> QED  BY <1>3, <2>1, <2>2
<1>10. Status'
  BY <1>1, <1>4 DEF PoolInv, Status
<1>11. SeatedIsVisited'
  BY <1>1 DEF PoolInv, SeatedIsVisited
<1>12. ForgottenUnlessTaken'
  <2>1. \A s \in Rooms : \A b \in map[s] : held[s] = b => held'[s] = b
    BY <1>0, <1>2, <1>4 DEF PoolInv, PoolTypes
  <2>2. \A q, s \in Rooms : \A b \in map[q] : held[s] = b => held'[s] = b
    BY <1>0, <1>2, <1>4 DEF PoolInv, PoolTypes
  <2> QED  BY <1>1, <2>2 DEF PoolInv, ForgottenUnlessTaken
<1> QED  BY <1>5, <1>6, <1>7, <1>9, <1>10, <1>11, <1>12 DEF PoolInv

\* The AI at the end of the pool is taken off it.
LEMMA PopStep ==
  ASSUME PoolInv, NEW r \in Rooms, Pop(r)
  PROVE  PoolInv'
<1>0. None \notin Ais
  BY SharedPoolAssumption
<1>1. /\ UNCHANGED <<lock, out, map, seats, held>>
      /\ pc[r] = "pop" /\ pc'[r] = "configure" /\ pc' \in [Rooms -> Places]
      /\ \A s \in Rooms : s # r => pc'[s] = pc[s]
  BY GoesFacts DEF Pop, PoolInv, Places
<1>2. /\ lock = r /\ held[r] \in Ais
      /\ \A s \in Rooms : s # r => pc[s] \notin {"back", "pop", "configure"}
  BY <1>1 DEF PoolInv, Control, PoolTypes
<1> DEFINE a == held[r]
<1>3. pool # <<>> /\ Last(pool) = a /\ pool' = Front(pool)
  BY <1>1 DEF PoolInv, AtTheEnd, Pop
<1>4. /\ pool' \in Seq(Ais) /\ IsInjective(pool') /\ a \in ToSet(pool)
      /\ \A b : b \in ToSet(pool') <=> (b \in ToSet(pool) /\ b # a)
  BY <1>3, FrontOne DEF PoolInv, PoolTypes, Apart
<1>5. PoolTypes'
  BY <1>1, <1>4 DEF PoolInv, PoolTypes
<1>6. Control'
  BY <1>1, <1>2 DEF PoolInv, Control
<1>7. AtTheEnd'
  BY <1>1, <1>2 DEF AtTheEnd
<1>8. \A s \in Rooms : \A b \in Ais : Has(s, b)' <=> (Has(s, b) \/ (s = r /\ b = a))
  BY <1>1, <1>2 DEF Has
<1>9. Apart'
  <2>1. \A s \in Rooms : a \notin seats[s] /\ ~ Has(s, a)
    BY <1>2, <1>4 DEF PoolInv, Apart
  <2>2. \A s \in Rooms : \A b \in seats[s] : b \notin ToSet(pool')
    BY <1>4 DEF PoolInv, Apart
  <2>3. \A s \in Rooms : \A b \in Ais : Has(s, b)' => b \notin ToSet(pool')
    BY <1>4, <1>8 DEF PoolInv, Apart
  <2>4. \A s, q \in Rooms : \A b \in Ais : Has(s, b)' => b \notin seats[q]
    BY <1>8, <2>1 DEF PoolInv, Apart
  <2>5. \A s, q \in Rooms : \A b \in Ais : Has(s, b)' /\ Has(q, b)' => s = q
    BY <1>8, <2>1 DEF PoolInv, Apart
  <2>6. \A s, q \in Rooms : \A b \in seats[s] : b \in seats[q] => s = q
    BY DEF PoolInv, Apart
  <2> QED  BY <1>1, <1>4, <2>2, <2>3, <2>4, <2>5, <2>6 DEF Apart
<1>10. Status'
  BY <1>1 DEF PoolInv, Status
<1>11. SeatedIsVisited' /\ ForgottenUnlessTaken'
  BY <1>1 DEF PoolInv, SeatedIsVisited, ForgottenUnlessTaken
<1> QED  BY <1>5, <1>6, <1>7, <1>9, <1>10, <1>11 DEF PoolInv

\* The AI has no longer left.
LEMMA ConfigureStep ==
  ASSUME PoolInv, NEW r \in Rooms, Configure(r)
  PROVE  PoolInv'
<1>0. None \notin Ais /\ None \notin Rooms
  BY SharedPoolAssumption
<1>1. /\ UNCHANGED <<pool, map, seats, held>> /\ out' = out \ {held[r]}
      /\ pc[r] = "configure" /\ pc'[r] = "sit" /\ pc' \in [Rooms -> Places]
      /\ \A s \in Rooms : s # r => pc'[s] = pc[s]
  BY GoesFacts DEF Configure, PoolInv, Places
<1>2. /\ lock = r /\ held[r] \in Ais
      /\ \A s \in Rooms : s # r => pc[s] \notin {"back", "pop", "configure"}
  BY <1>1 DEF PoolInv, Control, PoolTypes
<1>3. lock' = None
  BY <1>2 DEF Configure
<1>4. PoolTypes'
  BY <1>1, <1>3 DEF PoolInv, PoolTypes
<1>5. Control'
  BY <1>1, <1>2 DEF PoolInv, Control
<1>6. AtTheEnd'
  BY <1>1, <1>2 DEF AtTheEnd
<1>7. \A s \in Rooms : \A b \in Ais : Has(s, b)' <=> Has(s, b)
  BY <1>1 DEF Has
<1>8. Apart'
  BY <1>1, <1>7 DEF PoolInv, Apart
<1>9. Status'
  <2>1. \A s \in Rooms : s # r /\ pc[s] = "release" => held[s] # held[r]
    BY <1>1, <1>2 DEF PoolInv, Apart, Has
  <2> QED  BY <1>1, <2>1 DEF PoolInv, Status
<1>10. SeatedIsVisited'
  BY <1>1 DEF PoolInv, SeatedIsVisited
<1>11. ForgottenUnlessTaken'
  BY <1>1 DEF PoolInv, ForgottenUnlessTaken
<1> QED  BY <1>4, <1>5, <1>6, <1>8, <1>9, <1>10, <1>11 DEF PoolInv

\* The AI is given a seat, and the room lists it.
LEMMA SitStep ==
  ASSUME PoolInv, NEW r \in Rooms, Sit(r)
  PROVE  PoolInv'
<1>0. None \notin Ais
  BY SharedPoolAssumption
<1> DEFINE a == held[r]
<1>1. /\ UNCHANGED <<pool, lock, out>>
      /\ seats' = [seats EXCEPT ![r] = @ \union {a}] /\ map' = [map EXCEPT ![r] = @ \union {a}]
      /\ held' = [held EXCEPT ![r] = None]
      /\ pc[r] = "sit" /\ pc'[r] = "lists" /\ pc' \in [Rooms -> Places]
      /\ \A s \in Rooms : s # r => pc'[s] = pc[s]
  BY GoesFacts DEF Sit, PoolInv, Places
<1>2. a \in Ais /\ a \notin out /\ Has(r, a)
  BY <1>1 DEF PoolInv, Control, PoolTypes, Status, Has
<1>3. /\ seats' \in [Rooms -> SUBSET Ais] /\ map' \in [Rooms -> SUBSET Ais]
      /\ held' \in [Rooms -> Ais \union {None}]
      /\ seats'[r] = seats[r] \union {a} /\ map'[r] = map[r] \union {a} /\ held'[r] = None
      /\ \A s \in Rooms : s # r => seats'[s] = seats[s] /\ map'[s] = map[s] /\ held'[s] = held[s]
  BY <1>1, <1>2 DEF PoolInv, PoolTypes
<1> HIDE DEF a
<1>4. PoolTypes'
  BY <1>1, <1>3 DEF PoolInv, PoolTypes
<1>5. Control'
  BY <1>1, <1>3 DEF PoolInv, Control
<1>6. AtTheEnd' /\ Status'
  BY <1>1, <1>3 DEF PoolInv, AtTheEnd, Status
<1>7. \A s \in Rooms : \A b \in Ais : Has(s, b)' <=> (Has(s, b) /\ s # r)
  BY <1>0, <1>1, <1>3 DEF Has
<1>8. Apart'
  <2>1. /\ a \notin ToSet(pool) /\ \A s \in Rooms : a \notin seats[s]
        /\ \A s \in Rooms : s # r => ~ Has(s, a)
    BY <1>2 DEF PoolInv, Apart
  <2>2. \A s \in Rooms : \A b \in seats'[s] : b \in seats[s] \/ (s = r /\ b = a)
    BY <1>3
  <2>3. \A s \in Rooms : \A b \in seats'[s] : b \notin ToSet(pool)
    BY <2>1, <2>2 DEF PoolInv, Apart
  <2>4. \A s, q \in Rooms : \A b \in seats'[s] : b \in seats'[q] => s = q
    BY <2>1, <2>2 DEF PoolInv, Apart
  <2>5. \A s \in Rooms : \A b \in Ais : Has(s, b)' => b \notin ToSet(pool)
    BY <1>7 DEF PoolInv, Apart
  <2>6. \A s, q \in Rooms : \A b \in Ais : Has(s, b)' => b \notin seats'[q]
    BY <1>7, <2>1, <2>2 DEF PoolInv, Apart
  <2>7. \A s, q \in Rooms : \A b \in Ais : Has(s, b)' /\ Has(q, b)' => s = q
    BY <1>7 DEF PoolInv, Apart
  <2>8. IsInjective(pool)
    BY DEF PoolInv, Apart
  <2> QED  BY <1>1, <2>3, <2>4, <2>5, <2>6, <2>7, <2>8 DEF Apart
<1>9. SeatedIsVisited'
  BY <1>1, <1>2, <1>3 DEF PoolInv, SeatedIsVisited
<1>10. ForgottenUnlessTaken'
  <2> SUFFICES ASSUME NEW q \in Rooms, NEW b \in map'[q] \ seats'[q], b \notin out
               PROVE  \E s \in Rooms : b \in seats'[s] \/ held'[s] = b
    BY <1>1 DEF ForgottenUnlessTaken
  <2>1. b \in map[q] \ seats[q]
    BY <1>3
  <2>2. PICK s \in Rooms : b \in seats[s] \/ held[s] = b
    BY <2>1 DEF PoolInv, ForgottenUnlessTaken
  <2>3. b \in seats[s] => b \in seats'[s]
    BY <1>3
  <2>4. held[s] = b => (IF s = r THEN b \in seats'[r] ELSE held'[s] = b)
    BY <1>3 DEF a
  <2> QED  BY <2>2, <2>3, <2>4
<1> QED  BY <1>4, <1>5, <1>6, <1>8, <1>9, <1>10 DEF PoolInv

\* An AI leaves its table, and is in the hands of the worker.
LEMMA ReleaseStep ==
  ASSUME PoolInv, NEW r \in Rooms, Release(r)
  PROVE  PoolInv'
<1>0. None \notin Ais
  BY SharedPoolAssumption
<1>1. /\ UNCHANGED <<pool, lock, map>>
      /\ pc[r] = "three" /\ pc'[r] = "release" /\ pc' \in [Rooms -> Places]
      /\ \A s \in Rooms : s # r => pc'[s] = pc[s]
  BY GoesFacts DEF Release, PoolInv, Places
<1>2. PICK a \in seats[r] : /\ out' = out \union {a}
                            /\ seats' = [seats EXCEPT ![r] = @ \ {a}]
                            /\ held' = [held EXCEPT ![r] = a]
  BY DEF Release, LeaveTable
<1>3. a \in Ais /\ held[r] = None
  BY <1>1 DEF PoolInv, PoolTypes, Control
<1>4. /\ seats' \in [Rooms -> SUBSET Ais] /\ held' \in [Rooms -> Ais \union {None}]
      /\ seats'[r] = seats[r] \ {a} /\ held'[r] = a
      /\ \A s \in Rooms : s # r => seats'[s] = seats[s] /\ held'[s] = held[s]
  BY <1>2, <1>3 DEF PoolInv, PoolTypes
<1>5. PoolTypes'
  BY <1>1, <1>2, <1>3, <1>4 DEF PoolInv, PoolTypes
<1>6. Control'
  BY <1>0, <1>1, <1>3, <1>4 DEF PoolInv, Control
<1>7. AtTheEnd'
  BY <1>1, <1>4 DEF PoolInv, AtTheEnd
<1>8. \A s \in Rooms : \A b \in Ais : Has(s, b)' <=> (Has(s, b) \/ (s = r /\ b = a))
  BY <1>0, <1>1, <1>3, <1>4 DEF Has
<1>9. /\ a \notin ToSet(pool)
      /\ \A s \in Rooms : a \in seats[s] => s = r
      /\ \A s \in Rooms : ~ Has(s, a)
  BY <1>3 DEF PoolInv, Apart
<1>10. Apart'
  <2>1. \A s \in Rooms : seats'[s] \subseteq seats[s] /\ a \notin seats'[s]
    BY <1>4, <1>9
  <2>2. \A s \in Rooms : \A b \in Ais : Has(s, b)' => b \notin ToSet(pool)
    BY <1>8, <1>9 DEF PoolInv, Apart
  <2>3. \A s, q \in Rooms : \A b \in Ais : Has(s, b)' => b \notin seats'[q]
    BY <1>8, <2>1 DEF PoolInv, Apart
  <2>4. \A s, q \in Rooms : \A b \in Ais : Has(s, b)' /\ Has(q, b)' => s = q
    BY <1>8, <1>9 DEF PoolInv, Apart
  <2>5. /\ IsInjective(pool)
        /\ \A s \in Rooms : \A b \in seats'[s] : b \notin ToSet(pool)
        /\ \A s, q \in Rooms : \A b \in seats'[s] : b \in seats'[q] => s = q
    BY <2>1 DEF PoolInv, Apart
  <2> QED  BY <1>1, <2>2, <2>3, <2>4, <2>5 DEF Apart
<1>11. Status'
  <2>1. \A s \in Rooms : pc[s] = "sit" => held[s] # a
    BY <1>9 DEF Has
  <2> QED  BY <1>1, <1>2, <1>4, <2>1 DEF PoolInv, Status
<1>12. SeatedIsVisited'
  BY <1>1, <1>2, <1>4, <1>9 DEF PoolInv, SeatedIsVisited
<1>13. ForgottenUnlessTaken'
  <2> SUFFICES ASSUME NEW q \in Rooms, NEW b \in map[q] \ seats'[q], b \notin out'
               PROVE  \E s \in Rooms : b \in seats'[s] \/ held'[s] = b
    BY <1>1 DEF ForgottenUnlessTaken
  <2>1. b # a /\ b \in Ais /\ b # None /\ b \notin out
    BY <1>0, <1>2 DEF PoolInv, PoolTypes
  <2>2. b \in map[q] \ seats[q]
    BY <1>4, <2>1
  <2>3. PICK s \in Rooms : b \in seats[s] \/ held[s] = b
    BY <2>1, <2>2 DEF PoolInv, ForgottenUnlessTaken
  <2>4. b \in seats'[s] \/ held'[s] = b
    BY <1>3, <1>4, <2>1, <2>3
  <2> QED  BY <2>4
<1> QED  BY <1>5, <1>6, <1>7, <1>10, <1>11, <1>12, <1>13 DEF PoolInv

\* The AI, which has left, is at the end of the pool.
LEMMA ReleasePlayerStep ==
  ASSUME PoolInv, NEW r \in Rooms, ReleasePlayer(r)
  PROVE  PoolInv'
<1>0. None \notin Ais
  BY SharedPoolAssumption
<1> DEFINE a == held[r]
<1>1. /\ UNCHANGED <<lock, out, map, seats>> /\ lock = None
      /\ pool' = Append(pool, a) /\ held' = [held EXCEPT ![r] = None]
      /\ pc[r] = "release" /\ pc'[r] = "three" /\ pc' \in [Rooms -> Places]
      /\ \A s \in Rooms : s # r => pc'[s] = pc[s]
  BY GoesFacts DEF ReleasePlayer, PoolInv, Places
<1>2. /\ a \in Ais /\ a \in out /\ Has(r, a)
      /\ \A s \in Rooms : pc[s] \notin {"back", "pop", "configure"}
  BY <1>1, SharedPoolAssumption DEF PoolInv, Control, PoolTypes, Status, Has
<1>3. /\ held' \in [Rooms -> Ais \union {None}] /\ held'[r] = None
      /\ \A s \in Rooms : s # r => held'[s] = held[s]
  BY <1>1 DEF PoolInv, PoolTypes
<1>4. /\ a \notin ToSet(pool) /\ \A s \in Rooms : a \notin seats[s]
      /\ \A s \in Rooms : s # r => ~ Has(s, a)
  BY <1>2 DEF PoolInv, Apart
<1>5. /\ pool' \in Seq(Ais) /\ IsInjective(pool')
      /\ \A b : b \in ToSet(pool') <=> (b = a \/ b \in ToSet(pool))
  BY <1>1, <1>2, <1>4, AppendOne DEF PoolInv, PoolTypes, Apart
<1>6. PoolTypes'
  BY <1>1, <1>3, <1>5 DEF PoolInv, PoolTypes
<1>7. Control'
  BY <1>1, <1>3 DEF PoolInv, Control
<1>8. AtTheEnd'
  BY <1>1, <1>2 DEF AtTheEnd
<1>9. \A s \in Rooms : \A b \in Ais : Has(s, b)' <=> (Has(s, b) /\ s # r)
  BY <1>0, <1>1, <1>3 DEF Has
<1>10. Apart'
  <2>1. \A s \in Rooms : \A b \in seats[s] : b \notin ToSet(pool')
    BY <1>4, <1>5 DEF PoolInv, Apart
  <2>2. \A s \in Rooms : \A b \in Ais : Has(s, b)' => b \notin ToSet(pool')
    BY <1>4, <1>5, <1>9 DEF PoolInv, Apart
  <2>3. /\ \A s, q \in Rooms : \A b \in Ais : Has(s, b)' => b \notin seats[q]
        /\ \A s, q \in Rooms : \A b \in Ais : Has(s, b)' /\ Has(q, b)' => s = q
        /\ \A s, q \in Rooms : \A b \in seats[s] : b \in seats[q] => s = q
    BY <1>9 DEF PoolInv, Apart
  <2> QED  BY <1>1, <1>5, <2>1, <2>2, <2>3 DEF Apart
<1>11. Status'
  BY <1>1, <1>3 DEF PoolInv, Status
<1>12. SeatedIsVisited'
  BY <1>1 DEF PoolInv, SeatedIsVisited
<1>13. ForgottenUnlessTaken'
  <2> SUFFICES ASSUME NEW q \in Rooms, NEW b \in map[q] \ seats[q], b \notin out
               PROVE  \E s \in Rooms : b \in seats[s] \/ held'[s] = b
    BY <1>1 DEF ForgottenUnlessTaken
  <2>1. PICK s \in Rooms : b \in seats[s] \/ held[s] = b
    BY DEF PoolInv, ForgottenUnlessTaken
  <2>2. b # a
    BY <1>2
  <2> QED  BY <1>3, <2>1, <2>2
<1> QED  BY <1>6, <1>7, <1>8, <1>10, <1>11, <1>12, <1>13 DEF PoolInv

\* The next tick: no worker holds an AI.
LEMMA TickStep ==
  ASSUME PoolInv, Tick
  PROVE  PoolInv'
<1>1. /\ UNCHANGED <<pool, lock, out, map, seats, held>> /\ pc' \in [Rooms -> Places]
      /\ \A s \in Rooms : pc[s] = "done" /\ pc'[s] = "visit"
  BY DEF Tick, Places
<1>2. PoolTypes'
  BY <1>1 DEF PoolInv, PoolTypes
<1>3. Control' /\ AtTheEnd' /\ Status'
  BY <1>1 DEF PoolInv, Control, AtTheEnd, Status
<1>4. \A s \in Rooms : \A b \in Ais : Has(s, b)' <=> Has(s, b)
  BY <1>1 DEF Has
<1>5. Apart'
  BY <1>1, <1>4 DEF PoolInv, Apart
<1>6. SeatedIsVisited' /\ ForgottenUnlessTaken'
  BY <1>1 DEF PoolInv, SeatedIsVisited, ForgottenUnlessTaken
<1> QED  BY <1>2, <1>3, <1>5, <1>6 DEF PoolInv

LEMMA StepKeeps ==
  ASSUME PoolInv, [Next]_vars
  PROVE  PoolInv'
<1>1. CASE UNCHANGED vars
  <2>1. UNCHANGED <<pool, lock, out, map, seats, held, pc>>
    BY <1>1 DEF vars
  <2>2. PoolTypes' /\ Control' /\ AtTheEnd' /\ Status'
    BY <2>1 DEF PoolInv, PoolTypes, Control, AtTheEnd, Status
  <2>3. Apart'
    BY <2>1 DEF PoolInv, Apart, Has
  <2>4. SeatedIsVisited' /\ ForgottenUnlessTaken'
    BY <2>1 DEF PoolInv, SeatedIsVisited, ForgottenUnlessTaken
  <2> QED  BY <2>2, <2>3, <2>4 DEF PoolInv
<1>2. ASSUME NEW r \in Rooms, UpdateThree(r) \/ Finish(r)
      PROVE  PoolInv'
  <2>1. UNCHANGED <<pool, lock, out, map, seats, held>>
    BY <1>2 DEF UpdateThree, Finish
  <2>2. /\ pc[r] \in {"lists", "three"} /\ pc'[r] \in {"three", "done"} /\ pc' \in [Rooms -> Places]
        /\ \A s \in Rooms : s # r => pc'[s] = pc[s]
    BY <1>2, GoesFacts DEF UpdateThree, Finish, PoolInv, Places
  <2>3. held[r] = None /\ lock' \in Rooms \union {None}
    BY <2>1, <2>2 DEF PoolInv, Control, PoolTypes
  <2> QED  BY <2>1, <2>2, <2>3, MoveStep
<1> QED  BY <1>1, <1>2, VisitStep, GetStep, BackStep, PopStep, ConfigureStep, SitStep, ReleaseStep,
            ReleasePlayerStep, TickStep DEF Next, Update

LEMMA InitialInv ==
  ASSUME Init
  PROVE  PoolInv
<1>0. None \notin Ais /\ PoolSize \in Nat
  BY SharedPoolAssumption
<1>1. pool \in [1 .. PoolSize -> Ais] /\ IsInjective(pool)
  BY SharedPoolAssumption DEF Init
<1>2. pool \in Seq(Ais)
  BY <1>0, <1>1, SeqDef
<1>3. /\ lock = None /\ out = {} /\ map = [r \in Rooms |-> {}] /\ seats = [r \in Rooms |-> {}]
      /\ held = [r \in Rooms |-> None] /\ pc = [r \in Rooms |-> "visit"]
  BY DEF Init
<1>4. PoolTypes
  BY <1>2, <1>3 DEF PoolTypes, Places
<1>5. Control /\ AtTheEnd /\ Status
  BY <1>3 DEF Control, AtTheEnd, Status
<1>6. Apart
  BY <1>0, <1>1, <1>3 DEF Apart, Has
<1>7. SeatedIsVisited /\ ForgottenUnlessTaken
  BY <1>3 DEF SeatedIsVisited, ForgottenUnlessTaken
<1> QED  BY <1>4, <1>5, <1>6, <1>7 DEF PoolInv

\* The inductive invariant that the theorem follows from.
LEMMA PoolInvariant == Spec => []PoolInv
BY InitialInv, StepKeeps, PTL DEF Spec

-----------------------------------------------------------------------------
\* A set in which all are equal has one element at most.
LEMMA AtMostOne ==
  ASSUME NEW S, \A x, y \in S : x = y
  PROVE  Cardinality(S) \in Nat /\ Cardinality(S) <= 1
<1>1. CASE S = {}
  BY <1>1, FS_EmptySet
<1>2. CASE S # {}
  <2>1. PICK x \in S : TRUE
    BY <1>2
  <2>2. S = {x}
    BY <2>1
  <2> QED  BY <2>2, FS_Singleton
<1> QED  BY <1>1, <1>2

(* An AI of the pool is in one place at a time: in the pool once, at the tables of one
   room, or in the hands of one worker (AiPlayerPool.cpp:26-72); the rooms visit the AIs
   at their tables, none of which has left, and forget those that have (Room.cpp:28-54).
   This holds for any number of rooms and AIs.                                  *)
THEOREM AisAreOwned == Spec => []AisHaveOnePlace
<1>1. PoolInv => AisHaveOnePlace
  <2> SUFFICES ASSUME PoolInv
               PROVE  OwnedOnce
    BY DEF PoolInv, AisHaveOnePlace
  <2> DEFINE At(a) == {r \in Rooms : a \in seats[r]} \union {r \in Rooms : held[r] = a /\ pc[r] # "pop"}
  <2>1. ASSUME NEW a \in Ais
        PROVE  Cardinality(At(a)) <= (IF a \in ToSet(pool) THEN 0 ELSE 1)
    <3>1. \A r \in At(a) : r \in Rooms /\ (a \in seats[r] \/ Has(r, a))
      BY DEF Has
    <3> HIDE DEF At
    <3>2. \A r, s \in At(a) : r = s
      BY <3>1 DEF PoolInv, Apart
    <3>3. a \in ToSet(pool) => At(a) = {}
      BY <3>1 DEF PoolInv, Apart
    <3> QED  BY <3>2, <3>3, AtMostOne, FS_EmptySet
  <2>2. IsInjective(pool) /\ \A r \in Rooms : pc[r] = "pop" => pool # <<>> /\ Last(pool) = held[r]
    BY DEF PoolInv, Apart, AtTheEnd
  <2> QED  BY <2>1, <2>2 DEF OwnedOnce
<1> QED  BY <1>1, PoolInvariant, PTL

=============================================================================
