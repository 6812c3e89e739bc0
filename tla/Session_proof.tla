--------------------------- MODULE Session_proof ---------------------------
(***************************************************************************)
(* Sessions have one owner, an account moves one player, packets are       *)
(* handled in order, and the unguarded pointers of the two threads are     *)
(* only followed to nothing for a client that broke the order of the game  *)
(* or whose socket was closed: for any number of connections and accounts, *)
(* any time-out and clients that send anything.                            *)
(*                                                                         *)
(* What concerns one connection alone is stated of its socket k and its    *)
(* session t, so that a step has to be followed for one connection only.   *)
(***************************************************************************)
EXTENDS Session, FiniteSetTheorems, SequenceTheorems, TLAPS

Live(t) == t.st \in {"queued", "active"}

\* A session is created once, and keeps its socket as long as it lives.
Linked(k, t) ==
  /\ (k.session) <=> (t.st # "none")
  /\ Live(t) => t.sock

\* What a connection has queued and not handled is in the queue, in order; the first
\* packet is its login, and no other one is.  Only a session that the world has taken
\* over has a player.
Ordered(t) ==
  /\ t.st = "none" => t.q = <<>> /\ t.got = 0 /\ t.done = 0
  /\ t.st # "active" => t.player = "none"
  /\ Live(t) => /\ t.got > 0
                /\ Len(t.q) = t.got - t.done
                /\ \A i \in DOMAIN t.q : t.q[i].id = t.done + i
  /\ \A i \in DOMAIN t.q : (t.q[i].op = "login") <=> (t.q[i].id = 1)

\* What a client has sent, as its socket knows it: a login that was sent has made a
\* session or is being read, or nothing is; a client that keeps to the game pings when it
\* has logged in, and its logout is its last packet.
Sent(k, t) ==
  /\ k.logins > 0 => k.session \/ k.read \in {"login", "nothing"}
  /\ k.half => k.session /\ k.read \in {"game", "logout"}
  /\ k.read = "logout" => k.left
  /\ k.kept => /\ k.read = "ping" => k.session
               /\ k.left => k.read \notin {"login", "ping", "game"}
               /\ \A i \in DOMAIN t.q : t.q[i].op = "logout" =>
                    i = Len(t.q) /\ k.left /\ k.read \notin Ops

\* A session that has handled its login has a player, until its client has logged out
\* and everything it sent has been handled.
LoggedOut(k, t) == k.left /\ t.q = <<>> /\ k.read \notin Ops
HasPlayer(k, t) == Live(t) /\ k.kept /\ t.done > 0 /\ t.player # "in" => LoggedOut(k, t)

\* The connection of a deleted session is closed, or its client has logged out.
Gone(k, t) == t.st = "deleted" /\ k.open /\ k.kept => k.left /\ k.read \notin Ops

\* The invariant of one connection.
Sound(k, t) ==
  /\ k \in SocketType /\ t \in SessionType
  /\ Linked(k, t) /\ Ordered(t) /\ Sent(k, t) /\ HasPlayer(k, t) /\ Gone(k, t)

SoundConns == \A c \in Conns : Sound(sock[c], ses[c])

\* A queued session is in addSessQueue once, an active one is the session of its account.
Queued(c) == \E i \in DOMAIN addq : addq[i] = c
Owners ==
  /\ \A c \in Conns : /\ (ses[c].st = "queued") <=> Queued(c)
                      /\ (ses[c].st = "active") <=> (sessions[account[c]] = c)
  /\ \A i, j \in DOMAIN addq : addq[i] = addq[j] => i = j
  /\ \A a \in Accounts : sessions[a] # None => account[sessions[a]] = a

\* The loop of UpdateSessions holds a session of m_sessions, and has others before it.
\* Every Update handles a packet, if there is one.
Cursor ==
  /\ cur # None => pc = "sessions" /\ ses[cur].st = "active" /\ account[cur] \notin todo
  /\ \A a \in todo : pc = "sessions" /\ sessions[a] # None
  /\ cur # None /\ n > 0 => ses[cur].done > 0

\* A session whose time has passed is the one in Update, and its socket is closed.
Timed == \A c \in Conns : Live(ses[c]) /\ ses[c].timer = 0 => cur = c /\ ~ sock[c].open

\* The inductive invariant.
SessionInv ==
  /\ SessionTypeOK /\ SoundConns
  /\ Owners /\ Cursor /\ Timed
  /\ NoNullPlayer /\ NoStaleUse

-----------------------------------------------------------------------------
(* Sockets and sessions as values.                                         *)

\* The fields of a socket and of a session.
LEMMA SocketFields ==
  ASSUME NEW k \in SocketType
  PROVE  /\ k.open \in BOOLEAN /\ k.session \in BOOLEAN /\ k.half \in BOOLEAN
         /\ k.told \in BOOLEAN /\ k.left \in BOOLEAN /\ k.kept \in BOOLEAN
         /\ k.gone \in BOOLEAN
         /\ k.read \in Ops \union {"header", "nothing"}
         /\ k.logins \in Nat /\ k.logins <= Logins /\ k.games \in Nat /\ k.games <= MaxGame
<1>1. Logins \in Nat /\ MaxGame \in Nat
  BY SessionAssumption
<1> QED  BY <1>1 DEF SocketType

LEMMA SessionFields ==
  ASSUME NEW t \in SessionType
  PROVE  /\ t.st \in {"none", "queued", "active", "deleted"} /\ t.sock \in BOOLEAN
         /\ t.timer \in 0 .. TimeOut /\ t.q \in Seq(PacketType)
         /\ t.got \in Nat /\ t.done \in Nat
         /\ t.player \in {"none", "in", "leaving"}
         /\ Len(t.q) \in Nat /\ DOMAIN t.q = 1 .. Len(t.q)
         /\ \A i \in DOMAIN t.q : t.q[i] \in PacketType
BY DEF SessionType

LEMMA PacketFields ==
  ASSUME NEW p \in PacketType
  PROVE  p.op \in Ops /\ p.op # "ping" /\ p.id \in Nat
BY DEF PacketType

\* A field may become any value of its type.
LEMMA SocketExcept ==
  ASSUME NEW k \in SocketType
  PROVE  /\ \A x \in BOOLEAN : /\ [k EXCEPT !.open = x] \in SocketType
                               /\ [k EXCEPT !.session = x] \in SocketType
                               /\ [k EXCEPT !.half = x] \in SocketType
                               /\ [k EXCEPT !.left = x] \in SocketType
                               /\ [k EXCEPT !.kept = x] \in SocketType
                               /\ [k EXCEPT !.told = x] \in SocketType
                               /\ [k EXCEPT !.gone = x] \in SocketType
         /\ \A x \in Ops \union {"header", "nothing"} : [k EXCEPT !.read = x] \in SocketType
         /\ \A x \in 0 .. Logins : [k EXCEPT !.logins = x] \in SocketType
         /\ \A x \in 0 .. MaxGame : [k EXCEPT !.games = x] \in SocketType
BY DEF SocketType

LEMMA SessionExcept ==
  ASSUME NEW t \in SessionType
  PROVE  /\ \A x \in {"none", "queued", "active", "deleted"} : [t EXCEPT !.st = x] \in SessionType
         /\ \A x \in BOOLEAN : [t EXCEPT !.sock = x] \in SessionType
         /\ \A x \in 0 .. TimeOut : [t EXCEPT !.timer = x] \in SessionType
         /\ \A x \in Seq(PacketType) : [t EXCEPT !.q = x] \in SessionType
         /\ \A x \in Nat : [t EXCEPT !.got = x] \in SessionType
         /\ \A x \in Nat : [t EXCEPT !.done = x] \in SessionType
         /\ \A x \in {"none", "in", "leaving"} : [t EXCEPT !.player = x] \in SessionType
BY DEF SessionType

\* What the client has sent and done on a socket has not changed.
Alike(m, k) == /\ m.session = k.session /\ m.logins = k.logins
               /\ m.left = k.left /\ m.kept = k.kept

\* What ReadNext leaves of a socket.
LEMMA ReadNextFields ==
  ASSUME NEW k \in SocketType, NEW what \in Ops \union {"header"}
  PROVE  LET m == ReadNext(k, what)
         IN  /\ m \in SocketType /\ Alike(m, k)
             /\ m.open = k.open /\ m.half = k.half
             /\ m.read \in {what, "nothing"}
             /\ ~ k.open => m.read = "nothing"
<1>1. (IF k.open THEN what ELSE "nothing") \in Ops \union {"header", "nothing"}
  OBVIOUS
<1>2. ReadNext(k, what) \in SocketType
  BY <1>1, SocketExcept DEF ReadNext
<1> QED  BY <1>2 DEF ReadNext, SocketType, Alike

\* The socket when its header or its second half has been read.
LEMMA HalfFields ==
  ASSUME NEW k \in SocketType, NEW x \in BOOLEAN
  PROVE  LET m == [k EXCEPT !.half = x]
         IN  /\ m \in SocketType /\ Alike(m, k)
             /\ m.open = k.open /\ m.half = x /\ m.read = k.read
<1>1. [k EXCEPT !.half = x] \in SocketType
  BY SocketExcept
<1> QED  BY <1>1 DEF SocketType, Alike

\* What the client's next packet changes of a socket.
LEMMA SendingFields ==
  ASSUME NEW k \in SocketType, NEW op \in Ops,
         op = "login" => k.logins < Logins, op = "game" => k.games < MaxGame
  PROVE  LET m == Sending(k, op)
         IN  /\ m \in SocketType
             /\ m.session = k.session /\ m.open = k.open /\ m.half = k.half
             /\ (m.left) <=> (k.left \/ op = "logout")
             /\ m.kept => k.kept /\ ~ k.left /\ (op = "ping" => k.logins > 0)
             /\ m.logins > 0 => k.logins > 0 \/ op = "login"
<1> DEFINE logins == IF op = "login" THEN k.logins + 1 ELSE k.logins
           games == IF op = "game" THEN k.games + 1 ELSE k.games
           left == k.left \/ op = "logout"
           kept == k.kept /\ ~ k.left /\ (op = "ping" => k.logins > 0)
           a == [k EXCEPT !.logins = logins]
           b == [a EXCEPT !.games = games]
           c == [b EXCEPT !.left = left]
           m == [c EXCEPT !.kept = kept]
<1>1. /\ k.logins \in Nat /\ k.games \in Nat /\ Logins \in Nat /\ MaxGame \in Nat
      /\ k.left \in BOOLEAN /\ k.kept \in BOOLEAN
      /\ k.logins <= Logins /\ k.games <= MaxGame
  BY SessionAssumption, SocketFields
<1>2. logins \in 0 .. Logins /\ (logins > 0 => k.logins > 0 \/ op = "login")
  BY <1>1
<1>3. games \in 0 .. MaxGame
  BY <1>1
<1>4. left \in BOOLEAN /\ kept \in BOOLEAN
  BY <1>1
<1>5. kept => k.kept /\ ~ k.left /\ (op = "ping" => k.logins > 0)
  OBVIOUS
<1>6. Sending(k, op) = m
  BY DEF Sending, SocketType
<1>7. (left) <=> (k.left \/ op = "logout")
  OBVIOUS
<1> HIDE DEF logins, games, left, kept
<1>8. a \in SocketType /\ a.session = k.session /\ a.open = k.open /\ a.half = k.half
      /\ a.logins = logins
  <2>1. a \in SocketType
    BY <1>2, SocketExcept
  <2> QED  BY <2>1 DEF SocketType
<1> HIDE DEF a
<1>9. b \in SocketType /\ b.session = k.session /\ b.open = k.open /\ b.half = k.half
      /\ b.logins = logins
  <2>1. b \in SocketType
    BY <1>3, <1>8, SocketExcept
  <2> QED  BY <1>8, <2>1 DEF SocketType
<1> HIDE DEF b
<1>10. c \in SocketType /\ c.session = k.session /\ c.open = k.open /\ c.half = k.half
       /\ c.logins = logins /\ c.left = left
  <2>1. c \in SocketType
    BY <1>4, <1>9, SocketExcept
  <2> QED  BY <1>9, <2>1 DEF SocketType
<1> HIDE DEF c
<1>11. m \in SocketType /\ m.session = k.session /\ m.open = k.open /\ m.half = k.half
       /\ m.logins = logins /\ m.left = left /\ m.kept = kept
  <2>1. m \in SocketType
    BY <1>4, <1>10, SocketExcept
  <2> QED  BY <1>10, <2>1 DEF SocketType
<1> HIDE DEF m
<1> QED  BY <1>2, <1>5, <1>6, <1>7, <1>11

\* A packet at the end of a queue.
LEMMA QueuePacketFields ==
  ASSUME NEW t \in SessionType, NEW op \in Ops \ {"ping"}
  PROVE  LET u == QueuePacket(t, op)
         IN  /\ u \in SessionType
             /\ u.st = t.st /\ u.timer = t.timer /\ u.done = t.done /\ u.sock = t.sock
             /\ u.player = t.player /\ u.got = t.got + 1
             /\ Len(u.q) = Len(t.q) + 1 /\ DOMAIN u.q = 1 .. Len(t.q) + 1
             /\ \A i \in 1 .. Len(t.q) : u.q[i] = t.q[i]
             /\ u.q[Len(t.q) + 1].op = op /\ u.q[Len(t.q) + 1].id = t.got + 1
<1> DEFINE u == QueuePacket(t, op)
           p == [op |-> op, id |-> t.got + 1]
<1>1. p \in PacketType /\ t.q \in Seq(PacketType) /\ t.got \in Nat /\ t.done \in Nat
  BY DEF PacketType, SessionType
<1>2. u = [t EXCEPT !.q = Append(t.q, p), !.got = t.got + 1]
  BY DEF QueuePacket
<1>3. p.op = op /\ p.id = t.got + 1
  OBVIOUS
<1> HIDE DEF p
<1>4. Append(t.q, p) \in Seq(PacketType)
  BY <1>1
<1>5. u \in SessionType
  <2>1. [t EXCEPT !.q = Append(t.q, p)] \in SessionType
    BY <1>4, SessionExcept
  <2>2. t.got + 1 \in Nat
    BY <1>1
  <2> QED  BY <1>2, <2>1, <2>2, SessionExcept
<1>6. /\ u.q = Append(t.q, p) /\ u.got = t.got + 1
      /\ u.st = t.st /\ u.timer = t.timer /\ u.done = t.done /\ u.sock = t.sock
      /\ u.player = t.player
  BY <1>2 DEF SessionType
<1> HIDE DEF u
<1>7. /\ Len(u.q) = Len(t.q) + 1 /\ DOMAIN u.q = 1 .. Len(t.q) + 1
      /\ \A i \in 1 .. Len(t.q) : u.q[i] = t.q[i]
      /\ u.q[Len(t.q) + 1] = p
  BY <1>1, <1>6
<1> QED  BY <1>3, <1>5, <1>6, <1>7 DEF u

\* The packet at the front is taken out.
TakePacket(t) == [t EXCEPT !.q = Tail(@), !.done = @ + 1]

LEMMA TakePacketFields ==
  ASSUME NEW t \in SessionType, t.q # <<>>
  PROVE  LET u == TakePacket(t)
         IN  /\ u \in SessionType
             /\ u.st = t.st /\ u.timer = t.timer /\ u.got = t.got /\ u.sock = t.sock
             /\ u.player = t.player /\ u.done = t.done + 1
             /\ u.q = Tail(t.q)
             /\ Len(u.q) = Len(t.q) - 1 /\ DOMAIN u.q = 1 .. Len(t.q) - 1
             /\ \A i \in 1 .. Len(t.q) - 1 : u.q[i] = t.q[i + 1]
<1> DEFINE u == TakePacket(t)
<1>1. t.q \in Seq(PacketType) /\ t.done \in Nat
  BY DEF SessionType
<1>2. u = [t EXCEPT !.q = Tail(t.q), !.done = t.done + 1]
  BY DEF TakePacket
<1>3. /\ Tail(t.q) \in Seq(PacketType) /\ Len(Tail(t.q)) = Len(t.q) - 1
      /\ \A i \in 1 .. Len(Tail(t.q)) : Tail(t.q)[i] = t.q[i + 1]
  BY <1>1, HeadTailProperties
<1>4. u \in SessionType
  <2>1. [t EXCEPT !.q = Tail(t.q)] \in SessionType
    BY <1>3, SessionExcept
  <2>2. t.done + 1 \in Nat
    BY <1>1
  <2> QED  BY <1>2, <2>1, <2>2, SessionExcept
<1>5. /\ u.q = Tail(t.q) /\ u.done = t.done + 1
      /\ u.st = t.st /\ u.timer = t.timer /\ u.got = t.got /\ u.sock = t.sock
      /\ u.player = t.player
  BY <1>2 DEF SessionType
<1> HIDE DEF u
<1>6. Len(u.q) = Len(t.q) - 1 /\ DOMAIN u.q = 1 .. Len(t.q) - 1
  BY <1>3, <1>5
<1>7. \A i \in 1 .. Len(t.q) - 1 : u.q[i] = t.q[i + 1]
  BY <1>3, <1>5
<1> QED  BY <1>4, <1>5, <1>6, <1>7 DEF u

-----------------------------------------------------------------------------
(* The io thread, for one connection.                                      *)

\* ReadHeader: a header is read.
LEMMA SendingSound ==
  ASSUME NEW k, NEW t, NEW op \in Ops,
         Sound(k, t), k.read = "header",
         op = "login" => k.logins < Logins, op = "game" => k.games < MaxGame,
         op = "logout" => ~ k.left
  PROVE  LET m == ReadNext(Sending(k, op), op)
         IN  Sound(m, t) /\ m.open = k.open
<1> DEFINE j == Sending(k, op)
           m == ReadNext(j, op)
<1>1. k \in SocketType /\ t \in SessionType
  BY DEF Sound
<1>2. /\ j \in SocketType
      /\ j.session = k.session /\ j.open = k.open /\ j.half = k.half
      /\ (j.left) <=> (k.left \/ op = "logout")
      /\ j.kept => k.kept /\ ~ k.left /\ (op = "ping" => k.logins > 0)
      /\ j.logins > 0 => k.logins > 0 \/ op = "login"
  BY <1>1, SendingFields
<1> HIDE DEF j
<1>3. /\ m \in SocketType /\ m.session = k.session /\ m.open = k.open /\ m.half = k.half
      /\ (m.left) <=> (k.left \/ op = "logout")
      /\ m.kept => k.kept /\ ~ k.left /\ (op = "ping" => k.logins > 0)
      /\ m.logins > 0 => k.logins > 0 \/ op = "login"
      /\ m.read \in {op, "nothing"} /\ (~ k.open => m.read = "nothing")
  BY <1>2, ReadNextFields DEF Alike
<1> HIDE DEF m
<1>4. Linked(m, t)
  BY <1>3 DEF Sound, Linked
<1>5. ~ k.half /\ (k.logins > 0 => k.session)
  BY DEF Sound, Sent
<1>6. k.kept /\ ~ k.left => \A i \in DOMAIN t.q : t.q[i].op # "logout"
  BY DEF Sound, Sent
<1>7. Sent(m, t)
  <2>1. m.logins > 0 => m.session \/ m.read \in {"login", "nothing"}
    BY <1>3, <1>5
  <2>2. m.read = "logout" => m.left
    BY <1>3 DEF Ops
  <2>3. m.kept /\ m.read = "ping" => m.session
    BY <1>3, <1>5
  <2>4. m.kept /\ m.left => m.read \notin {"login", "ping", "game"}
    BY <1>3
  <2>5. m.kept => \A i \in DOMAIN t.q : t.q[i].op # "logout"
    BY <1>3, <1>6
  <2> QED  BY <1>3, <1>5, <2>1, <2>2, <2>3, <2>4, <2>5 DEF Sent
<1>8. HasPlayer(m, t)
  BY <1>3 DEF Sound, HasPlayer, LoggedOut
<1>9. Gone(m, t)
  BY <1>3 DEF Sound, Gone
<1> QED  BY <1>1, <1>3, <1>4, <1>7, <1>8, <1>9 DEF Sound, m, j

\* A socket that goes on to the next header, or reads no more, or is closed, keeps the
\* invariant.
LEMMA QuieterSound ==
  ASSUME NEW k, NEW t, NEW m \in SocketType, Sound(k, t), Alike(m, k),
         m.read \in {k.read, "nothing"} \/ (m.read = "header" /\ k.session),
         m.half => k.half /\ m.read = k.read, ~ k.open => ~ m.open
  PROVE  Sound(m, t)
<1>1. m.read \in Ops => m.read = k.read
  BY DEF Ops
<1>2. Linked(m, t) /\ Ordered(t)
  BY DEF Sound, Linked, Alike
<1>3. Sent(m, t)
  <2>1. m.logins > 0 => m.session \/ m.read \in {"login", "nothing"}
    BY DEF Sound, Sent, Alike
  <2>2. m.half => m.session /\ m.read \in {"game", "logout"}
    BY DEF Sound, Sent, Alike
  <2>3. m.read = "logout" => m.left
    BY <1>1 DEF Sound, Sent, Alike, Ops
  <2>4. m.kept /\ m.read = "ping" => m.session
    BY <1>1 DEF Sound, Sent, Alike, Ops
  <2>5. m.kept /\ m.left => m.read \notin {"login", "ping", "game"}
    BY <1>1 DEF Sound, Sent, Alike, Ops
  <2>6. m.kept => \A i \in DOMAIN t.q : t.q[i].op = "logout" =>
                    i = Len(t.q) /\ m.left /\ m.read \notin Ops
    BY <1>1 DEF Sound, Sent, Alike
  <2> QED  BY <2>1, <2>2, <2>3, <2>4, <2>5, <2>6 DEF Sent
<1>4. HasPlayer(m, t)
  BY <1>1 DEF Sound, HasPlayer, LoggedOut, Alike
<1>5. Gone(m, t)
  BY <1>1 DEF Sound, Gone, Alike, SocketType
<1> QED  BY <1>2, <1>3, <1>4, <1>5 DEF Sound

LEMMA TimerFields ==
  ASSUME NEW t \in SessionType, NEW x \in 0 .. TimeOut
  PROVE  [t EXCEPT !.timer = x] \in SessionType /\ [t EXCEPT !.timer = x].timer = x
<1>1. [t EXCEPT !.timer = x] \in SessionType
  BY SessionExcept
<1> QED  BY <1>1 DEF SessionType

\* The invariant does not depend on the timer.
LEMMA TimerSound ==
  ASSUME NEW k, NEW t, Sound(k, t), NEW x \in 0 .. TimeOut
  PROVE  LET u == [t EXCEPT !.timer = x]
         IN  Sound(k, u) /\ u.st = t.st /\ u.done = t.done /\ u.timer = x
<1> DEFINE u == [t EXCEPT !.timer = x]
<1>1. t \in SessionType
  BY DEF Sound
<1>2. u \in SessionType /\ u.timer = x
  BY <1>1, TimerFields
<1>3. /\ u.st = t.st /\ u.sock = t.sock /\ u.q = t.q /\ u.got = t.got /\ u.done = t.done
      /\ u.player = t.player
  BY <1>1 DEF SessionType
<1> HIDE DEF u
<1>4. Linked(k, u) /\ Ordered(u)
  BY <1>3 DEF Sound, Linked, Ordered, Live
<1>5. Sent(k, u) /\ HasPlayer(k, u) /\ Gone(k, u)
  BY <1>3 DEF Sound, Sent, HasPlayer, LoggedOut, Gone, Live
<1> QED  BY <1>2, <1>3, <1>4, <1>5 DEF Sound, u

\* ReadGamePacket: the first half of a packet of the game, or of the logout.
LEMMA HalfSound ==
  ASSUME NEW k, NEW t, Sound(k, t), Live(t), k.read \in {"game", "logout"}
  PROVE  LET m == [k EXCEPT !.half = TRUE] IN Sound(m, t) /\ m.open = k.open
<1> DEFINE m == [k EXCEPT !.half = TRUE]
<1>1. k \in SocketType
  BY DEF Sound
<1>2. m \in SocketType /\ Alike(m, k) /\ m.open = k.open /\ m.half /\ m.read = k.read
  BY <1>1, HalfFields
<1> HIDE DEF m
<1>3. k.session
  BY DEF Sound, Linked, Live
<1>4. Linked(m, t)
  BY <1>2 DEF Sound, Linked, Alike
<1>5. Sent(m, t)
  BY <1>2, <1>3 DEF Sound, Sent, Alike
<1>6. HasPlayer(m, t) /\ Gone(m, t)
  BY <1>2 DEF Sound, HasPlayer, LoggedOut, Gone, Alike
<1> QED  BY <1>2, <1>4, <1>5, <1>6 DEF Sound, m

\* QueueGamePacket: the second half, the packet is queued.
LEMMA QueueSound ==
  ASSUME NEW k, NEW t, Sound(k, t), Live(t), k.half
  PROVE  LET m == [ReadNext(k, "header") EXCEPT !.half = FALSE]
             u == QueuePacket(t, k.read)
         IN  Sound(m, u) /\ m.open = k.open /\ u.st = t.st /\ u.timer = t.timer
             /\ u.done = t.done
<1> DEFINE j == ReadNext(k, "header")
           m == [j EXCEPT !.half = FALSE]
           u == QueuePacket(t, k.read)
<1>1. /\ k \in SocketType /\ t \in SessionType /\ k.read \in {"game", "logout"} /\ k.session
      /\ k.read \in Ops \ {"ping"}
  BY DEF Sound, Sent, Ops
<1>2. /\ j \in SocketType /\ Alike(j, k) /\ j.open = k.open
      /\ j.read \in {"header", "nothing"}
  BY <1>1, ReadNextFields
<1> HIDE DEF j
<1>3. /\ m \in SocketType /\ m.open = k.open /\ ~ m.half
      /\ m.session = k.session /\ m.logins = k.logins /\ m.left = k.left /\ m.kept = k.kept
      /\ m.read \in {"header", "nothing"}
  BY <1>2, HalfFields DEF Alike
<1>4. /\ u \in SessionType
      /\ u.st = t.st /\ u.timer = t.timer /\ u.done = t.done /\ u.sock = t.sock
      /\ u.player = t.player /\ u.got = t.got + 1
      /\ Len(u.q) = Len(t.q) + 1 /\ DOMAIN u.q = 1 .. Len(t.q) + 1
      /\ \A i \in 1 .. Len(t.q) : u.q[i] = t.q[i]
      /\ u.q[Len(t.q) + 1].op = k.read /\ u.q[Len(t.q) + 1].id = t.got + 1
  BY <1>1, QueuePacketFields
<1>5. t.got \in Nat /\ t.done \in Nat /\ Len(t.q) \in Nat /\ DOMAIN t.q = 1 .. Len(t.q)
  BY <1>1, SessionFields
<1> HIDE DEF m, u
<1>6. Linked(m, u)
  BY <1>3, <1>4 DEF Sound, Linked, Live
<1>7. t.got > 0 /\ Len(t.q) = t.got - t.done /\ \A i \in 1 .. Len(t.q) : t.q[i].id = t.done + i
  BY <1>5 DEF Sound, Ordered
<1>8. \A i \in DOMAIN u.q : i \in 1 .. Len(t.q) \/ i = Len(t.q) + 1
  BY <1>4, <1>5
<1>9. Ordered(u)
  <2>0. \A i \in 1 .. Len(t.q) : (t.q[i].op = "login") <=> (t.q[i].id = 1)
    BY <1>5 DEF Sound, Ordered
  <2>1. \A i \in 1 .. Len(t.q) : (u.q[i].op = "login") <=> (u.q[i].id = 1)
    BY <1>4, <2>0
  <2>2. t.got + 1 # 1
    BY <1>5, <1>7
  <2>3. (u.q[Len(t.q) + 1].op = "login") <=> (u.q[Len(t.q) + 1].id = 1)
    BY <1>1, <1>4, <2>2
  <2>4. \A i \in DOMAIN u.q : (u.q[i].op = "login") <=> (u.q[i].id = 1)
    BY <1>8, <2>1, <2>3
  <2>5. \A i \in DOMAIN u.q : u.q[i].id = u.done + i
    <3>1. \A i \in 1 .. Len(t.q) : u.q[i].id = t.done + i
      BY <1>4, <1>7
    <3>2. t.got + 1 = t.done + (Len(t.q) + 1)
      BY <1>5, <1>7
    <3>3. u.q[Len(t.q) + 1].id = t.done + (Len(t.q) + 1)
      BY <1>4, <3>2
    <3> QED  BY <1>4, <1>8, <3>1, <3>3
  <2>6. u.st # "none" /\ u.got > 0 /\ Len(u.q) = u.got - u.done
    BY <1>4, <1>5, <1>7 DEF Live
  <2>7. u.st # "active" => u.player = "none"
    BY <1>4 DEF Sound, Ordered
  <2> QED  BY <2>4, <2>5, <2>6, <2>7 DEF Ordered
<1>10. Sent(m, u)
  <2>1. k.kept => \A i \in 1 .. Len(t.q) : t.q[i].op # "logout"
    BY <1>1, <1>5 DEF Sound, Sent, Ops
  <2>2. k.read = "logout" => k.left
    BY DEF Sound, Sent
  <2>3. ASSUME m.kept, NEW i \in DOMAIN u.q, u.q[i].op = "logout"
        PROVE  i = Len(u.q) /\ m.left /\ m.read \notin Ops
    <3>1. i = Len(t.q) + 1
      BY <1>3, <1>4, <1>8, <2>1, <2>3
    <3>2. k.read = "logout"
      BY <1>4, <2>3, <3>1
    <3> QED  BY <1>3, <1>4, <2>2, <3>1, <3>2 DEF Ops
  <2> QED  BY <1>1, <1>3, <2>3 DEF Sent
<1>11. HasPlayer(m, u) /\ Gone(m, u)
  <2>1. k.kept /\ t.done > 0 => t.player = "in"
    BY <1>1 DEF Sound, HasPlayer, LoggedOut
  <2> QED  BY <1>3, <1>4, <2>1 DEF HasPlayer, Gone, Live
<1> QED  BY <1>3, <1>4, <1>6, <1>9, <1>10, <1>11 DEF Sound, m, u, j

\* AddSession: the session of a login.
NewSession(t) == QueuePacket(ResetTimeOutTime([t EXCEPT !.st = "queued", !.sock = TRUE]), "login")

LEMMA NewSound ==
  ASSUME NEW k, NEW t, Sound(k, t), k.read = "login", ~ k.session
  PROVE  LET m == ReadNext([k EXCEPT !.session = TRUE], "header")
             u == NewSession(t)
         IN  Sound(m, u) /\ m.open = k.open /\ u.st = "queued" /\ u.timer = TimeOut
             /\ t.st = "none"
<1> DEFINE j == [k EXCEPT !.session = TRUE]
           m == ReadNext(j, "header")
           a == [t EXCEPT !.st = "queued", !.sock = TRUE]
           b == [a EXCEPT !.timer = TimeOut]
           u == QueuePacket(b, "login")
<1>1. k \in SocketType /\ t \in SessionType
  BY DEF Sound
<1>2. t.st = "none" /\ t.q = <<>> /\ t.got = 0 /\ t.done = 0 /\ t.player = "none" /\ ~ k.half
  BY DEF Sound, Linked, Ordered, Sent
<1>3. j \in SocketType
  BY <1>1, SocketExcept
<1>4. /\ j.session = TRUE /\ j.open = k.open /\ j.half = k.half
  BY <1>1 DEF SocketType
<1> HIDE DEF j
<1>5. /\ m \in SocketType /\ m.session /\ m.open = k.open /\ ~ m.half
      /\ m.read \in {"header", "nothing"}
  BY <1>2, <1>3, <1>4, ReadNextFields DEF Alike
<1>6. b \in SessionType
  <2>1. [t EXCEPT !.st = "queued"] \in SessionType
    BY <1>1, SessionExcept
  <2>2. a \in SessionType
    BY <2>1, SessionExcept
  <2>3. TimeOut \in 0 .. TimeOut
    BY SessionAssumption
  <2> HIDE DEF a
  <2> QED  BY <2>2, <2>3, SessionExcept
<1>7. /\ b.st = "queued" /\ b.sock = TRUE /\ b.timer = TimeOut /\ b.q = <<>> /\ b.got = 0
      /\ b.done = 0 /\ b.player = t.player
  BY <1>1, <1>2 DEF SessionType
<1>8. u = NewSession(t)
  BY DEF NewSession, ResetTimeOutTime
<1> HIDE DEF m, b
<1>9. /\ u \in SessionType
      /\ u.st = "queued" /\ u.timer = TimeOut /\ u.done = 0 /\ u.sock = TRUE
      /\ u.player = "none" /\ u.got = 1
      /\ Len(u.q) = 1 /\ DOMAIN u.q = 1 .. 1
      /\ u.q[1].op = "login" /\ u.q[1].id = 1
  <2>1. "login" \in Ops \ {"ping"}
    BY DEF Ops
  <2>2. Len(b.q) = 0
    BY <1>7
  <2>3. /\ u \in SessionType /\ u.st = b.st /\ u.timer = b.timer /\ u.done = b.done
        /\ u.sock = b.sock /\ u.player = b.player /\ u.got = b.got + 1
        /\ Len(u.q) = Len(b.q) + 1 /\ DOMAIN u.q = 1 .. Len(b.q) + 1
        /\ u.q[Len(b.q) + 1].op = "login" /\ u.q[Len(b.q) + 1].id = b.got + 1
    BY <1>6, <2>1, QueuePacketFields
  <2> QED  BY <1>2, <1>7, <2>2, <2>3
<1> HIDE DEF u
<1>10. Linked(m, u) /\ Ordered(u)
  BY <1>5, <1>9 DEF Linked, Ordered
<1>11. Sent(m, u)
  <2>1. \A i \in DOMAIN u.q : u.q[i].op # "logout"
    BY <1>9
  <2> QED  BY <1>5, <2>1 DEF Sent
<1>12. HasPlayer(m, u) /\ Gone(m, u)
  BY <1>9 DEF HasPlayer, Gone
<1> QED  BY <1>2, <1>5, <1>8, <1>9, <1>10, <1>11, <1>12 DEF Sound, m, j

-----------------------------------------------------------------------------
(* The world thread, for one connection.                                   *)

\* AddSession_: the session becomes the one of its account.
LEMMA ActiveSound ==
  ASSUME NEW k, NEW t, Sound(k, t), t.st = "queued"
  PROVE  LET u == [t EXCEPT !.st = "active"]
         IN  Sound(k, u) /\ u.st = "active" /\ u.timer = t.timer
<1> DEFINE u == [t EXCEPT !.st = "active"]
<1>1. t \in SessionType
  BY DEF Sound
<1>2. u \in SessionType
  BY <1>1, SessionExcept
<1>3. /\ u.st = "active" /\ u.sock = t.sock /\ u.q = t.q /\ u.got = t.got /\ u.done = t.done
      /\ u.player = t.player /\ u.timer = t.timer
  BY <1>1 DEF SessionType
<1> HIDE DEF u
<1>4. Linked(k, u) /\ Ordered(u)
  BY <1>3 DEF Sound, Linked, Ordered, Live
<1>5. Sent(k, u) /\ HasPlayer(k, u) /\ Gone(k, u)
  BY <1>3 DEF Sound, Sent, HasPlayer, LoggedOut, Gone, Live
<1> QED  BY <1>2, <1>3, <1>4, <1>5 DEF Sound, u

\* ~WorldSession: its socket is closed, or its client has logged out.
LEMMA DeletedSound ==
  ASSUME NEW k, NEW t, Sound(k, t), t.st # "none",
         NEW u, u = Deleted(t),
         k.open /\ k.kept => k.left /\ k.read \notin Ops
  PROVE  Sound(k, u) /\ u.st = "deleted"
<1>1. t \in SessionType /\ k \in SocketType
  BY DEF Sound
<1>2. u \in SessionType
  <2> DEFINE a == [t EXCEPT !.st = "deleted"]
             b == [a EXCEPT !.sock = FALSE]
             c == [b EXCEPT !.q = <<>>]
  <2>1. a \in SessionType
    BY <1>1, SessionExcept
  <2> HIDE DEF a
  <2>2. b \in SessionType
    BY <2>1, SessionExcept
  <2> HIDE DEF b
  <2>3. <<>> \in Seq(PacketType)
    OBVIOUS
  <2>4. c \in SessionType
    BY <2>2, <2>3, SessionExcept
  <2> HIDE DEF c
  <2>5. [c EXCEPT !.player = "none"] \in SessionType
    BY <2>4, SessionExcept
  <2> QED  BY <2>5 DEF Deleted, a, b, c
<1>3. u.st = "deleted" /\ u.q = <<>> /\ u.player = "none"
  BY <1>1 DEF Deleted, SessionType
<1>4. Linked(k, u) /\ Ordered(u) /\ HasPlayer(k, u)
  BY <1>3 DEF Sound, Linked, Ordered, HasPlayer, Live
<1>5. Sent(k, u)
  BY <1>3 DEF Sound, Sent
<1>6. Gone(k, u)
  BY DEF Gone
<1> QED  BY <1>1, <1>2, <1>3, <1>4, <1>5, <1>6 DEF Sound

\* Closing the socket, whatever is read from it.
LEMMA ClosedFields ==
  ASSUME NEW k \in SocketType
  PROVE  LET m == Closed(k)
         IN  m \in SocketType /\ ~ m.open /\ Alike(m, k) /\ m.half = k.half /\ m.read = k.read
<1>1. Closed(k) \in SocketType
  BY SocketExcept DEF Closed
<1> QED  BY <1>1 DEF Closed, SocketType, Alike

LEMMA ClosedSound ==
  ASSUME NEW k, NEW t, Sound(k, t)
  PROVE  Sound(Closed(k), t)
<1> DEFINE m == Closed(k)
<1>1. k \in SocketType
  BY DEF Sound
<1>2. m \in SocketType /\ ~ m.open /\ Alike(m, k) /\ m.half = k.half /\ m.read = k.read
  BY <1>1, ClosedFields
<1> HIDE DEF m
<1>3. Sound(m, t)
  BY <1>2, QuieterSound
<1> QED  BY <1>3 DEF m

\* The packets of a session without its first one.
LEMMA TakePacketSound ==
  ASSUME NEW k, NEW t, Sound(k, t), t.st = "active", t.q # <<>>
  PROVE  LET u == TakePacket(t)
         IN  /\ u \in SessionType /\ u.st = t.st /\ u.timer = t.timer /\ u.done > 0
             /\ u.player = t.player
             /\ Ordered(u) /\ Linked(k, u) /\ Sent(k, u)
             /\ Head(t.q).op # "login" /\ k.kept => t.player = "in"
             /\ Head(t.q).op = "logout" /\ k.kept => LoggedOut(k, u)
<1> DEFINE u == TakePacket(t)
<1>1. t \in SessionType
  BY DEF Sound
<1>2. t.got \in Nat /\ t.done \in Nat /\ Len(t.q) \in Nat \ {0} /\ DOMAIN t.q = 1 .. Len(t.q)
  BY <1>1, SessionFields, EmptySeq
<1>3. /\ u \in SessionType
      /\ u.st = t.st /\ u.timer = t.timer /\ u.got = t.got /\ u.sock = t.sock
      /\ u.player = t.player /\ u.done = t.done + 1
      /\ u.q = Tail(t.q)
      /\ Len(u.q) = Len(t.q) - 1 /\ DOMAIN u.q = 1 .. Len(t.q) - 1
      /\ \A i \in 1 .. Len(t.q) - 1 : u.q[i] = t.q[i + 1]
  BY <1>1, TakePacketFields
<1>4. /\ t.got > 0 /\ Len(t.q) = t.got - t.done /\ Live(t)
      /\ \A i \in 1 .. Len(t.q) : t.q[i].id = t.done + i
      /\ \A i \in 1 .. Len(t.q) : (t.q[i].op = "login") <=> (t.q[i].id = 1)
  BY <1>2 DEF Sound, Ordered, Live
<1> HIDE DEF u
<1>5. Head(t.q) = t.q[1] /\ 1 \in 1 .. Len(t.q)
  BY <1>1, <1>2, SessionFields
<1>6. \A i \in 1 .. Len(t.q) - 1 : i + 1 \in 1 .. Len(t.q)
  BY <1>2
<1>7. Ordered(u)
  <2>1. \A i \in DOMAIN u.q : u.q[i].id = u.done + i
    <3> SUFFICES ASSUME NEW i \in 1 .. Len(t.q) - 1
                 PROVE  u.q[i].id = u.done + i
      BY <1>3
    <3>1. t.q[i + 1].id = t.done + (i + 1)
      BY <1>4, <1>6
    <3> QED  BY <1>2, <1>3, <3>1, SMTT(30)
  <2>2. \A i \in DOMAIN u.q : (u.q[i].op = "login") <=> (u.q[i].id = 1)
    BY <1>3, <1>4, <1>6
  <2>3. u.got > 0 /\ Len(u.q) = u.got - u.done /\ u.st = "active"
    BY <1>2, <1>3, <1>4
  <2> QED  BY <2>1, <2>2, <2>3 DEF Ordered
<1>8. Linked(k, u)
  BY <1>3 DEF Sound, Linked, Live
<1>9. u.done > 0
  BY <1>2, <1>3
<1>10. Sent(k, u)
  <2>1. ASSUME k.kept, NEW i \in 1 .. Len(t.q) - 1, u.q[i].op = "logout"
        PROVE  i = Len(u.q) /\ k.left /\ k.read \notin Ops
    <3>1. t.q[i + 1].op = "logout" /\ i + 1 \in DOMAIN t.q
      BY <1>2, <1>3, <1>6, <2>1
    <3>2. i + 1 = Len(t.q) /\ k.left /\ k.read \notin Ops
      BY <2>1, <3>1 DEF Sound, Sent
    <3> QED  BY <1>2, <1>3, <3>2
  <2> QED  BY <1>3, <2>1 DEF Sound, Sent
<1>11. ASSUME Head(t.q).op # "login", k.kept
       PROVE  t.player = "in"
  <2>1. t.q[1].id # 1 /\ t.q[1].id = t.done + 1
    BY <1>4, <1>5, <1>11
  <2>2. t.done > 0
    BY <1>2, <2>1
  <2> QED  BY <1>4, <1>11, <2>2 DEF Sound, HasPlayer, LoggedOut
<1>12. ASSUME Head(t.q).op = "logout", k.kept
       PROVE  LoggedOut(k, u)
  <2>1. 1 = Len(t.q) /\ k.left /\ k.read \notin Ops
    BY <1>2, <1>5, <1>12 DEF Sound, Sent
  <2>2. u.q = <<>>
    BY <1>1, <1>3, <2>1, EmptySeq, SessionFields, SMTT(30)
  <2> QED  BY <2>1, <2>2 DEF LoggedOut
<1> QED  BY <1>3, <1>7, <1>8, <1>9, <1>10, <1>11, <1>12 DEF u

\* A player that comes, logs out, or lets go of its session.
LEMMA PlayerFields ==
  ASSUME NEW t \in SessionType, NEW x \in {"none", "in", "leaving"}
  PROVE  LET u == [t EXCEPT !.player = x]
         IN  /\ u \in SessionType /\ u.player = x
             /\ u.st = t.st /\ u.sock = t.sock /\ u.timer = t.timer /\ u.q = t.q
             /\ u.got = t.got /\ u.done = t.done
<1>1. [t EXCEPT !.player = x] \in SessionType
  BY SessionExcept
<1> QED  BY <1>1 DEF SessionType

\* A packet has been handled, and the player of its session is x.
LEMMA HandledSound ==
  ASSUME NEW k \in SocketType, NEW t \in SessionType, NEW x \in {"none", "in", "leaving"},
         t.st = "active", Ordered(t), Linked(k, t), Sent(k, t),
         k.kept /\ x # "in" => LoggedOut(k, t)
  PROVE  LET u == [t EXCEPT !.player = x]
         IN  Sound(k, u) /\ u.st = t.st /\ u.timer = t.timer /\ u.done = t.done
<1> DEFINE u == [t EXCEPT !.player = x]
<1>1. /\ u \in SessionType /\ u.player = x
      /\ u.st = t.st /\ u.sock = t.sock /\ u.timer = t.timer /\ u.q = t.q
      /\ u.got = t.got /\ u.done = t.done
  BY PlayerFields
<1> HIDE DEF u
<1>2. Linked(k, u) /\ Ordered(u) /\ Sent(k, u)
  BY <1>1 DEF Linked, Ordered, Sent, Live
<1>3. HasPlayer(k, u) /\ Gone(k, u)
  BY <1>1 DEF HasPlayer, LoggedOut, Gone
<1> QED  BY <1>1, <1>2, <1>3 DEF Sound, u

-----------------------------------------------------------------------------
(* The io thread.                                                          *)

\* A step that concerns one connection.
LEMMA OneConnection ==
  ASSUME SessionTypeOK, SoundConns, NEW c \in Conns, NEW m, NEW u,
         sock' = [sock EXCEPT ![c] = m], ses' = [ses EXCEPT ![c] = u], Sound(m, u)
  PROVE  /\ sock' \in [Conns -> SocketType] /\ ses' \in [Conns -> SessionType]
         /\ sock'[c] = m /\ ses'[c] = u
         /\ \A d \in Conns \ {c} : sock'[d] = sock[d] /\ ses'[d] = ses[d]
         /\ SoundConns'
<1>1. m \in SocketType /\ u \in SessionType
  BY DEF Sound
<1>2. /\ sock' \in [Conns -> SocketType] /\ ses' \in [Conns -> SessionType]
      /\ sock'[c] = m /\ ses'[c] = u
      /\ \A d \in Conns \ {c} : sock'[d] = sock[d] /\ ses'[d] = ses[d]
  BY <1>1 DEF SessionTypeOK
<1>3. SoundConns'
  <2> SUFFICES ASSUME NEW d \in Conns
               PROVE  Sound(sock'[d], ses'[d])
    BY DEF SoundConns
  <2>1. CASE d = c
    BY <1>2, <2>1
  <2>2. CASE d # c
    <3>1. sock'[d] = sock[d] /\ ses'[d] = ses[d]
      BY <1>2, <2>2
    <3>2. Sound(sock[d], ses[d])
      BY DEF SoundConns
    <3> QED  BY <3>1, <3>2
  <2> QED  BY <2>1, <2>2
<1> QED  BY <1>2, <1>3

\* No pointer was followed to nothing.
LEMMA NoFaults ==
  ASSUME faults' = {}
  PROVE  NoNullPlayer' /\ NoStaleUse'
BY DEF NoNullPlayer, NoStaleUse

\* What an io thread does to a connection whose session stays where it is.
LEMMA IoKeeps ==
  ASSUME SessionInv, faults = {}, UNCHANGED <<faults, world>>,
         NEW c \in Conns, NEW m, NEW u,
         sock' = [sock EXCEPT ![c] = m], ses' = [ses EXCEPT ![c] = u], Sound(m, u),
         u.st = ses[c].st, u.done = ses[c].done, u.timer \in {ses[c].timer, TimeOut},
         ~ sock[c].open => ~ m.open
  PROVE  SessionInv'
<1>1. UNCHANGED <<account, addq, sessions, pc, todo, cur, n, faults>>
  BY DEF world
<1>2. /\ sock' \in [Conns -> SocketType] /\ ses' \in [Conns -> SessionType]
      /\ sock'[c] = m /\ ses'[c] = u
      /\ \A d \in Conns \ {c} : sock'[d] = sock[d] /\ ses'[d] = ses[d]
      /\ SoundConns'
  BY OneConnection DEF SessionInv
<1>3. \A d \in Conns : ses'[d].st = ses[d].st /\ ses'[d].done = ses[d].done
  BY <1>2
<1>4. SessionTypeOK'
  BY <1>1, <1>2 DEF SessionInv, SessionTypeOK
<1>5. Owners'
  <2>1. \A d \in Conns : (Queued(d))' <=> Queued(d)
    BY <1>1 DEF Queued
  <2> QED  BY <1>1, <1>3, <2>1 DEF SessionInv, Owners
<1>6. Cursor'
  <2>1. cur # None => cur \in Conns
    BY DEF SessionInv, SessionTypeOK
  <2> QED  BY <1>1, <1>3, <2>1 DEF SessionInv, Cursor
<1>7. Timed'
  <2> SUFFICES ASSUME NEW d \in Conns, Live(ses'[d]), ses'[d].timer = 0
               PROVE  cur' = d /\ ~ sock'[d].open
    BY DEF Timed
  <2>1. Live(ses[d])
    BY <1>3 DEF Live
  <2>2. ses[d].timer = 0
    BY <1>2, SessionAssumption
  <2>3. cur = d /\ ~ sock[d].open
    BY <2>1, <2>2 DEF SessionInv, Timed
  <2> QED  BY <1>1, <1>2, <2>3
<1>8. NoNullPlayer' /\ NoStaleUse'
  BY NoFaults
<1> QED  BY <1>2, <1>4, <1>5, <1>6, <1>7, <1>8 DEF SessionInv

LEMMA ReadHeaderKeeps ==
  ASSUME SessionInv, NEW c \in Conns, NEW op \in Ops, ReadHeader(c, op)
  PROVE  SessionInv'
<1> DEFINE k == sock[c]
           m == ReadNext(Sending(k, op), op)
<1>1. sock' = [sock EXCEPT ![c] = m] /\ UNCHANGED <<ses, faults, world>> /\ faults = {}
  BY DEF ReadHeader, Running
<1>2. /\ k.read = "header"
      /\ op = "login" => k.logins < Logins
      /\ op = "game" => k.games < MaxGame
      /\ op = "logout" => ~ k.left
  BY DEF ReadHeader, MaySend
<1>3. Sound(k, ses[c])
  BY DEF SessionInv, SoundConns
<1>4. Sound(m, ses[c]) /\ m.open = k.open
  BY <1>2, <1>3, SendingSound
<1>5. ses' = [ses EXCEPT ![c] = ses[c]]
  BY <1>1 DEF SessionInv, SessionTypeOK
<1> HIDE DEF m
<1> QED  BY <1>1, <1>4, <1>5, IoKeeps

LEMMA ConnectionLostKeeps ==
  ASSUME SessionInv, NEW c \in Conns, ConnectionLost(c)
  PROVE  SessionInv'
<1>1. PICK next \in {sock[c].read} \union (IF sock[c].half THEN {} ELSE {"nothing"}) :
        sock' = [sock EXCEPT ![c] = [Closed(@) EXCEPT !.gone = TRUE, !.read = next]]
  BY DEF ConnectionLost
<1> DEFINE k == sock[c]
           j == [Closed(k) EXCEPT !.gone = TRUE]
           m == [j EXCEPT !.read = next]
<1>2. sock' = [sock EXCEPT ![c] = m] /\ UNCHANGED <<ses, faults, world>> /\ faults = {}
  BY <1>1 DEF ConnectionLost, Running
<1>3. Sound(k, ses[c]) /\ k \in SocketType
  BY DEF SessionInv, SoundConns, Sound
<1>4. next \in {k.read, "nothing"} /\ next \in Ops \union {"header", "nothing"}
      /\ (k.half => next = k.read)
  BY <1>1, <1>3, SocketFields
<1>5. Closed(k) \in SocketType /\ ~ Closed(k).open /\ Alike(Closed(k), k)
      /\ Closed(k).half = k.half
  BY <1>3, ClosedFields
<1>6. j \in SocketType
  BY <1>5, SocketExcept
<1>7. m \in SocketType
  <2> HIDE DEF j
  <2> QED  BY <1>4, <1>6, SocketExcept
<1>8. ~ m.open /\ Alike(m, k) /\ m.half = k.half /\ m.read = next
  BY <1>5 DEF SocketType, Alike
<1> HIDE DEF m
<1>9. Sound(m, ses[c])
  <2> DEFINE t == ses[c]
  <2>1. Sound(k, t)
    BY <1>3
  <2> HIDE DEF k, t
  <2>2. Sound(m, t)
    BY <1>4, <1>7, <1>8, <2>1, QuieterSound
  <2> QED  BY <2>2 DEF t
<1>10. ses' = [ses EXCEPT ![c] = ses[c]]
  BY <1>2 DEF SessionInv, SessionTypeOK
<1> QED  BY <1>2, <1>8, <1>9, <1>10, IoKeeps

\* A pointer that is followed to nothing: to a deleted session for a socket that is
\* closed, or by a client that has not kept to the game.
LEMMA FaultKeeps ==
  ASSUME SessionInv, NEW c \in Conns, faults = {}, ~ Alive(c), sock[c].read \in Ops,
         sock[c].read # "ping" => sock[c].session,
         faults' = faults \union {<<IF sock[c].session THEN "stale" ELSE "null", c>>},
         UNCHANGED <<ses, sock, world>>
  PROVE  SessionInv'
<1>1. UNCHANGED <<account, addq, sessions, pc, todo, cur, n, sock, ses>>
  BY DEF world
<1>2. Sound(sock[c], ses[c]) /\ sock[c] \in SocketType /\ ses[c] \in SessionType
  BY DEF SessionInv, SoundConns, Sound
<1>3. sock[c].session => ~ sock[c].open \/ ~ sock[c].kept
  BY <1>2, SessionFields DEF Sound, Linked, Gone, Alive
<1>4. ~ sock[c].session => ~ sock[c].kept
  BY <1>2 DEF Sound, Sent
<1>5. NoStaleUse' /\ NoNullPlayer'
  BY <1>1, <1>3, <1>4 DEF NoStaleUse, NoNullPlayer
<1>6. SessionTypeOK'
  <2>1. (IF sock[c].session THEN "stale" ELSE "null") \in {"stale", "null"}
    OBVIOUS
  <2>2. faults' \subseteq {"stale", "null"} \X Conns
    BY <2>1
  <2> QED  BY <1>1, <2>2 DEF SessionInv, SessionTypeOK
<1>7. SoundConns'
  BY <1>1 DEF SessionInv, SoundConns
<1>8. Owners'
  BY <1>1, ZenonT(60) DEF SessionInv, Owners, Queued
<1>9. Cursor'
  BY <1>1 DEF SessionInv, Cursor
<1>10. Timed'
  BY <1>1 DEF SessionInv, Timed
<1> QED  BY <1>5, <1>6, <1>7, <1>8, <1>9, <1>10 DEF SessionInv

\* A statement that follows the pointer of a connection: what is left to show is that
\* what it does to a session that is there keeps the invariant.
LEMMA FollowKeeps ==
  ASSUME SessionInv, NEW c \in Conns, NEW u, NEW m, Follow(c, u, m), faults = {},
         sock[c].read \in Ops, sock[c].read # "ping" => sock[c].session,
         Alive(c) => /\ Sound(m, u) /\ u.st = ses[c].st /\ u.done = ses[c].done
                     /\ u.timer \in {ses[c].timer, TimeOut} /\ (~ sock[c].open => ~ m.open)
  PROVE  SessionInv'
<1>1. CASE Alive(c)
  <2>1. /\ sock' = [sock EXCEPT ![c] = m] /\ ses' = [ses EXCEPT ![c] = u]
        /\ UNCHANGED <<faults, world>>
    BY <1>1 DEF Follow
  <2> QED  BY <1>1, <2>1, IoKeeps
<1>2. CASE ~ Alive(c)
  <2>1. /\ faults' = faults \union {<<IF sock[c].session THEN "stale" ELSE "null", c>>}
        /\ UNCHANGED <<ses, sock, world>>
    BY <1>2 DEF Follow
  <2> QED  BY <1>2, <2>1, FaultKeeps
<1> QED  BY <1>1, <1>2

LEMMA ReadPingKeeps ==
  ASSUME SessionInv, NEW c \in Conns, ReadPing(c)
  PROVE  SessionInv'
<1> DEFINE k == sock[c]
           t == ses[c]
           m == ReadNext(k, "header")
           u == [t EXCEPT !.timer = TimeOut]
<1>1. k.read = "ping" /\ faults = {} /\ Follow(c, u, m) /\ k.read \in Ops
  BY DEF ReadPing, Running, ResetTimeOutTime, Ops
<1>2. Sound(k, t) /\ k \in SocketType
  BY DEF SessionInv, SoundConns, Sound
<1>3. Sound(k, u) /\ u.st = t.st /\ u.timer = TimeOut /\ u.done = t.done
  <2>1. TimeOut \in 0 .. TimeOut
    BY SessionAssumption
  <2> HIDE DEF k, t
  <2> QED  BY <1>2, <2>1, TimerSound
<1>4. m \in SocketType /\ Alike(m, k) /\ m.open = k.open /\ m.half = k.half
      /\ m.read \in {"header", "nothing"}
  BY <1>2, ReadNextFields
<1> HIDE DEF m, u
<1>5. ASSUME Alive(c)
      PROVE  Sound(m, u)
  <2>1. k.session /\ ~ k.half
    BY <1>1, <1>2, <1>5 DEF Sound, Linked, Sent, Alive
  <2> HIDE DEF k
  <2> QED  BY <1>3, <1>4, <2>1, QuieterSound
<1> QED  BY <1>1, <1>3, <1>4, <1>5, FollowKeeps

LEMMA ReadGamePacketKeeps ==
  ASSUME SessionInv, NEW c \in Conns, ReadGamePacket(c)
  PROVE  SessionInv'
<1> DEFINE k == sock[c]
           t == ses[c]
<1>1. k.read \in {"game", "logout"} /\ faults = {} /\ ~ k.half /\ k.read \in Ops
  BY DEF ReadGamePacket, Running, Ops
<1>2. Sound(k, t) /\ k \in SocketType
  BY DEF SessionInv, SoundConns, Sound
<1>3. CASE k.session
  <2> DEFINE u == [t EXCEPT !.timer = TimeOut]
             m == [k EXCEPT !.half = TRUE]
  <2>1. Follow(c, u, m)
    BY <1>3 DEF ReadGamePacket, ResetTimeOutTime
  <2>2. Sound(k, u) /\ u.st = t.st /\ u.timer = TimeOut /\ u.done = t.done
    <3>1. TimeOut \in 0 .. TimeOut
      BY SessionAssumption
    <3> HIDE DEF k, t
    <3> QED  BY <1>2, <3>1, TimerSound
  <2> HIDE DEF u
  <2>3. ASSUME Alive(c)
        PROVE  Sound(m, u) /\ m.open = k.open
    <3>1. Live(u)
      BY <2>2, <2>3 DEF Alive, Live
    <3>2. k.read \in {"game", "logout"}
      BY <1>1
    <3> HIDE DEF k
    <3> QED  BY <2>2, <3>1, <3>2, HalfSound
  <2> HIDE DEF m
  <2> QED  BY <1>1, <1>3, <2>1, <2>2, <2>3, FollowKeeps
<1>4. CASE ~ k.session
  <2> DEFINE m == [Closed(k) EXCEPT !.read = "nothing"]
  <2>1. sock' = [sock EXCEPT ![c] = m] /\ UNCHANGED <<ses, faults, world>>
    BY <1>4 DEF ReadGamePacket
  <2>2. Closed(k) \in SocketType /\ ~ Closed(k).open /\ Alike(Closed(k), k)
        /\ Closed(k).half = k.half
    BY <1>2, ClosedFields
  <2>3. m \in SocketType
    BY <2>2, SocketExcept
  <2>4. ~ m.open /\ Alike(m, k) /\ ~ m.half /\ m.read = "nothing"
    BY <1>1, <2>2 DEF SocketType, Alike
  <2> HIDE DEF m
  <2>5. Sound(m, t)
    <3> HIDE DEF k, t
    <3> QED  BY <1>2, <2>3, <2>4, QuieterSound
  <2>6. ses' = [ses EXCEPT ![c] = t]
    BY <2>1 DEF SessionInv, SessionTypeOK
  <2> QED  BY <1>1, <2>1, <2>4, <2>5, <2>6, IoKeeps
<1> QED  BY <1>3, <1>4

LEMMA QueueGamePacketKeeps ==
  ASSUME SessionInv, NEW c \in Conns, QueueGamePacket(c)
  PROVE  SessionInv'
<1> DEFINE k == sock[c]
           t == ses[c]
           m == [ReadNext(k, "header") EXCEPT !.half = FALSE]
           u == QueuePacket(t, k.read)
<1>1. k.half /\ faults = {} /\ Follow(c, u, m)
  BY DEF QueueGamePacket, Running
<1>2. Sound(k, t)
  BY DEF SessionInv, SoundConns
<1>3. k.session /\ k.read \in Ops
  BY <1>1, <1>2 DEF Sound, Sent, Ops
<1>4. ASSUME Alive(c)
      PROVE  Sound(m, u) /\ m.open = k.open /\ u.st = t.st /\ u.timer = t.timer
             /\ u.done = t.done
  <2>1. Live(t) /\ k.half
    BY <1>1, <1>4 DEF Alive, Live
  <2> HIDE DEF k, t
  <2> QED  BY <1>2, <2>1, QueueSound
<1> HIDE DEF m, u
<1> QED  BY <1>1, <1>3, <1>4, FollowKeeps

LEMMA ReadLoginKeeps ==
  ASSUME SessionInv, NEW c \in Conns, ReadLogin(c)
  PROVE  SessionInv'
<1> DEFINE k == sock[c]
           t == ses[c]
<1>1. k.read = "login" /\ faults = {} /\ k.read \in Ops
  BY DEF ReadLogin, Running, Ops
<1>2. Sound(k, t) /\ k \in SocketType
  BY DEF SessionInv, SoundConns, Sound
<1>3. CASE k.session
  <2> DEFINE m == ReadNext(k, "header")
  <2>1. Follow(c, t, m)
    BY <1>3 DEF ReadLogin
  <2>2. m \in SocketType /\ Alike(m, k) /\ m.open = k.open /\ m.half = k.half
        /\ m.read \in {"header", "nothing"}
    BY <1>2, ReadNextFields
  <2> HIDE DEF m
  <2>3. Sound(m, t)
    <3>1. ~ k.half
      BY <1>1, <1>2 DEF Sound, Sent
    <3> HIDE DEF k, t
    <3> QED  BY <1>2, <1>3, <2>2, <3>1, QuieterSound
  <2> QED  BY <1>1, <1>3, <2>1, <2>2, <2>3, FollowKeeps
<1>4. CASE ~ k.session
  <2> DEFINE m == ReadNext([k EXCEPT !.session = TRUE], "header")
             u == NewSession(t)
  <2>1. AddSession(c)
    BY <1>4 DEF ReadLogin
  <2>2. /\ sock' = [sock EXCEPT ![c] = m] /\ ses' = [ses EXCEPT ![c] = u]
        /\ addq' = Append(addq, c)
        /\ UNCHANGED <<account, sessions, pc, todo, cur, n, faults>>
    BY <2>1 DEF AddSession, NewSession
  <2>3. /\ Sound(m, u) /\ m.open = k.open /\ u.st = "queued"
        /\ u.timer = TimeOut /\ t.st = "none"
    <3> HIDE DEF k, t
    <3> QED  BY <1>1, <1>2, <1>4, NewSound, ZenonT(60)
  <2> HIDE DEF m, u
  <2>4. /\ sock' \in [Conns -> SocketType] /\ ses' \in [Conns -> SessionType]
        /\ sock'[c] = m /\ ses'[c] = u
        /\ \A d \in Conns \ {c} : sock'[d] = sock[d] /\ ses'[d] = ses[d]
        /\ SoundConns'
    BY <2>2, <2>3, OneConnection DEF SessionInv
  <2>5. /\ addq \in Seq(Conns) /\ addq' \in Seq(Conns) /\ Len(addq) \in Nat
        /\ DOMAIN addq = 1 .. Len(addq) /\ DOMAIN addq' = 1 .. Len(addq) + 1
        /\ \A i \in 1 .. Len(addq) : addq'[i] = addq[i]
        /\ addq'[Len(addq) + 1] = c
    <3>1. addq \in Seq(Conns) /\ Len(addq) \in Nat /\ DOMAIN addq = 1 .. Len(addq)
      BY LenProperties DEF SessionInv, SessionTypeOK
    <3>2. addq' = Append(addq, c)
      BY <2>2
    <3>3. /\ addq' \in Seq(Conns) /\ Len(addq') = Len(addq) + 1
          /\ \A i \in 1 .. Len(addq) : addq'[i] = addq[i]
          /\ addq'[Len(addq) + 1] = c
      BY <3>1, <3>2, AppendProperties
    <3> QED  BY <3>1, <3>3, LenProperties
  <2>6. SessionTypeOK'
    BY <2>2, <2>4, <2>5 DEF SessionInv, SessionTypeOK
  <2>7. ~ Queued(c)
    BY <2>3 DEF SessionInv, Owners
  <2>8. \A d \in Conns : (Queued(d))' <=> (d = c \/ Queued(d))
    BY <2>5 DEF Queued
  <2>9. \A i, j \in DOMAIN addq' : addq'[i] = addq'[j] => i = j
    <3>1. \A i \in 1 .. Len(addq) : addq'[i] # c
      BY <2>5, <2>7 DEF Queued
    <3>2. \A i, j \in 1 .. Len(addq) : addq'[i] = addq'[j] => i = j
      BY <2>5 DEF SessionInv, Owners
    <3>3. \A i \in DOMAIN addq' : i \in 1 .. Len(addq) \/ i = Len(addq) + 1
      BY <2>5
    <3> QED  BY <2>5, <3>1, <3>2, <3>3
  <2>10. Owners'
    <3>1. \A d \in Conns : /\ (ses'[d].st = "queued") <=> (Queued(d))'
                           /\ (ses'[d].st = "active") <=> (sessions'[account'[d]] = d)
      BY <2>2, <2>3, <2>4, <2>8 DEF SessionInv, Owners
    <3>2. \A a \in Accounts : sessions'[a] # None => account'[sessions'[a]] = a
      BY <2>2 DEF SessionInv, Owners
    <3> QED  BY <2>9, <3>1, <3>2 DEF Owners
  <2>11. cur # None => cur \in Conns \ {c}
    BY <2>3 DEF SessionInv, SessionTypeOK, Cursor
  <2>12. Cursor'
    BY <2>2, <2>4, <2>11 DEF SessionInv, Cursor
  <2>13. Timed'
    BY <2>2, <2>3, <2>4, SessionAssumption DEF SessionInv, Timed
  <2>14. NoNullPlayer' /\ NoStaleUse'
    BY <1>1, <2>2, NoFaults
  <2> QED  BY <2>4, <2>6, <2>10, <2>12, <2>13, <2>14 DEF SessionInv
<1> QED  BY <1>3, <1>4

-----------------------------------------------------------------------------
(* The world thread.                                                       *)

\* What the world thread may rely on.
LEMMA WorldFacts ==
  ASSUME SessionInv
  PROVE  /\ \A c \in Conns : Sound(sock[c], ses[c]) /\ sock[c] \in SocketType
                             /\ ses[c] \in SessionType
         /\ pc # "sessions" => cur = None /\ todo = {}
BY DEF SessionInv, SoundConns, Sound, Cursor

\* addSessQueue.next: the session at the front is in the queue no more.
LEMMA NextOfQueue ==
  ASSUME SessionTypeOK, Owners, addq # <<>>, addq' = Tail(addq)
  PROVE  /\ addq' \in Seq(Conns) /\ Head(addq) \in Conns /\ ses[Head(addq)].st = "queued"
         /\ \A d \in Conns : (Queued(d))' <=> (Queued(d) /\ d # Head(addq))
         /\ \A i, j \in DOMAIN addq' : addq'[i] = addq'[j] => i = j
<1>1. /\ addq \in Seq(Conns) /\ Len(addq) \in Nat \ {0} /\ DOMAIN addq = 1 .. Len(addq)
  BY EmptySeq, LenProperties DEF SessionTypeOK
<1>2. /\ addq' \in Seq(Conns) /\ Len(addq') = Len(addq) - 1
      /\ Head(addq) = addq[1] /\ Head(addq) \in Conns
      /\ \A i \in 1 .. Len(addq') : addq'[i] = addq[i + 1]
  BY <1>1, HeadTailProperties
<1>3. DOMAIN addq' = 1 .. Len(addq) - 1
  BY <1>2
<1>4. 1 \in DOMAIN addq
  BY <1>1
<1>5. ses[Head(addq)].st = "queued"
  BY <1>2, <1>4 DEF Owners, Queued
<1>6. \A i \in 1 .. Len(addq) - 1 : i + 1 \in 1 .. Len(addq) /\ i + 1 # 1
  BY <1>1
<1>7. \A i, j \in DOMAIN addq' : addq'[i] = addq'[j] => i = j
  <2> SUFFICES ASSUME NEW i \in 1 .. Len(addq) - 1, NEW j \in 1 .. Len(addq) - 1,
                      addq'[i] = addq'[j]
               PROVE  i = j
    BY <1>3
  <2>1. i + 1 = j + 1
    BY <1>1, <1>2, <1>6 DEF Owners
  <2> QED  BY <2>1
<1>8. \A d \in Conns : (Queued(d))' <=> (Queued(d) /\ d # Head(addq))
  <2> SUFFICES ASSUME NEW d \in Conns
               PROVE  (Queued(d))' <=> (Queued(d) /\ d # Head(addq))
    OBVIOUS
  <2>1. ASSUME (Queued(d))'
        PROVE  Queued(d) /\ d # Head(addq)
    <3>1. PICK i \in 1 .. Len(addq) - 1 : addq'[i] = d
      BY <1>3, <2>1 DEF Queued
    <3>2. addq[i + 1] = d /\ i + 1 \in DOMAIN addq /\ i + 1 # 1
      BY <1>1, <1>2, <1>6, <3>1
    <3> QED  BY <1>2, <1>4, <3>2 DEF Queued, Owners
  <2>2. ASSUME Queued(d), d # Head(addq)
        PROVE  (Queued(d))'
    <3>1. PICK i \in 1 .. Len(addq) : addq[i] = d
      BY <1>1, <2>2 DEF Queued
    <3>2. i # 1
      BY <1>2, <2>2, <3>1
    <3>3. i - 1 \in 1 .. Len(addq) - 1 /\ (i - 1) + 1 = i
      BY <1>1, <3>2
    <3>4. addq'[i - 1] = d
      BY <1>2, <3>1, <3>3
    <3> QED  BY <1>3, <3>3, <3>4 DEF Queued
  <2> QED  BY <2>1, <2>2
<1> QED  BY <1>2, <1>5, <1>7, <1>8

\* ~WorldSession for a session with a socket: it is closed.
LEMMA DeleteFields ==
  ASSUME SessionInv, NEW c \in Conns, Live(ses[c]), Delete(c, ses[c])
  PROVE  /\ sock' \in [Conns -> SocketType] /\ ses' \in [Conns -> SessionType]
         /\ ses'[c].st = "deleted"
         /\ \A d \in Conns \ {c} : sock'[d] = sock[d] /\ ses'[d] = ses[d]
         /\ SoundConns'
<1> DEFINE k == sock[c]
           t == ses[c]
           m == Closed(k)
           u == Deleted(t)
<1>1. Sound(k, t) /\ k \in SocketType /\ t.sock /\ t.st # "none"
  BY DEF SessionInv, SoundConns, Sound, Linked, Live
<1>2. sock' = [sock EXCEPT ![c] = m] /\ ses' = [ses EXCEPT ![c] = u]
  BY <1>1 DEF Delete
<1>3. ~ m.open /\ Sound(m, t)
  BY <1>1, ClosedFields, ClosedSound
<1> HIDE DEF m
<1>4. Sound(m, u) /\ u.st = "deleted"
  <2> HIDE DEF t
  <2> QED  BY <1>1, <1>3, DeletedSound
<1> HIDE DEF u
<1>5. /\ sock' \in [Conns -> SocketType] /\ ses' \in [Conns -> SessionType]
      /\ sock'[c] = m /\ ses'[c] = u
      /\ \A d \in Conns \ {c} : sock'[d] = sock[d] /\ ses'[d] = ses[d]
      /\ SoundConns'
  BY <1>2, <1>4, OneConnection DEF SessionInv
<1> QED  BY <1>4, <1>5

LEMMA AddSession_Keeps ==
  ASSUME SessionInv, AddSession_
  PROVE  SessionInv'
<1> DEFINE c == Head(addq)
           a == account[c]
<1>0. faults = {} /\ pc = "adding" /\ addq # <<>> /\ addq' = Tail(addq)
      /\ UNCHANGED <<account, pc, todo, cur, n, faults>>
  BY DEF AddSession_, Running
<1>1. /\ cur = None /\ todo = {}
      /\ \A d \in Conns : Sound(sock[d], ses[d])
  BY <1>0, WorldFacts
<1>2. /\ addq' \in Seq(Conns) /\ c \in Conns /\ ses[c].st = "queued"
      /\ \A d \in Conns : (Queued(d))' <=> (Queued(d) /\ d # c)
      /\ \A i, j \in DOMAIN addq' : addq'[i] = addq'[j] => i = j
  BY <1>0, NextOfQueue DEF SessionInv
<1>3. a \in Accounts /\ sessions[a] # c
  BY <1>2 DEF SessionInv, SessionTypeOK, Owners
<1>4. NoNullPlayer' /\ NoStaleUse'
  BY <1>0, NoFaults
<1>5. Cursor'
  BY <1>0, <1>1 DEF Cursor
<1> HIDE DEF c
<1>6. CASE sessions[a] # None
  <2>1. Delete(c, ses[c]) /\ sessions' = sessions
    BY <1>6 DEF AddSession_, c
  <2>2. /\ sock' \in [Conns -> SocketType] /\ ses' \in [Conns -> SessionType]
        /\ ses'[c].st = "deleted"
        /\ \A d \in Conns \ {c} : sock'[d] = sock[d] /\ ses'[d] = ses[d]
        /\ SoundConns'
    BY <1>2, <2>1, DeleteFields DEF Live
  <2>3. SessionTypeOK'
    BY <1>0, <1>2, <2>1, <2>2 DEF SessionInv, SessionTypeOK
  <2>4. Owners'
    <3>1. \A d \in Conns : /\ (ses'[d].st = "queued") <=> (Queued(d))'
                           /\ (ses'[d].st = "active") <=> (sessions'[account'[d]] = d)
      BY <1>0, <1>2, <1>3, <2>1, <2>2 DEF SessionInv, Owners
    <3>2. \A b \in Accounts : sessions'[b] # None => account'[sessions'[b]] = b
      BY <1>0, <2>1 DEF SessionInv, Owners
    <3> QED  BY <1>2, <3>1, <3>2 DEF Owners
  <2>5. Timed'
    BY <1>0, <2>2 DEF SessionInv, Timed, Live
  <2> QED  BY <1>4, <1>5, <2>2, <2>3, <2>4, <2>5 DEF SessionInv
<1>7. CASE sessions[a] = None
  <2> DEFINE u == [ses[c] EXCEPT !.st = "active"]
  <2>1. ses' = [ses EXCEPT ![c] = u] /\ sock' = sock /\ sessions' = [sessions EXCEPT ![a] = c]
    BY <1>7 DEF AddSession_, c
  <2>2. sock' = [sock EXCEPT ![c] = sock[c]]
    BY <2>1 DEF SessionInv, SessionTypeOK
  <2>3. Sound(sock[c], u) /\ u.st = "active" /\ u.timer = ses[c].timer
    <3> DEFINE t == ses[c]
    <3>1. Sound(sock[c], t) /\ t.st = "queued"
      BY <1>1, <1>2
    <3> HIDE DEF t
    <3>2. LET v == [t EXCEPT !.st = "active"]
          IN  Sound(sock[c], v) /\ v.st = "active" /\ v.timer = t.timer
      BY <3>1, ActiveSound
    <3> QED  BY <3>2 DEF t
  <2> HIDE DEF u
  <2>4. /\ sock' \in [Conns -> SocketType] /\ ses' \in [Conns -> SessionType]
        /\ ses'[c] = u
        /\ \A d \in Conns \ {c} : ses'[d] = ses[d]
        /\ SoundConns'
    BY <1>2, <2>1, <2>2, <2>3, OneConnection DEF SessionInv
  <2>5. /\ sessions' \in [Accounts -> Conns \union {None}] /\ sessions'[a] = c
        /\ \A b \in Accounts \ {a} : sessions'[b] = sessions[b]
    BY <1>2, <1>3, <2>1 DEF SessionInv, SessionTypeOK
  <2>6. SessionTypeOK'
    BY <1>0, <1>2, <2>4, <2>5 DEF SessionInv, SessionTypeOK
  <2>7. Owners'
    <3>1. \A d \in Conns : (ses'[d].st = "queued") <=> (Queued(d))'
      BY <1>2, <2>3, <2>4 DEF SessionInv, Owners
    <3>2. \A d \in Conns : (ses'[d].st = "active") <=> (sessions'[account'[d]] = d)
      <4> SUFFICES ASSUME NEW d \in Conns \ {c}
                   PROVE  (ses'[d].st = "active") <=> (sessions'[account[d]] = d)
        BY <1>0, <2>3, <2>4, <2>5
      <4>1. ses'[d] = ses[d] /\ account[d] \in Accounts /\ d # None
        BY <2>4, SessionAssumption DEF SessionInv, SessionTypeOK
      <4>2. (ses[d].st = "active") <=> (sessions[account[d]] = d)
        BY DEF SessionInv, Owners
      <4> QED  BY <1>7, <2>5, <4>1, <4>2
    <3>3. \A b \in Accounts : sessions'[b] # None => account'[sessions'[b]] = b
      BY <1>0, <2>5 DEF SessionInv, Owners
    <3> QED  BY <1>2, <3>1, <3>2, <3>3 DEF Owners
  <2>8. Timed'
    BY <1>0, <1>2, <2>1, <2>3, <2>4 DEF SessionInv, Timed, Live
  <2> QED  BY <1>4, <1>5, <2>4, <2>6, <2>7, <2>8 DEF SessionInv
<1> QED  BY <1>6, <1>7

\* The world moves on, and no session changes: UpdateWorld, BeginSessions, SkipRooms, Stop.
LEMMA WorldMovesKeeps ==
  ASSUME SessionInv, faults = {}, SessionTypeOK', Cursor',
         UNCHANGED <<account, sock, ses, addq, sessions, cur, n, faults>>
  PROVE  SessionInv'
<1>1. SoundConns'
  BY DEF SessionInv, SoundConns
<1>2. Owners'
  BY DEF SessionInv, Owners, Queued
<1>3. Timed'
  BY DEF SessionInv, Timed
<1>4. NoNullPlayer' /\ NoStaleUse'
  BY NoFaults
<1> QED  BY <1>1, <1>2, <1>3, <1>4 DEF SessionInv

LEMMA MovesKeeps ==
  ASSUME SessionInv, UpdateWorld \/ BeginSessions \/ SkipRooms \/ Stop
  PROVE  SessionInv'
<1>1. UNCHANGED <<account, sock, ses, addq, sessions, cur, n, faults>> /\ faults = {}
  BY DEF UpdateWorld, BeginSessions, SkipRooms, SessionsDone, Stop, Running
<1>2. cur = None /\ (BeginSessions \/ todo = {})
  BY WorldFacts DEF UpdateWorld, BeginSessions, SkipRooms, SessionsDone, Stop
<1>3. \/ pc' = "sessions" /\ todo' = {a \in Accounts : sessions[a] # None}
      \/ pc' \in {"idle", "adding", "stopping"} /\ todo' = {}
  BY <1>2 DEF UpdateWorld, BeginSessions, SkipRooms, SessionsDone, Stop
<1>4. SessionTypeOK'
  BY <1>1, <1>3 DEF SessionInv, SessionTypeOK
<1>5. Cursor'
  BY <1>1, <1>2, <1>3 DEF Cursor
<1> QED  BY <1>1, <1>4, <1>5, WorldMovesKeeps

LEMMA BeginSessionKeeps ==
  ASSUME SessionInv, NEW a \in Accounts, BeginSession(a)
  PROVE  SessionInv'
<1> DEFINE c == sessions[a]
           k == sock[c]
           t == ses[c]
           x == t.timer - 1
           m == IF x <= 0 THEN Closed(k) ELSE k
           u == [t EXCEPT !.timer = x]
<1>1. /\ faults = {} /\ pc = "sessions" /\ cur = None /\ a \in todo
      /\ cur' = c /\ ses' = [ses EXCEPT ![c].timer = x]
      /\ sock' = (IF x <= 0 THEN [sock EXCEPT ![c] = Closed(@)] ELSE sock)
      /\ todo' = todo \ {a} /\ n' = 0
      /\ UNCHANGED <<account, addq, sessions, pc, faults>>
  BY DEF BeginSession, Running
<1>2. c # None /\ c \in Conns /\ account[c] = a /\ t.st = "active"
  BY <1>1 DEF SessionInv, SessionTypeOK, Cursor, Owners
<1>3. Sound(k, t) /\ k \in SocketType /\ t \in SessionType
  BY <1>2, WorldFacts
<1>4. x \in 0 .. TimeOut
  <2>1. t.timer \in 0 .. TimeOut
    BY <1>3, SessionFields
  <2>2. t.timer # 0
    BY <1>1, <1>2 DEF SessionInv, Timed, Live
  <2> QED  BY <2>1, <2>2, SessionAssumption
<1>5. sock' = [sock EXCEPT ![c] = m] /\ ses' = [ses EXCEPT ![c] = u]
  BY <1>1, <1>2 DEF SessionInv, SessionTypeOK
<1>6. Sound(k, u) /\ u.st = t.st /\ u.timer = x /\ u.done = t.done
  <2> HIDE DEF t, k, c, x
  <2> QED  BY <1>3, <1>4, TimerSound
<1>7. Sound(m, u) /\ (~ k.open => ~ m.open) /\ (x = 0 => ~ m.open)
  <2> HIDE DEF u
  <2>1. CASE x <= 0
    BY <1>3, <1>6, <2>1, ClosedFields, ClosedSound
  <2>2. CASE ~ (x <= 0)
    <3>1. x # 0 /\ m = k
      BY <1>4, <2>2
    <3> QED  BY <1>6, <3>1
  <2> QED  BY <2>1, <2>2
<1> HIDE DEF m, u, x
<1> HIDE DEF c
<1>9. /\ sock' \in [Conns -> SocketType] /\ ses' \in [Conns -> SessionType]
      /\ sock'[c] = m /\ ses'[c] = u
      /\ \A d \in Conns \ {c} : sock'[d] = sock[d] /\ ses'[d] = ses[d]
      /\ SoundConns'
  BY <1>2, <1>5, <1>7, OneConnection DEF SessionInv
<1>10. \A d \in Conns : ses'[d].st = ses[d].st /\ ses'[d].done = ses[d].done
  BY <1>6, <1>9
<1>11. SessionTypeOK'
  <2>1. 0 \in 0 .. MaxHandled + 1
    BY SessionAssumption
  <2> QED  BY <1>1, <1>2, <1>9, <2>1 DEF SessionInv, SessionTypeOK
<1>12. Owners'
  <2>1. \A d \in Conns : (Queued(d))' <=> Queued(d)
    BY <1>1 DEF Queued
  <2> QED  BY <1>1, <1>10, <2>1 DEF SessionInv, Owners
<1>13. Cursor'
  BY <1>1, <1>2, <1>10 DEF SessionInv, Cursor
<1>14. Timed'
  <2> SUFFICES ASSUME NEW d \in Conns, Live(ses'[d]), ses'[d].timer = 0
               PROVE  cur' = d /\ ~ sock'[d].open
    BY DEF Timed
  <2>1. CASE d = c
    BY <1>1, <1>6, <1>7, <1>9, <2>1
  <2>2. CASE d # c
    BY <1>1, <1>9, <2>2, SessionAssumption DEF SessionInv, Timed
  <2> QED  BY <2>1, <2>2
<1>15. NoNullPlayer' /\ NoStaleUse'
  BY <1>1, NoFaults
<1> QED  BY <1>9, <1>11, <1>12, <1>13, <1>14, <1>15 DEF SessionInv

\* The world handles a packet of the session c, which stays where it is.
LEMMA HandledKeeps ==
  ASSUME SessionInv, NEW c \in Conns, NEW m, NEW u, cur = c, n <= MaxHandled,
         n' = n + 1, UNCHANGED <<account, addq, sessions, pc, todo, cur>>,
         sock' = [sock EXCEPT ![c] = m], ses' = [ses EXCEPT ![c] = u], Sound(m, u),
         u.st = ses[c].st, u.timer = ses[c].timer, u.done > 0, m.open = sock[c].open,
         faults' = {} \/ (faults' = {<<"null", c>>} /\ ~ m.kept)
  PROVE  SessionInv'
<1>1. /\ sock' \in [Conns -> SocketType] /\ ses' \in [Conns -> SessionType]
      /\ sock'[c] = m /\ ses'[c] = u
      /\ \A d \in Conns \ {c} : sock'[d] = sock[d] /\ ses'[d] = ses[d]
      /\ SoundConns'
  BY OneConnection DEF SessionInv
<1>2. \A d \in Conns : /\ ses'[d].st = ses[d].st /\ ses'[d].timer = ses[d].timer
                       /\ sock'[d].open = sock[d].open
  BY <1>1
<1>3. SessionTypeOK'
  <2>1. n + 1 \in 0 .. MaxHandled + 1
    <3>1. MaxHandled \in Nat
      BY SessionAssumption
    <3>2. n \in 0 .. MaxHandled + 1
      BY DEF SessionInv, SessionTypeOK
    <3> QED  BY <3>1, <3>2
  <2>2. faults' \subseteq {"stale", "null"} \X Conns
    OBVIOUS
  <2> QED  BY <1>1, <2>1, <2>2 DEF SessionInv, SessionTypeOK
<1>4. Owners'
  <2>1. \A d \in Conns : (Queued(d))' <=> Queued(d)
    BY DEF Queued
  <2> QED  BY <1>2, <2>1 DEF SessionInv, Owners
<1>5. Cursor'
  BY <1>1, <1>2 DEF SessionInv, Cursor
<1>6. Timed'
  BY <1>2 DEF SessionInv, Timed, Live
<1>7. NoNullPlayer' /\ NoStaleUse'
  BY <1>1 DEF NoNullPlayer, NoStaleUse
<1> QED  BY <1>1, <1>3, <1>4, <1>5, <1>6, <1>7 DEF SessionInv

LEMMA HandlePacketKeeps ==
  ASSUME SessionInv, HandlePacket
  PROVE  SessionInv'
<1> DEFINE c == cur
           k == sock[c]
           t == ses[c]
           op == Head(t.q).op
           s == TakePacket(t)
           x == IF op = "login" THEN "in"
                ELSE IF t.player = "none" THEN "none"
                ELSE IF op = "logout" THEN "leaving" ELSE "in"
           u == [s EXCEPT !.player = x]
           m == IF op = "login" THEN [k EXCEPT !.told = @ \/ k.open] ELSE k
<1>1. /\ cur # None /\ Handling(c) /\ n' = n + 1 /\ faults = {}
      /\ CASE op = "login" -> HandlePlayerLogin(c, s) [] OTHER -> HandleGamePacket(c, s, op)
      /\ faults' = IF op # "login" /\ s.player = "none" THEN {<<"null", c>>} ELSE faults
      /\ UNCHANGED <<account, addq, sessions, pc, todo, cur>>
  BY DEF HandlePacket, TakePacket, Running
<1>2. c \in Conns /\ t.st = "active"
  BY <1>1 DEF SessionInv, SessionTypeOK, Cursor
<1>3. Sound(k, t) /\ k \in SocketType /\ t.q # <<>> /\ n <= MaxHandled
      /\ t.player \in {"none", "in", "leaving"}
  BY <1>1, <1>2, WorldFacts, SessionFields DEF Handling
<1>4. /\ s \in SessionType /\ s.st = t.st /\ s.timer = t.timer /\ s.done > 0
      /\ s.player = t.player
      /\ Ordered(s) /\ Linked(k, s) /\ Sent(k, s)
      /\ op # "login" /\ k.kept => t.player = "in"
      /\ op = "logout" /\ k.kept => LoggedOut(k, s)
  <2> HIDE DEF t, k
  <2> QED  BY <1>2, <1>3, TakePacketSound
<1> HIDE DEF s
<1>5. x \in {"none", "in", "leaving"} /\ (k.kept /\ x # "in" => LoggedOut(k, s))
  BY <1>4
<1>6. m \in SocketType /\ Alike(m, k) /\ m.open = k.open /\ m.half = k.half
      /\ m.read = k.read
  <2>1. k.told \/ k.open \in BOOLEAN
    BY <1>3, SocketFields
  <2>2. [k EXCEPT !.told = @ \/ k.open] \in SocketType
    BY <1>3, <2>1, SocketExcept
  <2> QED  BY <1>3, <2>2 DEF SocketType, Alike
<1>7. sock' = [sock EXCEPT ![c] = m] /\ ses' = [ses EXCEPT ![c] = u]
  <2>1. sock \in [Conns -> SocketType]
    BY DEF SessionInv, SessionTypeOK
  <2>2. CASE op = "login"
    BY <1>1, <1>2, <2>1, <2>2 DEF HandlePlayerLogin
  <2>3. CASE op # "login"
    <3>1. HandleGamePacket(c, s, op)
      BY <1>1, <2>3
    <3>2. sock' = sock /\ m = k
      BY <2>3, <3>1 DEF HandleGamePacket
    <3>3. sock' = [sock EXCEPT ![c] = m]
      BY <2>1, <3>2
    <3>4. ses' = [ses EXCEPT ![c] = u]
      BY <1>4, <2>3, <3>1 DEF HandleGamePacket
    <3> QED  BY <3>3, <3>4
  <2> QED  BY <2>2, <2>3
<1>8. faults' = {} \/ (faults' = {<<"null", c>>} /\ ~ m.kept)
  BY <1>1, <1>4, <1>6 DEF Alike
<1>9. k.open = sock[c].open /\ s.st = ses[c].st /\ s.timer = ses[c].timer
  BY <1>4
<1>10. Sound(m, u) /\ u.st = s.st /\ u.timer = s.timer /\ u.done = s.done
  <2> HIDE DEF k, t, op, x
  <2>1. Sound(k, u) /\ u.st = s.st /\ u.timer = s.timer /\ u.done = s.done
    BY <1>2, <1>3, <1>4, <1>5, HandledSound
  <2> HIDE DEF m, u
  <2>2. Sound(m, u)
    BY <1>6, <2>1, QuieterSound
  <2> QED  BY <2>1, <2>2
<1> HIDE DEF m, u, k, t, op
<1> QED  BY <1>1, <1>2, <1>3, <1>4, <1>6, <1>7, <1>8, <1>9, <1>10, HandledKeeps

LEMMA EndSessionKeeps ==
  ASSUME SessionInv, EndSession
  PROVE  SessionInv'
<1> DEFINE c == cur
           a == account[c]
           k == sock[c]
           t == ses[c]
<1>1. /\ faults = {} /\ cur # None /\ ~ Handling(c) /\ cur' = None /\ n' = 0
      /\ UNCHANGED <<account, addq, pc, todo, faults>>
  BY DEF EndSession, Running
<1>2. /\ c \in Conns /\ t.st = "active" /\ Live(t) /\ a \in Accounts /\ pc = "sessions"
      /\ sessions[a] = c
  BY <1>1 DEF SessionInv, SessionTypeOK, Cursor, Owners, Live
<1>3. Sound(k, t) /\ k \in SocketType /\ t \in SessionType
  BY <1>2, WorldFacts
<1>4. t.done > 0
  <2>1. n > 0 => t.done > 0
    BY <1>1 DEF SessionInv, Cursor
  <2>2. t.q = <<>> \/ ~ (n <= MaxHandled)
    BY <1>1, <1>2, <1>3 DEF Handling, Sound, Linked
  <2>3. CASE t.q = <<>>
    <3>1. Len(t.q) = 0
      BY <2>3
    <3>2. t.got > 0 /\ Len(t.q) = t.got - t.done /\ t.got \in Nat /\ t.done \in Nat
      BY <1>2, <1>3, SessionFields DEF Sound, Ordered
    <3> QED  BY <3>1, <3>2
  <2>4. CASE ~ (n <= MaxHandled)
    <3>1. MaxHandled \in Nat
      BY SessionAssumption
    <3>2. n \in 0 .. MaxHandled + 1
      BY DEF SessionInv, SessionTypeOK
    <3>3. n > 0
      BY <2>4, <3>1, <3>2
    <3> QED  BY <2>1, <3>3
  <2> QED  BY <2>2, <2>3, <2>4
<1>5. 0 \in 0 .. MaxHandled + 1
  BY SessionAssumption
<1>6. NoNullPlayer' /\ NoStaleUse'
  BY <1>1, NoFaults
<1>7. CASE k.open /\ t.player # "none"
  <2>1. UNCHANGED <<sock, ses, sessions>>
    BY <1>7 DEF EndSession
  <2>2. SessionTypeOK' /\ Cursor'
    BY <1>1, <1>2, <1>5, <2>1 DEF SessionInv, SessionTypeOK, Cursor
  <2>3. SoundConns'
    BY <2>1 DEF SessionInv, SoundConns
  <2>4. Owners'
    BY <1>1, <2>1 DEF SessionInv, Owners, Queued
  <2>5. Timed'
    BY <1>7, <2>1 DEF SessionInv, Timed
  <2> QED  BY <1>6, <2>2, <2>3, <2>4, <2>5 DEF SessionInv
<1>8. CASE ~ (k.open /\ t.player # "none")
  <2> DEFINE s == [t EXCEPT !.sock = FALSE]
             u == Deleted(t)
  <2>1. Delete(c, s) /\ sessions' = [sessions EXCEPT ![a] = None]
    BY <1>8 DEF EndSession
  <2>2. ~ s.sock /\ Deleted(s) = u
    BY <1>3 DEF Deleted, SessionType
  <2> HIDE DEF s
  <2>3. ses' = [ses EXCEPT ![c] = u] /\ sock' = sock
    BY <2>1, <2>2 DEF Delete
  <2>4. sock' = [sock EXCEPT ![c] = k]
    BY <2>3 DEF SessionInv, SessionTypeOK
  <2>5. k.open /\ k.kept => k.left /\ k.read \notin Ops
    BY <1>2, <1>3, <1>4, <1>8 DEF Sound, HasPlayer, LoggedOut
  <2>6. Sound(k, u) /\ u.st = "deleted"
    <3>1. u = Deleted(t) /\ t.st # "none"
      BY <1>2
    <3> HIDE DEF t, k
    <3> QED  BY <1>3, <2>5, <3>1, DeletedSound
  <2> HIDE DEF u
  <2>7. /\ sock' \in [Conns -> SocketType] /\ ses' \in [Conns -> SessionType]
        /\ ses'[c] = u
        /\ \A d \in Conns \ {c} : ses'[d] = ses[d]
        /\ SoundConns'
    BY <1>2, <2>3, <2>4, <2>6, OneConnection DEF SessionInv
  <2>8. /\ sessions' \in [Accounts -> Conns \union {None}] /\ sessions'[a] = None
        /\ \A b \in Accounts \ {a} : sessions'[b] = sessions[b]
    BY <1>2, <2>1 DEF SessionInv, SessionTypeOK
  <2>9. SessionTypeOK'
    BY <1>1, <1>5, <2>7, <2>8 DEF SessionInv, SessionTypeOK
  <2>10. Owners'
    <3>1. \A d \in Conns : (ses'[d].st = "queued") <=> (Queued(d))'
      <4>1. \A d \in Conns : (Queued(d))' <=> Queued(d)
        BY <1>1 DEF Queued
      <4> QED  BY <1>2, <2>6, <2>7, <4>1 DEF SessionInv, Owners
    <3>2. \A d \in Conns : (ses'[d].st = "active") <=> (sessions'[account'[d]] = d)
      <4> SUFFICES ASSUME NEW d \in Conns
                   PROVE  (ses'[d].st = "active") <=> (sessions'[account[d]] = d)
        BY <1>1
      <4>1. d # None /\ account[d] \in Accounts /\ ((ses[d].st = "active") <=> (sessions[account[d]] = d))
        BY SessionAssumption DEF SessionInv, SessionTypeOK, Owners
      <4>2. CASE account[d] = a
        BY <1>2, <2>6, <2>7, <2>8, <4>1, <4>2
      <4>3. CASE account[d] # a
        BY <2>7, <2>8, <4>1, <4>3
      <4> QED  BY <4>2, <4>3
    <3>3. \A b \in Accounts : sessions'[b] # None => account'[sessions'[b]] = b
      BY <1>1, <2>8 DEF SessionInv, Owners
    <3>4. \A i, j \in DOMAIN addq' : addq'[i] = addq'[j] => i = j
      BY <1>1 DEF SessionInv, Owners
    <3> QED  BY <3>1, <3>2, <3>3, <3>4 DEF Owners
  <2>11. Cursor'
    <3>1. \A b \in todo : b # a /\ b \in Accounts
      BY <1>1 DEF SessionInv, SessionTypeOK, Cursor
    <3> QED  BY <1>1, <2>8, <3>1 DEF SessionInv, Cursor
  <2>12. Timed'
    <3> SUFFICES ASSUME NEW d \in Conns, Live(ses'[d]), ses'[d].timer = 0
                 PROVE  FALSE
      BY DEF Timed
    <3>1. d # c
      BY <2>6, <2>7 DEF Live
    <3>2. ses'[d] = ses[d]
      BY <2>7, <3>1
    <3> QED  BY <3>1, <3>2 DEF SessionInv, Timed
  <2> QED  BY <1>6, <2>7, <2>9, <2>10, <2>11, <2>12 DEF SessionInv
<1> QED  BY <1>7, <1>8

\* Players that log out let go of their sessions, which wait for nothing any more.
LEMMA LeavingSound ==
  ASSUME NEW k, NEW t, Sound(k, t),
         NEW u, u = [t EXCEPT !.player = IF t.player = "leaving" THEN "none" ELSE t.player]
  PROVE  Sound(k, u) /\ u.st = t.st /\ u.timer = t.timer /\ u.done = t.done
<1> DEFINE x == IF t.player = "leaving" THEN "none" ELSE t.player
<1>1. t \in SessionType /\ x \in {"none", "in", "leaving"}
  BY SessionFields DEF Sound
<1>2. (x = "in" <=> t.player = "in") /\ (x # "none" => t.player # "none")
  OBVIOUS
<1>3. u = [t EXCEPT !.player = x]
  OBVIOUS
<1> HIDE DEF x
<1>4. /\ u \in SessionType /\ u.player = x
      /\ u.st = t.st /\ u.sock = t.sock /\ u.timer = t.timer /\ u.q = t.q
      /\ u.got = t.got /\ u.done = t.done
  <2> DEFINE v == [t EXCEPT !.player = x]
  <2>1. /\ v \in SessionType /\ v.player = x
        /\ v.st = t.st /\ v.sock = t.sock /\ v.timer = t.timer /\ v.q = t.q
        /\ v.got = t.got /\ v.done = t.done
    BY <1>1, PlayerFields
  <2>2. u = v
    BY <1>3
  <2> QED  BY <2>1, <2>2
<1>5. Linked(k, u) /\ Sent(k, u)
  BY <1>4 DEF Sound, Linked, Sent, Live
<1>6. Ordered(u)
  BY <1>2, <1>4 DEF Sound, Ordered, Live
<1>7. HasPlayer(k, u) /\ Gone(k, u)
  BY <1>2, <1>4 DEF Sound, HasPlayer, LoggedOut, Gone, Live
<1> QED  BY <1>4, <1>5, <1>6, <1>7 DEF Sound

LEMMA UpdateRoomsKeeps ==
  ASSUME SessionInv, UpdateRooms
  PROVE  SessionInv'
<1> DEFINE u(c) == [ses[c] EXCEPT !.player = IF ses[c].player = "leaving" THEN "none"
                                               ELSE ses[c].player]
<1>1. /\ faults = {} /\ cur = None /\ todo = {} /\ pc' = "idle"
      /\ ses' = [c \in Conns |-> u(c)]
      /\ UNCHANGED <<account, sock, addq, sessions, todo, cur, n, faults>>
  BY DEF UpdateRooms, SessionsDone, Running
<1>2. \A c \in Conns : Sound(sock[c], ses[c])
  BY WorldFacts
<1>3. \A c \in Conns : /\ Sound(sock[c], ses'[c]) /\ ses'[c].st = ses[c].st
                       /\ ses'[c].timer = ses[c].timer /\ ses'[c].done = ses[c].done
  <2> TAKE c \in Conns
  <2> DEFINE t == ses[c]
             w == u(c)
             k == sock[c]
  <2>1. ses'[c] = w
    BY <1>1
  <2>2. Sound(k, t)
    BY <1>2
  <2>3. w = [t EXCEPT !.player = IF t.player = "leaving" THEN "none" ELSE t.player]
    OBVIOUS
  <2> HIDE DEF w, t, k
  <2>4. Sound(k, w) /\ w.st = t.st /\ w.timer = t.timer /\ w.done = t.done
    BY <2>2, <2>3, LeavingSound
  <2> QED  BY <2>1, <2>4 DEF t, k
<1> HIDE DEF u
<1>4. ses' \in [Conns -> SessionType]
  <2>1. \A c \in Conns : ses'[c] \in SessionType
    BY <1>3 DEF Sound
  <2>2. ses' = [c \in Conns |-> ses'[c]]
    BY <1>1
  <2> QED  BY <2>1, <2>2
<1>5. SessionTypeOK'
  BY <1>1, <1>4 DEF SessionInv, SessionTypeOK
<1>6. SoundConns'
  BY <1>1, <1>3 DEF SoundConns
<1>7. Owners'
  <2>1. \A d \in Conns : (Queued(d))' <=> Queued(d)
    BY <1>1 DEF Queued
  <2> QED  BY <1>1, <1>3, <2>1 DEF SessionInv, Owners
<1>8. Cursor'
  BY <1>1 DEF Cursor
<1>9. Timed'
  BY <1>1, <1>3 DEF SessionInv, Timed, Live
<1>10. NoNullPlayer' /\ NoStaleUse'
  BY <1>1, NoFaults
<1> QED  BY <1>5, <1>6, <1>7, <1>8, <1>9, <1>10 DEF SessionInv

LEMMA DeleteSessionKeeps ==
  ASSUME SessionInv, NEW a \in Accounts, DeleteSession(a)
  PROVE  SessionInv'
<1> DEFINE c == sessions[a]
<1>1. /\ pc = "stopping" /\ faults = {} /\ c # None /\ Delete(c, ses[c])
      /\ sessions' = [sessions EXCEPT ![a] = None]
      /\ UNCHANGED <<account, addq, pc, todo, cur, n, faults>>
  BY DEF DeleteSession
<1>2. c \in Conns /\ account[c] = a /\ ses[c].st = "active" /\ cur = None /\ todo = {}
  BY <1>1 DEF SessionInv, SessionTypeOK, Owners, Cursor
<1>3. /\ sessions' \in [Accounts -> Conns \union {None}] /\ sessions'[a] = None
      /\ \A b \in Accounts \ {a} : sessions'[b] = sessions[b]
  BY <1>1 DEF SessionInv, SessionTypeOK
<1>4. sessions[a] = c
  OBVIOUS
<1> HIDE DEF c
<1>5. /\ sock' \in [Conns -> SocketType] /\ ses' \in [Conns -> SessionType]
      /\ ses'[c].st = "deleted"
      /\ \A d \in Conns \ {c} : sock'[d] = sock[d] /\ ses'[d] = ses[d]
      /\ SoundConns'
  BY <1>1, <1>2, DeleteFields DEF Live
<1>6. SessionTypeOK'
  BY <1>1, <1>3, <1>5 DEF SessionInv, SessionTypeOK
<1>7. Owners'
  <2>1. \A d \in Conns : (ses'[d].st = "queued") <=> (Queued(d))'
    <3>1. \A d \in Conns : (Queued(d))' <=> Queued(d)
      BY <1>1 DEF Queued
    <3> QED  BY <1>2, <1>5, <3>1 DEF SessionInv, Owners
  <2>2. \A d \in Conns : (ses'[d].st = "active") <=> (sessions'[account'[d]] = d)
    <3> SUFFICES ASSUME NEW d \in Conns
                 PROVE  (ses'[d].st = "active") <=> (sessions'[account[d]] = d)
      BY <1>1
    <3>1. d # None /\ account[d] \in Accounts
          /\ ((ses[d].st = "active") <=> (sessions[account[d]] = d))
      BY SessionAssumption DEF SessionInv, SessionTypeOK, Owners
    <3>2. CASE account[d] = a
      BY <1>2, <1>3, <1>4, <1>5, <3>1, <3>2
    <3>3. CASE account[d] # a
      BY <1>2, <1>3, <1>5, <3>1, <3>3
    <3> QED  BY <3>2, <3>3
  <2>3. \A b \in Accounts : sessions'[b] # None => account'[sessions'[b]] = b
    BY <1>1, <1>3 DEF SessionInv, Owners
  <2>4. \A i, j \in DOMAIN addq' : addq'[i] = addq'[j] => i = j
    BY <1>1 DEF SessionInv, Owners
  <2> QED  BY <2>1, <2>2, <2>3, <2>4 DEF Owners
<1>8. Cursor'
  BY <1>1, <1>2 DEF Cursor
<1>9. Timed'
  BY <1>1, <1>5 DEF SessionInv, Timed, Live
<1>10. NoNullPlayer' /\ NoStaleUse'
  BY <1>1, NoFaults
<1> QED  BY <1>5, <1>6, <1>7, <1>8, <1>9, <1>10 DEF SessionInv

-----------------------------------------------------------------------------
(* The theorems.                                                           *)

LEMMA InitSound == SessionInit => SessionInv
<1> SUFFICES ASSUME SessionInit
             PROVE  SessionInv
  OBVIOUS
<1>1. 0 \in 0 .. Logins /\ 0 \in 0 .. MaxGame /\ 0 \in 0 .. TimeOut /\ 0 \in 0 .. MaxHandled + 1
  BY SessionAssumption
<1>2. sock \in [Conns -> SocketType]
  BY <1>1 DEF SessionInit, SocketType
<1>3. <<>> \in Seq(PacketType) /\ <<>> \in Seq(Conns)
  OBVIOUS
<1>4. ses \in [Conns -> SessionType]
  BY <1>1, <1>3 DEF SessionInit, SessionType
<1>5. SessionTypeOK
  BY <1>1, <1>2, <1>3, <1>4 DEF SessionInit, SessionTypeOK
<1>6. \A c \in Conns :
        /\ ses[c].st = "none" /\ ses[c].q = <<>> /\ ses[c].got = 0 /\ ses[c].done = 0
        /\ ses[c].player = "none"
        /\ ~ sock[c].session /\ sock[c].read = "header" /\ ~ sock[c].half
        /\ sock[c].logins = 0 /\ ~ sock[c].left
  BY DEF SessionInit
<1>7. addq = <<>> /\ (\A a \in Accounts : sessions[a] = None)
      /\ cur = None /\ todo = {} /\ account \in [Conns -> Accounts] /\ faults = {}
  BY DEF SessionInit
<1>8. Owners
  <2>1. DOMAIN addq = {}
    <3>1. addq \in Seq(Conns) /\ Len(addq) = 0
      BY <1>5, <1>7, EmptySeq DEF SessionTypeOK
    <3> QED  BY <3>1, LenProperties
  <2>2. \A c \in Conns : ~ Queued(c) /\ account[c] \in Accounts /\ c # None
    BY <1>7, <2>1, SessionAssumption DEF Queued
  <2> QED  BY <1>6, <1>7, <2>1, <2>2 DEF Owners
<1>9. Cursor /\ Timed
  BY <1>6, <1>7, SessionAssumption DEF Cursor, Timed, Live
<1>10. SoundConns
  <2> SUFFICES ASSUME NEW c \in Conns
               PROVE  Sound(sock[c], ses[c])
    BY DEF SoundConns
  <2>1. sock[c] \in SocketType /\ ses[c] \in SessionType
    BY <1>2, <1>4
  <2>2. Linked(sock[c], ses[c]) /\ Ordered(ses[c]) /\ Sent(sock[c], ses[c])
    BY <1>6 DEF Linked, Ordered, Sent, Live, Ops
  <2>3. HasPlayer(sock[c], ses[c]) /\ Gone(sock[c], ses[c])
    BY <1>6 DEF HasPlayer, Gone, Live
  <2> QED  BY <2>1, <2>2, <2>3 DEF Sound
<1> QED  BY <1>5, <1>7, <1>8, <1>9, <1>10 DEF SessionInv, NoNullPlayer, NoStaleUse

LEMMA StepKeeps == SessionInv /\ [SessionNext]_sessionVars => SessionInv'
<1> SUFFICES ASSUME SessionInv, [SessionNext]_sessionVars
             PROVE  SessionInv'
  OBVIOUS
<1>1. ASSUME NEW c \in Conns, Io(c)
      PROVE  SessionInv'
  BY <1>1, ReadHeaderKeeps, ConnectionLostKeeps, ReadLoginKeeps, ReadPingKeeps,
     ReadGamePacketKeeps, QueueGamePacketKeeps DEF Io, ReadBody
<1>2. CASE UpdateWorld \/ BeginSessions \/ SkipRooms \/ Stop
  BY <1>2, MovesKeeps
<1>3. CASE AddSession_ \/ HandlePacket \/ EndSession \/ UpdateRooms
  BY <1>3, AddSession_Keeps, HandlePacketKeeps, EndSessionKeeps, UpdateRoomsKeeps
<1>4. ASSUME NEW a \in Accounts, BeginSession(a) \/ DeleteSession(a)
      PROVE  SessionInv'
  BY <1>4, BeginSessionKeeps, DeleteSessionKeeps
<1>5. CASE UNCHANGED sessionVars
  <2>1. UNCHANGED <<account, sock, ses, addq, sessions, pc, todo, cur, n, faults>>
    BY <1>5 DEF sessionVars
  <2>2. SessionTypeOK' /\ Cursor'
    BY <2>1 DEF SessionInv, SessionTypeOK, Cursor
  <2>3. SoundConns'
    BY <2>1 DEF SessionInv, SoundConns
  <2>4. Owners'
    BY <2>1 DEF SessionInv, Owners, Queued
  <2>5. Timed'
    BY <2>1 DEF SessionInv, Timed
  <2>6. NoNullPlayer' /\ NoStaleUse'
    BY <2>1 DEF SessionInv, NoNullPlayer, NoStaleUse
  <2> QED  BY <2>2, <2>3, <2>4, <2>5, <2>6 DEF SessionInv
<1> QED  BY <1>1, <1>2, <1>3, <1>4, <1>5 DEF SessionNext, World

\* The invariant holds in every state.
LEMMA SessionInvariant == SessionSpec => []SessionInv
<1>1. SessionInit => SessionInv
  BY InitSound
<1>2. SessionInv /\ [SessionNext]_sessionVars => SessionInv'
  BY StepKeeps
<1> QED  BY <1>1, <1>2, PTL DEF SessionSpec

\* The variables of Session have their types, for every number of connections.
THEOREM SessionTypesCorrect == SessionSpec => []SessionTypeOK
<1>1. SessionInv => SessionTypeOK
  BY DEF SessionInv
<1> QED  BY <1>1, SessionInvariant, PTL

\* World.cpp:42-59, 129-151: a session that is not deleted waits in addSessQueue once or
\* is the one of its account in m_sessions, and at most one connection of an account moves
\* a player, however often it logs in.
THEOREM SessionsSound == SessionSpec => []SessionsAreSound
<1>1. SessionInv => SessionsAreSound
  <2> SUFFICES ASSUME SessionInv
               PROVE  SessionsAreSound
    OBVIOUS
  <2>1. SessionsOwned
    <3> SUFFICES ASSUME NEW c \in Conns
                 PROVE  Cardinality({i \in DOMAIN addq : addq[i] = c}) =
                          IF ses[c].st = "queued" THEN 1 ELSE 0
      BY DEF SessionsOwned, SessionInv, Owners
    <3>1. CASE ses[c].st = "queued"
      <4>1. PICK i \in DOMAIN addq : addq[i] = c
        BY <3>1 DEF SessionInv, Owners, Queued
      <4>2. {j \in DOMAIN addq : addq[j] = c} = {i}
        BY <4>1 DEF SessionInv, Owners
      <4> QED  BY <3>1, <4>2, FS_Singleton
    <3>2. CASE ses[c].st # "queued"
      <4>1. {j \in DOMAIN addq : addq[j] = c} = {}
        BY <3>2 DEF SessionInv, Owners, Queued
      <4> QED  BY <3>2, <4>1, FS_EmptySet
    <3> QED  BY <3>1, <3>2
  <2>2. OneLinked
    <3> SUFFICES ASSUME NEW c \in Conns, NEW d \in Conns, account[c] = account[d],
                        ses[c].player # "none", ses[d].player # "none"
                 PROVE  c = d
      BY DEF OneLinked
    <3>1. ses[c].st = "active" /\ ses[d].st = "active"
      BY DEF SessionInv, SoundConns, Sound, Ordered
    <3> QED  BY <3>1 DEF SessionInv, Owners
  <2> QED  BY <2>1, <2>2 DEF SessionsAreSound
<1> QED  BY <1>1, SessionInvariant, PTL

\* LockedQueue.h:51-72, WorldSession.cpp:223-260, WorldSocket.cpp:63-87: packets are handled
\* once and in order; a session that has been deleted is followed only for a socket that
\* has been closed, or for a client that went on after CMSG_LOG_OUT; and a null pointer
\* only for a client that did so, or that pinged before its first login.
THEOREM PacketsHandled == SessionSpec => []PacketsAreHandled
<1>1. SessionInv => PacketsAreHandled
  <2> SUFFICES ASSUME SessionInv
               PROVE  PacketsAreHandled
    OBVIOUS
  <2>1. HandledInOrder
    BY DEF HandledInOrder, SessionInv, SoundConns, Sound, Ordered, Live, Alive
  <2> QED  BY <2>1 DEF PacketsAreHandled, SessionInv
<1> QED  BY <1>1, SessionInvariant, PTL

=============================================================================
