------------------------------ MODULE Session ------------------------------
(***************************************************************************)
(* The life of a session: the io thread creates it when CMSG_PLAYER_LOGIN  *)
(* is read from a connection and fills its packet queue; the world thread  *)
(* takes it over, handles its packets, times it out and deletes it.        *)
(*                                                                         *)
(* The two threads share addSessQueue and the packet queues (LockedQueue,  *)
(* so each add and next is one step) and, without a lock, the pointer      *)
(* WorldSocket::_worldSession: each statement that follows it is one step, *)
(* before and after which the world thread may do anything.  A connection  *)
(* creates at most one session, which is named like its connection.  Of a  *)
(* player, only the session's link to it is kept (Room.tla is the whole of *)
(* a room), and a body is as long as its handler reads (Framing.tla is     *)
(* about those that are not).                                              *)
(***************************************************************************)
EXTENDS Integers, Sequences, FiniteSets

CONSTANTS Conns,      \* connections, and their WorldSockets
          Accounts,   \* the accounts
          TimeOut,    \* CONFIG_SOCKET_TIMEOUTTIME, in world updates
          MaxHandled, \* MAX_PROCESSED_PACKETS_IN_SAME_WORLDSESSION_UPDATE
          MaxGame,    \* a bound: the packets of the game that a client sends
          Logins,     \* a bound: the logins it sends, until one is answered
          CanStop,    \* whether the server may be shut down
          None

ASSUME SessionAssumption ==
  /\ None \notin Conns
  /\ TimeOut \in Nat \ {0} /\ {MaxHandled, MaxGame, Logins} \subseteq Nat
  /\ CanStop \in BOOLEAN

VARIABLES
  account,  \* the account each connection logs in with
  sock,     \* the WorldSockets, what they are reading, and their clients
  ses,      \* the WorldSessions
  addq,     \* World::addSessQueue
  sessions, \* World::m_sessions
  pc,       \* what World::Update is doing
  todo,     \* the accounts the loop of UpdateSessions has not come to
  cur,      \* the session in Update, or None
  n,        \* processedPackets
  faults    \* what was followed by whom: a deleted session, "stale", or "null"

sessionVars == <<account, sock, ses, addq, sessions, pc, todo, cur, n, faults>>
world == <<account, addq, sessions, pc, todo, cur, n>>

Ops == {"login", "ping", "game", "logout"}

SessionInit ==
  /\ account \in [Conns -> Accounts]
  /\ sock = [c \in Conns |-> [open |-> TRUE, read |-> "header", session |-> FALSE,
                              half |-> FALSE, logins |-> 0, games |-> 0, left |-> FALSE,
                              kept |-> TRUE, told |-> FALSE, gone |-> FALSE]]
  /\ ses = [c \in Conns |-> [st |-> "none", sock |-> FALSE, timer |-> 0, q |-> <<>>,
                             got |-> 0, done |-> 0, player |-> "none"]]
  /\ addq = <<>> /\ sessions = [a \in Accounts |-> None]
  /\ pc = "idle" /\ todo = {} /\ cur = None /\ n = 0 /\ faults = {}

Alive(c) == ses[c].st \in {"queued", "active"}

------------------------------------------------------------------------------
(* The io thread and the clients.                                          *)

\* The io threads have been joined before the World is destroyed.
Running == pc # "stopping" /\ faults = {}

\* What a client may send next: anything, within the bounds.
MaySend(c, op) ==
  /\ ~ sock[c].gone
  /\ CASE op = "login" -> sock[c].logins < Logins
       [] op = "game" -> sock[c].games < MaxGame
       [] op = "logout" -> ~ sock[c].left
       [] OTHER -> TRUE

\* One more has been sent; the client is kept no more to what the game asks of it, if
\* it is a ping before any login, or comes after CMSG_LOG_OUT.
Sending(s, op) ==
  [s EXCEPT !.logins = IF op = "login" THEN @ + 1 ELSE @,
            !.games = IF op = "game" THEN @ + 1 ELSE @,
            !.left = @ \/ op = "logout",
            !.kept = @ /\ ~ s.left /\ (op = "ping" => s.logins > 0)]

\* Socket::CloseSocket: only the sending side is shut down, a read goes on.
Closed(s) == [s EXCEPT !.open = FALSE]

\* AsyncReadHeader, AsyncReadData: nothing more is read once the socket is closed.
ReadNext(s, what) == [s EXCEPT !.read = IF s.open THEN what ELSE "nothing"]

\* A header has been read: ReadHeaderHandler asks for the body.
ReadHeader(c, op) ==
  /\ Running
  /\ sock[c].read = "header" /\ MaySend(c, op)
  /\ sock' = [sock EXCEPT ![c] = ReadNext(Sending(@, op), op)]
  /\ UNCHANGED <<ses, faults, world>>

\* Mutant: the packet is put at the front of the queue.
QueuePacket_Front(s, op) ==
  [s EXCEPT !.q = <<[op |-> op, id |-> s.got + 1]>> \o @, !.got = @ + 1]

\* WorldSession::QueuePacket, with the number of the packet in its connection.
QueuePacket(s, op) == [s EXCEPT !.q = Append(@, [op |-> op, id |-> s.got + 1]), !.got = @ + 1]

\* WorldSession::ResetTimeOutTime
ResetTimeOutTime(s) == [s EXCEPT !.timer = TimeOut]

\* WorldSocket::AddSession: the login is queued before the world sees the session.
AddSession(c) ==
  /\ ses' = [ses EXCEPT ![c] =
               QueuePacket(ResetTimeOutTime([@ EXCEPT !.st = "queued", !.sock = TRUE]), "login")]
  /\ addq' = Append(addq, c)
  /\ sock' = [sock EXCEPT ![c] = ReadNext([@ EXCEPT !.session = TRUE], "header")]
  /\ UNCHANGED <<account, sessions, pc, todo, cur, n, faults>>

\* A statement follows _worldSession: its session becomes s, and the socket t.  The
\* pointer is null before the first login, and nothing resets it when the session has
\* been deleted.
Follow(c, s, t) ==
  /\ IF Alive(c)
       THEN /\ ses' = [ses EXCEPT ![c] = s]
            /\ sock' = [sock EXCEPT ![c] = t]
            /\ UNCHANGED faults
       ELSE /\ faults' = faults \union {<<IF sock[c].session THEN "stale" ELSE "null", c>>}
            /\ UNCHANGED <<ses, sock>>
  /\ UNCHANGED world

\* The body has been read: ReadDataHandler, by opcode.  A second login is only
\* reported, with the name of the session's player.
ReadLogin(c) ==
  /\ Running
  /\ sock[c].read = "login"
  /\ IF sock[c].session THEN Follow(c, ses[c], ReadNext(sock[c], "header")) ELSE AddSession(c)

\* A ping does not ask whether there is a session.
ReadPing(c) ==
  /\ Running
  /\ sock[c].read = "ping"
  /\ Follow(c, ResetTimeOutTime(ses[c]), ReadNext(sock[c], "header"))

\* Any other packet closes a socket that has no session; else it resets the timer,
ReadGamePacket(c) ==
  /\ Running
  /\ sock[c].read \in {"game", "logout"} /\ ~ sock[c].half
  /\ IF sock[c].session
       THEN Follow(c, ResetTimeOutTime(ses[c]), [sock[c] EXCEPT !.half = TRUE])
       ELSE /\ sock' = [sock EXCEPT ![c] = [Closed(@) EXCEPT !.read = "nothing"]]
            /\ UNCHANGED <<ses, faults, world>>

\* and, as a step of its own, is queued.
QueueGamePacket(c) ==
  /\ Running
  /\ sock[c].half
  /\ Follow(c, QueuePacket(ses[c], sock[c].read),
               [ReadNext(sock[c], "header") EXCEPT !.half = FALSE])

ReadBody(c) == ReadLogin(c) \/ ReadPing(c) \/ ReadGamePacket(c) \/ QueueGamePacket(c)

\* The client closes its end, or is lost: the pending read fails, or a write does while
\* a packet that was read is being handled.
ConnectionLost(c) ==
  /\ Running
  /\ sock[c].read # "nothing" /\ ~ sock[c].gone
  /\ \E next \in {sock[c].read} \union (IF sock[c].half THEN {} ELSE {"nothing"}) :
       sock' = [sock EXCEPT ![c] = [Closed(@) EXCEPT !.gone = TRUE, !.read = next]]
  /\ UNCHANGED <<ses, faults, world>>

------------------------------------------------------------------------------
(* The world thread: World::Update.                                        *)

\* With Player::logOutPlayer; the player stays in its room's map.
Deleted(s) == [s EXCEPT !.st = "deleted", !.sock = FALSE, !.q = <<>>, !.player = "none"]

\* ~WorldSession
Delete(c, s) ==
  /\ ses' = [ses EXCEPT ![c] = Deleted(s)]
  /\ sock' = IF s.sock THEN [sock EXCEPT ![c] = Closed(@)] ELSE sock

UpdateWorld ==
  /\ Running /\ pc = "idle"
  /\ pc' = "adding"
  /\ UNCHANGED <<account, sock, ses, addq, sessions, todo, cur, n, faults>>

\* Mutant: a new session takes the place of the old one of its account.
AddSession_Overwrites ==
  /\ Running /\ pc = "adding"
  /\ addq # <<>>
  /\ addq' = Tail(addq)
  /\ sessions' = [sessions EXCEPT ![account[Head(addq)]] = Head(addq)]
  /\ ses' = [ses EXCEPT ![Head(addq)].st = "active"]
  /\ UNCHANGED <<account, sock, pc, todo, cur, n, faults>>

\* AddSession_: a second session of an account is deleted.
AddSession_ ==
  /\ Running /\ pc = "adding"
  /\ addq # <<>>
  /\ addq' = Tail(addq)
  /\ LET c == Head(addq)
         a == account[c]
     IN  IF sessions[a] # None
           THEN Delete(c, ses[c]) /\ UNCHANGED sessions
           ELSE /\ sessions' = [sessions EXCEPT ![a] = c]
                /\ ses' = [ses EXCEPT ![c].st = "active"]
                /\ UNCHANGED sock
  /\ UNCHANGED <<account, pc, todo, cur, n, faults>>

BeginSessions ==
  /\ Running /\ pc = "adding"
  /\ addq = <<>>
  /\ pc' = "sessions"
  /\ todo' = {a \in Accounts : sessions[a] # None}
  /\ UNCHANGED <<account, sock, ses, addq, sessions, cur, n, faults>>

\* Mutant: a session that has timed out keeps its socket.
BeginSession_KeepsSocket(a) ==
  /\ Running /\ pc = "sessions" /\ cur = None
  /\ a \in todo
  /\ cur' = sessions[a]
  /\ ses' = [ses EXCEPT ![sessions[a]].timer = @ - 1]
  /\ todo' = todo \ {a}
  /\ n' = 0
  /\ UNCHANGED <<account, sock, addq, sessions, pc, faults>>

\* Mutant: the time out starts again when it has passed.
BeginSession_StartsAgain(a) ==
  /\ Running /\ pc = "sessions" /\ cur = None
  /\ a \in todo
  /\ cur' = sessions[a]
  /\ ses' = [ses EXCEPT ![sessions[a]].timer = IF @ = 1 THEN TimeOut ELSE @ - 1]
  /\ todo' = todo \ {a}
  /\ n' = 0
  /\ UNCHANGED <<account, sock, addq, sessions, pc, faults>>

\* The head of WorldSession::Update.
BeginSession(a) ==
  /\ Running /\ pc = "sessions" /\ cur = None
  /\ a \in todo
  /\ LET c == sessions[a]
         timer == ses[c].timer - 1
     IN  /\ cur' = c
         /\ ses' = [ses EXCEPT ![c].timer = timer]
         /\ sock' = IF timer <= 0 THEN [sock EXCEPT ![c] = Closed(@)] ELSE sock
  /\ todo' = todo \ {a}
  /\ n' = 0
  /\ UNCHANGED <<account, addq, sessions, pc, faults>>

\* The condition of the loop in WorldSession::Update.
Handling(c) == ses[c].sock /\ ses[c].q # <<>> /\ n <= MaxHandled

\* HandlePlayerLogin: RoomManager::getPlayer finds no player, whoever is in the rooms, so
\* every login makes one.
HandlePlayerLogin(c, s) ==
  /\ ses' = [ses EXCEPT ![c] = [s EXCEPT !.player = "in"]]
  /\ sock' = [sock EXCEPT ![c].told = @ \/ sock[c].open]

\* The handlers of the game, which follow the pointer to the player; all but that of
\* CMSG_LOG_OUT put a new status in the place of LOG_OUTING.
HandleGamePacket(c, s, op) ==
  /\ ses' = [ses EXCEPT ![c] =
                [s EXCEPT !.player = IF @ = "none" THEN @
                                     ELSE IF op = "logout" THEN "leaving" ELSE "in"]]
  /\ UNCHANGED sock

HandlePacket ==
  /\ Running /\ cur # None
  /\ Handling(cur)
  /\ n' = n + 1
  /\ LET op == Head(ses[cur].q).op
         s == [ses[cur] EXCEPT !.q = Tail(@), !.done = @ + 1]
     IN  /\ CASE op = "login" -> HandlePlayerLogin(cur, s)
              [] OTHER -> HandleGamePacket(cur, s, op)
         /\ faults' = IF op # "login" /\ s.player = "none" THEN {<<"null", cur>>} ELSE faults
  /\ UNCHANGED <<account, addq, sessions, pc, todo, cur>>

\* The tail of WorldSession::Update: a closed socket, or no player, ends the session.
EndSession ==
  /\ Running /\ cur # None
  /\ ~ Handling(cur)
  /\ IF sock[cur].open /\ ses[cur].player # "none"
       THEN UNCHANGED <<sock, ses, sessions>>
       ELSE /\ Delete(cur, [ses[cur] EXCEPT !.sock = FALSE])
            /\ sessions' = [sessions EXCEPT ![account[cur]] = None]
  /\ cur' = None /\ n' = 0
  /\ UNCHANGED <<account, addq, pc, todo, faults>>

\* RoomManager::Update, when its interval has passed: every player that logs out lets go
\* of its session.
SessionsDone == Running /\ pc = "sessions" /\ cur = None /\ todo = {}

UpdateRooms ==
  /\ SessionsDone
  /\ pc' = "idle"
  /\ ses' = [c \in Conns |-> [ses[c] EXCEPT !.player = IF @ = "leaving" THEN "none" ELSE @]]
  /\ UNCHANGED <<account, sock, addq, sessions, todo, cur, n, faults>>

\* The interval has not passed.
SkipRooms ==
  /\ SessionsDone
  /\ pc' = "idle"
  /\ UNCHANGED <<account, sock, ses, addq, sessions, todo, cur, n, faults>>

\* World::StopNow between two updates, then ~World, one session after the other.
Stop ==
  /\ CanStop /\ Running /\ pc = "idle"
  /\ pc' = "stopping"
  /\ UNCHANGED <<account, sock, ses, addq, sessions, todo, cur, n, faults>>

DeleteSession(a) ==
  /\ pc = "stopping" /\ faults = {}
  /\ sessions[a] # None
  /\ Delete(sessions[a], ses[sessions[a]])
  /\ sessions' = [sessions EXCEPT ![a] = None]
  /\ UNCHANGED <<account, addq, pc, todo, cur, n, faults>>

------------------------------------------------------------------------------
Io(c) == \/ \E op \in Ops : ReadHeader(c, op)
         \/ ReadBody(c)
         \/ ConnectionLost(c)

World == \/ UpdateWorld \/ AddSession_ \/ BeginSessions
         \/ \E a \in Accounts : BeginSession(a)
         \/ HandlePacket \/ EndSession \/ UpdateRooms \/ SkipRooms

SessionNext == (\E c \in Conns : Io(c)) \/ World \/ Stop \/ (\E a \in Accounts : DeleteSession(a))

SessionSpec == SessionInit /\ [][SessionNext]_sessionVars

\* The world thread runs on.
SessionFairSpec == SessionSpec /\ WF_sessionVars(World)

------------------------------------------------------------------------------
SocketType == [open : BOOLEAN, read : Ops \union {"header", "nothing"}, session : BOOLEAN,
               half : BOOLEAN, logins : 0 .. Logins, games : 0 .. MaxGame, left : BOOLEAN,
               kept : BOOLEAN, told : BOOLEAN, gone : BOOLEAN]

PacketType == [op : Ops \ {"ping"}, id : Nat]

SessionType == [st : {"none", "queued", "active", "deleted"}, sock : BOOLEAN,
                timer : 0 .. TimeOut, q : Seq(PacketType), got : Nat, done : Nat,
                player : {"none", "in", "leaving"}]

SessionTypeOK ==
  /\ account \in [Conns -> Accounts]
  /\ sock \in [Conns -> SocketType] /\ ses \in [Conns -> SessionType]
  /\ addq \in Seq(Conns)
  /\ sessions \in [Accounts -> Conns \union {None}]
  /\ pc \in {"idle", "adding", "sessions", "stopping"}
  /\ todo \subseteq Accounts /\ cur \in Conns \union {None}
  /\ n \in 0 .. MaxHandled + 1
  /\ faults \subseteq {"stale", "null"} \X Conns

\* A session that is not deleted has one owner: it waits in addSessQueue once, or it
\* is the session of its account in m_sessions, never both, so that the world
\* deletes it exactly once and none is lost (World.cpp:42-59, 129-151).
SessionsOwned ==
  \A c \in Conns :
    /\ Cardinality({i \in DOMAIN addq : addq[i] = c}) = IF ses[c].st = "queued" THEN 1 ELSE 0
    /\ ses[c].st = "active" <=> sessions[account[c]] = c

\* The packets of a connection are handled in the order they were read, none twice
\* and none left out, while the io thread goes on adding to the queue that the world
\* thread empties, over any number of updates (LockedQueue.h:51-72).
HandledInOrder ==
  \A c \in Conns : Alive(c) =>
    /\ Len(ses[c].q) = ses[c].got - ses[c].done
    /\ \A i \in DOMAIN ses[c].q : ses[c].q[i].id = ses[c].done + i

\* However often an account logs in, and although the sessions that refused or replaced
\* each other are deleted by the world while the io thread goes on, at most one of its
\* connections moves a player (World.cpp:51-58, 145-149).
OneLinked ==
  \A c, d \in Conns :
    c # d /\ account[c] = account[d] => ses[c].player = "none" \/ ses[d].player = "none"

\* The io thread follows WorldSocket::_worldSession without a lock and nothing resets
\* it (WorldSocket.cpp:63-87).  Until its client has sent CMSG_LOG_OUT and something
\* after it, a connection that is open still has its session: only what was being read
\* when the socket was closed can meet a session that has been deleted.
NoStaleUse == \A c \in Conns : <<"stale", c>> \in faults => ~ sock[c].open \/ ~ sock[c].kept

\* WorldSocket.cpp:71 and the handlers of the game (WorldSession.cpp:223-260) follow
\* their pointers unchecked: only a client that pings before it has logged in, or goes
\* on after CMSG_LOG_OUT, makes them follow a null one.
NoNullPlayer == \A c \in Conns : <<"null", c>> \in faults => ~ sock[c].kept

\* World.cpp:42-59, 129-151: a session that is not deleted waits in addSessQueue once, or
\* is the one of its account in m_sessions; and of the connections of an account at most
\* one has a player, however often it logs in.
SessionsAreSound == SessionsOwned /\ OneLinked

\* Packets are handled in the order they were read, none twice and none left out; a
\* deleted session is followed only for a socket that has been closed, and a null pointer
\* only for a client that pinged too early or went on after it had logged out.
PacketsAreHandled == HandledInOrder /\ NoNullPlayer /\ NoStaleUse

\* "If have unclosed socket, close it" (WorldSession.cpp:61): when a session has been
\* deleted, its connection is closed.
SocketClosed == \A c \in Conns : ses[c].st = "deleted" => ~ sock[c].open

\* A client that is silent from some time on, whatever it had sent before, loses its
\* session; pings and packets of the game are what keeps one alive.  (A pointer that is
\* followed to nothing ends the program.)
SilentSessionEnds ==
  \A c \in Conns :
    [](faults = {} /\ pc # "stopping") /\ <>[][~ ReadBody(c)]_sessionVars => <>[](~ Alive(c))

\* The world has turned a session down: its account has one already.
Refused(c) ==
  ses[c].st = "deleted" /\ ~ sock[c].open /\ sessions[account[c]] \notin {None, c}

\* A login is answered before its session can time out, or turned down with its socket
\* closed because the session of an earlier login is still there, unless the client goes
\* away first or the server stops; a client that repeats its login meanwhile does not
\* change that (WorldSocket.cpp:62-70, World.cpp:51-58, WorldSession.cpp:201-219).
LoginIsAnswered ==
  \A c \in Conns :
    ses[c].st = "queued" ~>
      (sock[c].told \/ sock[c].gone \/ Refused(c) \/ pc = "stopping" \/ faults # {})
====
