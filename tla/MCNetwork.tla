----------------------------- MODULE MCNetwork -----------------------------
(***************************************************************************)
(* The parts between a client and its session, for TLC: sessions, reading  *)
(* and writing.  They share no variable (each has what it needs of the     *)
(* others inside), so a behaviour is one of one part, and the other parts  *)
(* stay in their first state.                                              *)
(***************************************************************************)
EXTENDS Session, Framing, WriteQueue, TLC

CONSTANTS t1, t2, t3, c1, c2, a1, a2

VARIABLE part

netVars == <<part, sessionVars, framingVars, vars>>

\* Two connections of one account, or one of each of two accounts.
OneAccount == c1 :> a1 @@ c2 :> a1
TwoAccounts == c1 :> a1 @@ c2 :> a2

\* Messages whose size wraps, without a body, with less than is read of it, just that, and
\* more than a block; one that is too short for the login; and one of an unknown command.
AnyMessages ==
  {[size |-> size, need |-> 2, known |-> TRUE] : size \in {2, 3, 4, 5, 7}} \union
  {[size |-> 6, need |-> 4, known |-> TRUE], [size |-> 5, need |-> 2, known |-> FALSE]}

Parts == {"sessions", "reading", "writing"}

NetInit ==
  /\ part \in Parts
  /\ SessionInit /\ account \in {OneAccount, TwoAccounts}
  /\ FramingInit /\ Init
  /\ part # "sessions" => account = OneAccount
  /\ part # "reading" => input = <<>>

\* A bound: two clients of one account log in once each, one plays and the other only
\* pings, and the server may be shut down; those of two accounts may repeat a login, and
\* only ping.
PingsOnly(c) == sock[c].games = 0 /\ ~ sock[c].left

SessionBound ==
  IF account = OneAccount THEN PingsOnly(c2) /\ \A c \in Conns : sock[c].logins <= 1
  ELSE pc # "stopping" /\ \A c \in Conns : PingsOnly(c)

NetNext ==
  /\ UNCHANGED part
  /\ \/ part = "sessions" /\ SessionNext /\ SessionBound' /\ UNCHANGED <<framingVars, vars>>
     \/ part = "reading" /\ FramingNext /\ UNCHANGED <<sessionVars, vars>>
     \/ part = "writing" /\ Next /\ UNCHANGED <<sessionVars, framingVars>>

\* The fairness of each part (SessionFairSpec, FramingFairSpec, FairSpec of WriteQueue),
\* while it is the one that runs.
NetSpec ==
  /\ NetInit /\ [][NetNext]_netVars
  /\ WF_sessionVars(part = "sessions" /\ World)
  /\ WF_framingVars(part = "reading" /\ \E len \in Lens :
       ReadHeaderHandlerInternal(len) \/ ReadDataHandlerInternal(len))
  /\ \A t \in Threads : WF_vars(part = "writing" /\ AsyncWrite(t))
  /\ WF_vars(part = "writing" /\ \E p \in Packets : WriteHandler(p) \/ WriteFails(p))
-----------------------------------------------------------------------------
\* The types of all parts.
TypesOK == part \in Parts /\ SessionTypeOK /\ FramingTypeOK /\ TypeOK

\* WorldSession.cpp:145: a client that falls silent loses its session.
\* WorldSocket.cpp:62-70, World.cpp:51-58, WorldSession.cpp:201-219: a login is answered
\* before its session can time out, also when the client repeats it, or turned down with
\* its socket closed while an earlier session of the account is there.
SessionsProgress == SilentSessionEnds /\ LoginIsAnswered

\* Socket.h:186-232: the reader never waits for bytes that have arrived, and the packets
\* of each thread are written, once and in the order it sent them.
NothingWaits == /\ part = "reading" => AllDelivered
                /\ Flushes /\ []InOrder
=============================================================================
