----------------------------- MODULE WriteQueue -----------------------------
(***************************************************************************)
(* The writing side of a WorldSocket: any number of threads (the world     *)
(* thread, the workers that update rooms) send packets, the io threads     *)
(* complete one asynchronous write after the other.                        *)
(*                                                                         *)
(* AsyncWrite looks at IsOpen before it takes _writeLock; what it and      *)
(* WriteHandler do under the lock is one step.                             *)
(***************************************************************************)
EXTENDS Integers, Sequences, FiniteSets

CONSTANTS Threads,    \* the threads that send to this socket
          MaxPackets, \* a bound: how many packets each of them sends
          MayDelay    \* whether DelayedCloseSocket may be called

ASSUME WriteQueueAssumption == MaxPackets \in Nat /\ MayDelay \in BOOLEAN

\* The k-th packet of a thread.
Packets == Threads \X (1 .. MaxPackets)

VARIABLES closed,  \* _closed
          closing, \* _closing
          queue,   \* _writeQueue
          flying,  \* the packets whose async_write has not completed
          wire,    \* the packets that have been written, in that order
          sent,    \* how many packets each thread has sent
          locking  \* the threads between IsOpen and _writeLock

vars == <<closed, closing, queue, flying, wire, sent, locking>>

Init ==
  /\ closed = FALSE /\ closing = FALSE
  /\ queue = <<>> /\ flying = {} /\ wire = <<>>
  /\ sent = [t \in Threads |-> 0]
  /\ locking = {}

------------------------------------------------------------------------------
\* WorldSocket::AsyncWrite up to the lock: a packet to a closed socket is dropped.
SendPacket(t) ==
  /\ t \notin locking
  /\ sent[t] < MaxPackets
  /\ sent' = [sent EXCEPT ![t] = @ + 1]
  /\ locking' = IF closed THEN locking ELSE locking \union {t}
  /\ UNCHANGED <<closed, closing, queue, flying, wire>>

\* Mutant: every packet is written at once.
AsyncWrite_Always(t) ==
  /\ t \in locking
  /\ locking' = locking \ {t}
  /\ queue' = Append(queue, <<t, sent[t]>>)
  /\ flying' = flying \union {<<t, sent[t]>>}
  /\ UNCHANGED <<closed, closing, wire, sent>>

\* Mutant: needsWriteStart is read after the packet is in the queue.
AsyncWrite_Late(t) ==
  /\ t \in locking
  /\ locking' = locking \ {t}
  /\ queue' = Append(queue, <<t, sent[t]>>)
  /\ flying' = IF queue' = <<>> THEN {Head(queue')} ELSE flying
  /\ UNCHANGED <<closed, closing, wire, sent>>

\* Under the lock: the first packet of an empty queue starts the writing.
AsyncWrite(t) ==
  /\ t \in locking
  /\ locking' = locking \ {t}
  /\ queue' = Append(queue, <<t, sent[t]>>)
  /\ flying' = IF queue = <<>> THEN {Head(queue')} ELSE flying
  /\ UNCHANGED <<closed, closing, wire, sent>>

\* Mutant: the next packet is not written.
WriteHandler_Stops(p) ==
  /\ p \in flying
  /\ queue # <<>>
  /\ wire' = Append(wire, p)
  /\ queue' = Tail(queue)
  /\ flying' = flying \ {p}
  /\ closed' = (closed \/ (queue' = <<>> /\ closing))
  /\ UNCHANGED <<closing, sent, locking>>

\* Mutant: the front is written again before it is removed.
WriteHandler_Again(p) ==
  /\ p \in flying
  /\ queue # <<>>
  /\ wire' = Append(wire, p)
  /\ queue' = Tail(queue)
  /\ flying' = (flying \ {p}) \union {Head(queue)}
  /\ closed' = (closed \/ (queue' = <<>> /\ closing))
  /\ UNCHANGED <<closing, sent, locking>>

\* WriteHandler for packet p, without an error: p has been written, the front is
\* removed, and the next one is written, or a delayed close is done.
WriteHandler(p) ==
  /\ p \in flying
  /\ queue # <<>>
  /\ wire' = Append(wire, p)
  /\ queue' = Tail(queue)
  /\ flying' = (flying \ {p}) \union (IF queue' # <<>> THEN {Head(queue')} ELSE {})
  /\ closed' = (closed \/ (queue' = <<>> /\ closing))
  /\ UNCHANGED <<closing, sent, locking>>

\* WriteHandler with an error.
WriteFails(p) ==
  /\ p \in flying
  /\ flying' = flying \ {p}
  /\ closed' = TRUE
  /\ UNCHANGED <<closing, queue, wire, sent, locking>>

\* Closed by somebody else: the reader, a time out, the session.
CloseSocket ==
  /\ ~ closed
  /\ closed' = TRUE
  /\ UNCHANGED <<closing, queue, flying, wire, sent, locking>>

DelayedCloseSocket ==
  /\ MayDelay /\ ~ closing
  /\ closing' = TRUE
  /\ UNCHANGED <<closed, queue, flying, wire, sent, locking>>

Next ==
  \/ \E t \in Threads : SendPacket(t) \/ AsyncWrite(t)
  \/ \E p \in Packets : WriteHandler(p) \/ WriteFails(p)
  \/ CloseSocket
  \/ DelayedCloseSocket

Spec == Init /\ [][Next]_vars

\* A thread gets the lock; a write completes, one way or the other.
FairSpec ==
  /\ Spec
  /\ \A t \in Threads : WF_vars(AsyncWrite(t))
  /\ WF_vars(\E p \in Packets : WriteHandler(p) \/ WriteFails(p))

------------------------------------------------------------------------------
TypeOK ==
  /\ closed \in BOOLEAN /\ closing \in BOOLEAN
  /\ queue \in Seq(Packets)
  /\ flying \in SUBSET Packets
  /\ wire \in Seq(Packets)
  /\ sent \in [Threads -> 0 .. MaxPackets]
  /\ locking \in SUBSET {t \in Threads : sent[t] > 0}

\* At most one asynchronous write is under way, and it is of the front of the queue:
\* writes never interleave on the connection, and the buffer being written is not
\* destroyed before its write has completed (Socket.h:123-127, 216-228).
FrontIsFlying == flying = {} \/ (queue # <<>> /\ flying = {Head(queue)})

\* While the socket is open, packets in the queue are being written: no interleaving
\* of a sender and a completion leaves a queue that nobody drains.
NothingStuck == closed \/ queue = <<>> \/ flying # {}

\* The packets of a thread reach the connection in the order it sent them, and none
\* is written twice or left out before a later one.
InOrder ==
  \A i \in DOMAIN wire :
    wire[i][2] = 1 + Cardinality({j \in 1 .. i - 1 : wire[j][1] = wire[i][1]})

\* A packet in the queue of a socket that stays open is written.
Flushes ==
  \A p \in Packets : (\E i \in DOMAIN queue : queue[i] = p)
                       ~> (closed \/ \E i \in DOMAIN wire : wire[i] = p)
=============================================================================
