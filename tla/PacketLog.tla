----------------------------- MODULE PacketLog -----------------------------
(***************************************************************************)
(* The packet log: whoever reads a packet from a connection or sends one   *)
(* appends it to one file, a header and then its bytes, under a lock, and  *)
(* flushes the file before it goes on with the packet.                     *)
(*                                                                         *)
(* The io threads read and the threads of the world send; a connection's   *)
(* packets of one direction are handled by one of them after the other, so *)
(* a thread stands here for one direction of one connection.  The first to *)
(* ask for the log creates it.  A FILE holds back what it is given and may *)
(* write any part of it at any time.  The server may be killed at any time *)
(* and be started again.                                                   *)
(***************************************************************************)
EXTENDS Integers, SequencesExt

CONSTANTS Threads,
          Sizes,      \* the sizes of packets
          OpcodeSize, \* sizeof(header.Opcode)
          MaxPackets, \* a bound on the packets of a thread
          Null

PacketLogAssumption ==
  /\ Sizes \subseteq Nat /\ OpcodeSize \in Nat /\ MaxPackets \in Nat
  /\ Null \notin Threads

VARIABLES enabled, \* PacketLogFile is set
          up,     \* the server is running
          ready,  \* the log has been created
          pc,     \* what each thread does next
          packet, \* the packet it has: its number and size
          passed, \* the packets it has gone on with
          lock,   \* who holds _logPacketLock
          held,   \* what the FILE holds back
          disk    \* what is in the file

vars == <<enabled, up, ready, pc, packet, passed, lock, held, disk>>

FileHeader == [kind |-> "log"]
PacketHeader(t) == [kind |-> "header", thread |-> t, number |-> packet[t].number,
                    length |-> packet[t].size + OpcodeSize]
Body(t) == [kind |-> "body", thread |-> t, number |-> packet[t].number, length |-> packet[t].size]

NoPacket == [number |-> 0, size |-> 0]

NoPackets == [t \in Threads |-> NoPacket]
Idle == [t \in Threads |-> "idle"]
NonePassed == [t \in Threads |-> 0]

Init ==
  /\ enabled \in BOOLEAN
  /\ up = TRUE /\ ready = FALSE
  /\ pc = Idle /\ packet = NoPackets /\ passed = NonePassed
  /\ lock = Null /\ held = << >> /\ disk = << >>

\* instance(): the log is created once, by the first who asks for it.  An older file
\* is overwritten.
Initialize ==
  /\ up /\ ~ ready
  /\ ready' = TRUE
  /\ IF enabled THEN held' = <<FileHeader>> /\ disk' = << >> ELSE UNCHANGED <<held, disk>>
  /\ UNCHANGED <<enabled, up, pc, packet, passed, lock>>

\* A packet is read or sent; CanLogPacket asks whether there is a file.
Handle(t, size) ==
  /\ up /\ ready /\ pc[t] = "idle" /\ packet[t].number < MaxPackets
  /\ packet' = [packet EXCEPT ![t] = [number |-> @.number + 1, size |-> size]]
  /\ pc' = [pc EXCEPT ![t] = IF enabled THEN "lock" ELSE "pass"]
  /\ UNCHANGED <<enabled, up, ready, passed, lock, held, disk>>

\* Mutant: the lock is not taken.
LockLog_Not(t) ==
  /\ up /\ pc[t] = "lock"
  /\ lock' = t /\ pc' = [pc EXCEPT ![t] = "header"]
  /\ UNCHANGED <<enabled, up, ready, packet, passed, held, disk>>

LockLog(t) ==
  /\ up /\ pc[t] = "lock" /\ lock = Null
  /\ lock' = t /\ pc' = [pc EXCEPT ![t] = "header"]
  /\ UNCHANGED <<enabled, up, ready, packet, passed, held, disk>>

\* Mutant: the body is announced and not written.
WriteHeader_Empty(t) ==
  /\ up /\ pc[t] = "header"
  /\ held' = Append(held, PacketHeader(t))
  /\ pc' = [pc EXCEPT ![t] = "flush"]
  /\ UNCHANGED <<enabled, up, ready, packet, passed, lock, disk>>

WriteHeader(t) ==
  /\ up /\ pc[t] = "header"
  /\ held' = Append(held, PacketHeader(t))
  /\ pc' = [pc EXCEPT ![t] = IF packet[t].size = 0 THEN "flush" ELSE "body"]
  /\ UNCHANGED <<enabled, up, ready, packet, passed, lock, disk>>

WriteBody(t) ==
  /\ up /\ pc[t] = "body"
  /\ held' = Append(held, Body(t))
  /\ pc' = [pc EXCEPT ![t] = "flush"]
  /\ UNCHANGED <<enabled, up, ready, packet, passed, lock, disk>>

\* Mutant: the FILE is not flushed.
Flush_Not(t) ==
  /\ up /\ pc[t] = "flush"
  /\ lock' = Null /\ pc' = [pc EXCEPT ![t] = "pass"]
  /\ UNCHANGED <<enabled, up, ready, packet, passed, held, disk>>

Flush(t) ==
  /\ up /\ pc[t] = "flush"
  /\ disk' = disk \o held /\ held' = << >>
  /\ lock' = Null /\ pc' = [pc EXCEPT ![t] = "pass"]
  /\ UNCHANGED <<enabled, up, ready, packet, passed>>

\* The packet goes to its handler or to the queue of the socket.
Pass(t) ==
  /\ up /\ pc[t] = "pass"
  /\ passed' = [passed EXCEPT ![t] = packet[t].number]
  /\ pc' = [pc EXCEPT ![t] = "idle"]
  /\ UNCHANGED <<enabled, up, ready, packet, lock, held, disk>>

\* The FILE writes some of what it holds back.
Spill ==
  /\ up /\ held # << >>
  /\ disk' = Append(disk, Head(held)) /\ held' = Tail(held)
  /\ UNCHANGED <<enabled, up, ready, pc, packet, passed, lock>>

Crash ==
  /\ up
  /\ up' = FALSE /\ held' = << >>
  /\ UNCHANGED <<enabled, ready, pc, packet, passed, lock, disk>>

Restart ==
  /\ ~ up
  /\ enabled' \in BOOLEAN
  /\ up' = TRUE /\ ready' = FALSE
  /\ pc' = Idle /\ packet' = NoPackets /\ passed' = NonePassed
  /\ lock' = Null
  /\ UNCHANGED <<held, disk>>

Next ==
  \/ Initialize \/ Spill \/ Crash \/ Restart
  \/ \E t \in Threads :
       \/ \E size \in Sizes : Handle(t, size)
       \/ LockLog(t) \/ WriteHeader(t) \/ WriteBody(t) \/ Flush(t) \/ Pass(t)

Spec == Init /\ [][Next]_vars

------------------------------------------------------------------------------
TypeOK ==
  /\ enabled \in BOOLEAN /\ up \in BOOLEAN /\ ready \in BOOLEAN
  /\ pc \in [Threads -> {"idle", "lock", "header", "body", "flush", "pass"}]
  /\ packet \in [Threads -> [number : 0 .. MaxPackets, size : Sizes \union {0}]]
  /\ passed \in [Threads -> 0 .. MaxPackets]
  /\ lock \in Threads \union {Null}
  /\ \A t \in Threads : pc[t] \in {"header", "body", "flush"} <=> lock = t
  /\ \A i \in DOMAIN disk : disk[i].kind \in {"log", "header", "body"}

\* PacketLog.cpp:126: at every moment, and after a crash, the file can be read record by
\* record up to its end: each header is followed by as many bytes as it announces, but
\* for the record it was last written to.
FileParses ==
  /\ disk # << >> => disk[1] = FileHeader
  /\ \A i \in 2 .. Len(disk) :
       \/ /\ disk[i].kind = "header"
          /\ disk[i].length > OpcodeSize /\ i < Len(disk) =>
               /\ disk[i + 1].kind = "body"
               /\ disk[i + 1].length = disk[i].length - OpcodeSize
               /\ disk[i + 1].thread = disk[i].thread
       \/ /\ disk[i].kind = "body"
          /\ disk[i - 1].kind = "header" /\ disk[i - 1].number = disk[i].number

\* PacketLog.cpp:130: what a crash leaves in the file tells which packets were handled:
\* all that were gone on with are there, once each and in their order, and at most one
\* more of each connection.
LogIsComplete ==
  enabled => \A t \in Threads :
    LET logged == SelectSeq(disk, LAMBDA r : r.kind = "header" /\ r.thread = t)
    IN  ready => /\ Len(logged) \in passed[t] .. passed[t] + 1
                 /\ \A i \in DOMAIN logged : logged[i].number = i
=============================================================================
