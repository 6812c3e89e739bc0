------------------------------- MODULE Packet -------------------------------
(***************************************************************************)
(* A packet on its way: one side writes values into a ByteBuffer, may      *)
(* overwrite one in place, and sends it behind a header; the other reads   *)
(* values of the same types, or skips them.  What arrives may be cut, for  *)
(* its size is what the header of the sender says.                         *)
(***************************************************************************)
EXTENDS ByteBuffer

CONSTANTS Values,    \* the values that are written
          MaxValues, \* a bound on those of one packet
          Opcode,    \* of the packet
          None

VARIABLES opcode, \* m_opcode of the packet that is written
          out,    \* that packet
          sent,   \* the values in it
          header, \* the header that was sent, None before
          in,     \* the packet that arrives
          due,    \* the values in it, as its sender wrote them
          got,    \* what has been read of each of them, or None if it was skipped
          fault   \* the exception a read has thrown

vars == <<opcode, out, sent, header, in, due, got, fault>>

Arrived == header # None
Whole == out.storage = in.storage

Init ==
  /\ opcode = Opcode /\ out = Fresh /\ sent = <<>>
  /\ header = None /\ in = Fresh
  /\ due = <<>> /\ got = <<>>
  /\ fault = None

Write(v) ==
  /\ ~Arrived
  /\ Len(sent) < MaxValues /\ Size(out) < Asserted
  /\ out' = AppendBytes(out, Encode(v))
  /\ sent' = Append(sent, v)
  /\ UNCHANGED <<opcode, header, in, due, got, fault>>

Position(i) == Len(FlattenSeq([j \in 1 .. i - 1 |-> Encode(sent[j])]))

\* put: a value of the same size takes the place of one that has been written.  A put
\* past the end throws and changes nothing.
Patch(i, v) ==
  /\ ~Arrived
  /\ i \in DOMAIN sent
  /\ Len(Encode(v)) = Len(Encode(sent[i]))
  /\ LET r == Put(out, Position(i), Encode(v)) IN
     /\ r.ok
     /\ out' = r.buf
  /\ sent' = [sent EXCEPT ![i] = v]
  /\ UNCHANGED <<opcode, header, in, due, got, fault>>

\* WorldPacket::Initialize: the packet is emptied and used again.
Initialize ==
  /\ ~Arrived /\ sent # <<>>
  /\ out' = Fresh /\ sent' = <<>>
  /\ UNCHANGED <<opcode, header, in, due, got, fault>>

Low(n) == n % 2^16
High(n) == (n \div 2^16) % 2^16

\* Mutant: the low half of the command is stored twice.
ServerPktHeader_Low(size, cmd) == <<Low(size), High(size), Low(cmd), Low(cmd)>>

\* Four numbers of 16 bits, each little-endian.
ServerPktHeader(size, cmd) == <<Low(size), High(size), Low(cmd), High(cmd)>>
HeaderBytes(h) == FlattenSeq([i \in DOMAIN h |-> LE(h[i], 2)])

\* AsyncWrite puts a header before the packet: its size counts the header itself,
\* "fix my stupid client".  The first n bytes of the packet arrive.
Send(n) ==
  /\ ~Arrived /\ sent # <<>>
  /\ header' = HeaderBytes(ServerPktHeader(Size(out) + 2 * 4, opcode))
  /\ in' = Received(SubSeq(out.storage, 1, n))
  /\ due' = sent
  /\ UNCHANGED <<opcode, out, sent, got, fault>>

Next_ == due[Len(got) + 1]
MayRead == Arrived /\ fault = None /\ Len(got) < Len(due)

\* A read that throws leaves the rest unread.
Outcome(r, v) ==
  IF r.ok THEN got' = Append(got, v) /\ UNCHANGED fault
          ELSE fault' = r.val /\ UNCHANGED got

ReadNext ==
  /\ MayRead
  /\ LET r == Decode(in, Next_) IN
     /\ in' = r.buf
     /\ Outcome(r, r.val)
  /\ UNCHANGED <<opcode, out, sent, header, due>>

\* read_skip<T>
SkipNext ==
  /\ MayRead
  /\ Next_.type \in {"int", "string"}
  /\ LET r == Decode(in, Next_) IN
     /\ in' = r.buf
     /\ Outcome(r, None)
  /\ UNCHANGED <<opcode, out, sent, header, due>>

Next ==
  \/ \E v \in Values : Write(v) \/ \E i \in 1 .. MaxValues : Patch(i, v)
  \/ Initialize
  \/ \E n \in 0 .. Size(out) : Send(n)
  \/ ReadNext
  \/ SkipNext

Spec == Init /\ [][Next]_vars

------------------------------------------------------------------------------
\* The positions stay inside the buffer, and what is written goes to its end: no read
\* and no partial read (a GUID, a list) ever leaves the read position past the end.
TypeOK ==
  /\ \A b \in {out, in} : \A i \in DOMAIN b.storage : b.storage[i] \in Byte
  /\ out.rpos = 0 /\ out.wpos = Size(out)
  /\ in.wpos = 0 /\ in.rpos \in 0 .. Size(in)
  /\ Len(got) <= Len(due)

\* Whatever has been overwritten, skipped or cut, each value that is read of a packet
\* that has arrived whole is the one that was written, but for a packed time: of the
\* years 2000 to 2031 it comes back without its seconds and moved by the timezone, which
\* ReadPackedTime adds to a time that mktime has made UTC (ByteBuffer.h:389-402, 501-506).
Packable(time) == localtime(time).year \in 100 .. 131
Same(v, w) ==
  CASE v.type = "time" -> Packable(v.val) => w = v.val - (v.val % 60) + Timezone
    [] OTHER -> w = v.val

RoundTrip ==
  Arrived /\ Whole => \A i \in DOMAIN got : got[i] = None \/ Same(due[i], got[i])

\* A whole packet is read to its end: nothing is thrown, but for a float that is not
\* finite, and no byte is left over.
WholeIsRead ==
  Arrived /\ Whole =>
    /\ fault # None => fault = NotFinite /\ ~IsFinite(Next_.val)
    /\ Len(got) = Len(due) => in.rpos = Size(in)

\* A packet that was cut throws before its reader is done, unless it ends with a
\* string: that one is read up to the cut.  Nothing throws for a position that is in the
\* packet (the exception calls the bytes it wanted size, and the packet's valueSize).
CutIsNoticed ==
  /\ Arrived /\ Size(in) < Size(out) /\ Len(got) = Len(due) => Last(due).type = "string"
  /\ fault \notin {None, NotFinite} => fault.pos + fault.size > fault.valueSize

\* The header is a size and the command, little-endian, in 32 bits each, as the
\* ClientPktHeader of the other direction has them.  The size is that of the payload and
\* of the eight bytes of the header (WorldSocket.cpp:105-107), not of the payload and
\* the opcode, as ServerPktHeader.h:29 says.
HeaderIsPlain ==
  Arrived => header = LE(Size(out) + 8, 4) \o LE(opcode, 4)
=============================================================================
