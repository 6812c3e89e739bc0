------------------------------ MODULE Framing ------------------------------
(***************************************************************************)
(* The reading side of Socket<T, PacketType>: the bytes of a connection,   *)
(* arriving in pieces of any size, are cut into messages by two            *)
(* MessageBuffers, one for the header and one for the body.                *)
(*                                                                         *)
(* A byte is its place in the client's stream; what a header says is the   *)
(* length and validity of the message it was sent with, if the buffer      *)
(* holds exactly the bytes of one header in their order, and anything      *)
(* otherwise (Misframed).                                                  *)
(*                                                                         *)
(* A size in a header that is less than the header's own, but that IsValid *)
(* accepts, wraps around; and a body may be shorter than what is read of   *)
(* it.  Either throws in the io thread, where nothing catches it: the      *)
(* program ends, and reading is "aborted".                                 *)
(***************************************************************************)
EXTENDS Integers, SequencesExt

CONSTANTS HeaderSize, \* sizeof(ClientPktHeader)
          Least, Limit, \* the sizes that IsValid accepts: from Least to below Limit
          WordMod,    \* 2 ^ the width of a size_t
          MaxLength,  \* vector::max_size, above which Grow throws
          Block,      \* READ_BLOCK_SIZE
          Messages,   \* the messages a client may send: [size, need : Nat, known : BOOLEAN],
                      \* the size and the opcode its header claims, and what
                      \* ReadDataHandler reads of its body at least
          MaxSent     \* a bound: how many it sends

ASSUME FramingAssumption ==
  /\ {HeaderSize, Block} \subseteq Nat \ {0}
  /\ {Least, Limit, WordMod, MaxLength, MaxSent} \subseteq Nat
  /\ Limit <= MaxLength /\ MaxLength + HeaderSize < WordMod
  /\ \A m \in Messages : m.size \in Nat /\ m.need \in Nat /\ m.known \in BOOLEAN

VARIABLES input,     \* the messages of this client
          arrived,   \* how many bytes of them have been read from the network
          header,    \* _readHeaderBuffer
          data,      \* _readDataBuffer
          reading,   \* the read that is pending: "header", "data", "nothing"; or "aborted"
          open,      \* ~ _closed
          delivered  \* the bodies whose packets ReadDataHandler has gone on with

framingVars == <<input, arrived, header, data, reading, open, delivered>>

------------------------------------------------------------------------------
(* MessageBuffer                                                           *)

NoByte == 0
Empty == [storage |-> <<>>, wpos |-> 0]
Grow(b, bytes) == [b EXCEPT !.storage = @ \o [i \in 1 .. bytes |-> NoByte]]
GetMissingSize(b) == Len(b.storage) - b.wpos
IsMessageReady(b) == b.wpos = Len(b.storage)
ResetWritePointer(b) == [b EXCEPT !.wpos = 0]

\* bytes are written at GetWritePointer, then WriteCompleted.
Written(b, bytes) ==
  [storage |-> [i \in DOMAIN b.storage |->
                  IF i - b.wpos \in DOMAIN bytes THEN bytes[i - b.wpos] ELSE b.storage[i]],
   wpos |-> b.wpos + Len(bytes)]

------------------------------------------------------------------------------
(* The client's stream: the number of the first byte of each message.      *)

\* What follows a header, whatever it claims, and the length of both.
BodySent(m) == IF m.size > HeaderSize THEN m.size - HeaderSize ELSE 0
Size(m) == HeaderSize + BodySent(m)
Start[k \in 1 .. Len(input) + 1] == IF k = 1 THEN 0 ELSE Start[k - 1] + Size(input[k - 1])
Total == Start[Len(input) + 1]
Numbers(first, len) == [i \in 1 .. len |-> first + i]

\* The message whose header these bytes are.
HeaderOf(bytes) == {k \in DOMAIN input : bytes = Numbers(Start[k], HeaderSize)}
Misframed == reading = "data" /\ HeaderOf(header.storage) = {}

MessageOf(h) == input[CHOOSE k \in HeaderOf(h.storage) : TRUE]

\* ClientPktHeader::IsValid; the command is one of NUM_MSG_TYPES.
IsValid(m) == m.size >= Least /\ m.size < Limit /\ m.known

\* header->size - sizeof(ClientPktHeader), of unsigned numbers.
BodySize(m) == IF m.size >= HeaderSize THEN m.size - HeaderSize ELSE m.size - HeaderSize + WordMod

FramingInit ==
  /\ input \in SeqOf(Messages, MaxSent)
  /\ arrived = 0
  /\ header = Grow(Empty, HeaderSize)
  /\ data = Empty
  /\ reading = "header"
  /\ open = TRUE
  /\ delivered = <<>>

\* Mutant: the header is read behind the last one.
AsyncReadHeader_NoReset(h, isOpen) ==
  /\ reading' = IF isOpen THEN "header" ELSE "nothing"
  /\ header' = h
  /\ data' = Empty

\* AsyncReadHeader
AsyncReadHeader(h, isOpen) ==
  IF isOpen
    THEN /\ reading' = "header"
         /\ header' = ResetWritePointer(h)
         /\ data' = Empty
    ELSE /\ reading' = "nothing"
         /\ header' = h
         /\ data' = Empty

\* An exception leaves ReadHeaderHandler or ReadDataHandler, and the io thread.
Abort(h) ==
  /\ reading' = "aborted"
  /\ header' = h /\ data' = Empty
  /\ UNCHANGED delivered

\* ReadDataHandler makes a packet of the body (MoveData), which throws if less is there
\* than is read of it (read_skip; peek, in AddSession), and asks for a header.  (A game
\* packet before the login closes the socket instead: Session.tla.)
ReadDataHandler(h, b, isOpen) ==
  IF Len(b.storage) < MessageOf(h).need
    THEN Abort(h)
    ELSE /\ delivered' = Append(delivered, b.storage)
         /\ AsyncReadHeader(h, isOpen)

\* AsyncReadData: an empty body is handled at once.
AsyncReadData(h, size) ==
  IF ~ open
    THEN reading' = "nothing" /\ header' = h /\ UNCHANGED <<data, delivered>>
    ELSE CASE size = 0 -> ReadDataHandler(h, data, open)
           [] size > MaxLength -> Abort(h)
           [] OTHER -> /\ data' = Grow(data, size)
                       /\ reading' = "data" /\ header' = h
                       /\ UNCHANGED delivered

\* ReadHeaderHandler: IsValid, or the socket is closed.
ReadHeaderHandler(h) ==
  LET k == HeaderOf(h.storage)
  IN  \/ /\ \E m \in k : IsValid(input[m])
         /\ AsyncReadData(h, BodySize(MessageOf(h)))
         /\ UNCHANGED open
      \/ /\ \A m \in k : ~ IsValid(input[m])
         /\ open' = FALSE
         /\ reading' = "nothing" /\ header' = h
         /\ UNCHANGED <<data, delivered>>

\* Mutant: a whole block is asked for, whatever is missing.
Piece_WholeBlock(b, len) ==
  /\ len \in 1 .. Block
  /\ arrived + len <= Total
  /\ arrived' = arrived + len

\* async_read_some: it asks for what is missing of b, a block at most, and is given
\* some of it.
Piece(b, len) ==
  /\ len \in 0 .. GetMissingSize(b)
  /\ len <= Block
  /\ len > 0 \/ GetMissingSize(b) = 0
  /\ arrived + len <= Total
  /\ arrived' = arrived + len

\* Mutant: an incomplete header is not read to its end.
ReadHeaderHandlerInternal_Once(len) ==
  /\ reading = "header"
  /\ Piece(header, len)
  /\ LET h == Written(header, Numbers(arrived, len))
     IN  IF IsMessageReady(h)
           THEN ReadHeaderHandler(h)
           ELSE header' = h /\ reading' = "nothing" /\ UNCHANGED <<data, open, delivered>>
  /\ UNCHANGED input

ReadHeaderHandlerInternal(len) ==
  /\ reading = "header"
  /\ Piece(header, len)
  /\ LET h == Written(header, Numbers(arrived, len))
     IN  IF IsMessageReady(h)
           THEN ReadHeaderHandler(h)
           ELSE header' = h /\ UNCHANGED <<data, reading, open, delivered>>
  /\ UNCHANGED input

\* Mutant: a body is handled with its first piece.
ReadDataHandlerInternal_First(len) ==
  /\ reading = "data"
  /\ Piece(data, len)
  /\ ReadDataHandler(header, Written(data, Numbers(arrived, len)), open)
  /\ UNCHANGED <<input, open>>

ReadDataHandlerInternal(len) ==
  /\ reading = "data"
  /\ Piece(data, len)
  /\ LET b == Written(data, Numbers(arrived, len))
     IN  IF IsMessageReady(b)
           THEN ReadDataHandler(header, b, open)
           ELSE data' = b /\ UNCHANGED <<header, reading, delivered>>
  /\ UNCHANGED <<input, open>>

\* The read fails, or somebody else closes the socket (a time out, a failed write).
ReadFails ==
  /\ reading \in {"header", "data"}
  /\ open' = FALSE /\ reading' = "nothing"
  /\ UNCHANGED <<input, arrived, header, data, delivered>>

CloseReading ==
  /\ open /\ reading # "aborted"
  /\ open' = FALSE
  /\ UNCHANGED <<input, arrived, header, data, reading, delivered>>

Lens == 0 .. Block
FramingNext ==
  \/ \E len \in Lens : ReadHeaderHandlerInternal(len)
  \/ \E len \in Lens : ReadDataHandlerInternal(len)
  \/ ReadFails
  \/ CloseReading

FramingSpec == FramingInit /\ [][FramingNext]_framingVars
FramingFairSpec == FramingSpec /\ WF_framingVars(\E len \in Lens : ReadHeaderHandlerInternal(len)
                                              \/ ReadDataHandlerInternal(len))

------------------------------------------------------------------------------
FramingTypeOK ==
  /\ input \in SeqOf(Messages, MaxSent)
  /\ arrived \in 0 .. Total
  /\ \A b \in {header, data} : b.storage \in Seq(0 .. Total) /\ b.wpos \in 0 .. Len(b.storage)
  /\ reading \in {"header", "data", "nothing", "aborted"}
  /\ open \in BOOLEAN

\* A message the reader goes on from: its header is valid, and its body is as long as
\* what is read of it (and its size, so, no less than a header's).
IsWhole(m) == IsValid(m) /\ m.size >= HeaderSize + m.need

\* The messages before the first one that is not, as bytes.
Broken == {k \in 1 .. Len(input) : ~ IsWhole(input[k])}
LastWhole ==
  IF Broken = {} THEN Len(input)
  ELSE (CHOOSE k \in Broken : \A j \in Broken : k <= j) - 1
Body(k) == Numbers(Start[k] + HeaderSize, BodySent(input[k]))
WellFormed == [k \in 1 .. LastWhole |-> Body(k)]

\* No byte of one message ends up in the header or the body of another, and none is
\* skipped or kept over in a buffer that is used again (Socket.h:79): the bytes in the
\* buffers are the last that arrived.
BuffersAreRecent ==
  LET recent == IF reading = "data" THEN data ELSE header
  IN  /\ ~ Misframed
      /\ reading \in {"header", "data"} =>
           SubSeq(recent.storage, 1, recent.wpos) = Numbers(arrived - recent.wpos, recent.wpos)

\* However the network cuts the stream, the reader is handed the client's messages,
\* each whole, in order, and none after one that it turns down or that ends the program
\* (Socket.h:166-214): the two buffers implement a channel of messages, and hold nothing
\* but the current one.
ChannelOfMessages == INSTANCE Channel WITH messages <- WellFormed
ImplementsChannel == ChannelOfMessages!Spec /\ []BuffersAreRecent

\* Every message of a client that is still connected is delivered, up to the first that
\* is malformed or too short for its handler: the reader never waits for bytes of a
\* message that has arrived.
AllDelivered == <>(~ open \/ Len(delivered) = Len(WellFormed))
====
