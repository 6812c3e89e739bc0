------------------------------ MODULE Channel ------------------------------
(***************************************************************************)
(* What a connection promises its reader: the messages of the client, each *)
(* whole, in the order they were sent, until the connection is closed.     *)
(***************************************************************************)
EXTENDS Sequences, Naturals

VARIABLES messages,  \* what the client sends that is well formed
          delivered, \* what has been handed to the reader
          open

Init == delivered = <<>> /\ open = TRUE

\* A message that is being read when the connection is closed is still delivered.
Deliver ==
  /\ Len(delivered) < Len(messages)
  /\ delivered' = Append(delivered, messages[Len(delivered) + 1])
  /\ UNCHANGED <<messages, open>>

Close == open = TRUE /\ open' = FALSE /\ UNCHANGED <<messages, delivered>>

Next == Deliver \/ Close

Spec == Init /\ [][Next]_<<messages, delivered, open>>
=============================================================================
