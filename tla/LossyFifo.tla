----------------------------- MODULE LossyFifo ------------------------------
(***************************************************************************)
(* What a connection promises to the messages that are handed to it: they  *)
(* are consumed in order, each once and whole, until it is closed; then    *)
(* the rest is lost.                                                       *)
(***************************************************************************)
EXTENDS Naturals, Sequences

CONSTANT Id      \* identities of messages

VARIABLES
  accepted,      \* the messages handed to the connection
  consumed,      \* the messages the peer has handled
  open

vars == <<accepted, consumed, open>>

Init == accepted = <<>> /\ consumed = <<>> /\ open = TRUE

\* Until the sender notices that the connection is closed, it goes on.
Accept(m) ==
  /\ accepted' = Append(accepted, m)
  /\ UNCHANGED <<consumed, open>>

Consume ==
  /\ Len(consumed) < Len(accepted)
  /\ consumed' = Append(consumed, accepted[Len(consumed) + 1])
  /\ UNCHANGED <<accepted, open>>

\* What is on the way may still arrive.
Close == open /\ open' = FALSE /\ UNCHANGED <<accepted, consumed>>

Next == Consume \/ Close \/ \E m \in Id : Accept(m)

\* While the connection is open everything accepted arrives.
Deliver == open /\ Consume

Spec == Init /\ [][Next]_vars
LiveSpec == Spec /\ WF_vars(Deliver)
=============================================================================
