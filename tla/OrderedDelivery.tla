-------------------------- MODULE OrderedDelivery --------------------------
(***************************************************************************)
(* What a direction of a session promises its users (docs/comm-protocol.md *)
(* section 4): the messages sent, numbered from 1, are delivered in order, *)
(* each once.  Delivery may stop, it never skips.                          *)
(***************************************************************************)
EXTENDS Naturals, Sequences

VARIABLES
  sent,        \* how many messages were sent
  delivered    \* the numbers of those delivered

Init == sent = 0 /\ delivered = <<>>

Send == sent' = sent + 1 /\ UNCHANGED delivered

Deliver ==
  /\ Len(delivered) < sent
  /\ delivered' = Append(delivered, Len(delivered) + 1)
  /\ UNCHANGED sent

Next == Send \/ Deliver

Spec == Init /\ [][Next]_<<sent, delivered>>
=============================================================================
