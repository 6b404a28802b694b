------------------------------ MODULE OrderedLink ------------------------------
(***************************************************************************)
(* What a link of this system promises to the component at its end: of the *)
(* messages that were sent it gets some, and never one that is older than  *)
(* the one before, until the link is disturbed, in a way that the module   *)
(* which implements it names.                                              *)
(***************************************************************************)
EXTENDS Naturals

VARIABLES
  sent,       \* messages sent so far, numbered in this order
  heard,      \* the last one that was delivered, 0 for none
  disturbed   \* whether the order may have been lost

Init == sent = 0 /\ heard = 0 /\ disturbed = FALSE

Send == sent' = sent + 1 /\ UNCHANGED <<heard, disturbed>>

Deliver ==
  /\ heard' \in 1 .. sent
  /\ heard > heard' => disturbed
  /\ UNCHANGED <<sent, disturbed>>

Disturb == disturbed' = TRUE /\ UNCHANGED <<sent, heard>>

Next == Send \/ Deliver \/ Disturb

Spec == Init /\ [][Next]_<<sent, heard, disturbed>>

===============================================================================
