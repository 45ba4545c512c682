----------------------------- MODULE MCEventHub -----------------------------
(* The instance of EventHub for TLC: clients that come and go. *)
EXTENDS EventHub

CONSTANTS c1, c2

TwoClients == {c1, c2}
=============================================================================
