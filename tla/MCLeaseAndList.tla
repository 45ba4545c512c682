--------------------------- MODULE MCLeaseAndList ---------------------------
(***************************************************************************)
(* For TLC, one job whose worker dies and returns, and beside it, since    *)
(* both are small, the list of destinations in the studio.  They share     *)
(* nothing, and in a behaviour one of the two is at work.  While the list  *)
(* is, the lease rests where it owes no step: every job has ended, and the *)
(* workers are up with nothing to claim.                                   *)
(***************************************************************************)
EXTENDS JobLease

CONSTANTS MaxIds, MaxRows, Switches, MaxCalls, MaxOthers

VARIABLES
  at,                                                   \* which of them is at work
  rows, used, list, call, others, together              \* Destinations

dVars == <<rows, used, list, call, others, together>>

D == INSTANCE Destinations WITH Fields <- Switches, tab <- list

ASSUME ListAssumption == D!DestinationsAssumption

\* No fair step of a lease that rests is enabled, and time changes nothing.
LeaseRests ==
  /\ row = [j \in Jobs |-> [Free EXCEPT !.state = "finished"]]
  /\ ended = Jobs
  /\ proc = [w \in Workers |-> "up"]
  /\ claim = [w \in Workers |-> None]
  /\ run = [w \in Workers |-> [j \in Jobs |-> None]]
  /\ source = [j \in Jobs |-> None]

BothInit ==
  /\ D!Init
  /\ \/ at = "lease" /\ Init /\ used = 0
     \/ at = "list" /\ LeaseRests

BothNext ==
  \/ at = "lease" /\ Next   /\ UNCHANGED <<at, dVars>>
  \/ at = "list"  /\ D!Next /\ UNCHANGED <<at, vars>>

BothSpec == BothInit /\ [][BothNext]_<<at, vars, dVars>> /\ Fairness /\ FaultsCease

\* Destinations: a tab that could know shows what is stored.
ListIsHonest == at = "list" => D!ListIsHonest
=============================================================================
