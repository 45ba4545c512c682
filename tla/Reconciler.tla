----------------------------- MODULE Reconciler -----------------------------
(***************************************************************************)
(* reconcileIngest of the control loop (control/loop.ts) for one path: a   *)
(* round reads the broadcast, asks every ingest node what is on air, and   *)
(* calls the handlers that hooks call as well (Lifecycle models those).    *)
(*                                                                         *)
(* Hooks are lost, late and out of order; a node can be cut off from the   *)
(* loop with its publishers on air.  The two queries a round begins with   *)
(* are one step.  Sources are numbered in the order they came on air.      *)
(***************************************************************************)
EXTENDS Naturals, FiniteSets, FiniteSetsExt

CONSTANTS
  Nodes,        \* ingest_nodes.id
  Sources,      \* ingest connections, 1..n
  NodeOf,       \* the node a source publishes to
  MaxFailures,  \* eight in the code
  MaxFaults     \* bound: outages of nodes and changes of leader

ReconcilerAssumption ==
  /\ Sources \subseteq Nat \ {0} /\ NodeOf \in [Sources -> Nodes]
  /\ MaxFailures \in Nat \ {0} /\ MaxFaults \in Nat

VARIABLES
  air,          \* per source: "new", "on" or "gone"
  node,         \* per node: reach, silent for 15 s, known to the registry
  row,          \* the broadcast of the path
  hooks,        \* hook calls under way
  failures,     \* nodeFailures of the leader
  round,        \* the round under way
  mishaps

vars == <<air, node, row, hooks, failures, round, mishaps>>

\* up: answers the loop and registers; cut: registers only; gone: neither.
NodeStates == [reach : {"up", "cut", "gone"}, silent : BOOLEAN, known : BOOLEAN]

Rows  == [status : {"none", "live", "reconnecting"}, source : Sources \cup {0}]
Hooks == [op : {"online", "offline"}, source : Sources]

\* Histories: the sources on air and reachable when the round began, and those gone or out of
\* reach at any time of it.
Rounds == [at : {"idle", "asking"}, snap : Rows, known : SUBSET Nodes, asked : SUBSET Nodes,
           responded : SUBSET Nodes, dead : SUBSET Nodes, seen : SUBSET Sources,
           began : SUBSET Sources, lost : SUBSET Sources]

NoRow == [status |-> "none", source |-> 0]
Idle  == [at |-> "idle", snap |-> NoRow, known |-> {}, asked |-> {}, responded |-> {},
          dead |-> {}, seen |-> {}, began |-> {}, lost |-> {}]

Init ==
  /\ air = [s \in Sources |-> "new"]
  /\ node = [n \in Nodes |-> [reach |-> "up", silent |-> FALSE, known |-> TRUE]]
  /\ row = NoRow /\ hooks = {}
  /\ failures = [n \in Nodes |-> 0]
  /\ round = Idle /\ mishaps = 0

On(s)        == air[s] = "on"
Reachable(s) == On(s) /\ node[NodeOf[s]].reach = "up"
Fault        == mishaps < MaxFaults /\ mishaps' = mishaps + 1

Lost(S) == IF round.at = "idle" THEN round ELSE [round EXCEPT !.lost = @ \cup S]

-----------------------------------------------------------------------------
(* Publishers, nodes and their hooks *)

Publish(s) ==
  /\ air[s] = "new" /\ \A r \in Sources : r < s => air[r] # "new"
  /\ node[NodeOf[s]].reach # "gone"
  /\ air' = [air EXCEPT ![s] = "on"]
  /\ hooks' = hooks \cup {[op |-> "online", source |-> s]}
  /\ UNCHANGED <<node, row, failures, round, mishaps>>

Unpublish(s) ==
  /\ On(s)
  /\ air' = [air EXCEPT ![s] = "gone"]
  /\ hooks' = hooks \cup {[op |-> "offline", source |-> s]}
  /\ round' = Lost({s})
  /\ UNCHANGED <<node, row, failures, mishaps>>

\* A node is cut off, or gone with its publishers or without them.
NodeFails(n) ==
  /\ node[n].reach = "up" /\ Fault
  /\ \E reach \in {"cut", "gone"}, lost \in SUBSET {s \in Sources : On(s) /\ NodeOf[s] = n} :
       /\ node' = [node EXCEPT ![n].reach = reach]
       /\ air' = [s \in Sources |-> IF s \in lost THEN "gone" ELSE air[s]]
  /\ round' = Lost({s \in Sources : On(s) /\ NodeOf[s] = n})
  /\ UNCHANGED <<row, hooks, failures>>

NodeReturns(n) ==
  /\ node[n].reach # "up"
  /\ node' = [node EXCEPT ![n] = [reach |-> "up", silent |-> FALSE, known |-> TRUE]]
  /\ UNCHANGED <<air, row, hooks, failures, round, mishaps>>

\* 15 s, and 10 min, without a registration.
FallsSilent(n) ==
  /\ node[n].reach = "gone" /\ node[n].known
  /\ node' = [node EXCEPT ![n].silent = TRUE, ![n].known = ~node[n].silent]
  /\ UNCHANGED <<air, row, hooks, failures, round, mishaps>>

-----------------------------------------------------------------------------
(* The handlers, with the broadcast locked *)

OnlineRow(s) == [status |-> "live", source |-> s]

OfflineRow(s) ==
  IF row.status = "live" /\ row.source = s THEN [row EXCEPT !.status = "reconnecting"] ELSE row

Hook(h) ==
  /\ h \in hooks /\ hooks' = hooks \ {h}
  /\ row' = IF h.op = "online" THEN OnlineRow(h.source) ELSE OfflineRow(h.source)
  /\ UNCHANGED <<air, node, failures, round, mishaps>>

LoseHook(h) ==
  /\ h \in hooks /\ hooks' = hooks \ {h}
  /\ UNCHANGED <<air, node, row, failures, round, mishaps>>

\* finalizeExpired.
Expire ==
  /\ row.status = "reconnecting" /\ row' = NoRow
  /\ UNCHANGED <<air, node, hooks, failures, round, mishaps>>

-----------------------------------------------------------------------------
(* A round *)

Begin ==
  LET known == {n \in Nodes : node[n].known} IN
  /\ round.at = "idle"
  /\ round' = [Idle EXCEPT !.at = "asking", !.snap = row, !.known = known, !.asked = known,
                           !.began = {s \in Sources : Reachable(s)},
                           !.lost = {s \in Sources : air[s] # "new" /\ ~Reachable(s)}]
  /\ UNCHANGED <<air, node, row, hooks, failures, mishaps>>

\* Mutant: only a node that stopped registering is given up.
SilentOnly(n, count) == node[n].silent

\* A node may serve publishers and register while its API does not answer.
GivenUp(n, count) == node[n].silent \/ count >= MaxFailures

Answer(n) ==
  /\ n \in round.asked /\ node[n].reach = "up"
  /\ round' = [round EXCEPT !.asked = @ \ {n}, !.responded = @ \cup {n},
                            !.seen = @ \cup {s \in Sources : On(s) /\ NodeOf[s] = n}]
  /\ failures' = [failures EXCEPT ![n] = 0]
  /\ UNCHANGED <<air, node, row, hooks, mishaps>>

NoAnswer(n) ==
  LET count == failures[n] + 1 IN
  /\ n \in round.asked /\ node[n].reach # "up"
  /\ round' = [round EXCEPT !.asked = @ \ {n},
                            !.dead = IF GivenUp(n, count) THEN @ \cup {n} ELSE @]
  /\ failures' = [failures EXCEPT ![n] = IF count > MaxFailures THEN MaxFailures ELSE count]
  /\ UNCHANGED <<air, node, row, hooks, mishaps>>

Newest(seen) == Max(seen)

NodeGone(n)     == n \notin round.known \/ n \in round.dead
NodeSaysGone(n) == n \in round.responded

\* Mutant: what the round has seen is compared with the broadcast of the moment.
JudgedNow(b) ==
  IF b.status = "live" /\ row.source \in round.seen THEN row
  ELSE IF round.seen # {} THEN OnlineRow(Newest(round.seen)) ELSE OfflineRow(row.source)

\* What the handlers make of the row, decided by the snapshot b.
Judged(b) ==
  IF b.status # "live"
    THEN IF round.seen = {} THEN row ELSE OnlineRow(Newest(round.seen))
  ELSE IF b.source \in round.seen THEN row
  ELSE IF ~NodeGone(NodeOf[b.source]) /\ ~NodeSaysGone(NodeOf[b.source]) THEN row
  ELSE IF round.seen # {} THEN OnlineRow(Newest(round.seen))
  ELSE OfflineRow(b.source)

Judge ==
  /\ round.at = "asking" /\ round.asked = {}
  /\ row' = Judged(round.snap)
  /\ round' = Idle
  /\ UNCHANGED <<air, node, hooks, failures, mishaps>>

\* Another replica leads, with counts of its own.
NewLeader ==
  /\ round.at = "idle" /\ Fault
  /\ failures' = [n \in Nodes |-> 0]
  /\ UNCHANGED <<air, node, row, hooks, round>>

Next ==
  \/ \E s \in Sources : Publish(s) \/ Unpublish(s)
  \/ \E n \in Nodes : \/ NodeFails(n) \/ NodeReturns(n) \/ FallsSilent(n)
                      \/ Answer(n) \/ NoAnswer(n)
  \/ \E h \in Hooks : Hook(h) \/ LoseHook(h)
  \/ Expire \/ Begin \/ Judge \/ NewLeader

Spec == Init /\ [][Next]_vars

\* The loop goes on while some replica leads; a node that neither registers nor answers falls
\* silent; nothing is assumed of hooks.
Fairness ==
  /\ WF_vars(Begin) /\ WF_vars(Judge)
  /\ \A n \in Nodes : WF_vars(Answer(n) \/ NoAnswer(n)) /\ WF_vars(FallsSilent(n))

FairSpec == Spec /\ Fairness

-----------------------------------------------------------------------------
(* Properties *)

TypeOK ==
  /\ air \in [Sources -> {"new", "on", "gone"}] /\ node \in [Nodes -> NodeStates]
  /\ row \in Rows /\ hooks \subseteq Hooks /\ failures \in [Nodes -> 0..MaxFailures]
  /\ round \in Rounds /\ mishaps \in 0..MaxFaults

\* "never causes flapping", "prevents false offline" (loop.ts:99-100, 131-134): a round takes no
\* source off air that was on air and reachable all the time, one that came on air in the middle
\* of it included, and gives the broadcast of one that was there from the beginning only to a
\* newer one.
NoFlapping ==
  [][Judge /\ row.status = "live" /\ row.source \notin round.lost
       => /\ row'.status = "live"
          /\ row.source \in round.began => row'.source >= row.source]_vars

\* The loop converges "even if hooks are lost" or nodes die (loop.ts:2-3): again and again the
\* broadcast is live exactly on a source that is on air, as far as nodes can be asked.
Attached ==
  /\ row.status = "live" => On(row.source)
  /\ (\E s \in Sources : Reachable(s)) => row.status = "live"

Converges == []<>Attached
=============================================================================
