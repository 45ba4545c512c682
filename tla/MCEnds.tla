------------------------------- MODULE MCEnds -------------------------------
(***************************************************************************)
(* For TLC, the two ends of a broadcast: at the viewer's the page of a     *)
(* channel and the player, at the publisher's the gateway of SRT and the   *)
(* control loop's search for publishers.  They share nothing, and in a     *)
(* behaviour one of them is at work.  The others rest where nothing is     *)
(* due: a page of a channel that does not exist, a player with an error    *)
(* that is final, a gateway that was shut down, a loop that has not begun. *)
(***************************************************************************)
EXTENDS ChannelPage

CONSTANTS
  Length, MaxPlayerFaults, MaxPlayerActs,               \* Player
  Nodes, Sources, NodeOf, MaxFailures, MaxMishaps,      \* Reconciler
  Requests, MaxSessions                                 \* SrtGateway

VARIABLES
  at,                                                   \* which of them is at work
  setting, engine, video, around, faults, acts,         \* Player
  air, node, row, hooks, failures, round, mishaps,      \* Reconciler
  handler, conn, ffmpeg, copied, active, process, beside

pVars == <<setting, engine, video, around, faults, acts>>
rVars == <<air, node, row, hooks, failures, round, mishaps>>
gVars == <<handler, conn, ffmpeg, copied, active, process, beside>>

endsVars == <<at, vars, pVars, rVars, gVars>>

P == INSTANCE Player WITH MaxFaults <- MaxPlayerFaults, MaxActs <- MaxPlayerActs
R == INSTANCE Reconciler WITH MaxFaults <- MaxMishaps
G == INSTANCE SrtGateway

ASSUME EndsAssumption == P!PlayerAssumption /\ R!ReconcilerAssumption /\ G!GatewayAssumption

\* Of two encoders that use one key, each reaches a node of its own.
TwoNodes == CHOOSE f \in [Sources -> Nodes] : f[1] # f[2]

PageRests ==
  /\ channel = [version |-> 0, exists |-> FALSE, up |-> TRUE]
  /\ page = [phase |-> "notfound", info |-> Nothing, live |-> 0, got |-> FALSE, healthy |-> TRUE,
             prev |-> Nothing, visible |-> TRUE]
  /\ stream = [at |-> "off", seen |-> Nothing] /\ loads = {}
  /\ trouble = 0 /\ clicks = 0

PlayerRests ==
  /\ setting = [vod |-> FALSE, native |-> FALSE, autoplay |-> "any", saved |-> 0]
  /\ engine = [at |-> "fatal", retry |-> "none", errors |-> 0, startAt |-> 0, generation |-> 0]
  /\ video = [paused |-> TRUE, userPaused |-> FALSE, gesture |-> FALSE, muted |-> TRUE, pos |-> 0]
  /\ around = [up |-> TRUE, live |-> TRUE, hidden |-> FALSE]
  /\ faults = 0 /\ acts = 0

GatewayRests ==
  /\ handler = [r \in Requests |-> "none"] /\ conn = [r \in Requests |-> "none"]
  /\ ffmpeg = [r \in Requests |-> "none"] /\ copied = [r \in Requests |-> FALSE]
  /\ active = 0 /\ process = "exited" /\ beside = 0

EndsInit ==
  /\ R!Init
  /\ \/ at = "page"    /\ Init      /\ PlayerRests /\ GatewayRests
     \/ at = "player"  /\ PageRests /\ P!Init      /\ GatewayRests
     \/ at = "gateway" /\ PageRests /\ PlayerRests /\ G!Init
     \/ at = "loop"    /\ PageRests /\ PlayerRests /\ GatewayRests

EndsNext ==
  \/ at = "page"    /\ Next   /\ UNCHANGED <<at, pVars, rVars, gVars>>
  \/ at = "player"  /\ P!Next /\ UNCHANGED <<at, vars, rVars, gVars>>
  \/ at = "gateway" /\ G!Next /\ UNCHANGED <<at, vars, pVars, rVars>>
  \/ at = "loop"    /\ R!Next /\ UNCHANGED <<at, vars, pVars, gVars>>

\* The fairness of the loop, when it is at work: a round can always begin.
LoopFairness ==
  /\ WF_rVars(at = "loop" /\ R!Begin) /\ WF_rVars(at = "loop" /\ R!Judge)
  /\ \A n \in Nodes : /\ WF_rVars(at = "loop" /\ (R!Answer(n) \/ R!NoAnswer(n)))
                     /\ WF_rVars(at = "loop" /\ R!FallsSilent(n))

EndsSpec ==
  EndsInit /\ [][EndsNext]_endsVars /\ Fairness /\ P!Fairness /\ G!Fairness /\ LoopFairness

-----------------------------------------------------------------------------
(* The properties of the parts, as their modules state them *)

\* Player: what the viewer paused stays paused.
PauseIsKept == P!PauseIsKept

\* Player: it plays or has a reason not to.
NeverHangs == P!NeverHangs

\* SrtGateway: the limit of sessions.
LimitHolds == G!LimitHolds

\* SrtGateway: sessions and the process come to an end.
SessionsEnd == G!SessionsEnd

\* Reconciler: a round takes no source off air that was there all the time.
NoFlapping == R!NoFlapping

\* Reconciler: the broadcast is live on a source that is on air.
Converges == R!Converges
=============================================================================
