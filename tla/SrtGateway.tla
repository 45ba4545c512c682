----------------------------- MODULE SrtGateway -----------------------------
(***************************************************************************)
(* The SRT gateway (deploy/srt-gateway): one goroutine per connection      *)
(* request, an ffmpeg per session, a limit of sessions and the shutdown.   *)
(*                                                                         *)
(* Within a session, the copy from the connection to ffmpeg, ffmpeg        *)
(* itself and the select of the handler run side by side.                  *)
(***************************************************************************)
EXTENDS Naturals, FiniteSets

CONSTANTS
  Requests,     \* connection requests
  MaxSessions   \* MAX_SESSIONS

GatewayAssumption == IsFiniteSet(Requests) /\ MaxSessions \in Nat

VARIABLES
  handler,      \* per request where its goroutine is
  conn,         \* per request its SRT connection
  ffmpeg,       \* per request its process
  copied,       \* per request whether the copy has ended
  active,       \* the counter
  process,      \* "runs", "stopping" (the context is cancelled), "closed" (and the listener),
                \* "exited"
  beside        \* history: the most other handshakes that were past the limit when one passed it

vars == <<handler, conn, ffmpeg, copied, active, process, beside>>

\* flushing: the publisher has left; failed: ffmpeg has.
Steps == {"none", "parse", "authorize", "accept", "start", "run", "flushing", "failed", "done"}

Handling(r) == handler[r] \notin {"none", "done"}
Session(r)  == handler[r] \in {"start", "run", "flushing", "failed"}

\* Past the limit and not yet counted.
Handshakes == {r \in Requests : handler[r] \in {"authorize", "accept"}}

Init ==
  /\ handler = [r \in Requests |-> "none"]
  /\ conn = [r \in Requests |-> "none"]
  /\ ffmpeg = [r \in Requests |-> "none"]
  /\ copied = [r \in Requests |-> FALSE]
  /\ active = 0 /\ process = "runs" /\ beside = 0

-----------------------------------------------------------------------------
(* Accept2 and handle *)

Accept2(r) ==
  /\ handler[r] = "none" /\ process \in {"runs", "stopping"}
  /\ handler' = [handler EXCEPT ![r] = "parse"]
  /\ UNCHANGED <<conn, ffmpeg, copied, active, process, beside>>

\* Mutant: the limit is off by one.
NearlyFull == active > MaxSessions
Full       == active >= MaxSessions

\* ParseStreamID, the limit, the passphrase: a request may fail each of them.
Check(r) ==
  /\ handler[r] = "parse"
  /\ \/ handler' = [handler EXCEPT ![r] = "done"] /\ UNCHANGED beside
     \/ /\ ~Full
        /\ handler' = [handler EXCEPT ![r] = "authorize"]
        /\ beside' = IF Cardinality(Handshakes) > beside THEN Cardinality(Handshakes) ELSE beside
  /\ UNCHANGED <<conn, ffmpeg, copied, active, process>>

\* The control plane allows, denies, or does not answer in time.
Authorize(r) ==
  /\ handler[r] = "authorize"
  /\ \E to \in {"accept", "done"} : handler' = [handler EXCEPT ![r] = to]
  /\ UNCHANGED <<conn, ffmpeg, copied, active, process, beside>>

Accept(r) ==
  /\ handler[r] = "accept"
  /\ \/ /\ handler' = [handler EXCEPT ![r] = "done"]
        /\ UNCHANGED <<conn, active>>
     \/ /\ process # "closed"
        /\ handler' = [handler EXCEPT ![r] = "start"]
        /\ conn' = [conn EXCEPT ![r] = "open"]
        /\ active' = active + 1
  /\ UNCHANGED <<ffmpeg, copied, process, beside>>

\* The deferred calls: the connection is closed and the slot given back.
Leave(r) ==
  /\ handler' = [handler EXCEPT ![r] = "done"]
  /\ conn' = [conn EXCEPT ![r] = "closed"]
  /\ active' = active - 1

\* A command does not start once its context is cancelled.
StartFfmpeg(r) ==
  /\ handler[r] = "start"
  /\ \/ Leave(r) /\ UNCHANGED ffmpeg
     \/ /\ process = "runs"
        /\ handler' = [handler EXCEPT ![r] = "run"]
        /\ ffmpeg' = [ffmpeg EXCEPT ![r] = "runs"]
        /\ UNCHANGED <<conn, active>>
  /\ UNCHANGED <<copied, process, beside>>

PublisherLeaves(r) ==
  /\ conn[r] = "open" /\ conn' = [conn EXCEPT ![r] = "closed"]
  /\ UNCHANGED <<handler, ffmpeg, copied, active, process, beside>>

\* io.Copy ends with the connection, or on a write once ffmpeg is gone; a publisher that is
\* connected but silent writes nothing.
CopyEnds(r) ==
  /\ ffmpeg[r] # "none" /\ ~copied[r]
  /\ conn[r] = "closed" \/ ffmpeg[r] = "exited"
  /\ copied' = [copied EXCEPT ![r] = TRUE]
  /\ UNCHANGED <<handler, conn, ffmpeg, active, process, beside>>

\* It ends at the end of its input, when it is signalled and killed, or by itself.
FfmpegExits(r) ==
  /\ ffmpeg[r] = "runs" /\ ffmpeg' = [ffmpeg EXCEPT ![r] = "exited"]
  /\ UNCHANGED <<handler, conn, copied, active, process, beside>>

\* The two cases of the select.
Copied(r) ==
  /\ handler[r] = "run" /\ copied[r]
  /\ handler' = [handler EXCEPT ![r] = "flushing"]
  /\ UNCHANGED <<conn, ffmpeg, copied, active, process, beside>>

\* Mutant: the publisher is not disconnected.
KeepConn(r) == conn

CloseConn(r) == [conn EXCEPT ![r] = "closed"]

FfmpegFailed(r) ==
  /\ handler[r] = "run" /\ ffmpeg[r] = "exited"
  /\ handler' = [handler EXCEPT ![r] = "failed"]
  /\ conn' = CloseConn(r)
  /\ UNCHANGED <<ffmpeg, copied, active, process, beside>>

EndSession(r) ==
  /\ \/ handler[r] = "flushing" /\ ffmpeg[r] = "exited"
     \/ handler[r] = "failed" /\ copied[r]
  /\ Leave(r)
  /\ UNCHANGED <<ffmpeg, copied, process, beside>>

-----------------------------------------------------------------------------
(* main *)

Signal ==
  /\ process = "runs" /\ process' = "stopping"
  /\ UNCHANGED <<handler, conn, ffmpeg, copied, active, beside>>

\* "closes every publisher connection"
CloseListener ==
  /\ process = "stopping" /\ process' = "closed"
  /\ conn' = [r \in Requests |-> IF conn[r] = "open" THEN "closed" ELSE conn[r]]
  /\ UNCHANGED <<handler, ffmpeg, copied, active, beside>>

Exit ==
  /\ process = "closed" /\ \A r \in Requests : ~Handling(r)
  /\ process' = "exited"
  /\ UNCHANGED <<handler, conn, ffmpeg, copied, active, beside>>

Next ==
  \/ Signal \/ CloseListener \/ Exit
  \/ \E r \in Requests :
       \/ Accept2(r) \/ Check(r) \/ Authorize(r) \/ Accept(r) \/ StartFfmpeg(r)
       \/ PublisherLeaves(r) \/ CopyEnds(r) \/ FfmpegExits(r) \/ Copied(r) \/ FfmpegFailed(r)
       \/ EndSession(r)

Spec == Init /\ [][Next]_vars

\* Handlers go on; ffmpeg ends on its own only after the end of its input or a signal.  A copy
\* whose publisher is connected is not sure to write again.
Fairness ==
  /\ WF_vars(CloseListener) /\ WF_vars(Exit)
  /\ \A r \in Requests :
       /\ WF_vars(Check(r)) /\ WF_vars(Authorize(r)) /\ WF_vars(Accept(r)) /\ WF_vars(StartFfmpeg(r))
       /\ WF_vars(Copied(r)) /\ WF_vars(FfmpegFailed(r)) /\ WF_vars(EndSession(r))
       /\ WF_vars(conn[r] = "closed" /\ CopyEnds(r))
       /\ WF_vars((copied[r] \/ process # "runs") /\ FfmpegExits(r))

FairSpec == Spec /\ Fairness

-----------------------------------------------------------------------------
(* Properties *)

TypeOK ==
  /\ handler \in [Requests -> Steps] /\ conn \in [Requests -> {"none", "open", "closed"}]
  /\ ffmpeg \in [Requests -> {"none", "runs", "exited"}] /\ copied \in [Requests -> BOOLEAN]
  /\ active \in Nat /\ process \in {"runs", "stopping", "closed", "exited"}
  /\ beside \in Nat

\* The limit (main.go:119-124, 144-145) is checked before the control plane is asked and the
\* session counted after: the counter is the number of sessions, and it passes the limit by no
\* more than the number of handshakes that were past the check when another one passed it.
LimitHolds == /\ active = Cardinality({r \in Requests : Session(r)})
              /\ active <= MaxSessions + beside

\* A session neither outlives its ffmpeg (main.go:176-183) nor its publisher, and a shutdown ends
\* them all (main.go:244-249, 265): again and again no
\* handler is left behind by its session, and no process by its signal.
SessionsEnd ==
  []<>(/\ \A r \in Requests : ffmpeg[r] = "exited" \/ conn[r] = "closed" => handler[r] = "done"
       /\ process \in {"runs", "exited"})
=============================================================================
