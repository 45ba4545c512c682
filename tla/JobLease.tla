------------------------------ MODULE JobLease ------------------------------
(***************************************************************************)
(* The transcode job queue and the lease protocol of the workers:          *)
(* server/src/worker/queue.ts (the SQL), main.ts (claim loop, shutdown,    *)
(* restart) and runner.ts (heartbeat, fencing, graceful end, release).     *)
(*                                                                         *)
(* Time is relative: a job row carries the seconds its lease has left, a   *)
(* run the seconds since it last renewed it, and Tick moves all of them.   *)
(* The interval timer of a run fires on time (the code lowers the priority *)
(* of the encoders for that); queries take up to QueryTimeout seconds.     *)
(***************************************************************************)
EXTENDS Integers, FiniteSets

CONSTANTS
  Workers, Jobs,
  Tokens,        \* lease ids; a claim takes one nobody holds (a random UUID)
  None,
  LeaseSec, HeartbeatSec,
  ClaimDelay,    \* longest time the answer of a claim is under way
  QueryTimeout,  \* longest time a heartbeat is under way
  MaxAttempts    \* config.control.maxJobAttempts

ASSUME JobLeaseAssumption ==
  /\ LeaseSec \in Nat \ {0} /\ HeartbeatSec \in Nat \ {0}
  /\ ClaimDelay \in Nat /\ QueryTimeout \in Nat \ {0}
  /\ MaxAttempts \in Nat \ {0}
  /\ None \notin Workers \cup Jobs \cup Tokens

\* Mutant: the fence waits until the lease itself is over.
FenceLate == LeaseSec

\* Math.max(2 s, lease - heartbeat - 1 s)
FenceSec == IF LeaseSec - HeartbeatSec - 1 > 2
            THEN LeaseSec - HeartbeatSec - 1 ELSE 2

VARIABLES
  row,      \* transcode_jobs
  ended,    \* jobs whose broadcast has ended
  proc,     \* worker processes: up, stopping, closing (pool ended), down
  claim,    \* the answer of a claim that is under way to a worker
  run,      \* runJob, per worker and job
  source    \* the claim whose probe the broadcast row shows, per job

vars == <<row, ended, proc, claim, run, source>>

Rows   == [state : {"pending", "running", "finished", "failed", "cancelled"},
           worker : Workers \cup {None}, lease : Tokens \cup {None},
           left : 0..LeaseSec, attempts : 0..MaxAttempts + 1]
Claims == [job : Jobs, lease : Tokens, attempts : 0..MaxAttempts + 1,
           age : 0..ClaimDelay]
Runs   == [phase : {"starting", "encoding", "draining", "releasing", "failing"},
           lease : Tokens, attempts : 0..MaxAttempts + 1,
           lost : {"no", "fenced", "graceful"},
           age : Nat,
           timer : 0..HeartbeatSec,
           hb : {"none", "sent", "owned", "lost"}, hbAge : 0..QueryTimeout]

Free == [state |-> "pending", worker |-> None, lease |-> None, left |-> 0,
         attempts |-> 0]

Init ==
  /\ row = [j \in Jobs |-> Free]
  /\ ended = {}
  /\ proc = [w \in Workers |-> "up"]
  /\ claim = [w \in Workers |-> None]
  /\ run = [w \in Workers |-> [j \in Jobs |-> None]]
  /\ source = [j \in Jobs |-> None]

Running(w, j) == run[w][j] # None
Lost(w, j)    == run[w][j].lost # "no"
InUse(t) ==
  \/ \E j \in Jobs : row[j].lease = t
  \/ \E w \in Workers : claim[w] # None /\ claim[w].lease = t
  \/ \E w \in Workers, j \in Jobs : Running(w, j) /\ run[w][j].lease = t
  \/ \E j \in Jobs : source[j] = t

\* Every UPDATE of a worker is guarded by its claim: WHERE lease_id = ...
Owns(j, t) == row[j].lease = t /\ row[j].state = "running"

SetRun(w, j, r) == run' = [run EXCEPT ![w][j] = r]

-----------------------------------------------------------------------------
(* Claiming *)

\* Mutant: an expired lease is never taken over.
ClaimablePending(j) == row[j].state = "pending"

Claimable(j) ==
  \/ row[j].state = "pending"
  \/ row[j].state = "running" /\ row[j].left = 0

More(n) == IF n > MaxAttempts THEN n ELSE n + 1   \* caps the counter

\* Which of several runnable jobs goes first is left open.
ClaimJob(w, j) ==
  /\ proc[w] = "up" /\ claim[w] = None
  /\ ~ Running(w, j)
  /\ Claimable(j)
  /\ \E t \in Tokens :
       /\ ~ InUse(t)
       /\ row' = [row EXCEPT ![j] =
                    [state |-> "running", worker |-> w, lease |-> t,
                     left |-> LeaseSec, attempts |-> More(row[j].attempts)]]
       /\ claim' = [claim EXCEPT ![w] =
                      [job |-> j, lease |-> t, age |-> 0,
                       attempts |-> More(row[j].attempts)]]
  /\ UNCHANGED <<ended, proc, run, source>>

\* lastRenewStart is taken here, when the answer arrives.
StartedRun(c) ==
  [phase |-> "starting", lease |-> c.lease, attempts |-> c.attempts,
   lost |-> "no", age |-> 0, timer |-> 0, hb |-> "none", hbAge |-> 0]

GiveBack(j, attempts) ==
  row' = [row EXCEPT ![j] = [Free EXCEPT !.attempts = attempts]]

\* A claim answered while shutting down is handed straight back, unless the
\* connection pool is closed already.
ClaimAnswered(w) ==
  /\ claim[w] # None
  /\ claim' = [claim EXCEPT ![w] = None]
  /\ LET c == claim[w] IN
     \/ /\ proc[w] = "up"
        /\ SetRun(w, c.job, StartedRun(c))
        /\ UNCHANGED row
     \/ /\ proc[w] = "stopping" /\ Owns(c.job, c.lease)
        /\ GiveBack(c.job, 0)
        /\ UNCHANGED run
     \/ /\ proc[w] = "stopping" /\ ~ Owns(c.job, c.lease)
        /\ UNCHANGED <<row, run>>
     \/ /\ proc[w] = "closing"
        /\ UNCHANGED <<row, run>>
  /\ UNCHANGED <<ended, proc, source>>

\* The answer is lost: the job stays leased to a worker that does not run it.
ClaimFails(w) ==
  /\ claim[w] # None
  /\ claim' = [claim EXCEPT ![w] = None]
  /\ UNCHANGED <<row, ended, proc, run, source>>

-----------------------------------------------------------------------------
(* runJob *)

\* setJobState, from the checks at the start of a run.
Refuse(w, j, st) ==
  /\ row' = IF Owns(j, run[w][j].lease)
            THEN [row EXCEPT ![j] = [@ EXCEPT !.state = st, !.lease = None,
                                              !.left = 0]]
            ELSE row
  /\ SetRun(w, j, None)
  /\ UNCHANGED <<ended, proc, claim, source>>

TooManyAttempts(w, j) ==
  /\ Running(w, j) /\ run[w][j].phase = "starting"
  /\ run[w][j].attempts > MaxAttempts
  /\ Refuse(w, j, "failed")

BroadcastOver(w, j) ==
  /\ Running(w, j) /\ run[w][j].phase = "starting"
  /\ run[w][j].attempts <= MaxAttempts
  /\ j \in ended
  /\ Refuse(w, j, "cancelled")

\* The source is probed; updateBroadcastSource writes the broadcast row by its
\* id, whatever became of the lease; then ffmpeg is started.
Transcode(w, j) ==
  /\ Running(w, j) /\ run[w][j].phase = "starting"
  /\ run[w][j].attempts <= MaxAttempts
  /\ SetRun(w, j, [run[w][j] EXCEPT !.phase = "encoding"])
  /\ source' = [source EXCEPT ![j] = run[w][j].lease]
  /\ UNCHANGED <<row, ended, proc, claim>>

\* Probe, storage or any other await of the setup throws.
SetupFails(w, j) ==
  /\ Running(w, j) /\ run[w][j].phase = "starting"
  /\ SetRun(w, j, IF Lost(w, j) THEN None
                  ELSE [run[w][j] EXCEPT !.phase = "failing"])
  /\ UNCHANGED <<row, ended, proc, claim, source>>

\* ffmpeg ends by itself, fails, or obeys the kill switch.
FfmpegExits(w, j) ==
  /\ Running(w, j) /\ run[w][j].phase = "encoding"
  /\ SetRun(w, j, IF run[w][j].lost = "fenced" THEN None
                  ELSE [run[w][j] EXCEPT !.phase = "draining"])
  /\ UNCHANGED <<row, ended, proc, claim, source>>

Drained(w, j) ==
  /\ Running(w, j) /\ run[w][j].phase = "draining"
  /\ SetRun(w, j, IF Lost(w, j) THEN None
                  ELSE [run[w][j] EXCEPT !.phase = "releasing"])
  /\ UNCHANGED <<row, ended, proc, claim, source>>

\* releaseJob: back to the queue with the attempts it had, or out of attempts;
\* a long run, a re-plan and a shutdown reset the attempts.
Requeue(j, t, reset) ==
  IF ~ Owns(j, t) THEN UNCHANGED row
  ELSE IF reset THEN GiveBack(j, 0)
  ELSE IF row[j].attempts < MaxAttempts THEN GiveBack(j, row[j].attempts)
  ELSE row' = [row EXCEPT ![j] = [Free EXCEPT !.state = "failed",
                                    !.attempts = row[j].attempts]]

Release(w, j) ==
  /\ Running(w, j) /\ run[w][j].phase \in {"releasing", "failing"}
  /\ SetRun(w, j, None)
  /\ \E reset \in BOOLEAN :
       /\ run[w][j].phase = "failing" => ~ reset
       /\ run[w][j].phase = "releasing" /\ proc[w] # "up" => reset
       /\ Requeue(j, run[w][j].lease, reset)
  /\ UNCHANGED <<ended, proc, claim, source>>

\* A release that throws is tried once more, as a failed attempt.
ReleaseFails(w, j) ==
  /\ Running(w, j)
  /\ \/ /\ run[w][j].phase = "releasing"
        /\ SetRun(w, j, IF Lost(w, j) THEN None
                        ELSE [run[w][j] EXCEPT !.phase = "failing"])
     \/ run[w][j].phase = "failing" /\ SetRun(w, j, None)
  /\ UNCHANGED <<row, ended, proc, claim, source>>

-----------------------------------------------------------------------------
(* The interval of a run: heartbeat and fence *)

Interval(w, j) ==
  /\ Running(w, j) /\ run[w][j].timer = HeartbeatSec
  /\ LET r == run[w][j]
         beat == r.hb = "none" /\ r.lost = "no"
     IN SetRun(w, j, [r EXCEPT
          !.timer = 0,
          !.hb    = IF beat THEN "sent" ELSE @,
          !.hbAge = IF beat THEN 0 ELSE @,
          !.lost  = IF @ = "no" /\ r.age > FenceSec THEN "fenced" ELSE @])
  /\ UNCHANGED <<row, ended, proc, claim, source>>

\* now() + lease
RenewedLease(j)  == LeaseSec

\* The UPDATE reaches the database ...
HeartbeatRuns(w, j) ==
  /\ Running(w, j) /\ run[w][j].hb = "sent"
  /\ IF Owns(j, run[w][j].lease)
     THEN /\ row' = [row EXCEPT ![j].left = RenewedLease(j)]
          /\ SetRun(w, j, [run[w][j] EXCEPT !.hb = "owned"])
     ELSE /\ UNCHANGED row
          /\ SetRun(w, j, [run[w][j] EXCEPT !.hb = "lost"])
  /\ UNCHANGED <<ended, proc, claim, source>>

\* ... and its answer the worker: renewed since the heartbeat was sent.
Renewed(w, j) ==
  /\ Running(w, j) /\ run[w][j].hb = "owned"
  /\ SetRun(w, j, [run[w][j] EXCEPT !.hb = "none", !.hbAge = 0,
                     !.age = run[w][j].hbAge])
  /\ UNCHANGED <<row, ended, proc, claim, source>>

\* Not owned any more: look why. Ended by the control plane (or not found
\* out): finish gracefully (or fence).
EndedByControl(j) ==
  row[j].state \in {"finished", "cancelled"} /\ row[j].lease = None

LeaseGone(w, j) ==
  /\ Running(w, j) /\ run[w][j].hb = "lost"
  /\ \E verdict \in (IF EndedByControl(j) THEN {"graceful", "fenced"}
                     ELSE {"fenced"}) :
       SetRun(w, j, [run[w][j] EXCEPT !.hb = "none", !.hbAge = 0,
                       !.lost = IF @ = "no" THEN verdict ELSE @])
  /\ UNCHANGED <<row, ended, proc, claim, source>>

HeartbeatFails(w, j) ==
  /\ Running(w, j) /\ run[w][j].hb # "none"
  /\ SetRun(w, j, [run[w][j] EXCEPT !.hb = "none", !.hbAge = 0])
  /\ UNCHANGED <<row, ended, proc, claim, source>>

-----------------------------------------------------------------------------
(* The control plane ends a job; shutdown, crash and restart of a worker    *)

EndJob(j) ==
  /\ row[j].state \in {"pending", "running"}
  /\ \E st \in {"finished", "cancelled"} :
       row' = [row EXCEPT ![j] = [@ EXCEPT !.state = st, !.lease = None,
                                           !.left = 0]]
  /\ ended' \in {ended, ended \cup {j}}
  /\ UNCHANGED <<proc, claim, run, source>>

\* SIGTERM: no more claims, every ffmpeg is told to stop.
Shutdown(w) ==
  /\ proc[w] = "up"
  /\ proc' = [proc EXCEPT ![w] = "stopping"]
  /\ UNCHANGED <<row, ended, claim, run, source>>

\* The hook waits for the runs, not for a claim under way; then pool.end().
ClosePool(w) ==
  /\ proc[w] = "stopping" /\ \A j \in Jobs : ~ Running(w, j)
  /\ proc' = [proc EXCEPT ![w] = "closing"]
  /\ UNCHANGED <<row, ended, claim, run, source>>

\* pool.end() waits for queries that are under way.
Exit(w) ==
  /\ proc[w] = "closing" /\ claim[w] = None
  /\ proc' = [proc EXCEPT ![w] = "down"]
  /\ UNCHANGED <<row, ended, claim, run, source>>

\* Killed, out of memory, or past the 30 s a shutdown may take.
Crash(w) ==
  /\ proc[w] # "down"
  /\ proc' = [proc EXCEPT ![w] = "down"]
  /\ claim' = [claim EXCEPT ![w] = None]
  /\ run' = [run EXCEPT ![w] = [j \in Jobs |-> None]]
  /\ UNCHANGED <<row, ended, source>>

\* Mutant: the jobs of every worker are taken for orphans.
OrphanedAny(w, j) == row[j].state = "running"

\* Same host name, same worker id: releaseOrphanedJobs before the first claim.
Orphaned(w, j) == row[j].worker = w /\ row[j].state = "running"

Restart(w) ==
  /\ proc[w] = "down"
  /\ proc' = [proc EXCEPT ![w] = "up"]
  /\ row' = [j \in Jobs |-> IF Orphaned(w, j)
                            THEN [Free EXCEPT !.attempts = row[j].attempts]
                            ELSE row[j]]
  /\ UNCHANGED <<ended, claim, run, source>>

-----------------------------------------------------------------------------
(* Time *)

Aged(r) ==
  IF r = None THEN None
  ELSE [r EXCEPT !.age = IF r.lost = "no" THEN @ + 1 ELSE @,
                 !.timer = @ + 1,
                 !.hbAge = IF r.hb = "none" THEN @ ELSE @ + 1]

\* Nothing that is due is late: timers fire, queries answer or time out.
NothingDue ==
  /\ \A w \in Workers : claim[w] # None => claim[w].age < ClaimDelay
  /\ \A w \in Workers, j \in Jobs :
       Running(w, j) => /\ run[w][j].timer < HeartbeatSec
                        /\ run[w][j].hb # "none" => run[w][j].hbAge < QueryTimeout

Tick ==
  /\ NothingDue
  /\ row' = [j \in Jobs |-> [row[j] EXCEPT !.left = IF @ > 0 THEN @ - 1 ELSE 0]]
  /\ claim' = [w \in Workers |->
                 IF claim[w] = None THEN None
                 ELSE [claim[w] EXCEPT !.age = @ + 1]]
  /\ run' = [w \in Workers |-> [j \in Jobs |-> Aged(run[w][j])]]
  /\ UNCHANGED <<ended, proc, source>>

-----------------------------------------------------------------------------
RunStep(w, j) ==
  \/ TooManyAttempts(w, j) \/ BroadcastOver(w, j) \/ Transcode(w, j)
  \/ SetupFails(w, j) \/ FfmpegExits(w, j) \/ Drained(w, j)
  \/ Release(w, j) \/ ReleaseFails(w, j)

LeaseStep(w, j) ==
  \/ Interval(w, j) \/ HeartbeatRuns(w, j) \/ Renewed(w, j)
  \/ LeaseGone(w, j) \/ HeartbeatFails(w, j)

ProcStep(w) ==
  \/ ClaimAnswered(w) \/ ClaimFails(w)
  \/ Shutdown(w) \/ ClosePool(w) \/ Exit(w) \/ Crash(w) \/ Restart(w)

Next ==
  \/ \E w \in Workers, j \in Jobs :
       ClaimJob(w, j) \/ RunStep(w, j) \/ LeaseStep(w, j)
  \/ \E w \in Workers : ProcStep(w)
  \/ \E j \in Jobs : EndJob(j)
  \/ Tick

Spec == Init /\ [][Next]_vars

-----------------------------------------------------------------------------
(* Fairness: time passes, timers fire, a process that is up keeps stepping  *)
(* and a dead one is restarted. ffmpeg obeys the kill switch (SIGKILL after *)
(* 4 s) but need not end by itself; any number of crashes, shutdowns and    *)
(* lost claims happen, but not for ever.                                    *)

Killed(w, j) ==
  /\ Running(w, j)
  /\ Lost(w, j) \/ proc[w] = "stopping"
  /\ FfmpegExits(w, j)

RunFairness(w, j) ==
  /\ WF_vars(Interval(w, j)) /\ WF_vars(HeartbeatRuns(w, j))
  /\ WF_vars(Renewed(w, j) \/ LeaseGone(w, j) \/ HeartbeatFails(w, j))
  /\ WF_vars(TooManyAttempts(w, j) \/ BroadcastOver(w, j) \/ Transcode(w, j)
             \/ SetupFails(w, j))
  /\ WF_vars(Killed(w, j)) /\ WF_vars(Drained(w, j))
  /\ WF_vars(Release(w, j) \/ ReleaseFails(w, j))

Fairness ==
  /\ WF_vars(Tick)
  /\ \A w \in Workers, j \in Jobs : RunFairness(w, j) /\ WF_vars(ClaimJob(w, j))
  /\ \A w \in Workers :
       /\ WF_vars(ClaimAnswered(w)) /\ WF_vars(ClosePool(w))
       /\ WF_vars(Exit(w)) /\ WF_vars(Restart(w))

FaultsCease ==
  <>[][~ \E w \in Workers : Shutdown(w) \/ Crash(w) \/ ClaimFails(w)]_vars

FairSpec == Spec /\ Fairness /\ FaultsCease

-----------------------------------------------------------------------------
(* Properties *)

TypeOK ==
  /\ row \in [Jobs -> Rows]
  /\ ended \subseteq Jobs
  /\ proc \in [Workers -> {"up", "stopping", "closing", "down"}]
  /\ claim \in [Workers -> Claims \cup {None}]
  /\ run \in [Workers -> [Jobs -> Runs \cup {None}]]
  /\ source \in [Jobs -> Tokens \cup {None}]

\* A run that writes: it does not know that it has lost the lease.
Writer(w, j) == Running(w, j) /\ run[w][j].lost = "no"

\* The lease never passes on while its holder still believes in it, so no two
\* workers write the output of one job at a time: "we stop on our own BEFORE
\* the lease can be taken by another worker" (runner.ts:114-118), also when
\* heartbeats hang, workers crash, restart or shut down.
OneWriter ==
  \A v, w \in Workers, j \in Jobs :
    Writer(v, j) /\ Writer(w, j) => v = w

\* A worker that still writes a job in the queue is the one its row names: a
\* released, re-claimed or failed job has no writer of an earlier claim.
WriterIsLeased ==
  \A w \in Workers, j \in Jobs :
    Writer(w, j) => \/ Owns(j, run[w][j].lease) /\ row[j].worker = w
                    \/ row[j].state \in {"finished", "cancelled"}

\* No job is stuck: an open one that no worker writes, because its worker
\* died, was fenced, never got the answer of its claim or gave the job back,
\* gets a writer again or is ended by somebody.
Open(j)   == row[j].state \in {"pending", "running"}
Served(j) == \E w \in Workers : Writer(w, j)

NeverStuck == \A j \in Jobs : Open(j) ~> (~ Open(j) \/ Served(j))

=============================================================================
