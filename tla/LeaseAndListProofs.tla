-------------------------- MODULE LeaseAndListProofs --------------------------
(***************************************************************************)
(* Two small parts, proved about beside each other as they are checked.    *)
(*                                                                         *)
(* The lease protocol excludes two writers of a job, for any number of     *)
(* workers, jobs and claims and any timing constants for which the fence   *)
(* closes within the lease (FenceInTime).                                  *)
(*                                                                         *)
(* The studio's list of destinations agrees with the table.  While         *)
(* requests are under way it need not: the invariant says of each          *)
(* destination which of them, once answered, brings the two together.      *)
(***************************************************************************)
EXTENDS MCLeaseAndList, Sequences, FiniteSetTheorems, TLAPS

\* A run that cannot renew its claim knows it before the lease is over, the
\* time its first answer was under way included.
FenceInTime == FenceSec + HeartbeatSec + ClaimDelay < LeaseSec

-----------------------------------------------------------------------------
(* The inductive invariant *)

\* What a run that writes knows about its lease: the time since it renewed is
\* bounded by its fence, and the database grants at least the rest.
RunClock(r, q) ==
  /\ r.age <= FenceSec + r.timer
  /\ r.hb # "none" => r.hbAge <= r.age
  /\ q.lease = r.lease /\ q.state = "running"
       => /\ LeaseSec <= q.left + r.age + ClaimDelay
          /\ r.hb = "owned" => LeaseSec <= q.left + r.hbAge

ClaimClock(c, q) ==
  q.lease = c.lease /\ q.state = "running" => LeaseSec <= q.left + c.age

Clock ==
  /\ \A w \in Workers, j \in Jobs :
       Writer(w, j) => RunClock(run[w][j], row[j])
  /\ \A w \in Workers :
       claim[w] # None => ClaimClock(claim[w], row[claim[w].job])

\* The row of a job that is still wanted names the claim and its worker.
Mandate(w, t, q) ==
  \/ q.state = "running" /\ q.lease = t /\ q.worker = w
  \/ q.state \in {"finished", "cancelled"}

Mandated ==
  /\ \A w \in Workers, j \in Jobs :
       Writer(w, j) => Mandate(w, run[w][j].lease, row[j])
  /\ \A w \in Workers :
       claim[w] # None => Mandate(w, claim[w].lease, row[claim[w].job])

\* A lease id is known to its worker only.
LeaseNamesWorker ==
  /\ \A w \in Workers, j \in Jobs :
       Running(w, j) /\ run[w][j].lease = row[j].lease => row[j].worker = w
  /\ \A w \in Workers :
       claim[w] # None /\ claim[w].lease = row[claim[w].job].lease
         => row[claim[w].job].worker = w

Holder(w, j) == Writer(w, j) \/ (claim[w] # None /\ claim[w].job = j)

OneHolder ==
  \A v, w \in Workers, j \in Jobs : Holder(v, j) /\ Holder(w, j) => v = w

ProcessesOK ==
  /\ \A w \in Workers : claim[w] # None => ~ Running(w, claim[w].job)
  /\ \A w \in Workers, j \in Jobs :
       proc[w] \in {"closing", "down"} => ~ Running(w, j)
  /\ \A w \in Workers : proc[w] = "down" => claim[w] = None

IInv ==
  /\ TypeOK /\ Clock /\ Mandated /\ LeaseNamesWorker /\ OneHolder /\ ProcessesOK

USE JobLeaseAssumption

LEMMA FenceType == FenceSec \in Nat
  BY DEF FenceSec

LEMMA ZeroInRange ==
  /\ 0 \in 0..HeartbeatSec /\ 0 \in 0..QueryTimeout
  /\ 0 \in 0..LeaseSec /\ 0 \in 0..ClaimDelay
  /\ 0..QueryTimeout \subseteq Nat /\ LeaseSec \in 0..LeaseSec
  OBVIOUS

LEMMA InitIInv == Init => IInv
<1> SUFFICES ASSUME Init PROVE IInv
  OBVIOUS
<1>1. TypeOK
  BY DEF Init, TypeOK, Rows, Free
<1>2. /\ \A w \in Workers, j \in Jobs : ~ Running(w, j)
      /\ \A w \in Workers : claim[w] = None
  BY DEF Init, Running
<1> QED
  BY <1>1, <1>2 DEF IInv, Clock, Mandated, LeaseNamesWorker, OneHolder,
     ProcessesOK, Holder, Writer

\* A writer or a claim under way keeps the row from being claimed again.
LEMMA HeldIsNotClaimable ==
  ASSUME IInv, FenceInTime, NEW w \in Workers, NEW j \in Jobs, Holder(w, j)
  PROVE  ~ Claimable(j)
<1> USE FenceType DEF IInv, TypeOK
<1>0. row[j] \in Rows
  OBVIOUS
<1>1. CASE Writer(w, j)
  <2>1. run[w][j] \in Runs
    BY <1>1 DEF Writer, Running
  <2>2. /\ RunClock(run[w][j], row[j])
        /\ Mandate(w, run[w][j].lease, row[j])
    BY <1>1 DEF Clock, Mandated
  <2>3. run[w][j].age \in Nat /\ run[w][j].timer <= HeartbeatSec /\ run[w][j].timer \in Nat
    BY <2>1 DEF Runs
  <2>4. row[j].left \in Nat
    BY <1>0 DEF Rows
  <2> QED
    BY <2>2, <2>3, <2>4 DEF RunClock, Mandate, Claimable, FenceInTime
<1>2. CASE claim[w] # None /\ claim[w].job = j
  <2>1. claim[w] \in Claims
    BY <1>2
  <2>2. ClaimClock(claim[w], row[j]) /\ Mandate(w, claim[w].lease, row[j])
    BY <1>2 DEF Clock, Mandated
  <2>3. claim[w].age \in Nat /\ claim[w].age <= ClaimDelay
    BY <2>1 DEF Claims
  <2>4. row[j].left \in Nat
    BY <1>0 DEF Rows
  <2> QED
    BY <2>2, <2>3, <2>4 DEF ClaimClock, Mandate, Claimable, FenceInTime
<1> QED
  BY <1>1, <1>2 DEF Holder

-----------------------------------------------------------------------------
(* Steps of one run *)

\* A step of one run that leaves the rows alone and does not renew its claim
\* behind the back of the database.
LEMMA LocalStep ==
  ASSUME IInv, NEW w \in Workers, NEW j \in Jobs, Running(w, j),
         NEW r \in Runs \cup {None}, SetRun(w, j, r),
         UNCHANGED <<row, ended, proc, claim>>,
         source' \in [Jobs -> Tokens \cup {None}],
         r # None => /\ r.lease = run[w][j].lease
                     /\ r.lost = "no" => Writer(w, j) /\ RunClock(r, row[j])
  PROVE  IInv'
<1> USE DEF IInv
<1>1. /\ run' \in [Workers -> [Jobs -> Runs \cup {None}]]
      /\ run'[w][j] = r
      /\ \A v \in Workers, i \in Jobs : v # w \/ i # j => run'[v][i] = run[v][i]
  BY DEF TypeOK, SetRun
<1>2. TypeOK'
  BY <1>1 DEF TypeOK
<1>3. \A v \in Workers, i \in Jobs :
        /\ Running(v, i)' => Running(v, i) /\ run'[v][i].lease = run[v][i].lease
        /\ Writer(v, i)' => Writer(v, i)
  <2> TAKE v \in Workers, i \in Jobs
  <2>1. CASE v = w /\ i = j
    BY <1>1, <2>1 DEF Running, Writer
  <2>2. CASE v # w \/ i # j
    BY <1>1, <2>2 DEF Running, Writer
  <2> QED
    BY <2>1, <2>2
<1>4. Clock'
  <2>1. ASSUME NEW v \in Workers, NEW i \in Jobs, Writer(v, i)'
        PROVE  RunClock(run'[v][i], row[i])
    <3>1. CASE v = w /\ i = j
      BY <1>1, <2>1, <3>1 DEF Writer, Running
    <3>2. CASE v # w \/ i # j
      BY <1>1, <1>3, <2>1, <3>2 DEF Clock
    <3> QED
      BY <3>1, <3>2
  <2> QED
    BY <2>1 DEF Clock, RunClock
<1>5. Mandated' /\ LeaseNamesWorker'
  BY <1>3 DEF Mandated, LeaseNamesWorker, Writer, Running
<1>6. \A v \in Workers, i \in Jobs : Holder(v, i)' => Holder(v, i)
  BY <1>3 DEF Holder
<1>7. OneHolder'
  BY <1>6 DEF OneHolder
<1>8. ProcessesOK'
  <2>1. \A v \in Workers : claim[v] # None => claim[v].job \in Jobs
    BY DEF TypeOK, Claims
  <2>2. \A v \in Workers : claim'[v] # None => run'[v][claim'[v].job] = None
    BY <1>3, <2>1 DEF ProcessesOK, Running
  <2>3. \A v \in Workers, i \in Jobs :
          proc'[v] \in {"closing", "down"} => run'[v][i] = None
    BY <1>3 DEF ProcessesOK, Running
  <2> QED
    BY <2>2, <2>3 DEF ProcessesOK, Running
<1> QED
  BY <1>2, <1>4, <1>5, <1>7, <1>8

\* The run goes on with another phase, or is over.
LEMMA PhaseStep ==
  ASSUME IInv, NEW w \in Workers, NEW j \in Jobs,
         \/ Transcode(w, j) \/ SetupFails(w, j) \/ FfmpegExits(w, j)
         \/ Drained(w, j) \/ ReleaseFails(w, j)
  PROVE  IInv'
<1> DEFINE old == run[w][j]
<1>1. Running(w, j) /\ old \in Runs /\ source \in [Jobs -> Tokens \cup {None}]
  BY DEF IInv, TypeOK, Transcode, SetupFails, FfmpegExits, Drained, ReleaseFails,
     Running
<1>2. source' \in [Jobs -> Tokens \cup {None}]
  BY <1>1 DEF Runs, Transcode, SetupFails, FfmpegExits, Drained, ReleaseFails
<1>3. PICK p \in {"encoding", "failing", "draining", "releasing"} :
        SetRun(w, j, None) \/ SetRun(w, j, [old EXCEPT !.phase = p])
  BY DEF Transcode, SetupFails, FfmpegExits, Drained, ReleaseFails
<1>4. UNCHANGED <<row, ended, proc, claim>>
  BY DEF Transcode, SetupFails, FfmpegExits, Drained, ReleaseFails
<1>5. CASE SetRun(w, j, None)
  BY <1>1, <1>2, <1>4, <1>5, LocalStep
<1>6. CASE SetRun(w, j, [old EXCEPT !.phase = p])
  <2> DEFINE r == [old EXCEPT !.phase = p]
  <2>1. /\ r \in Runs /\ r.lease = old.lease /\ r.lost = old.lost
        /\ r.age = old.age /\ r.timer = old.timer
        /\ r.hb = old.hb /\ r.hbAge = old.hbAge
    BY <1>1 DEF Runs
  <2>2. r.lost = "no" => Writer(w, j) /\ RunClock(r, row[j])
    <3> HIDE DEF r
    <3> QED
      BY <1>1, <2>1 DEF IInv, Clock, Writer, RunClock
  <2> HIDE DEF r
  <2> QED
    BY <1>1, <1>2, <1>4, <1>6, <2>1, <2>2, LocalStep DEF r
<1> QED
  BY <1>3, <1>5, <1>6

\* The interval and the answers of the heartbeat.
LEMMA IntervalStep ==
  ASSUME IInv, NEW w \in Workers, NEW j \in Jobs, Interval(w, j)
  PROVE  IInv'
<1> DEFINE old == run[w][j]
           beat == old.hb = "none" /\ old.lost = "no"
           r == [old EXCEPT
                   !.timer = 0,
                   !.hb    = IF beat THEN "sent" ELSE @,
                   !.hbAge = IF beat THEN 0 ELSE @,
                   !.lost  = IF @ = "no" /\ old.age > FenceSec THEN "fenced" ELSE @]
<1>1. Running(w, j) /\ old \in Runs /\ source \in [Jobs -> Tokens \cup {None}]
  BY DEF IInv, TypeOK, Interval, Running
<1>2. SetRun(w, j, r) /\ UNCHANGED <<row, ended, proc, claim, source>>
  BY DEF Interval
<1>3. /\ r \in Runs /\ r.lease = old.lease /\ r.age = old.age /\ r.timer = 0
      /\ r.lost = IF old.lost = "no" /\ old.age > FenceSec THEN "fenced" ELSE old.lost
      /\ r.hb = IF beat THEN "sent" ELSE old.hb
      /\ r.hbAge = IF beat THEN 0 ELSE old.hbAge
  <2> HIDE DEF old
  <2> QED
    BY <1>1, ZeroInRange DEF Runs
<1>4. r.lost = "no" => Writer(w, j) /\ RunClock(r, row[j])
  <2> HIDE DEF r
  <2> SUFFICES ASSUME r.lost = "no" PROVE Writer(w, j) /\ RunClock(r, row[j])
    OBVIOUS
  <2>1. old.lost = "no" /\ ~ (old.age > FenceSec)
    BY <1>3
  <2>2. Writer(w, j) /\ RunClock(old, row[j])
    BY <1>1, <2>1 DEF IInv, Clock, Writer
  <2>3. old.age \in Nat /\ old.hbAge \in Nat /\ old.timer \in Nat
    BY <1>1 DEF Runs
  <2> QED
    BY <1>3, <2>1, <2>2, <2>3, FenceType DEF RunClock
<1> HIDE DEF r, old
<1> QED
  BY <1>1, <1>2, <1>3, <1>4, LocalStep DEF old

LEMMA AnswerStep ==
  ASSUME IInv, NEW w \in Workers, NEW j \in Jobs,
         Renewed(w, j) \/ LeaseGone(w, j) \/ HeartbeatFails(w, j)
  PROVE  IInv'
<1> DEFINE old == run[w][j]
<1>0. Running(w, j)
  BY DEF Renewed, LeaseGone, HeartbeatFails
<1>1. Running(w, j) /\ old \in Runs /\ source \in [Jobs -> Tokens \cup {None}]
  BY <1>0 DEF IInv, TypeOK, Running
<1>2. UNCHANGED <<row, ended, proc, claim, source>>
  BY DEF Renewed, LeaseGone, HeartbeatFails
<1>3. Writer(w, j) => RunClock(old, row[j])
  BY DEF IInv, Clock
<1>4. CASE Renewed(w, j)
  <2> DEFINE r == [old EXCEPT !.hb = "none", !.hbAge = 0, !.age = old.hbAge]
  <2>1. /\ r \in Runs /\ r.lease = old.lease /\ r.lost = old.lost
        /\ r.age = old.hbAge /\ r.timer = old.timer /\ r.hb = "none"
    <3> HIDE DEF old
    <3> QED
      BY <1>1, ZeroInRange DEF Runs
  <2>2. SetRun(w, j, r) /\ old.hb = "owned"
    BY <1>4 DEF Renewed
  <2>3. /\ old.age \in Nat /\ old.hbAge \in Nat /\ old.timer \in Nat
        /\ row[j].left \in Nat
    BY <1>1 DEF Runs, IInv, TypeOK, Rows
  <2>4. r.lost = "no" => Writer(w, j) /\ RunClock(r, row[j])
    <3> HIDE DEF r, old
    <3>1. Writer(w, j) <=> old.lost = "no"
      BY <1>1 DEF Writer, old
    <3> QED
      BY <1>3, <2>1, <2>2, <2>3, <3>1, FenceType DEF RunClock
  <2> HIDE DEF r, old
  <2> QED
    BY <1>1, <1>2, <2>1, <2>2, <2>4, LocalStep DEF old
<1>5. ASSUME NEW verdict \in {"no", "fenced", "graceful"},
             SetRun(w, j, [old EXCEPT !.hb = "none", !.hbAge = 0, !.lost = verdict]),
             verdict = "no" => old.lost = "no"
      PROVE  IInv'
  <2> DEFINE r == [old EXCEPT !.hb = "none", !.hbAge = 0, !.lost = verdict]
  <2>1. /\ r \in Runs /\ r.lease = old.lease /\ r.lost = verdict
        /\ r.age = old.age /\ r.timer = old.timer /\ r.hb = "none"
    <3> HIDE DEF old
    <3> QED
      BY <1>1, ZeroInRange DEF Runs
  <2>2. SetRun(w, j, r)
    BY <1>5
  <2>4. r.lost = "no" => Writer(w, j) /\ RunClock(r, row[j])
    <3> HIDE DEF r, old
    <3>1. Writer(w, j) <=> old.lost = "no"
      BY <1>1 DEF Writer, old
    <3> QED
      BY <1>3, <1>5, <2>1, <3>1 DEF RunClock
  <2> HIDE DEF r, old
  <2> QED
    BY <1>1, <1>2, <2>1, <2>2, <2>4, LocalStep DEF old
<1>6. CASE LeaseGone(w, j)
  <2>1. PICK verdict \in {"graceful", "fenced"} :
          SetRun(w, j, [old EXCEPT !.hb = "none", !.hbAge = 0,
                          !.lost = IF @ = "no" THEN verdict ELSE @])
    BY <1>6 DEF LeaseGone
  <2> DEFINE final == IF old.lost = "no" THEN verdict ELSE old.lost
  <2>2. final \in {"no", "fenced", "graceful"} /\ final # "no"
    BY <1>1 DEF Runs
  <2>3. SetRun(w, j, [old EXCEPT !.hb = "none", !.hbAge = 0, !.lost = final])
    BY <2>1
  <2> HIDE DEF final, old
  <2> QED
    BY <1>5, <2>2, <2>3
<1>7. CASE HeartbeatFails(w, j)
  <2>1. [old EXCEPT !.hb = "none", !.hbAge = 0]
          = [old EXCEPT !.hb = "none", !.hbAge = 0, !.lost = old.lost]
    BY <1>1 DEF Runs
  <2>2. old.lost \in {"no", "fenced", "graceful"}
    BY <1>1 DEF Runs
  <2>3. SetRun(w, j, [old EXCEPT !.hb = "none", !.hbAge = 0, !.lost = old.lost])
    BY <1>7, <2>1 DEF HeartbeatFails
  <2> HIDE DEF old
  <2> QED
    BY <1>5, <2>2, <2>3
<1> QED
  BY <1>4, <1>6, <1>7

\* The UPDATE of a heartbeat: the lease starts again in the row of its claim.
LEMMA HeartbeatStep ==
  ASSUME IInv, NEW w \in Workers, NEW j \in Jobs, HeartbeatRuns(w, j)
  PROVE  IInv'
<1> DEFINE old == run[w][j]
<1>1. Running(w, j) /\ old \in Runs /\ source \in [Jobs -> Tokens \cup {None}]
  BY DEF IInv, TypeOK, HeartbeatRuns, Running
<1>2. Writer(w, j) => RunClock(old, row[j])
  BY DEF IInv, Clock
<1>3. CASE ~ Owns(j, old.lease)
  <2> DEFINE r == [old EXCEPT !.hb = "lost"]
  <2>1. /\ r \in Runs /\ r.lease = old.lease /\ r.lost = old.lost
        /\ r.age = old.age /\ r.timer = old.timer
        /\ r.hb = "lost" /\ r.hbAge = old.hbAge
    <3> HIDE DEF old
    <3> QED
      BY <1>1 DEF Runs
  <2>2. SetRun(w, j, r) /\ UNCHANGED <<row, ended, proc, claim, source>> /\ old.hb = "sent"
    BY <1>3 DEF HeartbeatRuns
  <2>3. r.lost = "no" => Writer(w, j) /\ RunClock(r, row[j])
    <3>1. Writer(w, j) <=> old.lost = "no"
      BY <1>1 DEF Writer
    <3> HIDE DEF r, old
    <3> QED
      BY <1>2, <2>1, <2>2, <3>1 DEF RunClock
  <2> HIDE DEF r, old
  <2> QED
    BY <1>1, <2>1, <2>2, <2>3, LocalStep DEF old
<1>4. CASE Owns(j, old.lease)
  <2> USE DEF IInv
  <2> DEFINE r == [old EXCEPT !.hb = "owned"]
             q == [row[j] EXCEPT !.left = LeaseSec]
  <2>1. /\ r \in Runs /\ r.lease = old.lease /\ r.lost = old.lost
        /\ r.age = old.age /\ r.timer = old.timer
        /\ r.hb = "owned" /\ r.hbAge = old.hbAge
    <3> HIDE DEF old
    <3> QED
      BY <1>1 DEF Runs
  <2>2. row[j] \in Rows
    BY DEF TypeOK
  <2>3. /\ q \in Rows /\ q.state = row[j].state /\ q.lease = row[j].lease
        /\ q.worker = row[j].worker /\ q.left = LeaseSec
    BY <2>2, ZeroInRange DEF Rows
  <2>4. /\ SetRun(w, j, r) /\ UNCHANGED <<ended, proc, claim, source>>
        /\ old.hb = "sent" /\ row' = [row EXCEPT ![j] = q]
    BY <1>4 DEF HeartbeatRuns, RenewedLease
  <2> HIDE DEF r, q
  <2>5. /\ run' \in [Workers -> [Jobs -> Runs \cup {None}]]
        /\ run'[w][j] = r
        /\ \A v \in Workers, i \in Jobs : v # w \/ i # j => run'[v][i] = run[v][i]
    BY <2>1, <2>4 DEF TypeOK, SetRun
  <2>6. /\ row' \in [Jobs -> Rows] /\ row'[j] = q
        /\ \A i \in Jobs : i # j => row'[i] = row[i]
    BY <2>3, <2>4 DEF TypeOK
  <2>7. \A i \in Jobs :
          /\ row'[i].state = row[i].state /\ row'[i].lease = row[i].lease
          /\ row'[i].worker = row[i].worker
          /\ row[i].left <= row'[i].left
    BY <2>2, <2>3, <2>6 DEF TypeOK, Rows
  <2>8. \A v \in Workers, i \in Jobs :
          /\ Running(v, i)' => Running(v, i) /\ run'[v][i].lease = run[v][i].lease
          /\ Writer(v, i)' => Writer(v, i)
    <3> TAKE v \in Workers, i \in Jobs
    <3>1. CASE v = w /\ i = j
      BY <1>1, <2>1, <2>5, <3>1 DEF Running, Writer
    <3>2. CASE v # w \/ i # j
      BY <2>5, <3>2 DEF Running, Writer
    <3> QED
      BY <3>1, <3>2
  <2>9. TypeOK'
    BY <2>4, <2>5, <2>6 DEF TypeOK
  <2>10. Clock'
    <3>1. ASSUME NEW v \in Workers, NEW i \in Jobs, Writer(v, i)'
          PROVE  RunClock(run'[v][i], row'[i])
      <4>0. Writer(v, i)
        BY <2>8, <3>1
      <4>1. RunClock(run[v][i], row[i])
        BY <4>0 DEF Clock
      <4>2. /\ run[v][i] \in Runs /\ row[i] \in Rows /\ row'[i] \in Rows
        BY <4>0, <2>6 DEF TypeOK, Writer, Running
      <4>3. CASE v = w /\ i = j
        BY <2>1, <2>3, <2>4, <2>5, <2>6, <4>1, <4>2, <4>3 DEF RunClock, Runs
      <4>4. CASE v # w \/ i # j
        BY <2>5, <2>7, <4>1, <4>2, <4>4 DEF RunClock, Runs, Rows
      <4> QED
        BY <4>3, <4>4
    <3>2. ASSUME NEW v \in Workers, claim'[v] # None
          PROVE  ClaimClock(claim'[v], row'[claim'[v].job])
      <4>1. claim'[v] = claim[v] /\ claim[v] \in Claims
        BY <2>4, <3>2 DEF TypeOK
      <4>2. claim[v].job \in Jobs /\ ClaimClock(claim[v], row[claim[v].job])
        BY <3>2, <4>1 DEF Clock, Claims
      <4> QED
        BY <2>6, <2>7, <4>1, <4>2 DEF ClaimClock, Claims, TypeOK, Rows
    <3> QED
      BY <3>1, <3>2 DEF Clock
  <2>11. \A v \in Workers : claim[v] # None => claim[v].job \in Jobs
    BY DEF TypeOK, Claims
  <2>12. Mandated' /\ LeaseNamesWorker'
    BY <2>4, <2>7, <2>8, <2>11 DEF Mandated, LeaseNamesWorker, Mandate, Writer
  <2>13. \A v \in Workers, i \in Jobs : Holder(v, i)' => Holder(v, i)
    BY <2>4, <2>8 DEF Holder
  <2>14. OneHolder'
    BY <2>13 DEF OneHolder
  <2>15. ProcessesOK'
    BY <2>4, <2>8, <2>11 DEF ProcessesOK, Running
  <2> QED
    BY <2>9, <2>10, <2>12, <2>14, <2>15
<1> QED
  BY <1>3, <1>4

-----------------------------------------------------------------------------
(* Steps that only take holders away *)

\* Runs and claims only disappear, and a row that changes is out of the hands
\* of its worker: nobody holds it, or everybody stops in an orderly way.
LEMMA FewerHolders ==
  ASSUME IInv, TypeOK',
         \A v \in Workers, i \in Jobs : run'[v][i] = run[v][i] \/ run'[v][i] = None,
         \A v \in Workers : claim'[v] = claim[v] \/ claim'[v] = None,
         \A v \in Workers, i \in Jobs :
           proc'[v] \in {"closing", "down"} => run'[v][i] = None,
         \A v \in Workers : proc'[v] = "down" => claim'[v] = None,
         \A i \in Jobs :
           \/ row'[i] = row[i]
           \/ /\ row'[i].state # "running" /\ row'[i].lease = None
              /\ \/ row'[i].state \in {"finished", "cancelled"}
                 \/ \A v \in Workers : ~ Holder(v, i)'
  PROVE  IInv'
<1> USE DEF IInv
<1>1. \A v \in Workers : claim'[v] # None =>
        claim'[v] = claim[v] /\ claim[v].job \in Jobs /\ claim[v].lease \in Tokens
  BY DEF TypeOK, Claims
<1>2. \A v \in Workers, i \in Jobs :
        Running(v, i)' => /\ Running(v, i) /\ run'[v][i] = run[v][i]
                          /\ run[v][i].lease \in Tokens
  BY DEF TypeOK, Running, Runs
<1>3. \A v \in Workers, i \in Jobs : Writer(v, i)' => Writer(v, i) /\ Running(v, i)'
  BY <1>2 DEF Writer
<1>4. \A v \in Workers, i \in Jobs : Holder(v, i)' => Holder(v, i)
  BY <1>1, <1>3 DEF Holder
<1>5. \A i \in Jobs : row'[i] # row[i] =>
        row'[i].state # "running" /\ row'[i].lease \notin Tokens
  OBVIOUS
<1>6. Clock'
  <2>1. ASSUME NEW v \in Workers, NEW i \in Jobs, Writer(v, i)'
        PROVE  RunClock(run'[v][i], row'[i])
    <3>1. run'[v][i] = run[v][i] /\ RunClock(run[v][i], row[i])
      BY <1>2, <1>3, <2>1 DEF Clock
    <3> QED
      BY <1>5, <3>1 DEF RunClock
  <2>2. ASSUME NEW v \in Workers, claim'[v] # None
        PROVE  ClaimClock(claim'[v], row'[claim'[v].job])
    BY <1>1, <1>5, <2>2 DEF Clock, ClaimClock
  <2> QED
    BY <2>1, <2>2 DEF Clock
<1>7. Mandated'
  <2>1. ASSUME NEW v \in Workers, NEW i \in Jobs, Writer(v, i)'
        PROVE  Mandate(v, run'[v][i].lease, row'[i])
    <3>1. run'[v][i] = run[v][i] /\ Mandate(v, run[v][i].lease, row[i])
      BY <1>2, <1>3, <2>1 DEF Mandated
    <3>2. Holder(v, i)'
      BY <2>1 DEF Holder
    <3> QED
      BY <3>1, <3>2 DEF Mandate
  <2>2. ASSUME NEW v \in Workers, claim'[v] # None
        PROVE  Mandate(v, claim'[v].lease, row'[claim'[v].job])
    <3>1. /\ claim'[v] = claim[v] /\ claim[v].job \in Jobs
          /\ Mandate(v, claim[v].lease, row[claim[v].job])
      BY <1>1, <2>2 DEF Mandated
    <3>2. ASSUME NEW i \in Jobs, claim'[v].job = i PROVE Holder(v, i)'
      BY <2>2, <3>2 DEF Holder
    <3> QED
      BY <3>1, <3>2 DEF Mandate
  <2> QED
    BY <2>1, <2>2 DEF Mandated
<1>8. LeaseNamesWorker'
  BY <1>1, <1>2, <1>5 DEF LeaseNamesWorker
<1>9. OneHolder'
  BY <1>4 DEF OneHolder
<1>10. ProcessesOK'
  BY <1>1, <1>2 DEF ProcessesOK, Running
<1> QED
  BY <1>6, <1>7, <1>8, <1>9, <1>10

\* Who owns the row is the only one that can hold the job.
LEMMA OwnerAlone ==
  ASSUME IInv, NEW v \in Workers, NEW w \in Workers, NEW j \in Jobs,
         row[j].state = "running", row[j].worker = w, Holder(v, j)
  PROVE  v = w
<1>1. CASE Writer(v, j)
  BY <1>1 DEF IInv, Mandated, Mandate
<1>2. CASE claim[v] # None /\ claim[v].job = j
  BY <1>2 DEF IInv, Mandated, Mandate
<1> QED
  BY <1>1, <1>2 DEF Holder

\* A run that is over gives up the row, if it still owns it.
LEMMA RunOver ==
  ASSUME IInv, NEW w \in Workers, NEW j \in Jobs, Running(w, j),
         NEW q \in Rows, q.state # "running", q.lease = None,
         SetRun(w, j, None), UNCHANGED <<ended, proc, claim, source>>,
         \/ UNCHANGED row
         \/ Owns(j, run[w][j].lease) /\ row' = [row EXCEPT ![j] = q]
  PROVE  IInv'
<1> USE DEF IInv
<1>1. /\ run' \in [Workers -> [Jobs -> Runs \cup {None}]]
      /\ run'[w][j] = None
      /\ \A v \in Workers, i \in Jobs : v # w \/ i # j => run'[v][i] = run[v][i]
  BY DEF TypeOK, SetRun
<1>2. TypeOK'
  BY SMTT(30), <1>1 DEF TypeOK
<1>3. \A v \in Workers, i \in Jobs : run'[v][i] = run[v][i] \/ run'[v][i] = None
  BY <1>1
<1>4. \A v \in Workers, i \in Jobs :
        proc'[v] \in {"closing", "down"} => run'[v][i] = None
  BY <1>3 DEF ProcessesOK, Running
<1>5. \A v \in Workers : proc'[v] = "down" => claim'[v] = None
  BY DEF ProcessesOK
<1>6. ASSUME Owns(j, run[w][j].lease), NEW v \in Workers
      PROVE  ~ Holder(v, j)'
  <2>1. row[j].state = "running" /\ row[j].worker = w
    BY <1>6 DEF LeaseNamesWorker, Owns
  <2>2. Holder(v, j)' => Holder(v, j)
    BY <1>3 DEF Holder, Writer, Running
  <2>3. Holder(v, j)' => v = w
    BY <2>1, <2>2, OwnerAlone
  <2>4. ~ Writer(w, j)'
    BY <1>1 DEF Writer, Running
  <2>5. ~ (claim'[w] # None /\ claim'[w].job = j)
    BY DEF ProcessesOK
  <2> QED
    BY <2>3, <2>4, <2>5 DEF Holder
<1>7. \A i \in Jobs :
        \/ row'[i] = row[i]
        \/ /\ row'[i].state # "running" /\ row'[i].lease = None
           /\ \/ row'[i].state \in {"finished", "cancelled"}
              \/ \A v \in Workers : ~ Holder(v, i)'
  <2>1. CASE UNCHANGED row
    BY <2>1
  <2>2. CASE Owns(j, run[w][j].lease) /\ row' = [row EXCEPT ![j] = q]
    BY <1>6, <2>2 DEF TypeOK
  <2> QED
    BY <2>1, <2>2
<1> QED
  BY <1>2, <1>3, <1>4, <1>5, <1>7, FewerHolders

LEMMA RefuseStep ==
  ASSUME IInv, NEW w \in Workers, NEW j \in Jobs,
         TooManyAttempts(w, j) \/ BroadcastOver(w, j)
  PROVE  IInv'
<1>1. PICK st \in {"failed", "cancelled"} : Running(w, j) /\ Refuse(w, j, st)
  BY DEF TooManyAttempts, BroadcastOver
<1>2. row[j] \in Rows
  BY DEF IInv, TypeOK
<1> DEFINE q == [row[j] EXCEPT !.state = st, !.lease = None, !.left = 0]
<1>3. q \in Rows /\ q.state # "running" /\ q.lease = None
  BY <1>2, ZeroInRange DEF Rows
<1>4. /\ SetRun(w, j, None) /\ UNCHANGED <<ended, proc, claim, source>>
      /\ \/ UNCHANGED row
         \/ Owns(j, run[w][j].lease) /\ row' = [row EXCEPT ![j] = q]
  BY <1>1 DEF Refuse
<1> HIDE DEF q
<1> QED
  BY <1>1, <1>3, <1>4, RunOver

\* A free row is pending, so giving a job back changes its attempts only.
LEMMA FreeIsPending ==
  ASSUME NEW n
  PROVE  [Free EXCEPT !.attempts = n]
           = [Free EXCEPT !.state = "pending", !.attempts = n]
<1>1. [Free EXCEPT !.state = "pending"] = Free
  BY DEF Free
<1>2. [[Free EXCEPT !.state = "pending"] EXCEPT !.attempts = n]
        = [Free EXCEPT !.state = "pending", !.attempts = n]
  BY DEF Free
<1> QED
  BY <1>1, <1>2

LEMMA FreeType ==
  ASSUME NEW n \in 0..MaxAttempts + 1, NEW st \in {"pending", "failed"}
  PROVE  LET q == [Free EXCEPT !.state = st, !.attempts = n]
         IN  q \in Rows /\ q.state = st /\ q.lease = None
  BY ZeroInRange DEF Free, Rows

LEMMA ReleaseStep ==
  ASSUME IInv, NEW w \in Workers, NEW j \in Jobs, Release(w, j)
  PROVE  IInv'
<1>1. /\ Running(w, j) /\ SetRun(w, j, None)
      /\ UNCHANGED <<ended, proc, claim, source>>
      /\ \E reset \in BOOLEAN : Requeue(j, run[w][j].lease, reset)
  BY DEF Release
<1>2. row[j] \in Rows
  BY DEF IInv, TypeOK
<1>3. row[j].attempts \in 0..MaxAttempts + 1 /\ 0 \in 0..MaxAttempts + 1
  BY <1>2 DEF Rows
<1>4. PICK n \in 0..MaxAttempts + 1, st \in {"pending", "failed"} :
        \/ UNCHANGED row
        \/ /\ Owns(j, run[w][j].lease)
           /\ row' = [row EXCEPT ![j] = [Free EXCEPT !.state = st, !.attempts = n]]
  <2>1. PICK reset \in BOOLEAN : Requeue(j, run[w][j].lease, reset)
    BY <1>1
  <2>2. ASSUME NEW n, GiveBack(j, n)
        PROVE  row' = [row EXCEPT ![j] = [Free EXCEPT !.state = "pending", !.attempts = n]]
    BY <2>2, FreeIsPending DEF GiveBack
  <2> QED
    BY <1>3, <2>1, <2>2 DEF Requeue
<1> DEFINE q == [Free EXCEPT !.state = st, !.attempts = n]
<1>5. q \in Rows /\ q.state # "running" /\ q.lease = None
  BY FreeType
<1> HIDE DEF q
<1> QED
  BY <1>1, <1>4, <1>5, RunOver DEF q

-----------------------------------------------------------------------------
(* Processes and the control plane *)

LEMMA ProcessStep ==
  ASSUME IInv, NEW w \in Workers,
         \/ ClaimFails(w) \/ Shutdown(w) \/ ClosePool(w) \/ Exit(w) \/ Crash(w)
  PROVE  IInv'
<1> USE DEF IInv
<1>1. UNCHANGED <<row, ended, source>>
  BY DEF ClaimFails, Shutdown, ClosePool, Exit, Crash
<1>2. \A v \in Workers : claim'[v] = claim[v] \/ claim'[v] = None
  BY DEF ClaimFails, Shutdown, ClosePool, Exit, Crash, TypeOK
<1>3. /\ run' \in [Workers -> [Jobs -> Runs \cup {None}]]
      /\ \A v \in Workers, i \in Jobs : run'[v][i] = run[v][i] \/ run'[v][i] = None
  BY SMTT(30) DEF ClaimFails, Shutdown, ClosePool, Exit, Crash, TypeOK
<1>4. /\ proc' \in [Workers -> {"up", "stopping", "closing", "down"}]
      /\ claim' \in [Workers -> Claims \cup {None}]
  BY DEF ClaimFails, Shutdown, ClosePool, Exit, Crash, TypeOK
<1>5. TypeOK'
  BY <1>1, <1>3, <1>4 DEF TypeOK
<1>6. ASSUME NEW v \in Workers, NEW i \in Jobs, proc'[v] \in {"closing", "down"}
      PROVE  run'[v][i] = None
  <2>1. CASE proc[v] \in {"closing", "down"}
    BY <1>3, <2>1 DEF ProcessesOK, Running
  <2>2. CASE proc[v] \notin {"closing", "down"}
    BY <1>6, <2>2 DEF ClaimFails, Shutdown, ClosePool, Exit, Crash, TypeOK, Running
  <2> QED
    BY <2>1, <2>2
<1>7. ASSUME NEW v \in Workers, proc'[v] = "down"
      PROVE  claim'[v] = None
  <2>1. CASE proc[v] = "down"
    BY <1>2, <2>1 DEF ProcessesOK
  <2>2. CASE proc[v] # "down"
    BY <1>7, <2>2 DEF ClaimFails, Shutdown, ClosePool, Exit, Crash, TypeOK
  <2> QED
    BY <2>1, <2>2
<1> QED
  BY <1>1, <1>2, <1>3, <1>5, <1>6, <1>7, FewerHolders

\* Nobody runs or claims for the worker that restarts, so no job it hands back
\* has a holder.
LEMMA RestartStep ==
  ASSUME IInv, NEW w \in Workers, Restart(w)
  PROVE  IInv'
<1> USE DEF IInv
<1>1. /\ proc[w] = "down" /\ UNCHANGED <<ended, claim, run, source>>
      /\ proc' = [proc EXCEPT ![w] = "up"]
      /\ row' = [i \in Jobs |-> IF Orphaned(w, i)
                               THEN [Free EXCEPT !.attempts = row[i].attempts]
                               ELSE row[i]]
  BY DEF Restart
<1>2. ASSUME NEW i \in Jobs, Orphaned(w, i)
      PROVE  /\ row'[i] \in Rows /\ row'[i].state # "running" /\ row'[i].lease = None
             /\ \A v \in Workers : ~ Holder(v, i)'
  <2>1. PICK n \in 0..MaxAttempts + 1 : n = row[i].attempts
    BY DEF TypeOK, Rows
  <2>2. row'[i] = [Free EXCEPT !.attempts = n]
    BY <1>1, <1>2, <2>1
  <2>3. row'[i] \in Rows /\ row'[i].state = "pending" /\ row'[i].lease = None
    <3>1. row'[i] = [Free EXCEPT !.state = "pending", !.attempts = n]
      BY <2>2, FreeIsPending
    <3> DEFINE q == [Free EXCEPT !.state = "pending", !.attempts = n]
    <3>2. q \in Rows /\ q.state = "pending" /\ q.lease = None
      BY FreeType
    <3>3. row'[i] = q
      BY <3>1
    <3> HIDE DEF q
    <3> QED
      BY <3>2, <3>3
  <2>4. ASSUME NEW v \in Workers, Holder(v, i)' PROVE FALSE
    <3>1. Holder(v, i)
      BY <1>1, <2>4 DEF Holder, Writer, Running
    <3>2. v = w
      BY <1>2, <3>1, OwnerAlone DEF Orphaned
    <3> QED
      BY <1>1, <3>1, <3>2 DEF Holder, Writer, ProcessesOK
  <2> QED
    BY <2>3, <2>4
<1>3. \A i \in Jobs : ~ Orphaned(w, i) => row'[i] = row[i]
  BY <1>1
<1>4. TypeOK'
  <2>1. \A i \in Jobs : row'[i] \in Rows
    BY <1>2, <1>3 DEF TypeOK
  <2>2. row' \in [Jobs -> Rows]
    BY <1>1, <2>1
  <2> QED
    BY <1>1, <2>2 DEF TypeOK
<1>5. \A v \in Workers, i \in Jobs :
        proc'[v] \in {"closing", "down"} => run'[v][i] = None
  BY <1>1 DEF TypeOK, ProcessesOK, Running
<1>6. \A v \in Workers : proc'[v] = "down" => claim'[v] = None
  BY <1>1 DEF TypeOK, ProcessesOK
<1> QED
  BY <1>1, <1>2, <1>3, <1>4, <1>5, <1>6, FewerHolders

LEMMA EndJobStep ==
  ASSUME IInv, NEW j \in Jobs, EndJob(j)
  PROVE  IInv'
<1> USE DEF IInv
<1>1. PICK st \in {"finished", "cancelled"} :
        row' = [row EXCEPT ![j] = [@ EXCEPT !.state = st, !.lease = None, !.left = 0]]
  BY DEF EndJob
<1>2. ended' \in {ended, ended \cup {j}} /\ UNCHANGED <<proc, claim, run, source>>
  BY DEF EndJob
<1> DEFINE q == [row[j] EXCEPT !.state = st, !.lease = None, !.left = 0]
<1>3. row[j] \in Rows
  BY DEF TypeOK
<1>4. q \in Rows /\ q.state = st /\ q.lease = None
  BY <1>3, ZeroInRange DEF Rows
<1>5. row' = [row EXCEPT ![j] = q]
  BY <1>1
<1> HIDE DEF q
<1>6. TypeOK'
  BY <1>2, <1>4, <1>5 DEF TypeOK
<1>7. \A i \in Jobs : \/ row'[i] = row[i]
                      \/ /\ row'[i].state # "running" /\ row'[i].lease = None
                         /\ row'[i].state \in {"finished", "cancelled"}
  BY <1>4, <1>5 DEF TypeOK
<1>8. \A v \in Workers, i \in Jobs :
        proc'[v] \in {"closing", "down"} => run'[v][i] = None
  BY <1>2 DEF ProcessesOK, Running
<1>9. \A v \in Workers : proc'[v] = "down" => claim'[v] = None
  BY <1>2 DEF ProcessesOK
<1> QED
  BY <1>2, <1>6, <1>7, <1>8, <1>9, FewerHolders

-----------------------------------------------------------------------------
(* Claims *)

\* Nobody holds a job that is claimable, and the new lease id is in nobody's
\* hands.
LEMMA ClaimStep ==
  ASSUME IInv, FenceInTime, NEW w \in Workers, NEW j \in Jobs, ClaimJob(w, j)
  PROVE  IInv'
<1> USE DEF IInv
<1>1. /\ proc[w] = "up" /\ claim[w] = None /\ ~ Running(w, j) /\ Claimable(j)
      /\ UNCHANGED <<ended, proc, run, source>>
  BY DEF ClaimJob
<1>2. PICK t \in Tokens :
        /\ ~ InUse(t)
        /\ row' = [row EXCEPT ![j] =
                     [state |-> "running", worker |-> w, lease |-> t,
                      left |-> LeaseSec, attempts |-> More(row[j].attempts)]]
        /\ claim' = [claim EXCEPT ![w] =
                       [job |-> j, lease |-> t, age |-> 0,
                        attempts |-> More(row[j].attempts)]]
  BY DEF ClaimJob
<1> DEFINE n == More(row[j].attempts)
           q == [state |-> "running", worker |-> w, lease |-> t,
                 left |-> LeaseSec, attempts |-> n]
           c == [job |-> j, lease |-> t, age |-> 0, attempts |-> n]
<1>3. n \in 0..MaxAttempts + 1
  BY DEF TypeOK, Rows, More
<1>4. /\ q \in Rows /\ q.state = "running" /\ q.worker = w /\ q.lease = t
      /\ q.left = LeaseSec
  BY <1>3, ZeroInRange DEF Rows
<1>5. c \in Claims /\ c.job = j /\ c.lease = t /\ c.age = 0
  BY <1>3, ZeroInRange DEF Claims
<1>6. /\ row' = [row EXCEPT ![j] = q] /\ claim' = [claim EXCEPT ![w] = c]
  BY <1>2
<1> HIDE DEF n, q, c
<1>7. /\ row' \in [Jobs -> Rows] /\ row'[j] = q
      /\ \A i \in Jobs : i # j => row'[i] = row[i]
  BY <1>4, <1>6 DEF TypeOK
<1>8. /\ claim' \in [Workers -> Claims \cup {None}] /\ claim'[w] = c
      /\ \A v \in Workers : v # w => claim'[v] = claim[v]
  BY <1>5, <1>6 DEF TypeOK
<1>9. TypeOK'
  BY <1>1, <1>7, <1>8 DEF TypeOK
<1>10. \A v \in Workers : ~ Holder(v, j)
  BY <1>1, HeldIsNotClaimable
<1>11. \A v \in Workers, i \in Jobs :
         /\ Running(v, i)' <=> Running(v, i)
         /\ Writer(v, i)' <=> Writer(v, i)
         /\ Writer(v, i) => i # j
  BY <1>1, <1>10 DEF Running, Writer, Holder
<1>12. \A v \in Workers : v # w /\ claim'[v] # None =>
         /\ claim'[v] = claim[v] /\ claim[v].job \in Jobs /\ claim[v].job # j
  BY <1>8, <1>10 DEF Holder, TypeOK, Claims
<1>13. Clock'
  <2>1. ASSUME NEW v \in Workers, NEW i \in Jobs, Writer(v, i)'
        PROVE  RunClock(run'[v][i], row'[i])
    BY <1>1, <1>7, <1>11, <2>1 DEF Clock
  <2>2. ASSUME NEW v \in Workers, claim'[v] # None
        PROVE  ClaimClock(claim'[v], row'[claim'[v].job])
    <3>1. CASE v = w
      BY <1>4, <1>5, <1>7, <1>8, <3>1 DEF ClaimClock
    <3>2. CASE v # w
      BY <1>7, <1>12, <2>2, <3>2 DEF Clock
    <3> QED
      BY <3>1, <3>2
  <2> QED
    BY <2>1, <2>2 DEF Clock
<1>14. Mandated'
  <2>1. ASSUME NEW v \in Workers, NEW i \in Jobs, Writer(v, i)'
        PROVE  Mandate(v, run'[v][i].lease, row'[i])
    BY <1>1, <1>7, <1>11, <2>1 DEF Mandated
  <2>2. ASSUME NEW v \in Workers, claim'[v] # None
        PROVE  Mandate(v, claim'[v].lease, row'[claim'[v].job])
    <3>1. CASE v = w
      BY <1>4, <1>5, <1>7, <1>8, <3>1 DEF Mandate
    <3>2. CASE v # w
      BY <1>7, <1>12, <2>2, <3>2 DEF Mandated
    <3> QED
      BY <3>1, <3>2
  <2> QED
    BY <2>1, <2>2 DEF Mandated
<1>15. LeaseNamesWorker'
  <2>1. ASSUME NEW v \in Workers, NEW i \in Jobs,
               run'[v][i] # None, run'[v][i].lease = row'[i].lease
        PROVE  row'[i].worker = v
    <3>1. CASE i = j
      BY <1>1, <1>2, <1>4, <1>7, <2>1, <3>1 DEF InUse, Running
    <3>2. CASE i # j
      BY <1>1, <1>7, <2>1, <3>2 DEF LeaseNamesWorker, Running
    <3> QED
      BY <3>1, <3>2
  <2>2. ASSUME NEW v \in Workers, claim'[v] # None,
               claim'[v].lease = row'[claim'[v].job].lease
        PROVE  row'[claim'[v].job].worker = v
    <3>1. CASE v = w
      BY <1>4, <1>5, <1>7, <1>8, <3>1
    <3>2. CASE v # w
      BY <1>7, <1>12, <2>2, <3>2 DEF LeaseNamesWorker
    <3> QED
      BY <3>1, <3>2
  <2> QED
    BY <2>1, <2>2 DEF LeaseNamesWorker, Running
<1>16. OneHolder'
  <2>1. ASSUME NEW v \in Workers, NEW i \in Jobs, Holder(v, i)'
        PROVE  \/ i # j /\ Holder(v, i)
               \/ i = j /\ v = w
    <3>1. CASE Writer(v, i)'
      BY <1>11, <3>1 DEF Holder
    <3>2. CASE claim'[v] # None /\ claim'[v].job = i
      BY <1>5, <1>8, <1>12, <3>2 DEF Holder
    <3> QED
      BY <2>1, <3>1, <3>2 DEF Holder
  <2> QED
    BY <2>1 DEF OneHolder
<1>17. ProcessesOK'
  <2>1. ASSUME NEW v \in Workers, claim'[v] # None
        PROVE  run'[v][claim'[v].job] = None
    <3>1. CASE v = w
      BY <1>1, <1>5, <1>8, <3>1 DEF Running
    <3>2. CASE v # w
      BY <1>1, <1>12, <2>1, <3>2 DEF ProcessesOK, Running
    <3> QED
      BY <3>1, <3>2
  <2>2. \A v \in Workers, i \in Jobs :
          proc'[v] \in {"closing", "down"} => run'[v][i] = None
    BY <1>1 DEF ProcessesOK, Running
  <2>3. \A v \in Workers : proc'[v] = "down" => claim'[v] = None
    BY <1>1, <1>8 DEF ProcessesOK
  <2> QED
    BY <2>1, <2>2, <2>3 DEF ProcessesOK, Running
<1> QED
  BY <1>9, <1>13, <1>14, <1>15, <1>16, <1>17

\* The run that starts takes over the clock of its claim, late by at most the
\* time the answer was under way.
LEMMA AnswerStartsRun ==
  ASSUME IInv, NEW w \in Workers, claim[w] # None, proc[w] = "up",
         claim' = [claim EXCEPT ![w] = None],
         SetRun(w, claim[w].job, StartedRun(claim[w])),
         UNCHANGED <<row, ended, proc, source>>
  PROVE  IInv'
<1> USE DEF IInv
<1> DEFINE c == claim[w]
           j == claim[w].job
           r == StartedRun(claim[w])
<1>1. c \in Claims /\ j \in Jobs /\ c.lease \in Tokens
  BY DEF TypeOK, Claims
<1>2. /\ r \in Runs /\ r.lease = c.lease /\ r.lost = "no" /\ r.age = 0
      /\ r.timer = 0 /\ r.hb = "none"
  BY <1>1, ZeroInRange DEF StartedRun, Claims, Runs
<1>3. ~ Running(w, j) /\ Holder(w, j)
  BY DEF ProcessesOK, Holder
<1> HIDE DEF r, j
<1>4. /\ run' \in [Workers -> [Jobs -> Runs \cup {None}]]
      /\ run'[w][j] = r
      /\ \A v \in Workers, i \in Jobs : v # w \/ i # j => run'[v][i] = run[v][i]
  BY <1>1, <1>2 DEF TypeOK, SetRun, r, j
<1>5. /\ claim' \in [Workers -> Claims \cup {None}] /\ claim'[w] = None
      /\ \A v \in Workers : claim'[v] # None => v # w /\ claim'[v] = claim[v]
  BY DEF TypeOK
<1>6. TypeOK'
  BY <1>4, <1>5 DEF TypeOK
<1>7. \A v \in Workers : claim'[v] # None => claim'[v].job \in Jobs
  BY <1>5 DEF TypeOK, Claims
<1>8. Clock'
  <2>1. ASSUME NEW v \in Workers, NEW i \in Jobs, Writer(v, i)'
        PROVE  RunClock(run'[v][i], row[i])
    <3>1. CASE v = w /\ i = j
      <4>1. ClaimClock(c, row[j])
        BY DEF Clock, j
      <4>2. c.age \in Nat /\ c.age <= ClaimDelay /\ row[j].left \in Nat
        BY <1>1 DEF Claims, TypeOK, Rows
      <4> QED
        BY <1>2, <1>4, <3>1, <4>1, <4>2, FenceType DEF RunClock, ClaimClock
    <3>2. CASE v # w \/ i # j
      BY <1>4, <2>1, <3>2 DEF Clock, Writer, Running
    <3> QED
      BY <3>1, <3>2
  <2> QED
    BY <1>5, <2>1 DEF Clock
<1>9. Mandated'
  <2>1. ASSUME NEW v \in Workers, NEW i \in Jobs, Writer(v, i)'
        PROVE  Mandate(v, run'[v][i].lease, row[i])
    <3>1. CASE v = w /\ i = j
      BY <1>2, <1>4, <3>1 DEF Mandated, j
    <3>2. CASE v # w \/ i # j
      BY <1>4, <2>1, <3>2 DEF Mandated, Writer, Running
    <3> QED
      BY <3>1, <3>2
  <2> QED
    BY <1>5, <2>1 DEF Mandated
<1>10. LeaseNamesWorker'
  <2>1. ASSUME NEW v \in Workers, NEW i \in Jobs,
               run'[v][i] # None, run'[v][i].lease = row[i].lease
        PROVE  row[i].worker = v
    <3>1. CASE v = w /\ i = j
      BY <1>2, <1>4, <2>1, <3>1 DEF LeaseNamesWorker, j
    <3>2. CASE v # w \/ i # j
      BY <1>4, <2>1, <3>2 DEF LeaseNamesWorker, Running
    <3> QED
      BY <3>1, <3>2
  <2> QED
    BY <1>5, <2>1 DEF LeaseNamesWorker, Running
<1>11. OneHolder'
  <2>1. ASSUME NEW v \in Workers, NEW i \in Jobs, Holder(v, i)'
        PROVE  Holder(v, i)
    <3>1. CASE v = w /\ i = j
      BY <1>3, <3>1
    <3>2. CASE v # w \/ i # j
      BY <1>4, <1>5, <2>1, <3>2 DEF Holder, Writer, Running
    <3> QED
      BY <3>1, <3>2
  <2> QED
    BY <2>1 DEF OneHolder
<1>12. ProcessesOK'
  <2>1. \A v \in Workers : claim'[v] # None => run'[v][claim'[v].job] = None
    BY <1>4, <1>5, <1>7 DEF ProcessesOK, Running
  <2>2. \A v \in Workers, i \in Jobs :
          proc'[v] \in {"closing", "down"} => run'[v][i] = None
    BY <1>4 DEF ProcessesOK, Running
  <2>3. \A v \in Workers : proc'[v] = "down" => claim'[v] = None
    BY <1>5 DEF ProcessesOK
  <2> QED
    BY <2>1, <2>2, <2>3 DEF ProcessesOK, Running
<1> QED
  BY <1>6, <1>8, <1>9, <1>10, <1>11, <1>12

LEMMA AnsweredStep ==
  ASSUME IInv, NEW w \in Workers, ClaimAnswered(w)
  PROVE  IInv'
<1> USE DEF IInv
<1>1. /\ claim[w] # None /\ claim' = [claim EXCEPT ![w] = None]
      /\ UNCHANGED <<ended, proc, source>>
  BY DEF ClaimAnswered
<1>2. claim[w] \in Claims /\ claim[w].job \in Jobs
  BY <1>1 DEF TypeOK, Claims
<1>3. CASE /\ proc[w] = "up" /\ UNCHANGED row
           /\ SetRun(w, claim[w].job, StartedRun(claim[w]))
  BY <1>1, <1>3, AnswerStartsRun
<1>4. CASE /\ UNCHANGED run
           /\ \/ UNCHANGED row
              \/ /\ Owns(claim[w].job, claim[w].lease)
                 /\ GiveBack(claim[w].job, 0)
  <2>1. PICK q \in Rows :
          /\ q.state # "running" /\ q.lease = None
          /\ \/ UNCHANGED row
             \/ /\ Owns(claim[w].job, claim[w].lease)
                /\ row' = [row EXCEPT ![claim[w].job] = q]
    <3> DEFINE p == [Free EXCEPT !.state = "pending", !.attempts = 0]
    <3>0. 0 \in 0..MaxAttempts + 1
      OBVIOUS
    <3>1. p \in Rows /\ p.state = "pending" /\ p.lease = None
      BY <3>0, FreeType
    <3>2. p = [Free EXCEPT !.attempts = 0]
      BY FreeIsPending
    <3> HIDE DEF p
    <3> QED
      BY <1>4, <3>1, <3>2 DEF GiveBack
  <2>2. /\ claim' \in [Workers -> Claims \cup {None}] /\ claim'[w] = None
        /\ \A v \in Workers : claim'[v] = claim[v] \/ claim'[v] = None
    BY <1>1 DEF TypeOK
  <2>3. TypeOK'
    BY <1>1, <1>4, <2>1, <2>2 DEF TypeOK
  <2>4. \A v \in Workers, i \in Jobs :
          proc'[v] \in {"closing", "down"} => run'[v][i] = None
    BY <1>1, <1>4 DEF ProcessesOK, Running
  <2>5. \A v \in Workers : proc'[v] = "down" => claim'[v] = None
    BY <1>1, <2>2 DEF ProcessesOK
  <2>6. ASSUME Owns(claim[w].job, claim[w].lease), NEW v \in Workers
        PROVE  ~ (\/ run'[v][claim[w].job] # None /\ run'[v][claim[w].job].lost = "no"
                  \/ claim'[v] # None /\ claim'[v].job = claim[w].job)
    <3>1. row[claim[w].job].state = "running" /\ row[claim[w].job].worker = w
      BY <1>1, <2>6 DEF Owns, LeaseNamesWorker
    <3>2. SUFFICES ASSUME \/ run'[v][claim[w].job] # None /\ run'[v][claim[w].job].lost = "no"
                          \/ claim'[v] # None /\ claim'[v].job = claim[w].job
                   PROVE FALSE
      OBVIOUS
    <3>3. Holder(v, claim[w].job)
      BY <1>4, <2>2, <3>2 DEF Holder, Writer, Running
    <3>4. v = w
      BY <1>2, <3>1, <3>3, OwnerAlone
    <3> QED
      BY <1>1, <1>4, <2>2, <3>2, <3>4 DEF ProcessesOK, Running
  <2>7. \A i \in Jobs :
          \/ row'[i] = row[i]
          \/ /\ row'[i].state # "running" /\ row'[i].lease = None
             /\ \A v \in Workers : ~ Holder(v, i)'
    <3> TAKE i \in Jobs
    <3>1. CASE UNCHANGED row \/ i # claim[w].job
      BY <2>1, <3>1 DEF TypeOK
    <3>2. CASE ~ UNCHANGED row /\ i = claim[w].job
      BY <2>1, <2>6, <3>2 DEF TypeOK, Holder, Writer, Running
    <3> QED
      BY <3>1, <3>2
  <2> QED
    BY <1>4, <2>2, <2>3, <2>4, <2>5, <2>7, FewerHolders
<1> QED
  BY <1>3, <1>4 DEF ClaimAnswered

-----------------------------------------------------------------------------
(* Time *)

LEMMA AgedRun ==
  ASSUME NEW r \in Runs \cup {None}, r # None, r.timer < HeartbeatSec,
         r.hb # "none" => r.hbAge < QueryTimeout
  PROVE  /\ Aged(r) \in Runs /\ Aged(r).lease = r.lease /\ Aged(r).lost = r.lost
         /\ Aged(r).hb = r.hb /\ Aged(r).timer = r.timer + 1
         /\ r.lost = "no" => Aged(r).age = r.age + 1
         /\ Aged(r).hbAge = IF r.hb = "none" THEN r.hbAge ELSE r.hbAge + 1
<1> DEFINE age == IF r.lost = "no" THEN r.age + 1 ELSE r.age
           hbAge == IF r.hb = "none" THEN r.hbAge ELSE r.hbAge + 1
<1>1. age \in Nat /\ r.timer + 1 \in 0..HeartbeatSec /\ hbAge \in 0..QueryTimeout
  BY DEF Runs
<1>2. Aged(r) = [r EXCEPT !.age = age, !.timer = r.timer + 1, !.hbAge = hbAge]
  BY DEF Aged
<1>3. r \in Runs
  OBVIOUS
<1> HIDE DEF age, hbAge
<1>4. LET q == [r EXCEPT !.age = age, !.timer = r.timer + 1, !.hbAge = hbAge]
      IN  /\ q \in Runs /\ q.lease = r.lease /\ q.lost = r.lost /\ q.hb = r.hb
          /\ q.timer = r.timer + 1 /\ q.age = age /\ q.hbAge = hbAge
  BY <1>1, <1>3 DEF Runs
<1> QED
  BY <1>2, <1>4 DEF age, hbAge

LEMMA TickStep ==
  ASSUME IInv, Tick
  PROVE  IInv'
<1> USE DEF IInv
<1>1. NothingDue /\ UNCHANGED <<ended, proc, source>>
  BY DEF Tick
<1>2. \A i \in Jobs :
        /\ row'[i] \in Rows
        /\ row'[i].state = row[i].state /\ row'[i].lease = row[i].lease
        /\ row'[i].worker = row[i].worker
        /\ row[i].left <= row'[i].left + 1
  <2> TAKE i \in Jobs
  <2>1. row[i] \in Rows
    BY DEF TypeOK
  <2>2. PICK n \in 0..LeaseSec :
          row'[i] = [row[i] EXCEPT !.left = n] /\ row[i].left <= n + 1
    <3> DEFINE m == IF row[i].left > 0 THEN row[i].left - 1 ELSE 0
    <3>1. m \in 0..LeaseSec /\ row[i].left <= m + 1
      BY <2>1 DEF Rows
    <3>2. row'[i] = [row[i] EXCEPT !.left = m]
      BY DEF Tick
    <3> HIDE DEF m
    <3> QED
      BY <3>1, <3>2
  <2> QED
    BY <2>1, <2>2 DEF Rows
<1>3. row' \in [Jobs -> Rows]
  <2>1. row' = [i \in Jobs |-> row'[i]]
    BY DEF Tick
  <2> QED
    BY <1>2, <2>1
<1>4. \A v \in Workers :
        \/ claim[v] = None /\ claim'[v] = None
        \/ /\ claim[v] # None /\ claim[v] \in Claims /\ claim[v].job \in Jobs
           /\ claim'[v] \in Claims /\ claim'[v].job = claim[v].job
           /\ claim'[v].lease = claim[v].lease
           /\ claim'[v].age = claim[v].age + 1
  <2> TAKE v \in Workers
  <2>1. CASE claim[v] = None
    BY <2>1 DEF Tick
  <2>2. CASE claim[v] # None
    <3>1. claim[v] \in Claims /\ claim[v].age + 1 \in 0..ClaimDelay
      BY <1>1, <2>2 DEF NothingDue, TypeOK, Claims
    <3>2. claim'[v] = [claim[v] EXCEPT !.age = claim[v].age + 1]
      BY <2>2 DEF Tick
    <3> QED
      BY <2>2, <3>1, <3>2 DEF Claims
  <2> QED
    BY <2>1, <2>2
<1>5. \A v \in Workers, i \in Jobs :
        \/ run[v][i] = None /\ run'[v][i] = None
        \/ /\ run[v][i] # None /\ run[v][i] \in Runs
           /\ run'[v][i] = Aged(run[v][i]) /\ run'[v][i] \in Runs
           /\ run'[v][i].lease = run[v][i].lease /\ run'[v][i].lost = run[v][i].lost
           /\ run'[v][i].hb = run[v][i].hb
           /\ run'[v][i].timer = run[v][i].timer + 1
           /\ run[v][i].lost = "no" => run'[v][i].age = run[v][i].age + 1
           /\ run'[v][i].hbAge = IF run[v][i].hb = "none" THEN run[v][i].hbAge
                                 ELSE run[v][i].hbAge + 1
  <2> TAKE v \in Workers, i \in Jobs
  <2>1. run'[v][i] = Aged(run[v][i]) /\ run[v][i] \in Runs \cup {None}
    BY DEF Tick, TypeOK
  <2>2. CASE run[v][i] = None
    BY <2>1, <2>2 DEF Aged
  <2>3. CASE run[v][i] # None
    BY <1>1, <2>1, <2>3, AgedRun DEF NothingDue, Running
  <2> QED
    BY <2>2, <2>3
<1>6. TypeOK'
  <2>1. run' \in [Workers -> [Jobs -> Runs \cup {None}]]
    BY <1>5 DEF Tick
  <2>2. claim' \in [Workers -> Claims \cup {None}]
    BY <1>4 DEF Tick
  <2> QED
    BY <1>1, <1>3, <2>1, <2>2 DEF TypeOK
<1>7. \A v \in Workers, i \in Jobs :
        /\ Running(v, i)' => Running(v, i)
        /\ Writer(v, i)' => Writer(v, i)
  BY <1>5 DEF Running, Writer
<1>8. \A v \in Workers : claim'[v] # None => claim[v] # None
  BY <1>4
<1>9. Clock'
  <2>1. ASSUME NEW v \in Workers, NEW i \in Jobs, Writer(v, i)'
        PROVE  RunClock(run'[v][i], row'[i])
    <3>1. Writer(v, i) /\ RunClock(run[v][i], row[i])
      BY <1>7, <2>1 DEF Clock
    <3>2. /\ run[v][i].age \in Nat /\ run[v][i].timer \in Nat /\ run[v][i].hbAge \in Nat
          /\ row[i].left \in Nat /\ row'[i].left \in Nat
      BY <1>2, <1>5, <3>1 DEF Runs, Rows, TypeOK, Writer, Running
    <3> QED
      BY <1>2, <1>5, <3>1, <3>2, FenceType DEF RunClock, Writer, Running
  <2>2. ASSUME NEW v \in Workers, claim'[v] # None
        PROVE  ClaimClock(claim'[v], row'[claim'[v].job])
    <3>1. /\ ClaimClock(claim[v], row[claim[v].job])
          /\ claim[v].age \in Nat /\ row[claim[v].job].left \in Nat
          /\ row'[claim[v].job].left \in Nat
      BY <1>2, <1>4, <2>2 DEF Clock, Claims, TypeOK, Rows
    <3> QED
      BY <1>2, <1>4, <2>2, <3>1 DEF ClaimClock
  <2> QED
    BY <2>1, <2>2 DEF Clock
<1>10. Mandated' /\ LeaseNamesWorker'
  <2>1. ASSUME NEW v \in Workers, NEW i \in Jobs, Writer(v, i)'
        PROVE  Mandate(v, run'[v][i].lease, row'[i])
    BY <1>2, <1>5, <1>7, <2>1 DEF Mandated, Mandate, Writer, Running
  <2>2. ASSUME NEW v \in Workers, claim'[v] # None
        PROVE  Mandate(v, claim'[v].lease, row'[claim'[v].job])
    BY <1>2, <1>4, <2>2 DEF Mandated, Mandate
  <2>3. LeaseNamesWorker'
    BY <1>2, <1>4, <1>5 DEF LeaseNamesWorker, Running
  <2> QED
    BY <2>1, <2>2, <2>3 DEF Mandated
<1>11. \A v \in Workers, i \in Jobs : Holder(v, i)' => Holder(v, i)
  BY <1>4, <1>7 DEF Holder
<1>12. OneHolder'
  BY <1>11 DEF OneHolder
<1>13. ProcessesOK'
  BY <1>1, <1>4, <1>5 DEF ProcessesOK, Running
<1> QED
  BY <1>6, <1>9, <1>10, <1>12, <1>13

-----------------------------------------------------------------------------
(* Theorems *)

LEMMA NextIInv ==
  ASSUME FenceInTime, IInv, [Next]_vars
  PROVE  IInv'
<1>1. ASSUME NEW w \in Workers, NEW j \in Jobs,
             ClaimJob(w, j) \/ RunStep(w, j) \/ LeaseStep(w, j)
      PROVE  IInv'
  BY <1>1, ClaimStep, PhaseStep, RefuseStep, ReleaseStep, IntervalStep,
     HeartbeatStep, AnswerStep DEF RunStep, LeaseStep
<1>2. ASSUME NEW w \in Workers, ProcStep(w) PROVE IInv'
  BY <1>2, AnsweredStep, ProcessStep, RestartStep DEF ProcStep
<1>3. ASSUME NEW j \in Jobs, EndJob(j) PROVE IInv'
  BY <1>3, EndJobStep
<1>4. CASE UNCHANGED vars
  BY <1>4 DEF vars, IInv, TypeOK, Clock, Mandated, LeaseNamesWorker, OneHolder,
     Holder, ProcessesOK, Running, Writer
<1> QED
  BY <1>1, <1>2, <1>3, <1>4, TickStep DEF Next

\* The lease invariant holds of every behaviour.
THEOREM LeaseInvariance ==
  ASSUME FenceInTime
  PROVE  Spec => []IInv
<1>1. IInv /\ [Next]_vars => IInv'
  BY NextIInv
<1> QED
  BY <1>1, InitIInv, PTL DEF Spec

\* The rows, runs and clocks of the lease protocol stay in their ranges: no
\* heartbeat outlives its timeout, no lease exceeds LeaseSec.
THEOREM LeaseTypeCorrect ==
  ASSUME FenceInTime
  PROVE  Spec => []TypeOK
<1>1. IInv => TypeOK
  BY DEF IInv
<1> QED
  BY <1>1, LeaseInvariance, PTL

\* No two workers write the output of one job at a time.
THEOREM LeaseExcludesWriters ==
  ASSUME FenceInTime
  PROVE  Spec => []OneWriter
<1>1. IInv => OneWriter
  BY DEF IInv, OneHolder, Holder, OneWriter
<1> QED
  BY <1>1, LeaseInvariance, PTL

\* A worker that still writes a wanted job is the one its row names.
THEOREM LeaseNamesWriter ==
  ASSUME FenceInTime
  PROVE  Spec => []WriterIsLeased
<1>1. IInv => WriterIsLeased
  BY DEF IInv, Mandated, Mandate, WriterIsLeased, Owns
<1> QED
  BY <1>1, LeaseInvariance, PTL

-----------------------------------------------------------------------------
(* The studio's list of destinations: the inductive invariant *)

\* An update of destination i, an addition or deletion, and one that was served, whose answer the
\* tab awaits.
Updates(c, i)    == D!Awaits(c) /\ call[c].kind \in {"switch", "edit"} /\ call[c].id = i
ByDialog(c)      == D!Awaits(c) /\ call[c].kind # "switch"
Done(c)          == call[c].step = "answered" /\ call[c].ok
Undone(kind, i)  == \E c \in D!Calls : D!Awaits(c) /\ Done(c) /\ call[c].kind = kind /\ call[c].id = i

\* Ids were given out, and a dialog that waits has the one request of its own.
Dialogs ==
  /\ list.load # "shown" => call = <<>> /\ list.dialog = "no"
  /\ list.waits => list.dialog # "no"
  /\ list.target <= used /\ DOMAIN list.list \subseteq 1..used
  /\ \A c \in D!Calls : /\ call[c].id <= used
                        /\ call[c].step \in {"sent", "counted"} => ~call[c].ok
                        /\ call[c].step = "counted" => call[c].kind = "create"
                        /\ call[c].kind = "create" => call[c].set \in D!Rows
                        /\ call[c].ok => call[c].id \in D!Ids
                        /\ ByDialog(c) => list.waits /\ \A e \in D!Calls : ByDialog(e) => e = c

\* What keeps a list that is sure from its rows is what its requests are about to tell it.
Sure == list.sure /\ list.load # "sent"

Told ==
  \A c \in D!Calls :
    /\ ~call[c].heard => call[c].step \in {"answered", "over"}
    /\ \A e \in D!Calls, i \in D!Ids : Updates(c, i) /\ Updates(e, i) => e = c

Added ==
  \A c \in D!Calls : D!Awaits(c) /\ Done(c) /\ call[c].kind = "create" =>
    /\ call[c].id \notin DOMAIN list.list /\ call[c].id \in DOMAIN rows
    /\ rows[call[c].id] = call[c].row
    /\ \A e \in D!Calls : D!Awaits(e) /\ e # c => call[e].id # call[c].id

Deleted ==
  \A c \in D!Calls : D!Awaits(c) /\ Done(c) /\ call[c].kind = "delete" => call[c].id \notin DOMAIN rows

Listed ==
  /\ \A i \in DOMAIN rows \ DOMAIN list.list : Undone("create", i)
  /\ \A i \in DOMAIN list.list \ DOMAIN rows : Undone("delete", i)

ValueOf(i) ==
  i \in DOMAIN rows =>
    /\ i \in DOMAIN list.list /\ (\A c \in D!Calls : ~Updates(c, i)) => list.list[i] = rows[i]
    /\ \A c \in D!Calls : Updates(c, i) =>
         IF call[c].kind = "switch" \/ Done(c) THEN call[c].row = rows[i]
         ELSE i \in DOMAIN list.list => list.list[i] = rows[i]

Values == \A i \in D!Ids : ValueOf(i)

Honest == Sure => Told /\ Added /\ Deleted /\ Listed /\ Values

\* An addition that was counted has room, unless another was counted beside it.
Space ==
  ~together =>
    /\ D!Cardinality(DOMAIN rows) <= MaxRows
    /\ \A c \in D!Calls : call[c].step = "counted" =>
         /\ D!Cardinality(DOMAIN rows) < MaxRows
         /\ \A e \in D!Calls : call[e].step = "counted" => e = c

ListInv == D!TypeOK /\ Dialogs /\ Honest /\ Space

-----------------------------------------------------------------------------
(* Tables, patches and requests *)

LEMMA TableType ==
  ASSUME NEW t \in D!Tables
  PROVE  DOMAIN t \subseteq D!Ids /\ t \in [DOMAIN t -> D!Rows]
BY DEF D!Tables

LEMMA WithType ==
  ASSUME NEW t \in D!Tables, NEW i \in D!Ids, NEW r \in D!Rows
  PROVE  /\ D!With(t, i, r) \in D!Tables /\ DOMAIN D!With(t, i, r) = DOMAIN t \cup {i}
         /\ D!With(t, i, r)[i] = r /\ \A j \in DOMAIN t : j # i => D!With(t, i, r)[j] = t[j]
<1> DEFINE w == D!With(t, i, r)
<1>1. w = [j \in DOMAIN t \cup {i} |-> IF j = i THEN r ELSE t[j]]
  BY DEF D!With
<1>2. DOMAIN t \cup {i} \in SUBSET D!Ids /\ \A j \in DOMAIN t : t[j] \in D!Rows
  BY TableType
<1>3. w \in [DOMAIN t \cup {i} -> D!Rows]
  BY <1>1, <1>2
<1>4. w \in D!Tables
  BY <1>2, <1>3 DEF D!Tables
<1> QED
  BY <1>1, <1>4

\* The same of the table and of the tab's list.
LEMMA RowsWith ==
  ASSUME rows \in D!Tables, NEW i \in D!Ids, NEW r \in D!Rows
  PROVE  /\ D!With(rows, i, r) \in D!Tables /\ DOMAIN D!With(rows, i, r) = DOMAIN rows \cup {i}
         /\ D!With(rows, i, r)[i] = r /\ \A j \in DOMAIN rows : j # i => D!With(rows, i, r)[j] = rows[j]
BY WithType, ZenonT(30)

LEMMA ListWith ==
  ASSUME list.list \in D!Tables, NEW i \in D!Ids, NEW r \in D!Rows
  PROVE  /\ D!With(list.list, i, r) \in D!Tables /\ DOMAIN D!With(list.list, i, r) = DOMAIN list.list \cup {i}
         /\ D!With(list.list, i, r)[i] = r
         /\ \A j \in DOMAIN list.list : j # i => D!With(list.list, i, r)[j] = list.list[j]
BY WithType, ZenonT(30)

LEMMA WithoutType ==
  ASSUME NEW t \in D!Tables, NEW i
  PROVE  /\ D!Without(t, i) \in D!Tables /\ DOMAIN D!Without(t, i) = DOMAIN t \ {i}
         /\ \A j \in DOMAIN t : j # i => D!Without(t, i)[j] = t[j]
<1> DEFINE w == D!Without(t, i)
<1>1. w = [j \in DOMAIN t \ {i} |-> t[j]]
  BY DEF D!Without
<1>2. DOMAIN t \ {i} \in SUBSET D!Ids /\ \A j \in DOMAIN t : t[j] \in D!Rows
  BY TableType
<1>3. w \in [DOMAIN t \ {i} -> D!Rows]
  BY <1>1, <1>2
<1>4. w \in D!Tables
  BY <1>2, <1>3 DEF D!Tables
<1> QED
  BY <1>1, <1>4

LEMMA ReplacedType ==
  ASSUME NEW t \in D!Tables, NEW i, NEW r \in D!Rows
  PROVE  /\ D!Replaced(t, i, r) \in D!Tables /\ DOMAIN D!Replaced(t, i, r) = DOMAIN t
         /\ i \in DOMAIN t => D!Replaced(t, i, r)[i] = r
         /\ \A j \in DOMAIN t : j # i => D!Replaced(t, i, r)[j] = t[j]
<1>1. CASE i \in DOMAIN t
  <2>1. i \in D!Ids
    BY <1>1, TableType
  <2>2. DOMAIN t \cup {i} = DOMAIN t
    BY <1>1
  <2>3. D!Replaced(t, i, r) = D!With(t, i, r)
    BY <1>1 DEF D!Replaced
  <2>4. /\ D!With(t, i, r) \in D!Tables /\ DOMAIN D!With(t, i, r) = DOMAIN t \cup {i}
        /\ D!With(t, i, r)[i] = r /\ \A j \in DOMAIN t : j # i => D!With(t, i, r)[j] = t[j]
    BY <2>1, WithType
  <2> QED
    BY <2>2, <2>3, <2>4
<1>2. CASE i \notin DOMAIN t
  BY <1>2 DEF D!Replaced
<1> QED
  BY <1>1, <1>2

LEMMA PatchedType ==
  ASSUME NEW r \in D!Rows, NEW set \in D!Patches
  PROVE  D!Patched(r, set) \in D!Rows
<1>1. \A f \in DOMAIN set : set[f] \in BOOLEAN
  BY DEF D!Patches
<1> QED
  BY <1>1 DEF D!Patched, D!Rows

LEMMA PatchTypes == D!Rows \subseteq D!Patches /\ D!Usual \in D!Rows /\ [f \in {} |-> FALSE] \in D!Patches
                    /\ \A f \in Switches, b \in BOOLEAN : [g \in {f} |-> b] \in D!Patches
<1>1. Switches \in SUBSET Switches /\ {} \in SUBSET Switches /\ \A f \in Switches : {f} \in SUBSET Switches
  OBVIOUS
<1>2. D!Rows \subseteq D!Patches
  BY <1>1 DEF D!Rows, D!Patches
<1>3. [f \in {} |-> FALSE] \in [{} -> BOOLEAN]
  OBVIOUS
<1>4. \A f \in Switches, b \in BOOLEAN : [g \in {f} |-> b] \in [{f} -> BOOLEAN]
  OBVIOUS
<1>5. D!Usual \in D!Rows
  BY DEF D!Usual, D!Rows
<1>6. [f \in {} |-> FALSE] \in D!Patches
  BY <1>1, <1>3 DEF D!Patches
<1>7. \A f \in Switches, b \in BOOLEAN : [g \in {f} |-> b] \in D!Patches
  <2> SUFFICES ASSUME NEW f \in Switches, NEW b \in BOOLEAN PROVE [g \in {f} |-> b] \in D!Patches
    OBVIOUS
  <2>1. {f} \in SUBSET Switches /\ [g \in {f} |-> b] \in [{f} -> BOOLEAN]
    BY <1>1, <1>4
  <2> QED
    BY <2>1 DEF D!Patches
<1> QED
  BY <1>2, <1>5, <1>6, <1>7

\* One request goes on, or one more is sent.
LEMMA OneCall ==
  ASSUME D!TypeOK, NEW c \in D!Calls, NEW r \in D!Requests, call' = [call EXCEPT ![c] = r]
  PROVE  /\ call' \in Seq(D!Requests) /\ Len(call') = Len(call) /\ D!Calls' = D!Calls
         /\ call'[c] = r /\ \A e \in D!Calls : e # c => call'[e] = call[e]
BY DEF D!TypeOK, D!Calls

LEMMA OneMore ==
  ASSUME D!TypeOK, NEW r \in D!Requests, call' = Append(call, r)
  PROVE  /\ call' \in Seq(D!Requests) /\ Len(call') = Len(call) + 1
         /\ Len(call) + 1 \notin D!Calls /\ D!Calls' = D!Calls \cup {Len(call) + 1}
         /\ call'[Len(call) + 1] = r /\ \A e \in D!Calls : call'[e] = call[e]
BY DEF D!TypeOK, D!Calls

LEMMA CallType ==
  ASSUME D!TypeOK, NEW c \in D!Calls
  PROVE  /\ call[c] \in D!Requests /\ call[c].id \in D!Ids \cup {D!NoId} /\ call[c].row \in D!Rows
         /\ call[c].set \in D!Patches /\ call[c].heard \in BOOLEAN /\ call[c].ok \in BOOLEAN
         /\ call[c].kind \in {"switch", "edit", "create", "delete"}
         /\ call[c].step \in {"sent", "counted", "answered", "over"}
<1>1. call[c] \in D!Requests
  BY DEF D!TypeOK, D!Calls
<1> QED
  BY <1>1 DEF D!Requests

LEMMA TabType ==
  ASSUME D!TypeOK
  PROVE  /\ list.load \in {"sent", "read", "shown"} /\ list.list \in D!Tables
         /\ list.busy \in D!Ids \cup {D!NoId} /\ list.dialog \in {"no", "new", "edit", "delete"}
         /\ list.target \in D!Ids \cup {D!NoId} /\ list.waits \in BOOLEAN /\ list.sure \in BOOLEAN
BY DEF D!TypeOK, D!Tab

-----------------------------------------------------------------------------
(* Types *)

LEMMA SettledType ==
  ASSUME D!TypeOK, NEW c \in D!Calls, NEW ok \in BOOLEAN,
         call[c].kind = "create" /\ ok => call[c].id \in D!Ids
  PROVE  /\ D!Settled(list, c, ok) \in D!Tab
         /\ D!Settled(list, c, ok).load = list.load /\ D!Settled(list, c, ok).sure = list.sure
         /\ D!Settled(list, c, ok).list =
              IF call[c].kind = "switch" \/ (call[c].kind = "edit" /\ ok)
                THEN D!Replaced(list.list, call[c].id, call[c].row)
              ELSE IF call[c].kind = "create" /\ ok
                THEN D!With(list.list, call[c].id, call[c].row)
              ELSE IF call[c].kind = "delete" /\ ok
                THEN D!Without(list.list, call[c].id)
              ELSE list.list
         /\ IF call[c].kind = "switch"
              THEN /\ D!Settled(list, c, ok).waits = list.waits
                   /\ D!Settled(list, c, ok).dialog = list.dialog
              ELSE D!Settled(list, c, ok).waits = FALSE
         /\ D!Settled(list, c, ok).target \in {list.target, D!NoId}
         /\ D!Settled(list, c, ok).dialog \in {list.dialog, "no"}
<1> DEFINE k == call[c].kind
           l == IF k = "switch" \/ (k = "edit" /\ ok)
                  THEN D!Replaced(list.list, call[c].id, call[c].row)
                ELSE IF k = "create" /\ ok THEN D!With(list.list, call[c].id, call[c].row)
                ELSE IF k = "delete" /\ ok THEN D!Without(list.list, call[c].id)
                ELSE list.list
<1>1. k \in {"switch", "edit", "create", "delete"} /\ call[c].row \in D!Rows
  BY CallType
<1>2. list \in D!Tab /\ list.list \in D!Tables
  BY TabType DEF D!TypeOK
<1>3. l \in D!Tables
  BY <1>1, <1>2, ReplacedType, WithType, WithoutType
<1>4. CASE k = "switch"
  <2>1. D!Settled(list, c, ok) = [list EXCEPT !.busy = D!NoId, !.list = l]
    BY <1>4 DEF D!Settled, D!Switched
  <2> HIDE DEF l
  <2>2. /\ D!Settled(list, c, ok) \in D!Tab
        /\ D!Settled(list, c, ok).load = list.load /\ D!Settled(list, c, ok).sure = list.sure
        /\ D!Settled(list, c, ok).list = l /\ D!Settled(list, c, ok).waits = list.waits
        /\ D!Settled(list, c, ok).target = list.target /\ D!Settled(list, c, ok).dialog = list.dialog
    BY <1>2, <1>3, <2>1 DEF D!Tab
  <2> QED
    BY <1>4, <2>2 DEF l
<1>5. CASE k # "switch" /\ (ok \/ k = "delete")
  <2>1. D!Settled(list, c, ok) = [list EXCEPT !.waits = FALSE, !.dialog = "no", !.target = D!NoId,
                                          !.list = l]
    <3>1. CASE k = "delete"
      BY <1>5, <3>1, <1>2 DEF D!Settled, D!Closed, D!Tab
    <3>2. CASE k = "create"
      BY <1>5, <3>2, <1>2 DEF D!Settled, D!Closed, D!Tab
    <3>3. CASE k = "edit"
      BY <1>5, <3>3, <1>2 DEF D!Settled, D!Closed, D!Tab
    <3> QED
      BY <1>1, <1>5, <3>1, <3>2, <3>3
  <2> HIDE DEF l
  <2>2. /\ D!Settled(list, c, ok) \in D!Tab
        /\ D!Settled(list, c, ok).load = list.load /\ D!Settled(list, c, ok).sure = list.sure
        /\ D!Settled(list, c, ok).list = l /\ D!Settled(list, c, ok).waits = FALSE
        /\ D!Settled(list, c, ok).target = D!NoId /\ D!Settled(list, c, ok).dialog = "no"
    BY <1>2, <1>3, <2>1 DEF D!Tab
  <2> QED
    BY <1>5, <2>2 DEF l
<1>6. CASE k \in {"create", "edit"} /\ ~ok
  <2>1. D!Settled(list, c, ok) = [list EXCEPT !.waits = FALSE]
    <3>1. CASE k = "create"
      BY <1>6, <3>1 DEF D!Settled
    <3>2. CASE k = "edit"
      BY <1>6, <3>2 DEF D!Settled
    <3> QED
      BY <1>6, <3>1, <3>2
  <2>2. /\ D!Settled(list, c, ok) \in D!Tab
        /\ D!Settled(list, c, ok).load = list.load /\ D!Settled(list, c, ok).sure = list.sure
        /\ D!Settled(list, c, ok).list = list.list /\ D!Settled(list, c, ok).waits = FALSE
        /\ D!Settled(list, c, ok).target = list.target /\ D!Settled(list, c, ok).dialog = list.dialog
    BY <1>2, <2>1 DEF D!Tab
  <2> QED
    BY <1>6, <2>2
<1> QED
  BY <1>1, <1>4, <1>5, <1>6

\* An answer, a loss or a refusal: the request keeps what it is about.
Steps(c, s, h, ok) ==
  /\ call' \in Seq(D!Requests) /\ Len(call') = Len(call) /\ D!Calls' = D!Calls
  /\ \A e \in D!Calls : e # c => call'[e] = call[e]
  /\ call'[c].kind = call[c].kind /\ call'[c].set = call[c].set
  /\ call'[c].id = call[c].id /\ call'[c].row = call[c].row
  /\ call'[c].step = s /\ call'[c].heard = h /\ call'[c].ok = ok

\* A request that was served is about the destination it was served for.
Serves(c, i, r) ==
  /\ call' \in Seq(D!Requests) /\ Len(call') = Len(call) /\ D!Calls' = D!Calls
  /\ \A e \in D!Calls : e # c => call'[e] = call[e]
  /\ call'[c].kind = call[c].kind /\ call'[c].set = call[c].set
  /\ call'[c].id = i /\ call'[c].row = r
  /\ call'[c].step = "answered" /\ call'[c].heard = call[c].heard /\ call'[c].ok = TRUE

\* One more was sent.
Sends(kind, i, set, shown) ==
  LET n == Len(call) + 1 IN
  /\ call' \in Seq(D!Requests) /\ Len(call') = n /\ n <= MaxCalls
  /\ n \notin D!Calls /\ D!Calls' = D!Calls \cup {n} /\ \A e \in D!Calls : call'[e] = call[e]
  /\ call'[n].kind = kind /\ call'[n].id = i /\ call'[n].set = set /\ call'[n].row = shown
  /\ call'[n].step = "sent" /\ call'[n].heard = TRUE /\ call'[n].ok = FALSE

LEMMA SendType ==
  ASSUME D!TypeOK, NEW kind \in {"switch", "edit", "create", "delete"},
         NEW i \in D!Ids \cup {D!NoId},
         NEW set \in D!Patches, NEW shown \in D!Rows, D!Send(kind, i, set, shown), D!DestinationsAssumption
  PROVE  Sends(kind, i, set, shown)
<1> DEFINE q == [kind |-> kind, id |-> i, set |-> set, row |-> shown, step |-> "sent",
                 heard |-> TRUE, ok |-> FALSE]
<1>1. q \in D!Requests
  BY DEF D!Requests
<1>2. call' = Append(call, q) /\ Len(call) < MaxCalls
  BY DEF D!Send
<1>3. Len(call) \in Nat /\ Len(call) + 1 <= MaxCalls
  BY <1>2 DEF D!TypeOK, D!DestinationsAssumption
<1>4. q.kind = kind /\ q.id = i /\ q.set = set /\ q.row = shown /\ q.step = "sent"
      /\ q.heard = TRUE /\ q.ok = FALSE
  OBVIOUS
<1> HIDE DEF q
<1> QED
  BY <1>1, <1>2, <1>3, <1>4, OneMore DEF Sends

LEMMA ServedStep ==
  ASSUME D!TypeOK, NEW c \in D!Calls, NEW i \in D!Ids, NEW r \in D!Rows, call' = D!Served(c, i, r)
  PROVE  Serves(c, i, r)
<1> DEFINE q == [call[c] EXCEPT !.step = "answered", !.ok = TRUE, !.id = i, !.row = r]
<1>1. call' = [call EXCEPT ![c] = q]
  BY DEF D!Served
<1>2. /\ q \in D!Requests /\ q.kind = call[c].kind /\ q.set = call[c].set
      /\ q.heard = call[c].heard /\ q.step = "answered" /\ q.ok = TRUE
      /\ q.id = i /\ q.row = r
  <2>1. call[c] \in D!Requests
    BY CallType
  <2> QED
    BY <2>1 DEF D!Requests
<1> HIDE DEF q
<1>3. q \in D!Requests
  BY <1>2
<1>4. /\ call' \in Seq(D!Requests) /\ Len(call') = Len(call) /\ D!Calls' = D!Calls
      /\ call'[c] = q /\ \A e \in D!Calls : e # c => call'[e] = call[e]
  BY <1>1, <1>3, OneCall
<1> QED
  BY <1>2, <1>4 DEF Serves

LEMMA RequestStep ==
  ASSUME D!TypeOK, NEW c \in D!Calls, NEW s \in {"sent", "counted", "answered", "over"},
         NEW h \in BOOLEAN, NEW ok \in BOOLEAN,
         call' = [call EXCEPT ![c] = [call[c] EXCEPT !.step = s, !.heard = h, !.ok = ok]]
  PROVE  Steps(c, s, h, ok)
<1> DEFINE q == [call[c] EXCEPT !.step = s, !.heard = h, !.ok = ok]
<1>1. call' = [call EXCEPT ![c] = q]
  OBVIOUS
<1>2. /\ q \in D!Requests /\ q.kind = call[c].kind /\ q.set = call[c].set
      /\ q.heard = h /\ q.step = s /\ q.ok = ok
      /\ q.id = call[c].id /\ q.row = call[c].row
  <2>1. call[c] \in D!Requests
    BY CallType
  <2> QED
    BY <2>1 DEF D!Requests
<1> HIDE DEF q
<1>3. q \in D!Requests
  BY <1>2
<1>4. /\ call' \in Seq(D!Requests) /\ Len(call') = Len(call) /\ D!Calls' = D!Calls
      /\ call'[c] = q /\ \A e \in D!Calls : e # c => call'[e] = call[e]
  BY <1>1, <1>3, OneCall
<1> QED
  BY <1>2, <1>4 DEF Steps

-----------------------------------------------------------------------------
(* Honest: what becomes of it when nothing the tab awaits changes *)

\* A destination that nothing happens to.
LEMMA ValueSame ==
  ASSUME NEW j \in D!Ids, ValueOf(j),
         j \in DOMAIN rows' => j \in DOMAIN rows /\ rows'[j] = rows[j],
         j \in DOMAIN list'.list => j \in DOMAIN list.list /\ list'.list[j] = list.list[j],
         \A e \in D!Calls : Updates(e, j) => e \in D!Calls' /\ Updates(e, j)',
         \A e \in D!Calls' : Updates(e, j)' => /\ e \in D!Calls /\ Updates(e, j) /\ Done(e)' = Done(e)
                                            /\ call'[e].kind = call[e].kind
                                            /\ call'[e].row = call[e].row
  PROVE  ValueOf(j)'
<1> SUFFICES ASSUME j \in DOMAIN rows'
             PROVE  /\ j \in DOMAIN list'.list /\ (\A c \in D!Calls' : ~Updates(c, j)')
                         => list'.list[j] = rows'[j]
                    /\ \A c \in D!Calls' : Updates(c, j)' =>
                         IF call'[c].kind = "switch" \/ Done(c)' THEN call'[c].row = rows'[j]
                         ELSE j \in DOMAIN list'.list => list'.list[j] = rows'[j]
  BY DEF ValueOf
<1>1. /\ j \in DOMAIN list.list /\ (\A c \in D!Calls : ~Updates(c, j)) => list.list[j] = rows[j]
      /\ \A c \in D!Calls : Updates(c, j) =>
           IF call[c].kind = "switch" \/ Done(c) THEN call[c].row = rows[j]
           ELSE j \in DOMAIN list.list => list.list[j] = rows[j]
  BY DEF ValueOf
<1> QED
  BY <1>1

LEMMA HonestSame ==
  ASSUME D!TypeOK, Honest, UNCHANGED rows, list'.list = list.list, Sure' => Sure,
         D!Calls' = D!Calls,
         \A c \in D!Calls : ~call'[c].heard /\ Sure' => call'[c].step \in {"answered", "over"},
         \A c \in D!Calls : D!Awaits(c)' => /\ D!Awaits(c) /\ Done(c)' = Done(c)
                                            /\ call'[c].kind = call[c].kind /\ call'[c].id = call[c].id
                                            /\ call'[c].row = call[c].row,
         \A c \in D!Calls : D!Awaits(c) => D!Awaits(c)'
  PROVE  Honest'
<1> SUFFICES ASSUME Sure' PROVE (Told /\ Added /\ Deleted /\ Listed /\ Values)'
  BY DEF Honest
<1>1. Told /\ Added /\ Deleted /\ Listed /\ Values
  BY DEF Honest
<1>2. \A c \in D!Calls, i \in D!Ids : Updates(c, i)' <=> Updates(c, i)
  BY DEF Updates
<1>3. Told'
  BY <1>1, <1>2 DEF Told
<1>4. Added'
  BY <1>1 DEF Added
<1>5. Deleted'
  BY <1>1 DEF Deleted
<1>6. Listed'
  BY <1>1 DEF Listed, Undone
<1>7. \A j \in D!Ids : ValueOf(j)'
  <2> SUFFICES ASSUME NEW j \in D!Ids PROVE ValueOf(j)'
    OBVIOUS
  <2>1. \A e \in D!Calls : Updates(e, j)' => /\ Done(e)' = Done(e) /\ call'[e].kind = call[e].kind
                                             /\ call'[e].row = call[e].row
    BY DEF Updates
  <2> QED
    BY <1>1, <1>2, <2>1, ValueSame DEF Values
<1>8. Values'
  BY <1>7 DEF Values
<1> QED
  BY <1>3, <1>4, <1>5, <1>6, <1>8

\* A request is settled, in the tab and among those it awaits.
LEMMA HonestSettled ==
  ASSUME D!TypeOK, Dialogs, Honest, NEW c \in D!Calls, UNCHANGED rows, Sure' => Sure,
         D!Awaits(c), call[c].step = "answered", ~D!Awaits(c)', call'[c].step \in {"answered", "over"},
         list'.list = D!Settled(list, c, call[c].ok).list,
         D!Calls' = D!Calls, \A e \in D!Calls : e # c => call'[e] = call[e]
  PROVE  Honest'
<1> SUFFICES ASSUME Sure' PROVE (Told /\ Added /\ Deleted /\ Listed /\ Values)'
  BY DEF Honest
<1>1. Told /\ Added /\ Deleted /\ Listed /\ Values
  BY DEF Honest
<1>2. \A e \in D!Calls : D!Awaits(e)' => /\ e # c /\ D!Awaits(e) /\ Done(e)' = Done(e)
                                         /\ call'[e] = call[e]
  BY DEF D!Awaits, Done
<1>3. \A e \in D!Calls : D!Awaits(e) /\ e # c => D!Awaits(e)' /\ Done(e)' = Done(e)
  BY DEF D!Awaits, Done
<1>4. \A e \in D!Calls, i \in D!Ids : Updates(e, i)' <=> Updates(e, i) /\ e # c
  BY <1>2, <1>3 DEF Updates
<1> DEFINE k == call[c].kind
           i == call[c].id
           r == call[c].row
           ok == call[c].ok
<1>5. k \in {"switch", "edit", "create", "delete"} /\ r \in D!Rows /\ ok \in BOOLEAN
      /\ i \in D!Ids \cup {D!NoId}
  BY CallType
<1>6. list.list \in D!Tables /\ DOMAIN list.list \subseteq D!Ids /\ DOMAIN rows \subseteq D!Ids
  BY TabType, TableType DEF D!TypeOK
<1>7. (ok => i \in D!Ids) /\ (Done(c) <=> ok)
  BY DEF Dialogs, Done
<1>8. list'.list = IF k = "switch" \/ (k = "edit" /\ ok) THEN D!Replaced(list.list, i, r)
                  ELSE IF k = "create" /\ ok THEN D!With(list.list, i, r)
                  ELSE IF k = "delete" /\ ok THEN D!Without(list.list, i)
                  ELSE list.list
  BY ZenonT(40), <1>5, <1>7, SettledType
<1>9. \A e \in D!Calls : ByDialog(e) /\ ByDialog(c) => e = c
  BY DEF Dialogs
\* A destination which the request has not updated, and the list does not change.
<1>16. ASSUME NEW j \in D!Ids, ~Updates(c, j),
              j \in DOMAIN list'.list => j \in DOMAIN list.list /\ list'.list[j] = list.list[j]
       PROVE  ValueOf(j)'
  <2>1. \A e \in D!Calls : Updates(e, j) => Updates(e, j)'
    BY <1>4, <1>16
  <2>2. \A e \in D!Calls : Updates(e, j)' =>
          Updates(e, j) /\ Done(e)' = Done(e) /\ call'[e] = call[e]
    BY <1>2, <1>4 DEF Updates
  <2> QED
    BY <1>1, <1>16, <2>1, <2>2, ValueSame DEF Values
\* The destination which it has updated, and which is shown as it is stored.
<1>17. ASSUME NEW j \in D!Ids, Updates(c, j),
              j \in DOMAIN rows \cap DOMAIN list'.list => list'.list[j] = rows[j]
       PROVE  ValueOf(j)'
  <2>1. \A e \in D!Calls : ~Updates(e, j)'
    BY <1>1, <1>4, <1>17 DEF Told
  <2> QED
    BY <1>17, <2>1 DEF ValueOf
<1> HIDE DEF k, i, r, ok
<1>10. Told'
  BY <1>1, <1>4 DEF Told
<1>11. Deleted'
  BY <1>1, <1>2 DEF Deleted
\* The list got the row of the request, and it is the row that is stored.
<1>12. ASSUME k = "switch" \/ (k = "edit" /\ ok) PROVE (Added /\ Listed /\ Values)'
  <2>1. /\ DOMAIN list'.list = DOMAIN list.list
        /\ i \in DOMAIN list.list => list'.list[i] = r
        /\ \A j \in DOMAIN list.list : j # i => list'.list[j] = list.list[j]
    BY <1>5, <1>6, <1>8, <1>12, ReplacedType
  <2>2. Added'
    BY <1>1, <1>2, <2>1 DEF Added
  <2>3. \A kind \in {"create", "delete"}, j \in D!Ids : Undone(kind, j) => Undone(kind, j)'
    BY <1>2, <1>3, <1>12 DEF Undone, k
  <2>4. Listed'
    BY <1>1, <1>6, <2>1, <2>3 DEF Listed
  <2>5. i \in D!Ids => Updates(c, i)
    BY <1>12 DEF Updates, k, i
  <2>6. i \in DOMAIN rows => r = rows[i]
    BY <1>1, <1>6, <1>7, <1>12, <2>5 DEF Values, ValueOf, k, r
  <2>7. \A j \in D!Ids : ValueOf(j)'
    <3> SUFFICES ASSUME NEW j \in D!Ids PROVE ValueOf(j)'
      OBVIOUS
    <3>1. CASE j = i
      BY <1>17, <2>1, <2>5, <2>6, <3>1
    <3>2. CASE j # i
      <4>1. ~Updates(c, j)
        BY <3>2 DEF Updates, i
      <4> QED
        BY <1>16, <2>1, <3>2, <4>1
    <3> QED
      BY <3>1, <3>2
  <2> QED
    BY <2>2, <2>4, <2>7 DEF Values
\* The list is as it was.
<1>13. ASSUME ~ok, k # "switch" PROVE (Added /\ Listed /\ Values)'
  <2>1. list'.list = list.list
    BY <1>8, <1>13
  <2>2. Added'
    BY <1>1, <1>2, <2>1 DEF Added
  <2>3. \A kind \in {"create", "delete"}, j \in D!Ids : Undone(kind, j) => Undone(kind, j)'
    BY <1>2, <1>3, <1>7, <1>13 DEF Undone
  <2>4. Listed'
    BY <1>1, <1>6, <2>1, <2>3 DEF Listed
  <2>5. \A j \in DOMAIN rows \cap DOMAIN list.list : Updates(c, j) => list.list[j] = rows[j]
    BY <1>1, <1>6, <1>7, <1>13 DEF Values, ValueOf, k
  <2>6. Values'
    BY <1>16, <1>17, <2>1, <2>5 DEF Values
  <2> QED
    BY <2>2, <2>4, <2>6
<1>14. ASSUME ok, k = "create" PROVE (Added /\ Listed /\ Values)'
  <2>1. /\ DOMAIN list'.list = DOMAIN list.list \cup {i} /\ list'.list[i] = r
        /\ \A j \in DOMAIN list.list : j # i => list'.list[j] = list.list[j]
    <3>1. list'.list = D!With(list.list, i, r) /\ i \in D!Ids
      BY <1>7, <1>8, <1>14
    <3>2. list.list \in D!Tables /\ i \in D!Ids /\ r \in D!Rows
      BY <1>5, <1>6, <3>1
    <3>3. /\ DOMAIN D!With(list.list, i, r) = DOMAIN list.list \cup {i}
          /\ D!With(list.list, i, r)[i] = r
          /\ \A j \in DOMAIN list.list : j # i => D!With(list.list, i, r)[j] = list.list[j]
      BY <3>2, ListWith
    <3> QED
      BY <3>1, <3>3
  <2>2. /\ i \notin DOMAIN list.list /\ i \in DOMAIN rows /\ rows[i] = r
        /\ \A e \in D!Calls : D!Awaits(e) /\ e # c => call[e].id # i
    BY <1>1, <1>7, <1>14 DEF Added, k, i, r
  <2>3. Added'
    BY <1>1, <1>2, <2>1, <2>2 DEF Added
  <2>4. \A kind \in {"create", "delete"}, j \in D!Ids : j # i /\ Undone(kind, j) => Undone(kind, j)'
    BY <1>2, <1>3 DEF Undone, i
  <2>5. Listed'
    BY <1>1, <1>6, <2>1, <2>2, <2>4 DEF Listed
  <2>6. \A j \in D!Ids : j # i => ~Updates(c, j)
    BY DEF Updates, i
  <2>7. \A j \in D!Ids : j = i => \A e \in D!Calls : ~Updates(e, j)'
    BY <1>2, <2>2 DEF Updates
  <2>8. \A j \in D!Ids : ValueOf(j)'
    <3> SUFFICES ASSUME NEW j \in D!Ids PROVE ValueOf(j)'
      OBVIOUS
    <3>1. CASE j = i
      BY <2>1, <2>2, <2>7, <3>1 DEF ValueOf
    <3>2. CASE j # i
      BY <1>16, <2>1, <2>6, <3>2
    <3> QED
      BY <3>1, <3>2
  <2> QED
    BY <2>3, <2>5, <2>8 DEF Values
<1>15. ASSUME ok, k = "delete" PROVE (Added /\ Listed /\ Values)'
  <2>1. /\ DOMAIN list'.list = DOMAIN list.list \ {i}
        /\ \A j \in DOMAIN list.list : j # i => list'.list[j] = list.list[j]
    <3>1. list'.list = D!Without(list.list, i)
      BY <1>8, <1>15
    <3>2. /\ DOMAIN D!Without(list.list, i) = DOMAIN list.list \ {i}
          /\ \A j \in DOMAIN list.list : j # i => D!Without(list.list, i)[j] = list.list[j]
      BY <1>6, WithoutType
    <3> QED
      BY <3>1, <3>2
  <2>2. i \notin DOMAIN rows
    BY <1>1, <1>7, <1>15 DEF Deleted, k, i
  <2>3. Added'
    BY <1>1, <1>2, <2>1 DEF Added
  <2>4. \A kind \in {"create", "delete"}, j \in D!Ids : j # i /\ Undone(kind, j) => Undone(kind, j)'
    BY <1>2, <1>3 DEF Undone, i
  <2>5. Listed'
    BY <1>1, <1>6, <2>1, <2>2, <2>4 DEF Listed
  <2>6. \A j \in D!Ids : ~Updates(c, j)
    BY <1>15 DEF Updates, k
  <2>7. Values'
    <3> SUFFICES ASSUME NEW j \in D!Ids PROVE ValueOf(j)'
      BY DEF Values
    <3>1. CASE j = i
      BY <2>2, <3>1 DEF ValueOf
    <3>2. CASE j # i
      BY <1>16, <2>1, <2>6, <3>2
    <3> QED
      BY <3>1, <3>2
  <2> QED
    BY <2>3, <2>5, <2>7
<1> QED
  BY <1>5, <1>10, <1>11, <1>12, <1>13, <1>14, <1>15

-----------------------------------------------------------------------------
(* Space: how many there are *)

\* The list's sets and their sizes are those of FiniteSets.
LEMMA SameSize == ASSUME NEW S PROVE D!Cardinality(S) = Cardinality(S)
BY DEF D!Cardinality, Cardinality

LEMMA RowsFinite ==
  ASSUME D!DestinationsAssumption, NEW t \in D!Tables
  PROVE  IsFiniteSet(DOMAIN t) /\ D!Cardinality(DOMAIN t) \in Nat
<1>1. IsFiniteSet(D!Ids)
  BY FS_Interval DEF D!Ids, D!DestinationsAssumption
<1>2. DOMAIN t \subseteq D!Ids
  BY TableType
<1> QED
  BY <1>1, <1>2, SameSize, FS_Subset, FS_CardinalityType

LEMMA WithSize ==
  ASSUME D!DestinationsAssumption, NEW t \in D!Tables, NEW i \in D!Ids, NEW r \in D!Rows
  PROVE  D!Cardinality(DOMAIN D!With(t, i, r)) =
           D!Cardinality(DOMAIN t) + (IF i \in DOMAIN t THEN 0 ELSE 1)
<1>1. DOMAIN D!With(t, i, r) = DOMAIN t \cup {i}
  BY WithType
<1>2. IsFiniteSet(DOMAIN t) /\ D!Cardinality(DOMAIN t) \in Nat
  BY RowsFinite
<1>3. CASE i \in DOMAIN t
  <2>1. DOMAIN t \cup {i} = DOMAIN t
    BY <1>3
  <2> QED
    BY <1>1, <1>2, <1>3, <2>1
<1>4. CASE i \notin DOMAIN t
  <2>1. D!Cardinality(DOMAIN t \cup {i}) = D!Cardinality(DOMAIN t) + 1
    BY <1>2, <1>4, SameSize, FS_AddElement
  <2> QED
    BY <1>1, <1>4, <2>1
<1> QED
  BY <1>3, <1>4

LEMMA WithoutSize ==
  ASSUME D!DestinationsAssumption, NEW t \in D!Tables, NEW i
  PROVE  D!Cardinality(DOMAIN D!Without(t, i)) <= D!Cardinality(DOMAIN t)
<1>1. DOMAIN D!Without(t, i) \subseteq DOMAIN t
  BY WithoutType
<1> QED
  BY <1>1, SameSize, RowsFinite, FS_Subset

\* No more destinations, and no more additions that were counted.
LEMMA SpaceSame ==
  ASSUME Space, D!TypeOK, D!DestinationsAssumption, together' = together,
         D!Cardinality(DOMAIN rows') \in Nat,
         D!Cardinality(DOMAIN rows') <= D!Cardinality(DOMAIN rows),
         \A c \in D!Calls' : call'[c].step = "counted" => c \in D!Calls /\ call[c].step = "counted"
  PROVE  Space'
<1>1. D!Cardinality(DOMAIN rows) \in Nat /\ MaxRows \in Nat
  BY RowsFinite DEF D!TypeOK, D!DestinationsAssumption
<1> QED
  BY <1>1 DEF Space

-----------------------------------------------------------------------------
(* The steps of the tab *)

LEMMA LoadKeeps ==
  ASSUME D!DestinationsAssumption, ListInv, D!Read \/ D!Loaded
  PROVE  ListInv'
<1> USE DEF ListInv
<1>1. list.load # "shown" /\ UNCHANGED <<rows, used, call, others, together>>
  BY DEF D!Read, D!Loaded
<1>2. call = <<>> /\ D!Calls = {} /\ list.dialog = "no" /\ ~list.waits
  BY <1>1, TabType DEF Dialogs, D!Calls
<1>3. /\ list' \in D!Tab /\ list'.dialog = list.dialog /\ list'.waits = list.waits
      /\ list'.target = list.target /\ list'.list \in {rows, list.list}
  BY ZenonT(40), <1>1 DEF D!Read, D!Loaded, D!Tab, D!TypeOK
<1>4. D!TypeOK'
  BY <1>1, <1>3 DEF D!TypeOK
<1>5. Dialogs'
  BY <1>1, <1>2, <1>3 DEF Dialogs, D!TypeOK, D!Calls
<1>6. Honest'
  <2>1. D!Calls' = {}
    BY <1>1, <1>2 DEF D!Calls
  <2>2. Sure' => list'.list = rows
    <3>1. CASE D!Read
      BY <3>1 DEF D!Read, D!TypeOK, D!Tab
    <3>2. CASE D!Loaded
      <4>1. list.load = "read" /\ list'.list = list.list /\ list'.sure = list.sure
        BY <3>2 DEF D!Loaded, D!TypeOK, D!Tab
      <4>2. Sure' => Listed /\ Values
        BY <4>1 DEF Sure, Honest
      <4>3. Listed => DOMAIN list.list = DOMAIN rows
        BY <1>2 DEF Listed, Undone
      <4>4. Sure' => \A i \in DOMAIN rows : list.list[i] = rows[i]
        <5>1. DOMAIN rows \subseteq D!Ids
          BY TableType DEF D!TypeOK
        <5> QED
          BY <1>2, <4>2, <4>3, <5>1 DEF Values, ValueOf
      <4>5. list.list \in [DOMAIN list.list -> D!Rows] /\ rows \in [DOMAIN rows -> D!Rows]
        BY TableType, TabType DEF D!TypeOK
      <4> QED
        BY <4>1, <4>2, <4>3, <4>4, <4>5
    <3> QED
      BY <3>1, <3>2
  <2> QED
    BY <1>1, <2>1, <2>2 DEF Honest, Told, Added, Deleted, Listed, Values, ValueOf
<1>7. Space'
  BY <1>1, <1>2 DEF Space, D!Calls
<1> QED
  BY <1>4, <1>5, <1>6, <1>7

LEMMA DialogKeeps ==
  ASSUME D!DestinationsAssumption, ListInv, D!OpenDialog \/ D!CloseDialog
  PROVE  ListInv'
<1> USE DEF ListInv
<1>1. UNCHANGED <<rows, used, call, others, together>> /\ ~list.waits /\ list.load = "shown"
  BY TabType DEF D!OpenDialog, D!CloseDialog, Dialogs
<1>2. DOMAIN list.list \subseteq D!Ids /\ list.target \in D!Ids \cup {D!NoId} /\ used \in 0..MaxIds
  BY TabType, TableType DEF D!TypeOK
<1>3. /\ list' \in D!Tab /\ list'.waits = list.waits /\ list'.list = list.list /\ list'.sure = list.sure
      /\ list'.load = list.load
      /\ list'.target \in DOMAIN list.list \cup {D!NoId}
  <2>1. PICK d \in {"no", "new", "edit", "delete"}, i \in DOMAIN list.list \cup {D!NoId} :
          list' = [list EXCEPT !.dialog = d, !.target = i]
    <3>1. CASE D!OpenDialog
      BY <3>1 DEF D!OpenDialog
    <3>2. CASE D!CloseDialog
      BY <3>2 DEF D!CloseDialog
    <3> QED
      BY <3>1, <3>2
  <2>2. list \in D!Tab /\ i \in D!Ids \cup {D!NoId}
    BY <1>2, <2>1 DEF D!TypeOK
  <2> QED
    BY <2>1, <2>2 DEF D!Tab
<1>4. D!TypeOK'
  BY <1>1, <1>3 DEF D!TypeOK
<1>5. list'.target <= used
  BY <1>2, <1>3 DEF Dialogs, D!NoId
<1>6. D!Calls' = D!Calls /\ ~list'.waits
  BY <1>1, <1>3 DEF D!Calls
<1>7. Dialogs'
  BY <1>1, <1>3, <1>5, <1>6 DEF Dialogs, ByDialog, D!Awaits
<1>8. Honest'
  <2>1. Sure' => Sure
    BY <1>3 DEF Sure
  <2> QED
    BY <1>1, <1>3, <1>6, <2>1, HonestSame DEF D!Awaits, Done, Honest, Told
<1>9. Space'
  BY <1>1, <1>6 DEF Space
<1> QED
  BY <1>4, <1>7, <1>8, <1>9

\* One more request is under way: a switch, or one of the dialog, which waits for it.
LEMMA SendKeeps ==
  ASSUME D!DestinationsAssumption, ListInv, list' \in D!Tab, list'.load = "shown",
         UNCHANGED <<rows, used, others, together>>,
         NEW kind \in {"switch", "edit", "create", "delete"}, NEW i \in 0..used, NEW set \in D!Patches,
         NEW shown \in D!Rows, D!Send(kind, i, set, shown),
         kind = "create" => set \in D!Rows,
         list'.sure => list.sure /\ (kind \in {"switch", "edit"} => ~D!Overlaps(i)),
         ~list.waits, list'.waits <=> kind # "switch", list'.waits => list'.dialog # "no",
         list'.target = list.target, DOMAIN list'.list = DOMAIN list.list,
         list.load = "shown",
         \A j \in DOMAIN list.list : j # i \/ kind # "switch" => list'.list[j] = list.list[j],
         kind = "switch" => i \in DOMAIN list.list /\ shown = list.list[i]
  PROVE  ListInv'
<1> USE DEF ListInv
<1> DEFINE n == Len(call) + 1
<1>1. i \in D!Ids \cup {D!NoId}
  BY DEF D!TypeOK, D!Ids, D!NoId, D!DestinationsAssumption
<1>2. Sends(kind, i, set, shown)
  BY <1>1, SendType
<1>3. /\ call' \in Seq(D!Requests) /\ Len(call') <= MaxCalls
      /\ n \notin D!Calls /\ D!Calls' = D!Calls \cup {n} /\ \A e \in D!Calls : call'[e] = call[e]
  BY <1>2 DEF Sends
<1>4. /\ call'[n].kind = kind /\ call'[n].id = i /\ call'[n].set = set /\ call'[n].row = shown
      /\ call'[n].step = "sent" /\ call'[n].heard = TRUE /\ call'[n].ok = FALSE
  BY <1>2 DEF Sends
<1> HIDE DEF n
<1>5. D!TypeOK'
  BY <1>3 DEF D!TypeOK
<1>6. \A e \in D!Calls : /\ D!Awaits(e)' = D!Awaits(e) /\ Done(e)' = Done(e)
                         /\ ByDialog(e)' = ByDialog(e)
                         /\ \A j \in D!Ids : Updates(e, j)' = Updates(e, j)
  BY <1>3 DEF D!Awaits, Done, ByDialog, Updates
<1>7. /\ \A e \in D!Calls' : e = n => D!Awaits(e)' /\ ~Done(e)' /\ (ByDialog(e)' <=> kind # "switch")
      /\ \A e \in D!Calls', j \in D!Ids :
           e = n => (Updates(e, j)' <=> kind \in {"switch", "edit"} /\ j = i)
  BY <1>4 DEF D!Awaits, Done, ByDialog, Updates
<1>8. \A e \in D!Calls : ~ByDialog(e)
  BY DEF Dialogs
<1>9. \A e \in D!Calls' : /\ call'[e].id <= used'
                          /\ call'[e].step \in {"sent", "counted"} => ~call'[e].ok
                          /\ call'[e].step = "counted" => call'[e].kind = "create"
                          /\ call'[e].kind = "create" => call'[e].set \in D!Rows
                          /\ call'[e].ok => call'[e].id \in D!Ids
  <2>1. \A e \in D!Calls : e \in D!Calls' => call'[e] = call[e]
    BY <1>3
  <2>2. i <= used
    BY DEF D!TypeOK, D!DestinationsAssumption
  <2> QED
    BY <1>3, <1>4, <2>1, <2>2 DEF Dialogs
<1>10. \A e \in D!Calls' : ByDialog(e)' => list'.waits /\ \A d \in D!Calls' : ByDialog(d)' => d = e
  BY <1>3, <1>6, <1>7, <1>8
<1>11. Dialogs'
  BY <1>9, <1>10 DEF Dialogs
<1>12. Honest'
  <2> SUFFICES ASSUME Sure' PROVE (Told /\ Added /\ Deleted /\ Listed /\ Values)'
    BY DEF Honest
  <2>1. Sure /\ Told /\ Added /\ Deleted /\ Listed /\ Values
    BY DEF Honest, Sure
  <2>2. kind \in {"switch", "edit"} => \A e \in D!Calls, j \in D!Ids : j = i => ~Updates(e, j)
    BY DEF D!Overlaps, Updates, Sure
  <2>3. Told'
    <3>1. \A e \in D!Calls' : ~call'[e].heard => call'[e].step \in {"answered", "over"}
      BY <1>3, <1>4, <2>1 DEF Told
    <3>2. ASSUME NEW d \in D!Calls', NEW e \in D!Calls', NEW j \in D!Ids, Updates(d, j)', Updates(e, j)'
          PROVE  e = d
      <4>1. CASE d \in D!Calls /\ e \in D!Calls
        BY <1>6, <2>1, <3>2, <4>1 DEF Told
      <4>2. CASE d = n \/ e = n
        BY <1>3, <1>6, <1>7, <2>2, <3>2, <4>2
      <4> QED
        BY <1>3, <4>1, <4>2
    <3> QED
      BY <3>1, <3>2 DEF Told
  <2>4. Added'
    <3> SUFFICES ASSUME NEW d \in D!Calls', D!Awaits(d)', Done(d)', call'[d].kind = "create"
                 PROVE  /\ call'[d].id \notin DOMAIN list'.list /\ call'[d].id \in DOMAIN rows'
                        /\ rows'[call'[d].id] = call'[d].row
                        /\ \A e \in D!Calls' : D!Awaits(e)' /\ e # d => call'[e].id # call'[d].id
      BY DEF Added
    <3>1. d \in D!Calls /\ D!Awaits(d) /\ Done(d) /\ call'[d] = call[d]
      BY <1>3, <1>6, <1>7
    <3>2. /\ call[d].id \notin DOMAIN list.list /\ call[d].id \in DOMAIN rows
          /\ rows[call[d].id] = call[d].row
          /\ \A e \in D!Calls : D!Awaits(e) /\ e # d => call[e].id # call[d].id
      BY <2>1, <3>1 DEF Added
    <3>3. kind = "switch"
      BY <1>8, <3>1 DEF ByDialog
    <3>4. i # call[d].id
      BY <3>2, <3>3
    <3> QED
      BY <1>3, <1>4, <1>6, <3>1, <3>2, <3>4
  <2>5. Deleted'
    BY <1>3, <1>6, <1>7, <2>1 DEF Deleted
  <2>6. Listed'
    <3>1. \A k \in {"create", "delete"}, j \in D!Ids : Undone(k, j) => Undone(k, j)'
      BY <1>3, <1>6 DEF Undone
    <3>2. DOMAIN rows \subseteq D!Ids /\ DOMAIN list.list \subseteq D!Ids
      BY TableType, TabType DEF D!TypeOK
    <3> QED
      BY <2>1, <3>1, <3>2 DEF Listed
  <2>7. Values'
    <3> SUFFICES ASSUME NEW j \in D!Ids PROVE ValueOf(j)'
      BY DEF Values
    <3>1. CASE j # i \/ kind \notin {"switch", "edit"}
      <4>1. \A e \in D!Calls : Updates(e, j) => e \in D!Calls' /\ Updates(e, j)'
        BY <1>3, <1>6
      <4>2. \A e \in D!Calls' : Updates(e, j)' => e \in D!Calls /\ Updates(e, j) /\ Done(e)' = Done(e)
                                                /\ call'[e] = call[e]
        BY <1>3, <1>6, <1>7, <3>1
      <4> QED
        BY <2>1, <3>1, <4>1, <4>2, ValueSame DEF Values
    <3>2. CASE j = i /\ kind \in {"switch", "edit"}
      <4>1. j \in DOMAIN rows /\ j \in DOMAIN list.list => list.list[j] = rows[j]
        BY <2>1, <2>2, <3>2 DEF Values, ValueOf
      <4>2. \A e \in D!Calls' : Updates(e, j)' <=> e = n
        BY <1>3, <1>6, <1>7, <2>2, <3>2
      <4>3. n \in D!Calls' /\ \A e \in D!Calls' : e = n => Updates(e, j)' /\ ~Done(e)'
        BY <1>3, <1>7, <3>2
      <4>4. kind = "edit" /\ j \in DOMAIN list'.list => list'.list[j] = list.list[j]
        BY <3>2
      <4> QED
        BY <1>3, <1>4, <1>7, <3>2, <4>1, <4>2, <4>3, <4>4 DEF ValueOf
    <3> QED
      BY <3>1, <3>2
  <2> QED
    BY <2>3, <2>4, <2>5, <2>6, <2>7
<1>13. Space'
  <2>1. D!Cardinality(DOMAIN rows) \in Nat
    BY RowsFinite DEF D!TypeOK
  <2>2. \A e \in D!Calls' : call'[e].step = "counted" => e \in D!Calls /\ call[e].step = "counted"
    BY <1>3, <1>4
  <2> QED
    BY <2>1, <2>2, SpaceSame DEF D!TypeOK
<1> QED
  BY <1>5, <1>11, <1>12, <1>13

LEMMA SwitchKeeps ==
  ASSUME D!DestinationsAssumption, ListInv, NEW i \in D!Ids, NEW f \in Switches, D!Switch(i, f)
  PROVE  ListInv'
<1> USE DEF ListInv
<1> DEFINE d   == list.list[i]
           set == [g \in {f} |-> ~d[f]]
<1>1. i \in DOMAIN list.list /\ list.load = "shown" /\ list.dialog = "no"
  BY DEF D!Switch
<1>2. d \in D!Rows
  BY <1>1, TabType, TableType
<1>3. set \in D!Patches
  <2>1. (~d[f]) \in BOOLEAN
    OBVIOUS
  <2> QED
    BY <2>1, PatchTypes
<1>4. D!Patched(d, set) \in D!Rows
  BY <1>2, <1>3, PatchedType
<1>5. D!Send("switch", i, set, d)
  BY DEF D!Switch
<1>6. list' = [list EXCEPT !.busy = i, !.list = D!Replaced(list.list, i, D!Patched(d, set)),
                         !.sure = list.sure /\ ~D!Overlaps(i)]
  BY DEF D!Switch
<1> DEFINE l == D!Replaced(list.list, i, D!Patched(d, set))
<1>7. /\ l \in D!Tables /\ DOMAIN l = DOMAIN list.list
      /\ \A j \in DOMAIN list.list : j # i => l[j] = list.list[j]
  BY <1>4, TabType, ReplacedType
<1>8. list' = [list EXCEPT !.busy = i, !.list = l, !.sure = list.sure /\ ~D!Overlaps(i)]
  BY <1>6
<1>9. UNCHANGED <<rows, used, others, together>>
  BY DEF D!Switch
<1> HIDE DEF l, set, d
<1>10. /\ list' \in D!Tab /\ list'.load = "shown" /\ list'.list = l /\ list'.sure = (list.sure /\ ~D!Overlaps(i))
       /\ list'.waits = list.waits /\ list'.target = list.target /\ list'.dialog = list.dialog
  <2>1. (list.sure /\ ~D!Overlaps(i)) \in BOOLEAN
    OBVIOUS
  <2> QED
    BY <1>1, <1>7, <1>8, <2>1 DEF D!TypeOK, D!Tab
<1>11. ~list.waits /\ list.waits \in BOOLEAN
  BY <1>1, TabType DEF Dialogs
<1>12. i \in 0..used
  <2>1. i <= used /\ used \in Nat /\ i \in Nat
    BY <1>1 DEF Dialogs, D!TypeOK, D!DestinationsAssumption, D!Ids
  <2> QED
    BY <2>1
<1>13. d = list.list[i]
  BY DEF d
<1> QED
  BY <1>1, <1>2, <1>3, <1>5, <1>7, <1>9, <1>10, <1>11, <1>12, <1>13, SendKeeps

LEMMA SubmitKeeps ==
  ASSUME D!DestinationsAssumption, ListInv, D!Submit \/ D!Confirm
  PROVE  ListInv'
<1> USE DEF ListInv
<1>1. list.dialog # "no" /\ ~list.waits /\ UNCHANGED <<rows, used, others, together>>
  BY DEF D!Submit, D!Confirm
<1>2. list.load = "shown"
  BY <1>1 DEF Dialogs
<1>3. list.target \in 0..used
  BY TabType DEF Dialogs, D!TypeOK, D!Ids, D!NoId, D!DestinationsAssumption
<1>4. list' \in D!Tab /\ list'.load = "shown" /\ list'.list = list.list /\ list'.waits = TRUE
      /\ list'.target = list.target /\ list'.dialog = list.dialog
  <2>1. \A b \in BOOLEAN : (list.sure /\ b) \in BOOLEAN
    BY TabType
  <2>2. D!Overlaps(list.target) \in BOOLEAN
    BY DEF D!Overlaps
  <2>3. CASE D!Submit
    <3>1. list' = [list EXCEPT !.waits = TRUE, !.sure = list.sure /\ ~D!Overlaps(list.target)]
      BY <2>3 DEF D!Submit
    <3> QED
      BY <1>2, <2>1, <2>2, <3>1 DEF D!TypeOK, D!Tab
  <2>4. CASE D!Confirm
    BY <1>2, <2>4 DEF D!Confirm, D!TypeOK, D!Tab
  <2> QED
    BY <2>3, <2>4
<1>5. CASE D!Submit
  <2>1. PICK r \in D!Rows :
          D!Send(IF list.dialog = "new" THEN "create" ELSE "edit", list.target, r, r)
    BY <1>5 DEF D!Submit
  <2>2. r \in D!Patches
    BY PatchTypes
  <2>3. list'.sure => list.sure /\ ~D!Overlaps(list.target)
    BY <1>5 DEF D!Submit, D!TypeOK, D!Tab
  <2>4. CASE list.dialog = "new"
    <3>1. D!Send("create", list.target, r, r)
      BY <2>1, <2>4
    <3> QED
      BY <1>1, <1>2, <1>3, <1>4, <2>2, <2>3, <3>1, SendKeeps
  <2>5. CASE list.dialog # "new"
    <3>1. D!Send("edit", list.target, r, r)
      BY <2>1, <2>5
    <3> QED
      BY <1>1, <1>2, <1>3, <1>4, <2>2, <2>3, <3>1, SendKeeps
  <2> QED
    BY <2>4, <2>5
<1>6. CASE D!Confirm
  <2>1. D!Send("delete", list.target, [f \in {} |-> FALSE], D!Usual)
    BY <1>6 DEF D!Confirm
  <2>2. [f \in {} |-> FALSE] \in D!Patches /\ D!Usual \in D!Rows
    BY PatchTypes
  <2>3. list'.sure => list.sure
    BY <1>6 DEF D!Confirm, D!TypeOK, D!Tab
  <2> QED
    BY <1>1, <1>2, <1>3, <1>4, <2>1, <2>2, <2>3, SendKeeps
<1> QED
  BY <1>5, <1>6

-----------------------------------------------------------------------------
(* The routes *)

\* What the requests' numbers and kinds say of the dialogs is not touched by serving them.
LEMMA DialogsServed ==
  ASSUME D!TypeOK, Dialogs, NEW c \in D!Calls, D!Calls' = D!Calls,
         \A e \in D!Calls : e # c => call'[e] = call[e],
         call'[c].kind = call[c].kind, call'[c].set = call[c].set,
         call'[c].id <= used', call'[c].heard = call[c].heard, call[c].step # "over",
         call'[c].step \in {"sent", "counted"} => ~call'[c].ok,
         call'[c].step = "counted" => call'[c].kind = "create",
         call'[c].ok => call'[c].id \in D!Ids,
         used <= used', used' \in Nat,
         list'.load = list.load, list'.waits = list.waits, list'.dialog = list.dialog,
         list'.target = list.target, list'.list = list.list
  PROVE  Dialogs'
<1>1. used \in Nat /\ list.target \in Nat
  BY TabType DEF D!TypeOK, D!Ids, D!NoId
<1>2. \A e \in D!Calls : call[e].id \in Nat
  BY CallType DEF D!Ids, D!NoId
<1>3. list'.load # "shown" => call' = <<>> /\ list'.dialog = "no"
  <2>1. D!Calls # {}
    OBVIOUS
  <2>2. call # <<>>
    BY <2>1 DEF D!Calls
  <2> QED
    BY <2>2 DEF Dialogs
<1>4. list'.target <= used' /\ DOMAIN list'.list \subseteq 1..used'
  BY <1>1 DEF Dialogs
<1>5. \A e \in D!Calls : /\ call'[e].id <= used'
                         /\ call'[e].step \in {"sent", "counted"} => ~call'[e].ok
                         /\ call'[e].step = "counted" => call'[e].kind = "create"
                         /\ call'[e].kind = "create" => call'[e].set \in D!Rows
                         /\ call'[e].ok => call'[e].id \in D!Ids
  BY <1>1, <1>2 DEF Dialogs
<1>6. \A e \in D!Calls : ByDialog(e)' => ByDialog(e)
  BY DEF ByDialog, D!Awaits
<1>7. \A e \in D!Calls : ByDialog(e)' => list'.waits /\ \A d \in D!Calls : ByDialog(d)' => d = e
  BY <1>6 DEF Dialogs
<1> QED
  BY <1>3, <1>4, <1>5, <1>7 DEF Dialogs

\* A refusal and the count: nothing is written, and nobody is told yet.
LEMMA UnservedKeeps ==
  ASSUME D!DestinationsAssumption, ListInv, NEW c \in D!Calls, NEW s \in {"counted", "answered"},
         call[c].step \in {"sent", "counted"}, s = "counted" => call[c].kind = "create",
         call' = [call EXCEPT ![c] = [call[c] EXCEPT !.step = s, !.heard = call[c].heard, !.ok = FALSE]],
         together' \in BOOLEAN,
         IF s = "counted" THEN D!Cardinality(DOMAIN rows) < MaxRows
                               /\ (~together' => ~together /\ ~D!Counting)
         ELSE together' = together,
         UNCHANGED <<rows, used, list, others>>
  PROVE  ListInv'
<1> USE DEF ListInv
<1>1. call[c].heard \in BOOLEAN /\ call[c].kind \in {"switch", "edit", "create", "delete"}
  BY CallType
<1>2. Steps(c, s, call[c].heard, FALSE)
  BY <1>1, RequestStep
<1>3. /\ call' \in Seq(D!Requests) /\ Len(call') = Len(call) /\ D!Calls' = D!Calls
      /\ \A e \in D!Calls : e # c => call'[e] = call[e]
      /\ call'[c].kind = call[c].kind /\ call'[c].set = call[c].set
      /\ call'[c].id = call[c].id /\ call'[c].row = call[c].row
      /\ call'[c].step = s /\ call'[c].heard = call[c].heard /\ call'[c].ok = FALSE
  BY <1>2 DEF Steps
<1>4. D!TypeOK'
  BY <1>3 DEF D!TypeOK
<1>5. ~call[c].ok /\ call[c].id <= used
  BY DEF Dialogs
<1>6. Dialogs'
  <2>1. used \in Nat
    BY DEF D!TypeOK
  <2> QED
    BY <1>3, <1>5, <2>1, DialogsServed
<1>7. Honest'
  <2>1. \A e \in D!Calls : /\ D!Awaits(e)' <=> D!Awaits(e)
                           /\ Done(e)' = Done(e)
                           /\ call'[e].kind = call[e].kind /\ call'[e].id = call[e].id
                           /\ call'[e].row = call[e].row
    BY <1>3, <1>5 DEF D!Awaits, Done
  <2>2. Sure' => Sure
    BY DEF Sure
  <2>3. Sure => \A e \in D!Calls : ~call'[e].heard => call'[e].step \in {"answered", "over"}
    BY <1>3 DEF Honest, Told
  <2> QED
    BY <1>3, <2>1, <2>2, <2>3, HonestSame
<1>8. Space'
  <2>1. D!Cardinality(DOMAIN rows) \in Nat /\ MaxRows \in Nat
    BY RowsFinite DEF D!TypeOK, D!DestinationsAssumption
  <2>2. CASE s = "answered"
    BY <1>3, <2>1, <2>2, SpaceSame DEF D!TypeOK
  <2>3. CASE s = "counted"
    <3>1. ~together' => \A e \in D!Calls : call'[e].step = "counted" => e = c
      BY <1>3, <2>3 DEF D!Counting
    <3>2. ~together' => D!Cardinality(DOMAIN rows) <= MaxRows
      BY <2>1, <2>3
    <3> QED
      BY <1>3, <2>3, <3>1, <3>2 DEF Space
  <2> QED
    BY <2>2, <2>3
<1> QED
  BY <1>4, <1>6, <1>7, <1>8

LEMMA SameStep ==
  ASSUME D!TypeOK, NEW c \in D!Calls, NEW s, call[c].ok = FALSE
  PROVE  [call EXCEPT ![c].step = s] =
           [call EXCEPT ![c] = [call[c] EXCEPT !.step = s, !.heard = call[c].heard, !.ok = FALSE]]
<1>1. call[c] \in D!Requests
  BY CallType
<1>2. [call[c] EXCEPT !.step = s] =
        [call[c] EXCEPT !.step = s, !.heard = call[c].heard, !.ok = FALSE]
  BY <1>1 DEF D!Requests
<1> QED
  BY <1>2

LEMMA SameRefusal ==
  ASSUME D!TypeOK, NEW c \in D!Calls
  PROVE  [call EXCEPT ![c].step = "answered", ![c].ok = FALSE] =
           [call EXCEPT ![c] = [call[c] EXCEPT !.step = "answered", !.heard = call[c].heard,
                                               !.ok = FALSE]]
<1>1. call[c] \in D!Requests
  BY CallType
<1>2. [call[c] EXCEPT !.step = "answered", !.ok = FALSE] =
        [call[c] EXCEPT !.step = "answered", !.heard = call[c].heard, !.ok = FALSE]
  BY <1>1 DEF D!Requests
<1>3. call \in Seq(D!Requests)
  BY DEF D!TypeOK
<1> QED
  BY <1>2, <1>3 DEF D!Calls

LEMMA RefuseKeeps ==
  ASSUME D!DestinationsAssumption, ListInv, NEW c \in D!Calls,
         \/ D!Refuse(c) \/ D!Count(c)
         \/ (D!Update(c) \/ D!Remove(c)) /\ call[c].id \notin DOMAIN rows
  PROVE  ListInv'
<1>1. D!TypeOK /\ Dialogs
  BY DEF ListInv
<1>2. together \in BOOLEAN /\ MaxRows \in Nat /\ D!Cardinality(DOMAIN rows) \in Nat
  BY <1>1, RowsFinite DEF D!TypeOK, D!DestinationsAssumption
<1>3. call[c].step \in {"sent", "counted"}
  BY DEF D!Refuse, D!Count, D!Update, D!Remove
<1>4. call[c].ok = FALSE
  BY <1>1, <1>3, CallType DEF Dialogs
<1>5. CASE call' = [call EXCEPT ![c].step = "answered"] /\ UNCHANGED <<rows, used, list, others, together>>
  <2>1. call' = [call EXCEPT ![c] = [call[c] EXCEPT !.step = "answered", !.heard = call[c].heard,
                                                    !.ok = FALSE]]
    BY <1>1, <1>4, <1>5, SameStep
  <2> QED
    BY <1>2, <1>3, <1>5, <2>1, UnservedKeeps
<1>6. CASE D!Refuse(c)
  BY <1>1, <1>2, <1>3, <1>4, <1>6, SameRefusal, UnservedKeeps DEF D!Refuse
<1>7. CASE D!Count(c)
  <2>1. CASE D!Cardinality(DOMAIN rows) >= MaxRows
    BY <1>5, <1>7, <2>1 DEF D!Count
  <2>2. CASE ~(D!Cardinality(DOMAIN rows) >= MaxRows)
    <3>1. call' = [call EXCEPT ![c].step = "counted"] /\ together' = (together \/ D!Counting)
          /\ UNCHANGED <<rows, used, list, others>> /\ call[c].kind = "create"
      BY <1>7, <2>2 DEF D!Count
    <3>2. call' = [call EXCEPT ![c] = [call[c] EXCEPT !.step = "counted", !.heard = call[c].heard,
                                                      !.ok = FALSE]]
      BY <1>1, <1>4, <3>1, SameStep
    <3>3. together' \in BOOLEAN /\ (~together' => ~together /\ ~D!Counting)
      BY <1>2, <3>1 DEF D!Counting
    <3>4. D!Cardinality(DOMAIN rows) < MaxRows
      BY <1>2, <2>2
    <3> QED
      BY <1>3, <3>1, <3>2, <3>3, <3>4, UnservedKeeps
  <2> QED
    BY <2>1, <2>2
<1>8. CASE (D!Update(c) \/ D!Remove(c)) /\ call[c].id \notin DOMAIN rows
  BY <1>5, <1>8 DEF D!Update, D!Remove
<1> QED
  BY <1>6, <1>7, <1>8

\* A request is served: what it wrote it tells, and nobody knows of it but who hears.
LEMMA KnownType ==
  ASSUME D!TypeOK, NEW c \in D!Calls, list' = D!Known(c)
  PROVE  /\ list' \in D!Tab /\ list'.load = list.load /\ list'.list = list.list
         /\ list'.waits = list.waits /\ list'.dialog = list.dialog /\ list'.target = list.target
         /\ list'.sure => list.sure /\ call[c].heard
<1>1. list \in D!Tab /\ (list.sure /\ call[c].heard) \in BOOLEAN
  BY DEF D!TypeOK
<1> QED
  BY <1>1 DEF D!Known, D!Tab

\* What serving c leaves of the other requests.
LEMMA OthersServed ==
  ASSUME NEW c \in D!Calls, D!Calls' = D!Calls, \A e \in D!Calls : e # c => call'[e] = call[e],
         call[c].step \in {"sent", "counted"}, call[c].heard,
         call'[c].step = "answered", call'[c].heard = call[c].heard, call'[c].ok = TRUE,
         call'[c].kind = call[c].kind
  PROVE  /\ \A e \in D!Calls : D!Awaits(e)' <=> D!Awaits(e)
         /\ \A e \in D!Calls : e # c => Done(e)' = Done(e) /\ (D!Awaits(e)' <=> D!Awaits(e))
         /\ \A e \in D!Calls, j \in D!Ids : e # c => (Updates(e, j)' <=> Updates(e, j))
         /\ D!Awaits(c) /\ ~Done(c) /\ \A e \in D!Calls : e = c => D!Awaits(e)' /\ Done(e)'
BY DEF D!Awaits, Done, Updates

LEMMA InsertKeeps ==
  ASSUME D!DestinationsAssumption, ListInv, NEW c \in D!Calls, D!Insert(c)
  PROVE  ListInv'
<1> USE DEF ListInv
<1> DEFINE i == used + 1
<1>1. call[c].step = "counted" /\ call[c].kind = "create" /\ call[c].set \in D!Rows
  BY DEF D!Insert, Dialogs
<1>2. /\ used \in Nat /\ i \in D!Ids /\ used' = i /\ i \in 0..MaxIds
      /\ DOMAIN rows \subseteq 1..used /\ DOMAIN list.list \subseteq 1..used
  BY DEF D!Insert, D!TypeOK, D!DestinationsAssumption, D!Ids, Dialogs
<1>3. rows' = D!With(rows, i, call[c].set) /\ call' = D!Served(c, i, call[c].set)
      /\ UNCHANGED <<others, together>> /\ list' = D!Known(c)
  BY DEF D!Insert
<1>4. i \notin DOMAIN rows /\ i \notin DOMAIN list.list /\ i # D!NoId /\ used < i
      /\ DOMAIN rows \cup {i} \subseteq 1..i
  BY <1>2 DEF D!NoId
<1>5. \A e \in D!Calls : call[e].id <= used /\ call[e].id # i
  <2>1. \A e \in D!Calls : call[e].id \in Nat
    BY CallType DEF D!Ids, D!NoId
  <2> QED
    BY <1>2, <2>1 DEF Dialogs
<1> HIDE DEF i
<1>6. /\ list' \in D!Tab /\ list'.load = list.load /\ list'.list = list.list
      /\ list'.waits = list.waits /\ list'.dialog = list.dialog /\ list'.target = list.target
      /\ list'.sure => list.sure /\ call[c].heard
  BY <1>3, KnownType
<1>7. /\ rows' \in D!Tables /\ DOMAIN rows' = DOMAIN rows \cup {i} /\ rows'[i] = call[c].set
      /\ \A j \in DOMAIN rows : j # i => rows'[j] = rows[j]
  <2>1. /\ D!With(rows, i, call[c].set) \in D!Tables
        /\ DOMAIN D!With(rows, i, call[c].set) = DOMAIN rows \cup {i}
        /\ D!With(rows, i, call[c].set)[i] = call[c].set
        /\ \A j \in DOMAIN rows : j # i => D!With(rows, i, call[c].set)[j] = rows[j]
    <3>1. rows \in D!Tables /\ i \in D!Ids /\ call[c].set \in D!Rows
      BY <1>1, <1>2 DEF D!TypeOK
    <3> QED
      BY <3>1, WithType
  <2> QED
    BY <1>3, <2>1
<1>8. Serves(c, i, call[c].set)
  BY <1>1, <1>2, <1>3, ServedStep
<1>9. /\ call' \in Seq(D!Requests) /\ Len(call') = Len(call) /\ D!Calls' = D!Calls
      /\ \A e \in D!Calls : e # c => call'[e] = call[e]
      /\ call'[c].kind = call[c].kind /\ call'[c].set = call[c].set
      /\ call'[c].id = i /\ call'[c].row = call[c].set
      /\ call'[c].step = "answered" /\ call'[c].heard = call[c].heard /\ call'[c].ok = TRUE
  BY <1>8 DEF Serves
<1>10. D!TypeOK'
  BY <1>2, <1>3, <1>4, <1>6, <1>7, <1>9 DEF D!TypeOK
<1>11. Dialogs'
  <2>1. used <= used' /\ used' \in Nat /\ call'[c].id <= used'
    BY <1>2, <1>4, <1>9 DEF D!Ids
  <2> QED
    BY <1>1, <1>2, <1>6, <1>9, <2>1, DialogsServed
<1>12. Honest'
  <2> SUFFICES ASSUME Sure' PROVE (Told /\ Added /\ Deleted /\ Listed /\ Values)'
    BY DEF Honest
  <2>1. Told /\ Added /\ Deleted /\ Listed /\ Values /\ call[c].heard
    BY <1>6 DEF Honest, Sure
  <2>2. /\ \A e \in D!Calls : D!Awaits(e)' <=> D!Awaits(e)
        /\ \A e \in D!Calls : e # c => Done(e)' = Done(e) /\ (D!Awaits(e)' <=> D!Awaits(e))
        /\ \A e \in D!Calls, j \in D!Ids : e # c => (Updates(e, j)' <=> Updates(e, j))
        /\ D!Awaits(c) /\ ~Done(c) /\ \A e \in D!Calls : e = c => D!Awaits(e)' /\ Done(e)'
    BY <1>1, <1>9, <2>1, OthersServed
  <2>3. \A j \in D!Ids, e \in D!Calls : e = c => ~Updates(e, j) /\ ~Updates(e, j)'
    BY <1>1, <1>9 DEF Updates
  <2>4. Told'
    BY <1>9, <2>1, <2>2, <2>3 DEF Told
  <2>5. Added'
    <3> SUFFICES ASSUME NEW d \in D!Calls, D!Awaits(d)', Done(d)', call'[d].kind = "create"
                 PROVE  /\ call'[d].id \notin DOMAIN list'.list /\ call'[d].id \in DOMAIN rows'
                        /\ rows'[call'[d].id] = call'[d].row
                        /\ \A e \in D!Calls : D!Awaits(e)' /\ e # d => call'[e].id # call'[d].id
      BY <1>9 DEF Added
    <3>1. d = c
      BY <1>1, <1>9, <2>2 DEF Dialogs, ByDialog
    <3> QED
      BY <1>4, <1>5, <1>6, <1>7, <1>9, <3>1
  <2>6. Deleted'
    <3> SUFFICES ASSUME NEW d \in D!Calls, D!Awaits(d)', Done(d)', call'[d].kind = "delete"
                 PROVE  call'[d].id \notin DOMAIN rows'
      BY <1>9 DEF Deleted
    <3>1. d # c /\ D!Awaits(d) /\ Done(d) /\ call'[d] = call[d]
      BY <1>1, <1>9, <2>2
    <3> QED
      BY <1>5, <1>7, <2>1, <3>1 DEF Deleted
  <2>7. Listed'
    <3>1. \A k \in {"create", "delete"}, j \in D!Ids : Undone(k, j) => Undone(k, j)'
      BY <1>9, <2>2 DEF Undone
    <3>2. \A j \in D!Ids : j = i => Undone("create", j)'
      BY <1>1, <1>9, <2>2 DEF Undone
    <3>3. DOMAIN rows \subseteq D!Ids /\ DOMAIN list.list \subseteq D!Ids
      BY TableType, TabType DEF D!TypeOK
    <3>4. \A j \in DOMAIN rows' \ DOMAIN list'.list : Undone("create", j)'
      BY <1>2, <1>6, <1>7, <2>1, <3>1, <3>2, <3>3 DEF Listed
    <3>5. \A j \in DOMAIN list'.list \ DOMAIN rows' : Undone("delete", j)'
      BY <1>6, <1>7, <2>1, <3>1, <3>3 DEF Listed
    <3> QED
      BY <3>4, <3>5 DEF Listed
  <2>8. Values'
    <3> SUFFICES ASSUME NEW j \in D!Ids PROVE ValueOf(j)'
      BY DEF Values
    <3>1. \A e \in D!Calls : Updates(e, j)' => e # c /\ Updates(e, j) /\ Done(e)' = Done(e)
                                             /\ call'[e] = call[e]
      BY <1>9, <2>2, <2>3
    <3>2. \A e \in D!Calls : Updates(e, j) => Updates(e, j)'
      BY <2>2, <2>3
    <3>3. CASE j # i
      <4>1. j \in DOMAIN rows' => j \in DOMAIN rows /\ rows'[j] = rows[j]
        BY <1>7, <3>3
      <4> QED
        BY <1>6, <1>9, <2>1, <3>1, <3>2, <4>1, ValueSame DEF Values
    <3>4. CASE j = i
      <4>1. \A e \in D!Calls : ~Updates(e, j)'
        BY <1>5, <3>1, <3>4 DEF Updates
      <4> QED
        BY <1>4, <1>6, <1>9, <3>4, <4>1 DEF ValueOf
    <3> QED
      BY <3>3, <3>4
  <2> QED
    BY <2>4, <2>5, <2>6, <2>7, <2>8
<1>13. Space'
  <2>1. D!Cardinality(DOMAIN rows') = D!Cardinality(DOMAIN rows) + 1
        /\ D!Cardinality(DOMAIN rows) \in Nat /\ MaxRows \in Nat
    BY <1>1, <1>2, <1>3, <1>4, WithSize, RowsFinite DEF D!TypeOK, D!DestinationsAssumption
  <2>2. ~together => D!Cardinality(DOMAIN rows) < MaxRows
                     /\ \A e \in D!Calls : call[e].step = "counted" => e = c
    BY <1>1 DEF Space
  <2>3. ~together => \A e \in D!Calls : call'[e].step # "counted"
    BY <1>9, <2>2
  <2> QED
    BY <1>3, <1>9, <2>1, <2>2, <2>3 DEF Space
<1> QED
  BY <1>10, <1>11, <1>12, <1>13

LEMMA UpdateKeeps ==
  ASSUME D!DestinationsAssumption, ListInv, NEW c \in D!Calls, D!Update(c),
         call[c].id \in DOMAIN rows
  PROVE  ListInv'
<1> USE DEF ListInv
<1> DEFINE i == call[c].id
           r == D!Patched(rows[i], call[c].set)
<1>1. call[c].kind \in {"switch", "edit"} /\ call[c].step = "sent"
  BY DEF D!Update
<1>2. rows' = D!With(rows, i, r) /\ list' = D!Known(c) /\ call' = D!Served(c, i, r)
      /\ UNCHANGED <<used, others, together>>
  BY DEF D!Update
<1>3. i \in DOMAIN rows /\ i \in D!Ids /\ r \in D!Rows
  <2>1. i \in D!Ids /\ rows[i] \in D!Rows
    BY TableType DEF D!TypeOK
  <2>2. call[c].set \in D!Patches
    BY CallType
  <2> QED
    BY <2>1, <2>2, PatchedType
<1>4. i <= used /\ used \in Nat /\ call[c].id = i
  BY DEF Dialogs, D!TypeOK
<1> HIDE DEF i, r
<1>5. /\ list' \in D!Tab /\ list'.load = list.load /\ list'.list = list.list
      /\ list'.waits = list.waits /\ list'.dialog = list.dialog /\ list'.target = list.target
      /\ list'.sure => list.sure /\ call[c].heard
  BY <1>2, KnownType
<1>6. /\ rows' \in D!Tables /\ DOMAIN rows' = DOMAIN rows /\ rows'[i] = r
      /\ \A j \in DOMAIN rows : j # i => rows'[j] = rows[j]
  <2>1. DOMAIN rows \cup {i} = DOMAIN rows
    BY <1>3
  <2>2. /\ D!With(rows, i, r) \in D!Tables /\ DOMAIN D!With(rows, i, r) = DOMAIN rows \cup {i}
        /\ D!With(rows, i, r)[i] = r /\ \A j \in DOMAIN rows : j # i => D!With(rows, i, r)[j] = rows[j]
    <3>1. rows \in D!Tables /\ i \in D!Ids /\ r \in D!Rows
      BY <1>3 DEF D!TypeOK
    <3> QED
      BY ZenonT(40), <3>1, WithType
  <2> QED
    BY <1>2, <2>1, <2>2
<1>7. Serves(c, i, r)
  BY <1>2, <1>3, ServedStep
<1>8. /\ call' \in Seq(D!Requests) /\ Len(call') = Len(call) /\ D!Calls' = D!Calls
      /\ \A e \in D!Calls : e # c => call'[e] = call[e]
      /\ call'[c].kind = call[c].kind /\ call'[c].set = call[c].set
      /\ call'[c].id = i /\ call'[c].row = r
      /\ call'[c].step = "answered" /\ call'[c].heard = call[c].heard /\ call'[c].ok = TRUE
  BY <1>7 DEF Serves
<1>9. D!TypeOK'
  BY <1>2, <1>5, <1>6, <1>8 DEF D!TypeOK
<1>10. Dialogs'
  BY <1>1, <1>2, <1>3, <1>4, <1>5, <1>8, DialogsServed
<1>11. Honest'
  <2> SUFFICES ASSUME Sure' PROVE (Told /\ Added /\ Deleted /\ Listed /\ Values)'
    BY DEF Honest
  <2>1. Told /\ Added /\ Deleted /\ Listed /\ Values /\ call[c].heard
    BY <1>5 DEF Honest, Sure
  <2>2. /\ \A e \in D!Calls : D!Awaits(e)' <=> D!Awaits(e)
        /\ \A e \in D!Calls : e # c => Done(e)' = Done(e) /\ (D!Awaits(e)' <=> D!Awaits(e))
        /\ \A e \in D!Calls, j \in D!Ids : e # c => (Updates(e, j)' <=> Updates(e, j))
        /\ D!Awaits(c) /\ ~Done(c) /\ \A e \in D!Calls : e = c => D!Awaits(e)' /\ Done(e)'
    BY <1>1, <1>8, <2>1, OthersServed
  <2>3. \A j \in D!Ids, e \in D!Calls : e = c => (Updates(e, j)' <=> j = i) /\ (Updates(e, j) <=> j = i)
    BY <1>1, <1>4, <1>8, <2>1 DEF Updates, D!Awaits
  <2>4. \A e \in D!Calls, j \in D!Ids : Updates(e, j)' <=> Updates(e, j)
    BY <2>2, <2>3
  <2>5. Told'
    BY <1>8, <2>1, <2>4 DEF Told
  <2>6. Added'
    <3> SUFFICES ASSUME NEW d \in D!Calls, D!Awaits(d)', Done(d)', call'[d].kind = "create"
                 PROVE  /\ call'[d].id \notin DOMAIN list'.list /\ call'[d].id \in DOMAIN rows'
                        /\ rows'[call'[d].id] = call'[d].row
                        /\ \A e \in D!Calls : D!Awaits(e)' /\ e # d => call'[e].id # call'[d].id
      BY <1>8 DEF Added
    <3>1. d # c /\ D!Awaits(d) /\ Done(d) /\ call'[d] = call[d]
      BY <1>1, <1>8, <2>2
    <3>2. /\ call[d].id \notin DOMAIN list.list /\ call[d].id \in DOMAIN rows
          /\ rows[call[d].id] = call[d].row
          /\ \A e \in D!Calls : D!Awaits(e) /\ e # d => call[e].id # call[d].id
      BY <2>1, <3>1 DEF Added
    <3>3. call[d].id # i
      BY <1>4, <2>2, <3>1, <3>2
    <3>4. \A e \in D!Calls : D!Awaits(e)' => D!Awaits(e) /\ call'[e].id = call[e].id
      BY <1>4, <1>8, <2>2
    <3> QED
      BY <1>5, <1>6, <3>1, <3>2, <3>3, <3>4
  <2>7. Deleted'
    <3> SUFFICES ASSUME NEW d \in D!Calls, D!Awaits(d)', Done(d)', call'[d].kind = "delete"
                 PROVE  call'[d].id \notin DOMAIN rows'
      BY <1>8 DEF Deleted
    <3>1. d # c /\ D!Awaits(d) /\ Done(d) /\ call'[d] = call[d]
      BY <1>1, <1>8, <2>2
    <3> QED
      BY <1>6, <2>1, <3>1 DEF Deleted
  <2>8. Listed'
    <3>1. \A k \in {"create", "delete"}, j \in D!Ids : Undone(k, j) => Undone(k, j)'
      BY <1>8, <2>2 DEF Undone
    <3>2. DOMAIN rows \subseteq D!Ids /\ DOMAIN list.list \subseteq D!Ids
      BY TableType, TabType DEF D!TypeOK
    <3> QED
      BY <1>5, <1>6, <2>1, <3>1, <3>2 DEF Listed
  <2>9. Values'
    <3> SUFFICES ASSUME NEW j \in D!Ids PROVE ValueOf(j)'
      BY DEF Values
    <3>1. CASE j # i
      <4>1. \A e \in D!Calls : Updates(e, j)' => Updates(e, j) /\ Done(e)' = Done(e)
                                               /\ call'[e] = call[e]
        BY <1>8, <2>2, <2>3, <2>4, <3>1
      <4>2. j \in DOMAIN rows' => j \in DOMAIN rows /\ rows'[j] = rows[j]
        BY <1>6, <3>1
      <4> QED
        BY <1>5, <1>8, <2>1, <2>4, <4>1, <4>2, ValueSame DEF Values
    <3>2. CASE j = i
      <4>1. \A e \in D!Calls : Updates(e, j)' <=> e = c
        BY <2>1, <2>3, <2>4, <3>2 DEF Told
      <4> QED
        BY <1>6, <1>8, <2>2, <3>2, <4>1 DEF ValueOf
    <3> QED
      BY <3>1, <3>2
  <2> QED
    BY <2>5, <2>6, <2>7, <2>8, <2>9
<1>12. Space'
  <2>1. D!Cardinality(DOMAIN rows) \in Nat
    BY RowsFinite DEF D!TypeOK
  <2>2. \A e \in D!Calls : call'[e].step = "counted" => call[e].step = "counted"
    BY <1>8
  <2> QED
    BY <1>2, <1>6, <1>8, <2>1, <2>2, SpaceSame
<1> QED
  BY <1>9, <1>10, <1>11, <1>12

LEMMA RemoveKeeps ==
  ASSUME D!DestinationsAssumption, ListInv, NEW c \in D!Calls, D!Remove(c),
         call[c].id \in DOMAIN rows
  PROVE  ListInv'
<1> USE DEF ListInv
<1> DEFINE i == call[c].id
<1>1. call[c].kind = "delete" /\ call[c].step = "sent"
  BY DEF D!Remove
<1>2. rows' = D!Without(rows, i) /\ list' = D!Known(c) /\ call' = D!Served(c, i, call[c].row)
      /\ UNCHANGED <<used, others, together>>
  BY DEF D!Remove
<1>3. i \in DOMAIN rows /\ i \in D!Ids /\ call[c].row \in D!Rows
  BY TableType, CallType DEF D!TypeOK
<1>4. i <= used /\ used \in Nat /\ call[c].id = i
  BY DEF Dialogs, D!TypeOK
<1> HIDE DEF i
<1>5. /\ list' \in D!Tab /\ list'.load = list.load /\ list'.list = list.list
      /\ list'.waits = list.waits /\ list'.dialog = list.dialog /\ list'.target = list.target
      /\ list'.sure => list.sure /\ call[c].heard
  BY <1>2, KnownType
<1>6. /\ rows' \in D!Tables /\ DOMAIN rows' = DOMAIN rows \ {i}
      /\ \A j \in DOMAIN rows : j # i => rows'[j] = rows[j]
  <2>1. /\ D!Without(rows, i) \in D!Tables /\ DOMAIN D!Without(rows, i) = DOMAIN rows \ {i}
        /\ \A j \in DOMAIN rows : j # i => D!Without(rows, i)[j] = rows[j]
    BY WithoutType DEF D!TypeOK
  <2> QED
    BY <1>2, <2>1
<1>7. Serves(c, i, call[c].row)
  BY <1>2, <1>3, ServedStep
<1>8. /\ call' \in Seq(D!Requests) /\ Len(call') = Len(call) /\ D!Calls' = D!Calls
      /\ \A e \in D!Calls : e # c => call'[e] = call[e]
      /\ call'[c].kind = call[c].kind /\ call'[c].set = call[c].set
      /\ call'[c].id = i
      /\ call'[c].step = "answered" /\ call'[c].heard = call[c].heard /\ call'[c].ok = TRUE
  BY <1>7 DEF Serves
<1>9. D!TypeOK'
  BY <1>2, <1>5, <1>6, <1>8 DEF D!TypeOK
<1>10. Dialogs'
  BY <1>1, <1>2, <1>3, <1>4, <1>5, <1>8, DialogsServed
<1>11. Honest'
  <2> SUFFICES ASSUME Sure' PROVE (Told /\ Added /\ Deleted /\ Listed /\ Values)'
    BY DEF Honest
  <2>1. Told /\ Added /\ Deleted /\ Listed /\ Values /\ call[c].heard
    BY <1>5 DEF Honest, Sure
  <2>2. /\ \A e \in D!Calls : D!Awaits(e)' <=> D!Awaits(e)
        /\ \A e \in D!Calls : e # c => Done(e)' = Done(e) /\ (D!Awaits(e)' <=> D!Awaits(e))
        /\ \A e \in D!Calls, j \in D!Ids : e # c => (Updates(e, j)' <=> Updates(e, j))
        /\ D!Awaits(c) /\ ~Done(c) /\ \A e \in D!Calls : e = c => D!Awaits(e)' /\ Done(e)'
    BY <1>1, <1>8, <2>1, OthersServed
  <2>3. \A j \in D!Ids, e \in D!Calls : e = c => ~Updates(e, j)' /\ ~Updates(e, j)
    BY <1>1, <1>8 DEF Updates
  <2>4. \A e \in D!Calls, j \in D!Ids : Updates(e, j)' <=> Updates(e, j)
    BY <2>2, <2>3
  <2>5. Told'
    BY <1>8, <2>1, <2>4 DEF Told
  <2>6. \A d \in D!Calls : D!Awaits(d)' /\ call'[d].kind # "switch" => d = c
    <3>1. \A d \in D!Calls : call'[d].kind = call[d].kind
      BY <1>8
    <3> QED
      BY <1>1, <2>2, <3>1 DEF Dialogs, ByDialog
  <2>7. Added'
    BY <1>1, <1>8, <2>6 DEF Added
  <2>8. Deleted'
    BY <1>6, <1>8, <2>6 DEF Deleted
  <2>9. Listed'
    <3>1. \A k \in {"create", "delete"}, j \in D!Ids : Undone(k, j) => Undone(k, j)'
      BY <1>8, <2>2 DEF Undone
    <3>2. \A j \in D!Ids : j = i => Undone("delete", j)'
      BY <1>1, <1>8, <2>2 DEF Undone
    <3>3. DOMAIN rows \subseteq D!Ids /\ DOMAIN list.list \subseteq D!Ids
      BY TableType, TabType DEF D!TypeOK
    <3>4. \A j \in DOMAIN rows' \ DOMAIN list'.list : Undone("create", j)'
      BY <1>5, <1>6, <2>1, <3>1, <3>3 DEF Listed
    <3>5. \A j \in DOMAIN list'.list \ DOMAIN rows' : Undone("delete", j)'
      BY <1>5, <1>6, <2>1, <3>1, <3>2, <3>3 DEF Listed
    <3> QED
      BY <3>4, <3>5 DEF Listed
  <2>10. Values'
    <3> SUFFICES ASSUME NEW j \in D!Ids PROVE ValueOf(j)'
      BY DEF Values
    <3>1. CASE j # i
      <4>1. \A e \in D!Calls : Updates(e, j)' => Updates(e, j) /\ Done(e)' = Done(e)
                                               /\ call'[e] = call[e]
        BY <1>8, <2>2, <2>3, <2>4
      <4>2. j \in DOMAIN rows' => j \in DOMAIN rows /\ rows'[j] = rows[j]
        BY <1>6, <3>1
      <4> QED
        BY <1>5, <1>8, <2>1, <2>4, <4>1, <4>2, ValueSame DEF Values
    <3>2. CASE j = i
      BY <1>6, <3>2 DEF ValueOf
    <3> QED
      BY <3>1, <3>2
  <2> QED
    BY <2>5, <2>7, <2>8, <2>9, <2>10
<1>12. Space'
  <2>1. D!Cardinality(DOMAIN rows') \in Nat
    BY <1>6, RowsFinite
  <2>2. D!Cardinality(DOMAIN rows') <= D!Cardinality(DOMAIN rows)
    BY <1>2, WithoutSize DEF D!TypeOK
  <2>3. \A e \in D!Calls' : call'[e].step = "counted" => e \in D!Calls /\ call[e].step = "counted"
    BY <1>8
  <2> QED
    BY <1>2, <2>1, <2>2, <2>3, SpaceSame
<1> QED
  BY <1>9, <1>10, <1>11, <1>12

\* Another tab writes: this one is no longer sure.
LEMMA ElsewhereKeeps ==
  ASSUME D!DestinationsAssumption, ListInv, D!Elsewhere
  PROVE  ListInv'
<1> USE DEF ListInv
<1>1. /\ others' \in 0..MaxOthers /\ UNCHANGED call /\ D!Calls' = D!Calls
      /\ list' \in D!Tab /\ list'.load = list.load /\ list'.list = list.list /\ list'.sure = FALSE
      /\ list'.waits = list.waits /\ list'.dialog = list.dialog /\ list'.target = list.target
  <2>1. others' \in 0..MaxOthers /\ UNCHANGED call
    BY DEF D!Elsewhere, D!TypeOK, D!DestinationsAssumption
  <2>2. list' = [list EXCEPT !.sure = FALSE]
    BY DEF D!Elsewhere
  <2>3. list \in D!Tab
    BY DEF D!TypeOK
  <2> QED
    BY <2>1, <2>2, <2>3 DEF D!Tab, D!Calls
<1>2. D!Cardinality(DOMAIN rows) \in Nat /\ MaxRows \in Nat /\ used \in Nat
  BY RowsFinite DEF D!TypeOK, D!DestinationsAssumption
<1>3. Honest'
  BY <1>1 DEF Honest, Sure
<1>4. ASSUME used <= used', used' \in Nat PROVE Dialogs'
  <2>1. list.target \in Nat /\ \A e \in D!Calls : call[e].id \in Nat
    BY TabType, CallType DEF D!Ids, D!NoId
  <2>2. \A e \in D!Calls : ByDialog(e)' <=> ByDialog(e)
    BY <1>1 DEF ByDialog, D!Awaits
  <2>3. list'.target <= used' /\ DOMAIN list'.list \subseteq 1..used'
    BY <1>1, <1>2, <1>4, <2>1 DEF Dialogs
  <2>4. \A e \in D!Calls : call'[e].id <= used'
    BY <1>1, <1>2, <1>4, <2>1 DEF Dialogs
  <2> QED
    BY <1>1, <2>2, <2>3, <2>4 DEF Dialogs
<1>5. CASE \E i \in DOMAIN rows :
             /\ rows' = D!Without(rows, i) \/ \E r \in D!Rows : rows' = D!With(rows, i, r)
             /\ UNCHANGED <<used, together>>
  <2>1. PICK i \in DOMAIN rows : /\ rows' = D!Without(rows, i) \/ \E r \in D!Rows : rows' = D!With(rows, i, r)
                                 /\ UNCHANGED <<used, together>>
    BY <1>5
  <2>2. i \in D!Ids
    BY TableType DEF D!TypeOK
  <2>3. /\ rows' \in D!Tables /\ DOMAIN rows' \subseteq DOMAIN rows
        /\ D!Cardinality(DOMAIN rows') <= D!Cardinality(DOMAIN rows)
    <3>1. CASE rows' = D!Without(rows, i)
      <4>1. D!Without(rows, i) \in D!Tables /\ DOMAIN D!Without(rows, i) = DOMAIN rows \ {i}
        BY WithoutType DEF D!TypeOK
      <4> QED
        BY <3>1, <4>1, WithoutSize DEF D!TypeOK
    <3>2. ASSUME NEW r \in D!Rows, rows' = D!With(rows, i, r)
          PROVE  /\ rows' \in D!Tables /\ DOMAIN rows' \subseteq DOMAIN rows
                 /\ D!Cardinality(DOMAIN rows') <= D!Cardinality(DOMAIN rows)
      <4>1. D!With(rows, i, r) \in D!Tables /\ DOMAIN D!With(rows, i, r) = DOMAIN rows \cup {i}
        BY <2>2, WithType DEF D!TypeOK
      <4>2. DOMAIN rows' = DOMAIN rows
        BY <3>2, <4>1
      <4> QED
        BY <1>2, <3>2, <4>1, <4>2
    <3> QED
      BY <2>1, <3>1, <3>2
  <2>4. D!TypeOK'
    BY <1>1, <2>1, <2>3 DEF D!TypeOK
  <2>5. Dialogs'
    BY <1>2, <1>4, <2>1
  <2>6. Space'
    <3>1. D!Cardinality(DOMAIN rows') \in Nat
      BY <2>3, RowsFinite
    <3> QED
      BY <1>1, <2>1, <2>3, <3>1, SpaceSame
  <2> QED
    BY <1>3, <2>4, <2>5, <2>6
<1>6. CASE /\ D!Cardinality(DOMAIN rows) < MaxRows /\ used < MaxIds /\ used' = used + 1
           /\ \E r \in D!Rows : rows' = D!With(rows, used', r)
           /\ together' = (together \/ D!Counting)
  <2>1. PICK r \in D!Rows : rows' = D!With(rows, used', r)
    BY <1>6
  <2>2. used' \in D!Ids /\ used' \in 0..MaxIds /\ used <= used' /\ used' \in Nat
        /\ DOMAIN rows \cup {used'} \subseteq 1..used'
    BY <1>2, <1>6 DEF D!Ids, D!TypeOK, D!DestinationsAssumption
  <2>3. D!With(rows, used', r) \in D!Tables /\ DOMAIN D!With(rows, used', r) = DOMAIN rows \cup {used'}
    BY <2>2, WithType DEF D!TypeOK
  <2>4. D!Counting \in BOOLEAN
    BY DEF D!Counting
  <2>5. D!TypeOK'
    BY <1>1, <1>6, <2>1, <2>2, <2>3, <2>4 DEF D!TypeOK
  <2>6. Dialogs'
    BY <1>4, <2>2
  <2>7. D!Cardinality(DOMAIN rows') =
          D!Cardinality(DOMAIN rows) + (IF used' \in DOMAIN rows THEN 0 ELSE 1)
    BY <2>1, <2>2, WithSize DEF D!TypeOK
  <2>8. D!Cardinality(DOMAIN rows') <= MaxRows
    BY <1>2, <1>6, <2>7
  <2>9. ~together' => \A e \in D!Calls : call[e].step # "counted"
    BY <1>6 DEF D!Counting
  <2>10. Space'
    BY <1>1, <2>8, <2>9 DEF Space
  <2> QED
    BY <1>3, <2>5, <2>6, <2>10
<1> QED
  BY <1>5, <1>6 DEF D!Elsewhere

-----------------------------------------------------------------------------
(* The answer, or its loss *)

LEMMA SameFields ==
  ASSUME D!TypeOK, NEW c \in D!Calls, NEW s, NEW h
  PROVE  /\ [call EXCEPT ![c].step = s] =
              [call EXCEPT ![c] = [call[c] EXCEPT !.step = s, !.heard = call[c].heard,
                                                  !.ok = call[c].ok]]
         /\ [call EXCEPT ![c].heard = h] =
              [call EXCEPT ![c] = [call[c] EXCEPT !.step = call[c].step, !.heard = h,
                                                  !.ok = call[c].ok]]
<1>1. call[c] \in D!Requests
  BY CallType
<1>2. [call[c] EXCEPT !.step = s] =
        [call[c] EXCEPT !.step = s, !.heard = call[c].heard, !.ok = call[c].ok]
  BY <1>1 DEF D!Requests
<1>3. [call[c] EXCEPT !.heard = h] =
        [call[c] EXCEPT !.step = call[c].step, !.heard = h, !.ok = call[c].ok]
  BY <1>1 DEF D!Requests
<1> QED
  BY <1>2, <1>3

\* A dialog is freed by its own request, and by no other.
LEMMA DialogsSettled ==
  ASSUME D!TypeOK, Dialogs, NEW c \in D!Calls, D!Awaits(c), ~D!Awaits(c)', UNCHANGED used,
         D!Calls' = D!Calls, \A e \in D!Calls : e # c => call'[e] = call[e],
         call'[c].kind = call[c].kind, call'[c].set = call[c].set, call'[c].id = call[c].id,
         call'[c].ok = call[c].ok, call'[c].step \in {call[c].step, "over"},
         NEW ok \in BOOLEAN, ok => call[c].ok,
         list'.load = D!Settled(list, c, ok).load, list'.list = D!Settled(list, c, ok).list,
         list'.waits = D!Settled(list, c, ok).waits, list'.dialog = D!Settled(list, c, ok).dialog,
         list'.target = D!Settled(list, c, ok).target
  PROVE  Dialogs'
<1>1. /\ call[c].kind \in {"switch", "edit", "create", "delete"} /\ call[c].row \in D!Rows
      /\ used \in Nat /\ call[c].id \in D!Ids \cup {D!NoId} /\ call[c].id <= used
      /\ list.list \in D!Tables /\ list.waits \in BOOLEAN
      /\ DOMAIN list.list \subseteq 1..used
  BY CallType, TabType DEF D!TypeOK, Dialogs
<1>2. ok => call[c].id \in D!Ids
  BY DEF Dialogs
<1>3. /\ list'.load = list.load
      /\ list'.list = IF call[c].kind = "switch" \/ (call[c].kind = "edit" /\ ok)
                       THEN D!Replaced(list.list, call[c].id, call[c].row)
                     ELSE IF call[c].kind = "create" /\ ok
                       THEN D!With(list.list, call[c].id, call[c].row)
                     ELSE IF call[c].kind = "delete" /\ ok
                       THEN D!Without(list.list, call[c].id)
                     ELSE list.list
      /\ IF call[c].kind = "switch" THEN list'.waits = list.waits /\ list'.dialog = list.dialog
                                    ELSE list'.waits = FALSE
      /\ list'.target \in {list.target, D!NoId} /\ list'.dialog \in {list.dialog, "no"}
  BY ZenonT(40), <1>2, SettledType
<1>4. DOMAIN list'.list \subseteq 1..used
  <2>1. DOMAIN D!Replaced(list.list, call[c].id, call[c].row) = DOMAIN list.list
    BY <1>1, ReplacedType
  <2>2. DOMAIN D!Without(list.list, call[c].id) \subseteq DOMAIN list.list
    <3>1. DOMAIN D!Without(list.list, call[c].id) = DOMAIN list.list \ {call[c].id}
      BY <1>1, WithoutType
    <3> QED
      BY <3>1
  <2>3. ok => /\ DOMAIN D!With(list.list, call[c].id, call[c].row) = DOMAIN list.list \cup {call[c].id}
              /\ call[c].id \in 1..used
    <3>1. ok => call[c].id \in 1..used
      BY <1>1, <1>2 DEF D!Ids
    <3>2. ok => DOMAIN D!With(list.list, call[c].id, call[c].row) = DOMAIN list.list \cup {call[c].id}
      <4>1. list.list \in D!Tables /\ call[c].row \in D!Rows
        BY <1>1
      <4>2. ASSUME ok PROVE call[c].id \in D!Ids
        BY <1>2, <4>2
      <4>3. ASSUME ok
            PROVE  DOMAIN D!With(list.list, call[c].id, call[c].row) = DOMAIN list.list \cup {call[c].id}
        BY SMTT(30), <4>1, <4>2, <4>3, ListWith
      <4> QED
        BY <4>3
    <3> QED
      BY <3>1, <3>2
  <2> QED
    BY <1>1, <1>3, <2>1, <2>2, <2>3
<1>5. list'.target <= used
  BY <1>1, <1>3 DEF Dialogs, D!NoId
<1>6. \A e \in D!Calls : ByDialog(e)' => e # c /\ ByDialog(e)
  BY DEF ByDialog, D!Awaits
<1>7. call[c].kind # "switch" => \A e \in D!Calls : ~ByDialog(e)'
  <2>1. call[c].kind # "switch" => ByDialog(c)
    BY DEF ByDialog
  <2> QED
    BY <1>6, <2>1 DEF Dialogs
<1>8. list.load = "shown"
  <2>1. call # <<>>
    BY DEF D!Calls
  <2> QED
    BY <2>1 DEF Dialogs
<1>9. list'.waits => list'.dialog # "no"
  BY <1>3 DEF Dialogs
<1>10. \A e \in D!Calls : ByDialog(e)' => list'.waits /\ \A d \in D!Calls : ByDialog(d)' => d = e
  BY <1>3, <1>6, <1>7 DEF Dialogs
<1>11. \A e \in D!Calls : /\ call'[e].id <= used
                          /\ call'[e].step \in {"sent", "counted"} => ~call'[e].ok
                          /\ call'[e].step = "counted" => call'[e].kind = "create"
                          /\ call'[e].kind = "create" => call'[e].set \in D!Rows
                          /\ call'[e].ok => call'[e].id \in D!Ids
  BY DEF Dialogs
<1> QED
  BY <1>3, <1>4, <1>5, <1>8, <1>9, <1>10, <1>11 DEF Dialogs

LEMMA AnswerKeeps ==
  ASSUME D!DestinationsAssumption, ListInv, NEW c \in D!Calls, D!Answer(c)
  PROVE  ListInv'
<1> USE DEF ListInv
<1>1. call[c].step = "answered" /\ UNCHANGED <<rows, used, others, together>>
      /\ call[c].heard \in BOOLEAN /\ call[c].ok \in BOOLEAN
  BY CallType DEF D!Answer
<1>2. Steps(c, "over", call[c].heard, call[c].ok)
  BY ZenonT(40), <1>1, SameFields, RequestStep DEF D!Answer
<1>3. /\ call' \in Seq(D!Requests) /\ Len(call') = Len(call) /\ D!Calls' = D!Calls
      /\ \A e \in D!Calls : e # c => call'[e] = call[e]
      /\ call'[c].kind = call[c].kind /\ call'[c].set = call[c].set
      /\ call'[c].id = call[c].id /\ call'[c].row = call[c].row
      /\ call'[c].step = "over" /\ call'[c].heard = call[c].heard /\ call'[c].ok = call[c].ok
  BY <1>2 DEF Steps
<1>4. Space'
  <2>1. D!Cardinality(DOMAIN rows) \in Nat
    BY RowsFinite DEF D!TypeOK
  <2>2. \A e \in D!Calls : call'[e].step = "counted" => call[e].step = "counted"
    BY <1>3
  <2> QED
    BY <1>1, <1>3, <2>1, <2>2, SpaceSame
<1>5. CASE call[c].heard
  <2>1. list' = D!Settled(list, c, call[c].ok)
    BY <1>5 DEF D!Answer
  <2>2. call[c].ok => call[c].id \in D!Ids
    BY DEF Dialogs
  <2>3. list' \in D!Tab /\ list'.sure = list.sure /\ list'.load = list.load
    BY <1>1, <2>1, <2>2, SettledType
  <2>4. D!Awaits(c) /\ ~D!Awaits(c)'
    <3>1. D!Awaits(c)
      BY <1>1, <1>5 DEF D!Awaits
    <3>2. ~D!Awaits(c)'
      BY <1>3 DEF D!Awaits
    <3> QED
      BY <3>1, <3>2
  <2>5. Dialogs'
    BY <1>1, <1>3, <2>1, <2>4, DialogsSettled
  <2>6. Honest'
    BY <1>1, <1>3, <2>1, <2>3, <2>4, HonestSettled DEF Sure
  <2>7. D!TypeOK'
    BY <1>1, <1>3, <2>3 DEF D!TypeOK
  <2> QED
    BY <1>4, <2>5, <2>6, <2>7
<1>6. CASE ~call[c].heard
  <2>1. list' = list
    BY <1>6 DEF D!Answer
  <2>2. D!TypeOK'
    BY <1>1, <1>3, <2>1 DEF D!TypeOK
  <2>3. \A e \in D!Calls : (D!Awaits(e)' <=> D!Awaits(e)) /\ (D!Awaits(e) => e # c)
    BY <1>3, <1>6 DEF D!Awaits
  <2>4. Dialogs'
    <3>1. \A e \in D!Calls : ByDialog(e)' <=> ByDialog(e)
      BY <1>3, <2>3 DEF ByDialog
    <3>2. call # <<>>
      BY DEF D!Calls
    <3>3. \A e \in D!Calls : /\ call'[e].id <= used
                             /\ call'[e].step \in {"sent", "counted"} => ~call'[e].ok
                             /\ call'[e].step = "counted" => call'[e].kind = "create"
                             /\ call'[e].kind = "create" => call'[e].set \in D!Rows
                             /\ call'[e].ok => call'[e].id \in D!Ids
      BY <1>3 DEF Dialogs
    <3> QED
      BY <1>1, <1>3, <2>1, <3>1, <3>2, <3>3 DEF Dialogs
  <2>5. Honest'
    <3>1. \A e \in D!Calls : D!Awaits(e)' => /\ D!Awaits(e) /\ Done(e)' = Done(e)
                                             /\ call'[e].kind = call[e].kind /\ call'[e].id = call[e].id
                                             /\ call'[e].row = call[e].row
      BY <1>3, <2>3 DEF Done
    <3>2. Sure' <=> Sure
      BY <2>1 DEF Sure
    <3>3. \A e \in D!Calls : ~call'[e].heard /\ Sure' => call'[e].step \in {"answered", "over"}
      BY <1>3, <3>2 DEF Honest, Told
    <3> QED
      BY <1>1, <1>3, <2>1, <2>3, <3>1, <3>2, <3>3, HonestSame
  <2> QED
    BY <1>4, <2>2, <2>4, <2>5
<1> QED
  BY <1>1, <1>5, <1>6

LEMMA LoseKeeps ==
  ASSUME D!DestinationsAssumption, ListInv, NEW c \in D!Calls, D!Lose(c)
  PROVE  ListInv'
<1> USE DEF ListInv
<1>1. D!Awaits(c) /\ UNCHANGED <<rows, used, others, together>>
      /\ call[c].step \in {"sent", "counted", "answered", "over"} /\ call[c].ok \in BOOLEAN
  BY CallType DEF D!Lose
<1>2. Steps(c, call[c].step, FALSE, call[c].ok)
  BY <1>1, SameFields, RequestStep DEF D!Lose
<1>3. /\ call' \in Seq(D!Requests) /\ Len(call') = Len(call) /\ D!Calls' = D!Calls
      /\ \A e \in D!Calls : e # c => call'[e] = call[e]
      /\ call'[c].kind = call[c].kind /\ call'[c].set = call[c].set
      /\ call'[c].id = call[c].id /\ call'[c].row = call[c].row
      /\ call'[c].step = call[c].step /\ call'[c].heard = FALSE /\ call'[c].ok = call[c].ok
  BY <1>2 DEF Steps
<1>4. Space'
  <2>1. D!Cardinality(DOMAIN rows) \in Nat
    BY RowsFinite DEF D!TypeOK
  <2>2. \A e \in D!Calls : call'[e].step = "counted" => call[e].step = "counted"
    BY <1>3
  <2> QED
    BY <1>1, <1>3, <2>1, <2>2, SpaceSame
<1> DEFINE s == D!Settled(list, c, FALSE)
           b == call[c].step = "answered" /\ ~call[c].ok
<1>5. list' = [s EXCEPT !.sure = s.sure /\ b]
  BY DEF D!Lose
<1>6. s \in D!Tab /\ s.sure = list.sure /\ s.load = list.load
  BY SettledType
<1> HIDE DEF s, b
<1>7. /\ list' \in D!Tab /\ list'.load = s.load /\ list'.list = s.list /\ list'.waits = s.waits
      /\ list'.dialog = s.dialog /\ list'.target = s.target /\ (list'.sure => list.sure /\ b)
  <2>1. (s.sure /\ b) \in BOOLEAN
    BY <1>6 DEF D!Tab, b
  <2> QED
    BY <1>5, <1>6, <2>1 DEF D!Tab
<1>8. D!TypeOK'
  BY <1>1, <1>3, <1>7 DEF D!TypeOK
<1>9. ~D!Awaits(c)'
  BY <1>3 DEF D!Awaits
<1>10. Dialogs'
  <2>1. FALSE \in BOOLEAN /\ (FALSE => call[c].ok)
    OBVIOUS
  <2> QED
    BY <1>1, <1>3, <1>7, <1>9, <2>1, DialogsSettled DEF s
<1>11. Honest'
  <2>1. CASE Sure'
    <3>1. Sure /\ call[c].step = "answered" /\ call[c].ok = FALSE
      BY <1>1, <1>6, <1>7, <2>1 DEF Sure, b
    <3>2. list'.list = D!Settled(list, c, call[c].ok).list
      BY <1>7, <3>1 DEF s
    <3> QED
      BY <1>1, <1>3, <1>9, <3>1, <3>2, HonestSettled
  <2> QED
    BY <2>1 DEF Honest
<1> QED
  BY <1>4, <1>8, <1>10, <1>11

-----------------------------------------------------------------------------
(* The invariant *)

LEMMA InitListInv ==
  ASSUME D!DestinationsAssumption, D!Init
  PROVE  ListInv
<1>1. used \in 0..MaxRows /\ used \in 0..MaxIds /\ 1..used \subseteq D!Ids
      /\ rows = [i \in 1..used |-> D!Usual] /\ DOMAIN rows = 1..used
      /\ call = <<>> /\ D!Calls = {} /\ others = 0 /\ together = FALSE
  BY DEF D!Init, D!DestinationsAssumption, D!Ids, D!Calls
<1>2. list = [load |-> "sent", list |-> [i \in {} |-> D!Usual], busy |-> D!NoId, dialog |-> "no",
             target |-> D!NoId, waits |-> FALSE, sure |-> TRUE]
  BY DEF D!Init
<1>3. rows \in D!Tables
  <2>1. rows \in [1..used -> D!Rows]
    BY <1>1, PatchTypes
  <2>2. 1..used \in SUBSET D!Ids
    BY <1>1
  <2> QED
    BY <2>1, <2>2 DEF D!Tables
<1>4. [i \in {} |-> D!Usual] \in D!Tables
  <2>1. [i \in {} |-> D!Usual] \in [{} -> D!Rows] /\ {} \in SUBSET D!Ids
    OBVIOUS
  <2> QED
    BY <2>1 DEF D!Tables
<1>5. list \in D!Tab
  <2> DEFINE l == [i \in {} |-> D!Usual]
  <2>1. l \in D!Tables
    BY <1>4
  <2>2. list = [load |-> "sent", list |-> l, busy |-> D!NoId, dialog |-> "no", target |-> D!NoId,
               waits |-> FALSE, sure |-> TRUE]
    BY <1>2
  <2> HIDE DEF l
  <2> QED
    BY <2>1, <2>2 DEF D!Tab
<1>6. D!TypeOK
  <2>1. call \in Seq(D!Requests) /\ Len(call) <= MaxCalls
    <3>1. <<>> \in Seq(D!Requests) /\ Len(<<>>) = 0
      OBVIOUS
    <3>2. MaxCalls >= 0 /\ call = <<>>
      BY <1>1 DEF D!DestinationsAssumption
    <3>3. call \in Seq(D!Requests)
      BY <3>1, <3>2, Zenon
    <3>4. Len(call) = 0
      BY <3>1, <3>2, Zenon
    <3>5. MaxCalls \in Nat
      BY DEF D!DestinationsAssumption
    <3> QED
      BY <3>3, <3>4, <3>5
  <2>2. others \in 0..MaxOthers /\ together \in BOOLEAN
    <3>1. others = 0 /\ together = FALSE
      BY DEF D!Init
    <3>2. 0 \in 0..MaxOthers
      BY DEF D!DestinationsAssumption
    <3>3. FALSE \in BOOLEAN
      OBVIOUS
    <3> QED
      BY <3>1, <3>2, <3>3, Zenon
  <2> QED
    BY <1>1, <1>3, <1>5, <2>1, <2>2 DEF D!TypeOK
<1>7. Dialogs
  BY <1>1, <1>2 DEF Dialogs, D!NoId
<1>8. Honest
  BY <1>2 DEF Honest, Sure
<1>9. Space
  <2>1. D!Cardinality(1..used) = used
    BY <1>1, SameSize, FS_Interval DEF D!DestinationsAssumption
  <2> QED
    BY <1>1, <2>1 DEF Space, D!DestinationsAssumption
<1> QED
  BY <1>6, <1>7, <1>8, <1>9 DEF ListInv

LEMMA StutterListInv ==
  ASSUME D!DestinationsAssumption, ListInv, UNCHANGED D!vars
  PROVE  ListInv'
<1>1. D!TypeOK'
  BY DEF ListInv, D!vars, D!TypeOK
<1>2. Dialogs'
  BY DEF ListInv, D!vars, Dialogs, ByDialog, D!Awaits, D!Calls
<1>3. Space'
  BY DEF ListInv, D!vars, Space, D!Calls
<1>4. Honest'
  BY DEF ListInv, D!vars, Honest, Sure, Told, Added, Deleted, Listed, Undone, Values, ValueOf,
     Updates,
         Done, D!Awaits, D!Calls
<1> QED
  BY <1>1, <1>2, <1>3, <1>4 DEF ListInv

LEMMA NextListInv ==
  ASSUME D!DestinationsAssumption, ListInv, [D!Next]_D!vars
  PROVE  ListInv'
<1>1. CASE D!Read \/ D!Loaded
  BY <1>1, LoadKeeps
<1>2. CASE D!OpenDialog \/ D!CloseDialog
  BY <1>2, DialogKeeps
<1>3. CASE D!Submit \/ D!Confirm
  BY <1>3, SubmitKeeps
<1>4. CASE D!Elsewhere
  BY <1>4, ElsewhereKeeps
<1>5. ASSUME NEW i \in D!Ids, NEW f \in Switches, D!Switch(i, f) PROVE ListInv'
  BY <1>5, SwitchKeeps
<1>6. ASSUME NEW c \in D!Calls, D!Refuse(c) \/ D!Count(c) PROVE ListInv'
  BY <1>6, RefuseKeeps
<1>7. ASSUME NEW c \in D!Calls, D!Insert(c) PROVE ListInv'
  BY <1>7, InsertKeeps
<1>8. ASSUME NEW c \in D!Calls, D!Update(c) PROVE ListInv'
  BY <1>8, RefuseKeeps, UpdateKeeps
<1>9. ASSUME NEW c \in D!Calls, D!Remove(c) PROVE ListInv'
  BY <1>9, RefuseKeeps, RemoveKeeps
<1>10. ASSUME NEW c \in D!Calls, D!Answer(c) PROVE ListInv'
  BY <1>10, AnswerKeeps
<1>11. ASSUME NEW c \in D!Calls, D!Lose(c) PROVE ListInv'
  BY <1>11, LoseKeeps
<1>12. CASE UNCHANGED D!vars
  BY <1>12, StutterListInv
<1> QED
  BY <1>1, <1>2, <1>3, <1>4, <1>5, <1>6, <1>7, <1>8, <1>9, <1>10, <1>11, <1>12 DEF D!Next

LEMMA ListInvIsHonest ==
  ASSUME D!DestinationsAssumption, ListInv
  PROVE  D!ListIsHonest
<1>1. D!Cardinality(DOMAIN rows) \in Nat /\ MaxRows \in Nat
  BY RowsFinite DEF ListInv, D!TypeOK, D!DestinationsAssumption
<1>2. D!Cardinality(DOMAIN rows) > MaxRows => together
  BY <1>1 DEF ListInv, Space
<1>3. ASSUME list.load = "shown", list.sure, \A c \in D!Calls : ~D!Awaits(c)
      PROVE  list.list = rows
  <2>1. Listed /\ Values
    BY <1>3 DEF ListInv, Honest, Sure
  <2>2. \A k \in {"create", "delete"}, i \in D!Ids : ~Undone(k, i)
    BY <1>3 DEF Undone
  <2>3. /\ DOMAIN rows \subseteq D!Ids /\ rows \in [DOMAIN rows -> D!Rows]
        /\ DOMAIN list.list \subseteq D!Ids /\ list.list \in [DOMAIN list.list -> D!Rows]
    BY TableType, TabType DEF ListInv, D!TypeOK
  <2>4. DOMAIN list.list = DOMAIN rows
    BY <2>1, <2>2, <2>3 DEF Listed
  <2>5. \A i \in D!Ids, c \in D!Calls : ~Updates(c, i)
    BY <1>3 DEF Updates
  <2>6. \A i \in DOMAIN rows : list.list[i] = rows[i]
    BY <2>1, <2>3, <2>4, <2>5 DEF Values, ValueOf
  <2> QED
    BY <2>3, <2>4, <2>6
<1> QED
  BY <1>2, <1>3 DEF D!ListIsHonest

-----------------------------------------------------------------------------
(* BothSpec, the specification the run checks: the lease and the list take no steps of each other *)

LEMMA ListInvariant == BothSpec => []ListInv
<1> USE ListAssumption
<1>1. BothInit => ListInv
  BY InitListInv DEF BothInit
<1>2. ListInv /\ [BothNext]_<<at, vars, dVars>> => ListInv'
  <2> SUFFICES ASSUME ListInv, [BothNext]_<<at, vars, dVars>> PROVE ListInv'
    OBVIOUS
  <2>1. [D!Next]_D!vars
    BY DEF BothNext, dVars, D!vars
  <2> QED
    BY <2>1, NextListInv
<1> QED
  BY <1>1, <1>2, PTL DEF BothSpec

\* A tab with nothing under way that could know of every write shows what is stored, whatever was
\* switched, edited, added and deleted side by side, and only additions that were counted side by
\* side pass the limit (RestreamPanel.tsx, restreams.ts): for any number of destinations, settings,
\* requests and other tabs.
THEOREM StudioListIsHonest == BothSpec => []ListIsHonest
<1>1. ListInv => ListIsHonest
  BY ListAssumption, ListInvIsHonest DEF ListIsHonest
<1> QED
  BY <1>1, ListInvariant, PTL

=============================================================================
