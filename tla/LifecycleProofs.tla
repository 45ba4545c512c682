-------------------------- MODULE LifecycleProofs --------------------------
(***************************************************************************)
(* Machine-checked theorems about the broadcast lifecycle, for any number  *)
(* of channels, keys, connections, broadcasts, jobs and waiting handlers.  *)
(***************************************************************************)
EXTENDS Lifecycle, TLAPS

-----------------------------------------------------------------------------
(* The inductive invariant *)

\* A row is either free or complete, and points at rows that exist.
RowsOK ==
  /\ \A b \in Broadcasts :
       \/ broadcasts[b] = NoBroadcast
       \/ /\ broadcasts[b].status # "none"
          /\ broadcasts[b].channel \in Channels
          /\ broadcasts[b].source \in Sources
  /\ \A j \in Jobs :
       ActiveJob(j) => /\ jobs[j].broadcast \in Broadcasts
                       /\ jobs[j].source \in Sources
                       /\ broadcasts[jobs[j].broadcast].status # "none"
  /\ \A b \in overdue : broadcasts[b].status = "reconnecting"

\* An open row of healJobs stands for the missing job of its broadcast.
HealingOK ==
  /\ \A h \in healing :
       /\ JobsOf(h.broadcast) = {}
       /\ broadcasts[h.broadcast].status # "none"
       /\ broadcasts[h.broadcast].status = "live"
            => broadcasts[h.broadcast].source = h.source
  /\ \A g, h \in healing : g.broadcast = h.broadcast => g = h

\* A key belongs to one channel for ever, and so does whoever waits on it.
KeysOK ==
  /\ \A c \in Channels : keyOwner[streamKey[c]] = c
  /\ \A h \in waiting : keyOwner[PathOf[h.source]] = h.channel
  /\ SourceOnOwnChannel

IInv ==
  /\ TypeOK /\ RowsOK /\ HealingOK /\ KeysOK
  /\ OneActiveBroadcast /\ OneActiveJob /\ JobFollowsSource

USE LifecycleAssumption

LEMMA InitIInv == Init => IInv
<1> SUFFICES ASSUME Init PROVE IInv
  OBVIOUS
<1>1. TypeOK
  BY DEF Init, TypeOK, BroadcastRow, JobRow, NoBroadcast, NoJob, Statuses,
         JobStates, Handler, HealedRow
<1>2. RowsOK /\ HealingOK
  BY DEF Init, RowsOK, HealingOK, NoBroadcast, NoJob, ActiveJob
<1>3. KeysOK
  BY DEF Init, KeysOK, SourceOnOwnChannel, Active, NoBroadcast
<1>4. OneActiveBroadcast /\ OneActiveJob /\ JobFollowsSource
  BY DEF Init, OneActiveBroadcast, OneActiveJob, JobFollowsSource, Active,
         ActiveJob, NoBroadcast, NoJob
<1> QED
  BY <1>1, <1>2, <1>3, <1>4 DEF IInv

-----------------------------------------------------------------------------
(* One lemma per group of actions *)

\* The channel tables and the handlers that have not reached the lock.
LEMMA ChannelsIInv ==
  ASSUME IInv,
         \/ \E s \in Sources : Authorize(s)
         \/ \E c \in Channels : ResetKey(c)
         \/ \E s \in Sources, op \in {"online", "offline"} : Lookup(op, s)
  PROVE  IInv'
<1>1. UNCHANGED <<broadcastVars, jobVars>>
  BY DEF Authorize, ResetKey, Lookup
<1>2. RowsOK' /\ HealingOK' /\ OneActiveBroadcast' /\ OneActiveJob' /\ JobFollowsSource'
  BY <1>1 DEF IInv, broadcastVars, jobVars, RowsOK, HealingOK, OneActiveBroadcast,
     OneActiveJob, JobFollowsSource, Active, ActiveJob, JobsOf
<1>3. TypeOK' /\ KeysOK'
  <2>1. CASE \E s \in Sources : Authorize(s)
    BY <2>1, <1>1 DEF IInv, Authorize, TypeOK, KeysOK, SourceOnOwnChannel, Active,
       broadcastVars, jobVars
  <2>2. ASSUME NEW c \in Channels, ResetKey(c)
        PROVE  TypeOK' /\ KeysOK'
    <3>1. PICK k \in Keys : /\ keyOwner[k] = None
                            /\ streamKey' = [streamKey EXCEPT ![c] = k]
                            /\ keyOwner' = [keyOwner EXCEPT ![k] = c]
                            /\ UNCHANGED <<authorized, waiting>>
      BY <2>2 DEF ResetKey
    <3>2. TypeOK'
      BY <3>1, <1>1 DEF IInv, TypeOK, broadcastVars, jobVars
    <3>3. \A x \in Keys : keyOwner[x] # None => keyOwner'[x] = keyOwner[x]
      BY <3>1 DEF IInv, TypeOK
    <3>4. \A d \in Channels : keyOwner'[streamKey'[d]] = d
      BY <3>1, <3>3 DEF IInv, TypeOK, KeysOK
    <3>5. \A h \in waiting' : keyOwner'[PathOf[h.source]] = h.channel
      BY <3>1, <3>3 DEF IInv, TypeOK, KeysOK, Handler
    <3>6. SourceOnOwnChannel'
      BY <3>1, <3>3, <1>1 DEF IInv, TypeOK, RowsOK, KeysOK, SourceOnOwnChannel,
         Active, NoBroadcast, broadcastVars
    <3> QED
      BY <3>2, <3>4, <3>5, <3>6 DEF KeysOK
  <2>3. ASSUME NEW s \in Sources, NEW op \in {"online", "offline"}, Lookup(op, s)
        PROVE  TypeOK' /\ KeysOK'
    <3>1. PICK c \in OwnersOf(PathOf[s]) :
            waiting' = waiting \cup {[op |-> op, source |-> s, channel |-> c]}
      BY <2>3 DEF Lookup
    <3>2. c \in Channels /\ keyOwner[PathOf[s]] = c
      BY <3>1 DEF OwnersOf, IInv, RowsOK, KeysOK, SourceOnOwnChannel, TypeOK,
         Active, NoBroadcast
    <3>3. UNCHANGED channelVars
      BY <2>3 DEF Lookup
    <3>4. TypeOK'
      BY <3>1, <3>2, <3>3, <1>1 DEF IInv, TypeOK, Handler, channelVars,
         broadcastVars, jobVars
    <3>5. \A h \in waiting' : keyOwner'[PathOf[h.source]] = h.channel
      BY <3>1, <3>2, <3>3 DEF IInv, KeysOK, channelVars
    <3> QED
      BY <3>4, <3>5, <3>3, <1>1 DEF IInv, KeysOK, SourceOnOwnChannel, Active,
         channelVars, broadcastVars
  <2> QED
    BY <2>1, <2>2, <2>3
<1> QED
  BY <1>2, <1>3 DEF IInv

\* What EnsureJob leaves behind: exactly one active job, bound to s.
LEMMA EnsureJobResult ==
  ASSUME TypeOK, RowsOK, OneActiveJob,
         NEW b \in Broadcasts, NEW s \in Sources, EnsureJob(b, s)
  PROVE  /\ jobs' \in [Jobs -> JobRow]
         /\ \E i \in Jobs : /\ ActiveJob(i)'
                            /\ jobs'[i].broadcast = b /\ jobs'[i].source = s
                            /\ \A j \in Jobs :
                                 /\ ActiveJob(j)' /\ jobs'[j].broadcast = b
                                 => j = i
         /\ \A j \in Jobs :
              ActiveJob(j)' /\ jobs'[j].broadcast # b
              => ActiveJob(j) /\ jobs'[j] = jobs[j]
         /\ \A j \in Jobs : jobs[j].broadcast # b /\ jobs[j] # NoJob => jobs'[j] = jobs[j]
<1> DEFINE old == Superseded(b, s)
<1>0. /\ CancelAll(old) \in [Jobs -> JobRow]
      /\ \A j \in Jobs :
           /\ j \in old => /\ CancelAll(old)[j].state = "cancelled"
                           /\ CancelAll(old)[j].broadcast = b
           /\ j \notin old => CancelAll(old)[j] = jobs[j]
  BY DEF TypeOK, CancelAll, JobRow, JobStates, Superseded, JobsOf
<1>1. CASE JobsOf(b) \ old # {}
  <2>1. jobs' = CancelAll(old)
    BY <1>1 DEF EnsureJob
  <2>2. PICK i \in JobsOf(b) : i \notin old
    BY <1>1
  <2>3. /\ i \in Jobs /\ ActiveJob(i)' 
        /\ jobs'[i].broadcast = b /\ jobs'[i].source = s
    BY <2>1, <2>2, <1>0 DEF JobsOf, ActiveJob, Superseded
  <2>4. \A j \in Jobs : ActiveJob(j)' => ActiveJob(j) /\ jobs'[j] = jobs[j]
    BY <2>1, <1>0 DEF ActiveJob
  <2>5. \A j \in Jobs : ActiveJob(j)' /\ jobs'[j].broadcast = b => j = i
    BY <2>2, <2>4 DEF OneActiveJob, JobsOf
  <2>6. \A j \in Jobs : jobs[j].broadcast # b => jobs'[j] = jobs[j]
    BY <2>1, <1>0 DEF Superseded, JobsOf
  <2> QED
    BY <2>1, <2>3, <2>4, <2>5, <2>6, <1>0
<1>2. CASE JobsOf(b) \ old = {}
  <2>1. PICK i \in Jobs :
          /\ jobs[i] = NoJob
          /\ jobs' = [CancelAll(old) EXCEPT ![i] =
                        [broadcast |-> b, source |-> s, state |-> "pending"]]
    BY <1>2 DEF EnsureJob
  <2>2. jobs' \in [Jobs -> JobRow]
    BY <2>1, <1>0 DEF JobRow, JobStates
  <2>3. jobs'[i] = [broadcast |-> b, source |-> s, state |-> "pending"]
    BY <2>1, <1>0
  <2>4. \A j \in Jobs : j # i => jobs'[j] = CancelAll(old)[j]
    BY <2>1, <1>0
  <2>5. \A j \in Jobs : ActiveJob(j)' /\ j # i => ActiveJob(j) /\ jobs'[j] = jobs[j]
    BY <2>4, <1>0 DEF ActiveJob
  <2>6. \A j \in Jobs : ActiveJob(j)' /\ jobs'[j].broadcast = b => j = i
    <3> SUFFICES ASSUME NEW j \in Jobs, ActiveJob(j)', jobs'[j].broadcast = b, j # i
                 PROVE  FALSE
      OBVIOUS
    <3>1. j \in JobsOf(b)
      BY <2>5 DEF JobsOf
    <3>2. j \in old
      BY <3>1, <1>2
    <3> QED
      BY <3>2, <2>4, <1>0 DEF ActiveJob
  <2>7. \A j \in Jobs : jobs[j].broadcast # b /\ jobs[j] # NoJob => jobs'[j] = jobs[j]
    BY <2>1, <2>4, <1>0 DEF Superseded, JobsOf
  <2> QED
    BY <2>2, <2>3, <2>5, <2>6, <2>7 DEF ActiveJob
<1> QED
  BY <1>1, <1>2

\* What the two statements of handleOnline leave in the row of the broadcast.
LEMMA AttachResult ==
  ASSUME broadcasts \in [Broadcasts -> BroadcastRow], NEW c \in Channels, NEW s \in Sources,
         NEW b \in Broadcasts, broadcasts[b].channel = c, Attach(b, s)
  PROVE  /\ broadcasts' \in [Broadcasts -> BroadcastRow]
         /\ broadcasts'[b].channel = c /\ broadcasts'[b].status = "live"
         /\ broadcasts'[b].source = s
         /\ \A x \in Broadcasts : x # b => broadcasts'[x] = broadcasts[x]
<1> DEFINE r == [broadcasts[b] EXCEPT !.status = "live", !.source = s]
<1>1. broadcasts' = [broadcasts EXCEPT ![b] = r]
  BY DEF Attach
<1>2. r \in BroadcastRow /\ r.channel = c /\ r.status = "live" /\ r.source = s
  BY DEF BroadcastRow, Statuses
<1> HIDE DEF r
<1> QED
  BY <1>1, <1>2

\* The broadcast rows Online writes: b is live on the handler's connection,
\* nothing else changes, and b was the channel's broadcast or is a fresh one.
LEMMA OnlineIInv ==
  ASSUME IInv, NEW h \in waiting, Online(h)
  PROVE  IInv'
<1> DEFINE c == h.channel
           s == h.source
<1>0. c \in Channels /\ s \in Sources /\ keyOwner[PathOf[s]] = c
  BY DEF IInv, TypeOK, KeysOK, Handler
<1>1. PICK b \in Broadcasts :
        /\ \/ b \in ActiveOf(c) /\ Attach(b, s)
           \/ ActiveOf(c) = {} /\ Insert(c, b, s)
        /\ ~ Healing(b)
        /\ EnsureJob(b, s)
        /\ overdue' = overdue \ {b}
        /\ cooled' = cooled \ {b}
  BY DEF Online
<1>2. /\ UNCHANGED <<streamKey, keyOwner, authorized, due, healing>>
      /\ waiting' = waiting \ {h}
  BY DEF Online, channelVars
<1>3. /\ broadcasts' \in [Broadcasts -> BroadcastRow]
      /\ broadcasts'[b].channel = c /\ broadcasts'[b].status = "live"
      /\ broadcasts'[b].source = s
      /\ \A x \in Broadcasts : x # b => broadcasts'[x] = broadcasts[x]
  <2>1. CASE b \in ActiveOf(c) /\ Attach(b, s)
    <3>1. broadcasts \in [Broadcasts -> BroadcastRow] /\ broadcasts[b].channel = c
      BY <2>1 DEF IInv, TypeOK, ActiveOf
    <3> QED
      BY <2>1, <3>1, <1>0, AttachResult
  <2>2. CASE Insert(c, b, s)
    BY <2>2, <1>0 DEF IInv, TypeOK, Insert, BroadcastRow, Statuses
  <2> QED
    BY <1>1, <2>1, <2>2
<1>4. /\ jobs' \in [Jobs -> JobRow]
      /\ \E i \in Jobs : /\ ActiveJob(i)'
                         /\ jobs'[i].broadcast = b /\ jobs'[i].source = s
                         /\ \A j \in Jobs :
                              ActiveJob(j)' /\ jobs'[j].broadcast = b => j = i
      /\ \A j \in Jobs : ActiveJob(j)' /\ jobs'[j].broadcast # b
                         => ActiveJob(j) /\ jobs'[j] = jobs[j]
  BY <1>0, <1>1, EnsureJobResult DEF IInv
<1>5. TypeOK'
  BY <1>1, <1>2, <1>3, <1>4 DEF IInv, TypeOK
<1>6. RowsOK'
  BY <1>0, <1>1, <1>3, <1>4 DEF IInv, RowsOK, TypeOK, ActiveJob, NoBroadcast
<1>7. HealingOK'
  <2>1. \A g \in healing : g.broadcast # b
    BY <1>1 DEF Healing
  <2>2. \A g \in healing : JobsOf(g.broadcast)' = {}
    BY <2>1, <1>4 DEF IInv, HealingOK, JobsOf, ActiveJob
  <2> QED
    BY <2>1, <2>2, <1>2, <1>3 DEF IInv, HealingOK, TypeOK, HealedRow
<1>8. KeysOK'
  BY <1>0, <1>2, <1>3 DEF IInv, TypeOK, KeysOK, SourceOnOwnChannel, Active, BroadcastRow
<1>9. OneActiveBroadcast'
  <2>1. \A x \in Broadcasts : x # b /\ Active(x) => broadcasts[x].channel # c
    BY <1>1 DEF IInv, OneActiveBroadcast, ActiveOf
  <2> QED
    BY <2>1, <1>3 DEF IInv, OneActiveBroadcast, Active
<1>10. OneActiveJob' /\ JobFollowsSource'
  BY <1>3, <1>4 DEF IInv, OneActiveJob, JobFollowsSource, RowsOK
<1> QED
  BY <1>5, <1>6, <1>7, <1>8, <1>9, <1>10 DEF IInv

\* Cancelling or finishing a set of jobs: they are no longer active, the rest
\* is as before.
LEMMA EndJobs ==
  ASSUME TypeOK, NEW S \in SUBSET Jobs, jobs' = CancelAll(S) \/ jobs' = FinishAll(S)
  PROVE  /\ jobs' \in [Jobs -> JobRow]
         /\ \A j \in Jobs :
              /\ ActiveJob(j)' => ActiveJob(j) /\ jobs'[j] = jobs[j] /\ j \notin S
              /\ j \notin S => jobs'[j] = jobs[j]
  BY DEF TypeOK, CancelAll, FinishAll, JobRow, JobStates, ActiveJob

\* A step that adds no active job, binds none differently and only moves
\* broadcasts away from "live" keeps the invariant.
LEMMA FewerJobs ==
  ASSUME IInv, UNCHANGED channelVars, healing' \subseteq healing,
         waiting' \subseteq waiting, cooled' \subseteq Broadcasts,
         due' \subseteq Broadcasts, overdue' \subseteq Broadcasts,
         \A b \in overdue' : broadcasts'[b].status = "reconnecting",
         jobs' \in [Jobs -> JobRow],
         \A j \in Jobs : ActiveJob(j)' => /\ ActiveJob(j)
                                         /\ jobs'[j].broadcast = jobs[j].broadcast
                                         /\ jobs'[j].source = jobs[j].source,
         broadcasts' \in [Broadcasts -> BroadcastRow],
         \A b \in Broadcasts :
           \/ broadcasts'[b] = broadcasts[b]
           \/ /\ Active(b)
              /\ broadcasts'[b].status \in {"reconnecting", "ended"}
              /\ broadcasts'[b].channel = broadcasts[b].channel
              /\ broadcasts'[b].source = broadcasts[b].source
  PROVE  IInv'
<1>1. TypeOK'
  BY DEF IInv, TypeOK, channelVars
<1>2. \A b \in Broadcasts :
        /\ broadcasts'[b].status = "live" => broadcasts'[b] = broadcasts[b]
        /\ Active(b)' => Active(b)
        /\ broadcasts[b].status # "none" => broadcasts'[b].status # "none"
        /\ broadcasts'[b].channel = broadcasts[b].channel
        /\ broadcasts'[b].source = broadcasts[b].source
  BY DEF Active
<1>3. RowsOK'
  BY <1>2 DEF IInv, RowsOK, TypeOK, Active, ActiveJob, NoBroadcast
<1>4. HealingOK'
  <2>1. \A b \in Broadcasts : JobsOf(b) = {} => JobsOf(b)' = {}
    BY DEF JobsOf
  <2>2. ASSUME NEW h \in healing' PROVE HealingOK!1!(h)'
    <3>1. h \in healing /\ h.broadcast \in Broadcasts
      BY DEF IInv, TypeOK, HealedRow
    <3>2. JobsOf(h.broadcast)' = {}
      BY <2>1, <3>1 DEF IInv, HealingOK
    <3> QED
      BY <1>2, <3>1, <3>2 DEF IInv, HealingOK
  <2>3. \A g, h \in healing' : g.broadcast = h.broadcast => g = h
    BY DEF IInv, HealingOK
  <2> QED
    BY <2>2, <2>3 DEF HealingOK
<1>5. KeysOK'
  BY <1>2 DEF IInv, KeysOK, SourceOnOwnChannel, channelVars
<1>6. OneActiveBroadcast' /\ OneActiveJob' /\ JobFollowsSource'
  <2>1. OneActiveBroadcast'
    BY <1>2 DEF IInv, OneActiveBroadcast
  <2>2. OneActiveJob'
    BY DEF IInv, OneActiveJob
  <2>3. JobFollowsSource'
    BY <1>2 DEF IInv, JobFollowsSource, RowsOK
  <2> QED
    BY <2>1, <2>2, <2>3
<1> QED
  BY <1>1, <1>3, <1>4, <1>5, <1>6 DEF IInv

LEMMA OfflineIInv ==
  ASSUME IInv, NEW h \in waiting, Offline(h)
  PROVE  IInv'
<1>1. CASE \E b \in ActiveOf(h.channel) :
             /\ OnAir(b, h.source)
             /\ broadcasts' = [broadcasts EXCEPT ![b].status = "reconnecting"]
             /\ jobs' = FinishAll(JobsOf(b))
             /\ cooled' = cooled \ {b}
  <2>1. PICK b \in ActiveOf(h.channel) :
             /\ OnAir(b, h.source)
             /\ broadcasts' = [broadcasts EXCEPT ![b].status = "reconnecting"]
             /\ jobs' = FinishAll(JobsOf(b))
             /\ cooled' = cooled \ {b}
    BY <1>1
  <2>2. b \in Broadcasts /\ broadcasts[b].status = "live" /\ b \notin overdue
    BY <2>1 DEF ActiveOf, OnAir, IInv, RowsOK
  <2>3. /\ broadcasts' \in [Broadcasts -> BroadcastRow]
        /\ broadcasts'[b].status = "reconnecting"
        /\ broadcasts'[b].channel = broadcasts[b].channel
        /\ broadcasts'[b].source = broadcasts[b].source
        /\ \A x \in Broadcasts : x # b => broadcasts'[x] = broadcasts[x]
    BY <2>1, <2>2 DEF IInv, TypeOK, BroadcastRow, Statuses
  <2>4. /\ jobs' \in [Jobs -> JobRow]
        /\ \A j \in Jobs : ActiveJob(j)' => ActiveJob(j) /\ jobs'[j] = jobs[j]
    BY <2>1, EndJobs DEF IInv, JobsOf
  <2>5. /\ UNCHANGED <<channelVars, healing>> /\ waiting' \subseteq waiting
        /\ cooled' \subseteq Broadcasts /\ due' \subseteq Broadcasts
        /\ overdue' \subseteq Broadcasts
        /\ \A x \in overdue' : broadcasts'[x].status = "reconnecting"
    BY <2>1, <2>2, <2>3 DEF Offline, IInv, TypeOK, RowsOK
  <2> QED
    BY <2>2, <2>3, <2>4, <2>5, FewerJobs DEF Active
<1>2. CASE UNCHANGED <<broadcasts, jobs, cooled>>
  BY <1>2, FewerJobs DEF Offline, IInv, TypeOK, RowsOK, ActiveJob
<1> QED
  BY <1>1, <1>2 DEF Offline

LEMMA FinalizeIInv ==
  ASSUME IInv, NEW b \in due, Finalize(b)
  PROVE  IInv'
<1>0. b \in Broadcasts
  BY DEF IInv, TypeOK
<1>1. /\ UNCHANGED <<channelVars, healing, waiting, cooled>>
      /\ due' \subseteq Broadcasts /\ overdue' \subseteq overdue
  BY DEF Finalize, IInv, TypeOK
<1>2. CASE /\ StillExpired(b)
           /\ broadcasts' = [broadcasts EXCEPT ![b].status = "ended"]
           /\ jobs' = CancelAll(JobsOf(b))
           /\ overdue' = overdue \ {b}
  <2>1. /\ broadcasts' \in [Broadcasts -> BroadcastRow]
        /\ broadcasts'[b].status = "ended"
        /\ broadcasts'[b].channel = broadcasts[b].channel
        /\ broadcasts'[b].source = broadcasts[b].source
        /\ \A x \in Broadcasts : x # b => broadcasts'[x] = broadcasts[x]
    BY <1>0, <1>2 DEF IInv, TypeOK, BroadcastRow, Statuses
  <2>2. /\ jobs' \in [Jobs -> JobRow]
        /\ \A j \in Jobs : ActiveJob(j)' => ActiveJob(j) /\ jobs'[j] = jobs[j]
    BY <1>2, EndJobs DEF IInv, JobsOf
  <2>3. \A x \in overdue' : broadcasts'[x].status = "reconnecting"
    BY <1>2, <2>1 DEF IInv, RowsOK, TypeOK
  <2> QED
    BY <1>1, <1>2, <2>1, <2>2, <2>3, FewerJobs DEF IInv, TypeOK, StillExpired, Active
<1>3. CASE UNCHANGED <<broadcasts, jobs, overdue>>
  BY <1>1, <1>3, FewerJobs DEF IInv, TypeOK, RowsOK, ActiveJob
<1> QED
  BY <1>2, <1>3 DEF Finalize

\* The steps that only move the clock, the due list or an open heal.
LEMMA ClockIInv ==
  ASSUME IInv,
         \/ \E b \in Broadcasts : GraceElapses(b)
         \/ ReadDue
         \/ \E b \in Broadcasts : CoolsDown(b)
         \/ \E h \in healing : HealAbort(h)
  PROVE  IInv'
<1>1. /\ UNCHANGED <<channelVars, broadcasts, jobs, waiting>>
      /\ healing' \subseteq healing
  BY DEF GraceElapses, ReadDue, CoolsDown, HealAbort, broadcastVars, jobVars
<1>2. /\ cooled' \subseteq Broadcasts /\ due' \subseteq Broadcasts
      /\ overdue' \subseteq Broadcasts
      /\ \A b \in overdue' : broadcasts[b].status = "reconnecting"
  BY DEF IInv, TypeOK, RowsOK, GraceElapses, ReadDue, CoolsDown, HealAbort,
         broadcastVars, jobVars
<1> QED
  BY <1>1, <1>2, FewerJobs DEF IInv, TypeOK, ActiveJob

LEMMA HealInsertIInv ==
  ASSUME IInv, NEW b \in Broadcasts, HealInsert(b)
  PROVE  IInv'
<1> DEFINE row == [broadcast |-> b, source |-> broadcasts[b].source]
<1>1. /\ UNCHANGED <<channelVars, broadcastVars, jobs, cooled, waiting>>
      /\ healing' = healing \cup {row}
      /\ broadcasts[b].status = "live" /\ JobsOf(b) = {} /\ ~ Healing(b)
  BY DEF HealInsert, NeedsJob
<1>2. row \in HealedRow
  BY <1>1 DEF IInv, RowsOK, NoBroadcast, HealedRow
<1>3. TypeOK'
  BY <1>1, <1>2 DEF IInv, TypeOK, channelVars, broadcastVars
<1>4. HealingOK'
  <2>1. \A g \in healing : g.broadcast # b
    BY <1>1 DEF Healing
  <2>2. UNCHANGED <<broadcasts, jobs>>
    BY <1>1 DEF broadcastVars
  <2>3. \A x : JobsOf(x)' = JobsOf(x)
    BY <2>2 DEF JobsOf, ActiveJob
  <2> QED
    BY <1>1, <2>1, <2>2, <2>3 DEF IInv, HealingOK
<1> QED
  BY <1>1, <1>3, <1>4 DEF IInv, RowsOK, KeysOK, SourceOnOwnChannel, OneActiveBroadcast,
     OneActiveJob, JobFollowsSource, Active, ActiveJob, channelVars, broadcastVars

LEMMA HealCommitIInv ==
  ASSUME IInv, NEW h \in healing, HealCommit(h)
  PROVE  IInv'
<1> DEFINE b == h.broadcast
<1>0. /\ b \in Broadcasts /\ h.source \in Sources
      /\ JobsOf(b) = {} /\ broadcasts[b].status # "none"
      /\ broadcasts[b].status = "live" => broadcasts[b].source = h.source
  BY DEF IInv, TypeOK, HealedRow, HealingOK
<1>1. /\ UNCHANGED <<channelVars, broadcastVars, waiting>>
      /\ healing' = healing \ {h} /\ cooled' = cooled \ {b}
  BY DEF HealCommit
<1>2. PICK i \in Jobs :
        /\ jobs[i] = NoJob
        /\ jobs' = [jobs EXCEPT ![i] = [broadcast |-> b, source |-> h.source,
                                        state |-> "pending"]]
  BY DEF HealCommit
<1>3. /\ jobs' \in [Jobs -> JobRow]
      /\ ActiveJob(i)' /\ jobs'[i].broadcast = b /\ jobs'[i].source = h.source
      /\ \A j \in Jobs : j # i => jobs'[j] = jobs[j]
  BY <1>0, <1>2 DEF IInv, TypeOK, JobRow, JobStates, ActiveJob
<1>4. \A j \in Jobs : j # i /\ ActiveJob(j)' => ActiveJob(j) /\ jobs'[j].broadcast # b
  BY <1>0, <1>3 DEF ActiveJob, JobsOf
<1>5. TypeOK' /\ RowsOK'
  BY <1>0, <1>1, <1>3 DEF IInv, TypeOK, RowsOK, ActiveJob, channelVars, broadcastVars
<1>6. HealingOK'
  <2>1. \A g \in healing' : g \in healing /\ g.broadcast # b
    BY <1>1 DEF IInv, HealingOK
  <2>2. \A x : x # b /\ JobsOf(x) = {} => JobsOf(x)' = {}
    BY <1>3 DEF JobsOf, ActiveJob
  <2> QED
    BY <1>1, <2>1, <2>2 DEF IInv, HealingOK, broadcastVars
<1>7. OneActiveJob' /\ JobFollowsSource'
  BY <1>0, <1>1, <1>3, <1>4 DEF IInv, OneActiveJob, JobFollowsSource, ActiveJob,
     broadcastVars
<1> QED
  BY <1>1, <1>5, <1>6, <1>7 DEF IInv, KeysOK, SourceOnOwnChannel, OneActiveBroadcast,
     Active, channelVars, broadcastVars

\* Workers and the clean-up of job rows.
LEMMA JobsIInv ==
  ASSUME IInv, CancelLeftover \/ Workers
  PROVE  IInv'
<1>1. UNCHANGED <<channelVars, broadcastVars, cooled, healing, waiting>>
  BY DEF CancelLeftover, Workers, ClaimJob, ReleaseJob, CancelJob, PurgeJob, SetState
<1>2. /\ jobs' \in [Jobs -> JobRow]
      /\ \A j \in Jobs : ActiveJob(j)' => /\ ActiveJob(j)
                                          /\ jobs'[j].broadcast = jobs[j].broadcast
                                          /\ jobs'[j].source = jobs[j].source
  <2>1. CASE CancelLeftover
    BY <2>1, EndJobs DEF CancelLeftover, Leftover, IInv
  <2>2. ASSUME NEW j \in Jobs, ActiveJob(j), NEW st \in JobStates, SetState(j, st)
        PROVE  <1>2!1 /\ <1>2!2
    BY <2>2 DEF SetState, IInv, TypeOK, JobRow, JobStates, ActiveJob
  <2>3. CASE \E j \in Jobs : PurgeJob(j)
    BY <2>3 DEF PurgeJob, IInv, TypeOK, JobRow, JobStates, NoJob, ActiveJob
  <2> QED
    BY <2>1, <2>2, <2>3 DEF Workers, ClaimJob, ReleaseJob, CancelJob, ActiveJob, JobStates
<1> QED
  BY <1>1, <1>2, FewerJobs DEF IInv, TypeOK, RowsOK, broadcastVars

-----------------------------------------------------------------------------
(* The theorems *)

\* The inductive invariant holds in every reachable state: each lemma above
\* covers one group of disjuncts of Next.
THEOREM Invariance == Spec => []IInv
<1>1. Init => IInv
  BY InitIInv
<1>2. IInv /\ [Next]_vars => IInv'
  <2> SUFFICES ASSUME IInv, [Next]_vars PROVE IInv'
    OBVIOUS
  <2>1. CASE Handlers
    BY <2>1, ChannelsIInv, OnlineIInv, OfflineIInv DEF Handlers
  <2>2. CASE ControlLoop
    <3>1. ASSUME NEW b \in Broadcasts, Finalize(b) PROVE IInv'
      BY <3>1, FinalizeIInv DEF Finalize
    <3> QED
      BY <2>2, <3>1, ClockIInv, HealInsertIInv, HealCommitIInv, JobsIInv DEF ControlLoop
  <2>3. CASE Workers
    BY <2>3, JobsIInv
  <2>4. CASE UNCHANGED vars
    BY <2>4 DEF vars, channelVars, broadcastVars, jobVars, IInv, TypeOK, RowsOK,
       HealingOK, KeysOK, SourceOnOwnChannel, OneActiveBroadcast, OneActiveJob,
       JobFollowsSource, Active, ActiveJob, JobsOf
  <2> QED
    BY <2>1, <2>2, <2>3, <2>4 DEF Next
<1> QED
  BY <1>1, <1>2, PTL DEF Spec

\* Type correctness of the tables.
THEOREM TypeCorrect == Spec => []TypeOK
  BY Invariance, PTL DEF IInv

\* Concurrent handlers never give a channel two active broadcasts.
THEOREM OneBroadcastPerChannel == Spec => []OneActiveBroadcast
  BY Invariance, PTL DEF IInv

\* Exactly one active job at most, bound to the connection on air (the comment
\* in handleOnline), also against concurrent heals.
THEOREM OneJobOnCurrentSource == Spec => [](OneActiveJob /\ JobFollowsSource)
  BY Invariance, PTL DEF IInv

\* No connection is put on air on a channel its key was not issued to.
THEOREM NoForeignSource == Spec => []SourceOnOwnChannel
  BY Invariance, PTL DEF IInv, KeysOK

-----------------------------------------------------------------------------
(* The lifecycle implements the abstract sessions                           *)

\* The CHOOSE of the refinement mapping is determined: at most one candidate.
LEMMA SessionDetermined ==
  ASSUME OneActiveBroadcast, NEW c \in Channels
  PROVE  /\ ActiveOf(c) = {} => SessionOf(c) = None /\ OnAirOf(c) = None
         /\ \A b \in ActiveOf(c) :
              /\ SessionOf(c) = b
              /\ ActiveOf(c) = {b}
              /\ broadcasts[b].status = "live" => OnAirOf(c) = broadcasts[b].source
              /\ broadcasts[b].status # "live" => OnAirOf(c) = None
<1>1. \A a, b \in ActiveOf(c) : a = b
  BY DEF OneActiveBroadcast, ActiveOf
<1>2. ASSUME NEW b \in ActiveOf(c) PROVE SessionOf(c) = b /\ ActiveOf(c) = {b}
  <2>1. b \in Broadcasts
    BY DEF ActiveOf
  <2>2. (CHOOSE x \in Broadcasts : x \in ActiveOf(c)) \in ActiveOf(c)
    BY <1>2, <2>1
  <2> QED
    BY <1>1, <1>2, <2>2 DEF SessionOf
<1> QED
  BY <1>1, <1>2 DEF SessionOf, OnAirOf

\* A step that writes the row of one broadcast leaves other channels alone.
LEMMA OtherChannels ==
  ASSUME OneActiveBroadcast, OneActiveBroadcast',
         NEW c \in Channels, NEW b \in Broadcasts,
         \A x \in Broadcasts : x # b => broadcasts'[x] = broadcasts[x],
         broadcasts'[b].channel = c,
         broadcasts[b].channel = c \/ ~ Active(b),
         overdue' \ {b} = overdue \ {b},
         NEW d \in Channels, d # c
  PROVE  /\ SessionOf(d)' = SessionOf(d) /\ OnAirOf(d)' = OnAirOf(d)
         /\ ActiveOf(d)' = ActiveOf(d)
         /\ (ActiveOf(d) \cap overdue)' = ActiveOf(d) \cap overdue
<1>1. ActiveOf(d)' = ActiveOf(d) /\ b \notin ActiveOf(d)
  BY DEF ActiveOf, Active
<1>2. (ActiveOf(d) \cap overdue)' = ActiveOf(d) \cap overdue
  BY <1>1
<1>3. CASE ActiveOf(d) = {}
  BY <1>1, <1>2, <1>3, SessionDetermined DEF SessionOf, OnAirOf
<1>4. ASSUME NEW x \in ActiveOf(d) 
      PROVE  SessionOf(d)' = SessionOf(d) /\ OnAirOf(d)' = OnAirOf(d)
  <2>1. SessionOf(d) = x
    BY SessionDetermined
  <2>2. \A y \in ActiveOf(d)' : y = x
    BY <1>1, SessionDetermined
  <2>3. SessionOf(d)' = x
    <3>1. x \in Broadcasts
      BY DEF ActiveOf
    <3>2. (CHOOSE y \in Broadcasts : y \in ActiveOf(d)') \in ActiveOf(d)'
      BY <1>1, <1>4, <3>1
    <3> QED
      BY <1>1, <1>4, <2>2, <3>2 DEF SessionOf
  <2>4. broadcasts'[x] = broadcasts[x]
    BY <1>1 DEF ActiveOf
  <2> QED
    BY <1>1, <2>1, <2>3, <2>4 DEF OnAirOf
<1> QED
  BY <1>1, <1>2, <1>3, <1>4

\* Steps that touch neither the broadcast rows nor the grace periods.
LEMMA StutterSession ==
  ASSUME UNCHANGED <<broadcasts, overdue>>
  PROVE  UNCHANGED Promise!vars
BY DEF Promise!vars, SessionOf, OnAirOf, ActiveOf, Active

LEMMA OnlineSession ==
  ASSUME IInv, IInv', NEW h \in waiting, Online(h)
  PROVE  Promise!Next
<1> DEFINE c == h.channel
           s == h.source
<1>0. c \in Channels /\ s \in Sources
  BY DEF IInv, TypeOK, Handler
<1>1. PICK b \in Broadcasts :
        /\ \/ b \in ActiveOf(c) /\ Attach(b, s)
           \/ ActiveOf(c) = {} /\ Insert(c, b, s)
        /\ overdue' = overdue \ {b}
  BY DEF Online
<1>2. /\ broadcasts'[b].channel = c /\ broadcasts'[b].status = "live"
      /\ broadcasts'[b].source = s
      /\ \A x \in Broadcasts : x # b => broadcasts'[x] = broadcasts[x]
  <2>1. CASE b \in ActiveOf(c) /\ Attach(b, s)
    <3>1. broadcasts \in [Broadcasts -> BroadcastRow] /\ broadcasts[b].channel = c
      BY <2>1 DEF IInv, TypeOK, ActiveOf
    <3> QED
      BY <2>1, <3>1, <1>0, AttachResult
  <2>2. CASE Insert(c, b, s)
    BY <2>2, <1>0 DEF IInv, TypeOK, Insert, BroadcastRow, Statuses
  <2> QED
    BY <1>1, <2>1, <2>2
<1>3. b \in ActiveOf(c)'
  BY <1>2 DEF ActiveOf, Active
<1>4. /\ SessionOf(c)' = b /\ OnAirOf(c)' = s
      /\ (ActiveOf(c) \cap overdue)' = {}
  <2>1. OneActiveBroadcast'
    BY DEF IInv
  <2>2. \A x \in ActiveOf(c)' : x = b
    BY <2>1, <1>3 DEF OneActiveBroadcast, ActiveOf
  <2>3. SessionOf(c)' = b
    <3>1. (CHOOSE y \in Broadcasts : y \in ActiveOf(c)') \in ActiveOf(c)'
      BY <1>3
    <3> QED
      BY <1>3, <2>2, <3>1 DEF SessionOf
  <2>4. OnAirOf(c)' = s
    BY <1>2, <1>3, <2>3 DEF OnAirOf
  <2> QED
    BY <2>2, <2>3, <2>4, <1>1
<1>5. ASSUME NEW d \in Channels, d # c
      PROVE  /\ SessionOf(d)' = SessionOf(d) /\ OnAirOf(d)' = OnAirOf(d)
             /\ (ActiveOf(d) \cap overdue)' = ActiveOf(d) \cap overdue
  <2>1. broadcasts[b].channel = c \/ ~ Active(b)
    BY <1>1 DEF ActiveOf, Insert, Active, NoBroadcast
  <2> QED
    BY <1>0, <1>1, <1>2, <1>5, <2>1, OtherChannels DEF IInv
<1>6. /\ [d \in Channels |-> OnAirOf(d)]' = [[d \in Channels |-> OnAirOf(d)] EXCEPT ![c] = s]
      /\ {d \in Channels : ActiveOf(d) \cap overdue # {}}'
           = {d \in Channels : ActiveOf(d) \cap overdue # {}} \ {c}
      /\ [d \in Channels |-> SessionOf(d)]'
           = [[d \in Channels |-> SessionOf(d)] EXCEPT ![c] = b]
  BY <1>0, <1>4, <1>5
<1>7. CASE b \in ActiveOf(c)
  <2>1. SessionOf(c) = b /\ b # None
    BY <1>0, <1>7, SessionDetermined, LifecycleAssumption DEF IInv
  <2>2. UNCHANGED [d \in Channels |-> SessionOf(d)]
    BY <1>6, <2>1, <1>0
  <2>3. UNCHANGED {x \in Broadcasts : broadcasts[x].status # "none"}
    BY <1>2, <1>7 DEF ActiveOf, Active
  <2>4. Promise!Continue(c, s)
    BY <1>0, <1>6, <2>1, <2>2, <2>3 DEF Promise!Continue
  <2> QED
    BY <1>0, <2>4 DEF Promise!Next
<1>8. CASE ActiveOf(c) = {} /\ Insert(c, b, s)
  <2>1. SessionOf(c) = None /\ broadcasts[b].status = "none"
    BY <1>8 DEF SessionOf, Insert, NoBroadcast
  <2>2. {x \in Broadcasts : broadcasts[x].status # "none"}'
          = {x \in Broadcasts : broadcasts[x].status # "none"} \cup {b}
    BY <1>2
  <2>3. UNCHANGED {d \in Channels : ActiveOf(d) \cap overdue # {}}
    BY <1>6, <1>8
  <2>4. Promise!Open(c, b, s)
    BY <1>0, <1>6, <2>1, <2>2, <2>3 DEF Promise!Open
  <2> QED
    BY <1>0, <2>4 DEF Promise!Next
<1> QED
  BY <1>1, <1>7, <1>8

\* A step that takes the broadcast of a channel off air or ends it.
LEMMA OffAirSession ==
  ASSUME IInv, IInv', NEW b \in Broadcasts, Active(b),
         NEW st \in {"reconnecting", "ended"},
         broadcasts' = [broadcasts EXCEPT ![b].status = st],
         \/ st = "reconnecting" /\ broadcasts[b].status = "live" /\ UNCHANGED overdue
         \/ st = "ended" /\ StillExpired(b) /\ overdue' = overdue \ {b}
  PROVE  Promise!Next
<1> DEFINE c == broadcasts[b].channel
<1>0. /\ c \in Channels /\ b \in ActiveOf(c) /\ broadcasts[b].source \in Sources
      /\ b # None /\ broadcasts[b].source # None
  BY LifecycleAssumption DEF IInv, RowsOK, Active, ActiveOf, NoBroadcast
<1>1. /\ broadcasts'[b].channel = c /\ broadcasts'[b].status = st
      /\ \A x \in Broadcasts : x # b => broadcasts'[x] = broadcasts[x]
  BY DEF IInv, TypeOK, BroadcastRow, Statuses
<1>2. ASSUME NEW d \in Channels, d # c
      PROVE  /\ SessionOf(d)' = SessionOf(d) /\ OnAirOf(d)' = OnAirOf(d)
             /\ (ActiveOf(d) \cap overdue)' = ActiveOf(d) \cap overdue
  BY <1>0, <1>1, <1>2, OtherChannels DEF IInv
<1>3. SessionOf(c) = b /\ ActiveOf(c) = {b}
  BY <1>0, SessionDetermined DEF IInv
<1>4. UNCHANGED {x \in Broadcasts : broadcasts[x].status # "none"}
  BY <1>1 DEF Active
<1>5. CASE st = "reconnecting"
  <2>1. ActiveOf(c)' = {b}
    BY <1>0, <1>1, <1>3, <1>5 DEF ActiveOf, Active
  <2>2. SessionOf(c)' = b
    <3>1. (CHOOSE y \in Broadcasts : y \in ActiveOf(c)') \in ActiveOf(c)'
      BY <2>1
    <3> QED
      BY <2>1, <3>1 DEF SessionOf
  <2>3. OnAirOf(c) = broadcasts[b].source /\ OnAirOf(c)' = None
    BY <1>0, <1>1, <1>3, <1>5, <2>1, <2>2 DEF OnAirOf
  <2>4. (ActiveOf(c) \cap overdue)' = ActiveOf(c) \cap overdue
    BY <1>3, <1>5, <2>1
  <2>5. UNCHANGED [d \in Channels |-> SessionOf(d)]
    BY <1>2, <1>3, <2>2
  <2>6. [d \in Channels |-> OnAirOf(d)]' = [[d \in Channels |-> OnAirOf(d)] EXCEPT ![c] = None]
    BY <1>0, <1>1, <1>2, <2>3
  <2>7. UNCHANGED {d \in Channels : ActiveOf(d) \cap overdue # {}}
    BY <1>2, <2>4
  <2>8. Promise!Lose(c)
    BY <1>0, <1>4, <2>3, <2>5, <2>6, <2>7 DEF Promise!Lose
  <2> QED
    BY <1>0, <2>8 DEF Promise!Next
<1>6. CASE st = "ended"
  <2>1. ActiveOf(c)' = {}
    BY <1>0, <1>1, <1>3, <1>6 DEF ActiveOf, Active
  <2>2. SessionOf(c)' = None /\ OnAirOf(c)' = None /\ (ActiveOf(c) \cap overdue)' = {}
    BY <2>1 DEF SessionOf, OnAirOf
  <2>3. OnAirOf(c) = None /\ ActiveOf(c) \cap overdue # {}
    BY <1>0, <1>3, <1>6 DEF OnAirOf, StillExpired
  <2>4. [d \in Channels |-> SessionOf(d)]' = [[d \in Channels |-> SessionOf(d)] EXCEPT ![c] = None]
    BY <1>0, <1>1, <1>2, <2>2
  <2>5. UNCHANGED [d \in Channels |-> OnAirOf(d)]
    BY <1>2, <2>2, <2>3
  <2>6. {d \in Channels : ActiveOf(d) \cap overdue # {}}'
           = {d \in Channels : ActiveOf(d) \cap overdue # {}} \ {c}
    BY <1>2, <2>2
  <2>7. Promise!Close(c)
    BY <1>0, <1>3, <1>4, <2>3, <2>4, <2>5, <2>6 DEF Promise!Close
  <2> QED
    BY <1>0, <2>7 DEF Promise!Next
<1> QED
  BY <1>5, <1>6

LEMMA LapseSession ==
  ASSUME IInv, IInv', NEW b \in Broadcasts, GraceElapses(b)
  PROVE  Promise!Next
<1> DEFINE c == broadcasts[b].channel
<1>0. /\ c \in Channels /\ b \in ActiveOf(c) /\ b # None
      /\ broadcasts[b].status = "reconnecting" /\ b \notin overdue
      /\ overdue' = overdue \cup {b} /\ UNCHANGED broadcasts
  BY LifecycleAssumption DEF GraceElapses, IInv, RowsOK, Active, ActiveOf, NoBroadcast
<1>1. SessionOf(c) = b /\ ActiveOf(c) = {b} /\ OnAirOf(c) = None
  BY <1>0, SessionDetermined DEF IInv
<1>2. \A d \in Channels : ActiveOf(d)' = ActiveOf(d) /\ SessionOf(d)' = SessionOf(d)
                          /\ OnAirOf(d)' = OnAirOf(d)
  BY <1>0 DEF ActiveOf, Active, SessionOf, OnAirOf
<1>3. \A d \in Channels : d # c => b \notin ActiveOf(d)
  BY DEF ActiveOf
<1>4. {d \in Channels : ActiveOf(d) \cap overdue # {}}'
        = {d \in Channels : ActiveOf(d) \cap overdue # {}} \cup {c}
  BY <1>0, <1>1, <1>2, <1>3
<1>5. c \notin {d \in Channels : ActiveOf(d) \cap overdue # {}}
  BY <1>0, <1>1
<1>6. UNCHANGED <<[d \in Channels |-> SessionOf(d)], [d \in Channels |-> OnAirOf(d)],
                  {x \in Broadcasts : broadcasts[x].status # "none"}>>
  BY <1>0, <1>2
<1>7. Promise!Lapse(c)
  BY <1>0, <1>1, <1>4, <1>5, <1>6 DEF Promise!Lapse
<1> QED
  BY <1>0, <1>7 DEF Promise!Next

\* The lifecycle implements Sessions: Init maps to Init, every step to a step
\* of the abstract session or to a stutter.
THEOREM LifecycleKeepsPromise == Spec => KeepsPromise
<1>1. Init => Promise!Init
  <2> SUFFICES ASSUME Init PROVE Promise!Init
    OBVIOUS
  <2>1. \A c \in Channels : ActiveOf(c) = {}
    BY DEF Init, ActiveOf, Active, NoBroadcast
  <2>2. \A c \in Channels : SessionOf(c) = None /\ OnAirOf(c) = None
    BY <2>1 DEF SessionOf, OnAirOf
  <2> QED
    BY <2>1, <2>2 DEF Init, Promise!Init, NoBroadcast
<1>2. IInv /\ IInv' /\ [Next]_vars => [Promise!Next]_(Promise!vars)
  <2> SUFFICES ASSUME IInv, IInv', [Next]_vars
               PROVE  Promise!Next \/ UNCHANGED Promise!vars
    OBVIOUS
  <2>1. ASSUME NEW h \in waiting, Online(h) PROVE Promise!Next
    BY <2>1, OnlineSession
  <2>2. ASSUME NEW h \in waiting, Offline(h)
        PROVE  Promise!Next \/ UNCHANGED Promise!vars
    <3>1. CASE UNCHANGED broadcasts
      BY <2>2, <3>1, StutterSession DEF Offline
    <3>2. ASSUME NEW b \in ActiveOf(h.channel), OnAir(b, h.source),
                 broadcasts' = [broadcasts EXCEPT ![b].status = "reconnecting"]
          PROVE  Promise!Next
      BY <2>2, <3>2, OffAirSession DEF Offline, OnAir, ActiveOf
    <3> QED
      BY <2>2, <3>1, <3>2 DEF Offline
  <2>3. ASSUME NEW b \in Broadcasts, Finalize(b)
        PROVE  Promise!Next \/ UNCHANGED Promise!vars
    <3>1. CASE UNCHANGED <<broadcasts, overdue>>
      BY <3>1, StutterSession
    <3>2. CASE /\ StillExpired(b)
               /\ broadcasts' = [broadcasts EXCEPT ![b].status = "ended"]
               /\ overdue' = overdue \ {b}
      BY <3>2, OffAirSession DEF StillExpired, Active
    <3> QED
      BY <2>3, <3>1, <3>2 DEF Finalize
  <2>4. ASSUME NEW b \in Broadcasts, GraceElapses(b) PROVE Promise!Next
    BY <2>4, LapseSession
  <2>5. ASSUME UNCHANGED <<broadcasts, overdue>> PROVE UNCHANGED Promise!vars
    BY <2>5, StutterSession
  <2>6. CASE Handlers
    BY <2>1, <2>2, <2>5, <2>6 DEF Handlers, Authorize, ResetKey, Lookup, broadcastVars
  <2>7. CASE ControlLoop
    BY <2>3, <2>4, <2>5, <2>7 DEF ControlLoop, ReadDue, CoolsDown, HealInsert,
       HealCommit, HealAbort, CancelLeftover, broadcastVars
  <2>8. CASE Workers
    BY <2>5, <2>8 DEF Workers, ClaimJob, ReleaseJob, CancelJob, PurgeJob, SetState,
       broadcastVars
  <2>9. CASE UNCHANGED vars
    BY <2>5, <2>9 DEF vars, broadcastVars
  <2> QED
    BY <2>6, <2>7, <2>8, <2>9 DEF Next
<1> QED
  BY <1>1, <1>2, Invariance, PTL DEF Spec, KeepsPromise, Promise!Spec

=============================================================================
