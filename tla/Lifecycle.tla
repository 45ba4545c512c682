----------------------------- MODULE Lifecycle -----------------------------
(***************************************************************************)
(* The broadcast lifecycle: "the single place where who is live changes"   *)
(* (server/src/control/broadcasts.ts), with the transcode jobs it creates  *)
(* and cancels and the self-healing of the control loop (healJobs).        *)
(*                                                                         *)
(* The state is the database: channels, broadcasts and transcode_jobs.     *)
(* Hooks of the ingest nodes and the reconciler of any number of control   *)
(* replicas call the same two handlers, handleOnline and handleOffline, in *)
(* any order and any number of times, so an event here is any operation    *)
(* about any authorised ingest connection at any time.                     *)
(*                                                                         *)
(* A handler is two steps, because the code resolves the owner of the path *)
(* BEFORE it waits for the row lock of the channel: Lookup, then the rest  *)
(* of the transaction, which the channel lock and the row lock on the      *)
(* broadcast make atomic.                                                  *)
(***************************************************************************)
EXTENDS Naturals, FiniteSets

CONSTANTS
  Channels,     \* channels.id
  Keys,         \* stream keys; the ingest path of key k is "live/k"
  Sources,      \* ingest connections, the source ids MediaMTX gives them
  Broadcasts,   \* broadcasts.id
  Jobs,         \* transcode_jobs.id
  None,         \* SQL NULL
  PathOf,       \* the path a connection publishes to
  MaxWaiting    \* bound: handlers that wait for a channel lock at a time

ASSUME LifecycleAssumption ==
  /\ PathOf \in [Sources -> Keys]
  /\ None \notin Channels \cup Sources \cup Broadcasts
  /\ MaxWaiting \in Nat

VARIABLES
  streamKey,    \* channels.stream_key
  keyOwner,     \* history: the channel a key was ever issued to
  authorized,   \* connections the publish hook let in
  broadcasts,   \* table broadcasts
  overdue,      \* reconnecting broadcasts whose grace period is over
  due,          \* broadcasts finalizeExpired has read and not yet processed
  jobs,         \* table transcode_jobs
  cooled,       \* broadcasts with no job row updated in the last 30 s
  healing,      \* rows healJobs has inserted and not yet committed
  waiting       \* handlers between the owner lookup and the channel lock

channelVars   == <<streamKey, keyOwner, authorized>>
broadcastVars == <<broadcasts, overdue, due>>
jobVars       == <<jobs, cooled, healing>>
vars          == <<channelVars, broadcastVars, jobVars, waiting>>

Statuses  == {"none", "live", "reconnecting", "ended"}
JobStates == {"none", "pending", "running", "finished", "failed", "cancelled"}

BroadcastRow == [channel : Channels \cup {None}, status : Statuses,
                 source : Sources \cup {None}]
JobRow       == [broadcast : Broadcasts \cup {None},
                 source : Sources \cup {None}, state : JobStates]
Handler      == [op : {"online", "offline"}, source : Sources,
                 channel : Channels]
HealedRow    == [broadcast : Broadcasts, source : Sources]

NoBroadcast == [channel |-> None, status |-> "none", source |-> None]
NoJob       == [broadcast |-> None, source |-> None, state |-> "none"]

Init ==
  /\ streamKey \in [Channels -> Keys]
  /\ \A c, d \in Channels : streamKey[c] = streamKey[d] => c = d
  /\ keyOwner = [k \in Keys |->
                   IF \E c \in Channels : streamKey[c] = k
                   THEN CHOOSE c \in Channels : streamKey[c] = k ELSE None]
  /\ authorized = {}
  /\ broadcasts = [b \in Broadcasts |-> NoBroadcast]
  /\ overdue = {} /\ due = {}
  /\ jobs = [j \in Jobs |-> NoJob]
  /\ cooled = {} /\ healing = {}
  /\ waiting = {}

-----------------------------------------------------------------------------
(* Queries *)

Active(b)     == broadcasts[b].status \in {"live", "reconnecting"}
\* Mutant: the handler looks for a live broadcast only.
LiveOf(c)     == {b \in Broadcasts : /\ broadcasts[b].channel = c
                                     /\ broadcasts[b].status = "live"}
ActiveOf(c)   == {b \in Broadcasts : broadcasts[b].channel = c /\ Active(b)}
ActiveJob(j)  == jobs[j].state \in {"pending", "running"}
JobsOf(b)     == {j \in Jobs : jobs[j].broadcast = b /\ ActiveJob(j)}
Healing(b)    == \E h \in healing : h.broadcast = b

\* Mutant: the query for a bound broadcast has lost its path.
OwnersAnyPath(path) ==
  LET bound == {broadcasts[b].channel : b \in {x \in Broadcasts : Active(x)}}
      keyed == {c \in Channels : streamKey[c] = path}
  IN IF bound # {} THEN bound ELSE keyed

\* The owner query: a broadcast bound to the path wins over the current key.
OwnersOf(path) ==
  LET bound == {broadcasts[b].channel : b \in
                 {x \in Broadcasts : /\ Active(x)
                                     /\ PathOf[broadcasts[x].source] = path}}
      keyed == {c \in Channels : streamKey[c] = path}
  IN IF bound # {} THEN bound ELSE keyed

-----------------------------------------------------------------------------
(* Channels: publish authorisation and the streamer's key reset *)

Authorize(s) ==
  /\ s \notin authorized
  /\ \E c \in Channels : streamKey[c] = PathOf[s]
  /\ authorized' = authorized \cup {s}
  /\ UNCHANGED <<streamKey, keyOwner, broadcastVars, jobVars, waiting>>

ResetKey(c) ==
  \E k \in Keys :
    /\ keyOwner[k] = None        \* 24 random characters never come twice
    /\ streamKey' = [streamKey EXCEPT ![c] = k]
    /\ keyOwner' = [keyOwner EXCEPT ![k] = c]
    /\ UNCHANGED <<authorized, broadcastVars, jobVars, waiting>>

-----------------------------------------------------------------------------
(* handleOnline and handleOffline *)

Lookup(op, s) ==
  /\ s \in authorized
  /\ Cardinality(waiting) < MaxWaiting
  /\ \E c \in OwnersOf(PathOf[s]) :
       LET h == [op |-> op, source |-> s, channel |-> c]
       IN /\ h \notin waiting
          /\ waiting' = waiting \cup {h}
  /\ UNCHANGED <<channelVars, broadcastVars, jobVars>>

\* Cancel the active jobs of b that are bound to another connection, then
\* INSERT ... ON CONFLICT DO NOTHING.
SupersededNever(b, s) == {}     \* mutant
Superseded(b, s) == {j \in JobsOf(b) : jobs[j].source # s}

CancelAll(S) ==
  [j \in Jobs |-> IF j \in S THEN [jobs[j] EXCEPT !.state = "cancelled"]
                  ELSE jobs[j]]

EnsureJob(b, s) ==
  IF JobsOf(b) \ Superseded(b, s) # {}
  THEN jobs' = CancelAll(Superseded(b, s))
  ELSE \E j \in Jobs :
         /\ jobs[j] = NoJob
         /\ jobs' = [CancelAll(Superseded(b, s)) EXCEPT ![j] =
                       [broadcast |-> b, source |-> s, state |-> "pending"]]

\* The broadcast row after a reconnect, a takeover or a duplicate event.
Attach(b, s) ==
  broadcasts' = [broadcasts EXCEPT ![b].status = "live", ![b].source = s]

Insert(c, b, s) ==
  /\ broadcasts[b] = NoBroadcast
  /\ broadcasts' = [broadcasts EXCEPT ![b] =
                      [channel |-> c, status |-> "live", source |-> s]]

\* A row healJobs has inserted and not committed makes the INSERT wait for it
\* while healJobs waits for the broadcast row (foreign key): Postgres aborts
\* one of the two, so Online never commits while such a row is open.
Online(h) ==
  /\ h \in waiting /\ h.op = "online"
  /\ waiting' = waiting \ {h}
  /\ \E b \in Broadcasts :
       /\ \/ b \in ActiveOf(h.channel) /\ Attach(b, h.source)
          \/ ActiveOf(h.channel) = {} /\ Insert(h.channel, b, h.source)
       /\ ~ Healing(b)
       /\ EnsureJob(b, h.source)
       /\ overdue' = overdue \ {b}
       /\ cooled' = cooled \ {b}
  /\ UNCHANGED <<channelVars, due, healing>>

FinishAll(S) ==
  [j \in Jobs |-> IF j \in S THEN [jobs[j] EXCEPT !.state = "finished"]
                  ELSE jobs[j]]

\* An offline event counts only for the connection that is on air.
OnAir(b, s) == broadcasts[b].status = "live" /\ broadcasts[b].source = s

Offline(h) ==
  /\ h \in waiting /\ h.op = "offline"
  /\ waiting' = waiting \ {h}
  /\ \/ \E b \in ActiveOf(h.channel) :
          /\ OnAir(b, h.source)
          /\ broadcasts' = [broadcasts EXCEPT ![b].status = "reconnecting"]
          /\ jobs' = FinishAll(JobsOf(b))
          /\ cooled' = cooled \ {b}
     \/ /\ \A b \in ActiveOf(h.channel) : ~ OnAir(b, h.source)
        /\ UNCHANGED <<broadcasts, jobs, cooled>>
  /\ UNCHANGED <<channelVars, overdue, due, healing>>

-----------------------------------------------------------------------------
(* finalizeExpired: the due list is read outside of any lock, each of its   *)
(* broadcasts is closed under the lock of its channel.                      *)

GraceElapses(b) ==
  /\ broadcasts[b].status = "reconnecting" /\ b \notin overdue
  /\ overdue' = overdue \cup {b}
  /\ UNCHANGED <<channelVars, broadcasts, due, jobVars, waiting>>

ReadDue ==
  /\ ~ overdue \subseteq due
  /\ due' = due \cup overdue     \* two replicas may both believe they lead
  /\ UNCHANGED <<channelVars, broadcasts, overdue, jobVars, waiting>>

WasExpired(b)   == b \in due      \* mutant: trust the list read earlier
\* Mutant: closing waits for a transcoder that nobody will stop.
ExpiredAndIdle(b) ==
  broadcasts[b].status = "reconnecting" /\ b \in overdue /\ JobsOf(b) = {}
StillExpired(b) == broadcasts[b].status = "reconnecting" /\ b \in overdue

Finalize(b) ==
  /\ b \in due
  /\ due' = due \ {b}
  /\ \/ /\ StillExpired(b)
        /\ broadcasts' = [broadcasts EXCEPT ![b].status = "ended"]
        /\ jobs' = CancelAll(JobsOf(b))
        /\ overdue' = overdue \ {b}
     \/ /\ ~ StillExpired(b)     \* the publisher came back just in time
        /\ UNCHANGED <<broadcasts, jobs, overdue>>
  /\ UNCHANGED <<channelVars, cooled, healing, waiting>>

-----------------------------------------------------------------------------
(* healJobs: the INSERT ... SELECT reads its snapshot and inserts, then     *)
(* waits for the broadcast row (foreign key check) before it commits.       *)

CoolsDown(b) ==
  /\ broadcasts[b].status = "live" /\ JobsOf(b) = {} /\ b \notin cooled
  /\ cooled' = cooled \cup {b}
  /\ UNCHANGED <<channelVars, broadcastVars, jobs, healing, waiting>>

\* Mutant: heal only broadcasts that are waiting for their publisher.
NeedsJobWhileAway(b) ==
  broadcasts[b].status = "reconnecting" /\ JobsOf(b) = {} /\ b \in cooled

NeedsJob(b) ==
  broadcasts[b].status = "live" /\ JobsOf(b) = {} /\ b \in cooled

HealInsert(b) ==
  /\ NeedsJob(b) /\ ~ Healing(b)
  /\ healing' = healing \cup
       {[broadcast |-> b, source |-> broadcasts[b].source]}
  /\ UNCHANGED <<channelVars, broadcastVars, jobs, cooled, waiting>>

HealCommit(h) ==
  /\ h \in healing
  /\ healing' = healing \ {h}
  /\ \E j \in Jobs :
       /\ jobs[j] = NoJob
       /\ jobs' = [jobs EXCEPT ![j] = [broadcast |-> h.broadcast,
                                       source |-> h.source,
                                       state |-> "pending"]]
  /\ cooled' = cooled \ {h.broadcast}
  /\ UNCHANGED <<channelVars, broadcastVars, waiting>>

\* The heal is the victim of the deadlock, or its session dies.
HealAbort(h) ==
  /\ h \in healing
  /\ healing' = healing \ {h}
  /\ UNCHANGED <<channelVars, broadcastVars, jobs, cooled, waiting>>

\* Second statement: jobs of ended broadcasts must not keep running.
\* Mutant: only jobs nobody has claimed yet.
LeftoverPending == {j \in Jobs : /\ jobs[j].state = "pending"
                                 /\ broadcasts[jobs[j].broadcast].status = "ended"}
Leftover == {j \in Jobs : /\ ActiveJob(j)
                          /\ broadcasts[jobs[j].broadcast].status = "ended"}

CancelLeftover ==
  /\ Leftover # {}
  /\ jobs' = CancelAll(Leftover)
  /\ UNCHANGED <<channelVars, broadcastVars, cooled, healing, waiting>>

-----------------------------------------------------------------------------
(* What workers do to a job row (the lease protocol is module JobLease)     *)

SetState(j, st) ==
  /\ jobs' = [jobs EXCEPT ![j].state = st]
  /\ UNCHANGED <<channelVars, broadcastVars, cooled, healing, waiting>>

ClaimJob(j)   == jobs[j].state = "pending" /\ SetState(j, "running")

\* releaseJob, releaseOrphanedJobs: back to the queue, or out of attempts.
ReleaseJob(j) ==
  jobs[j].state = "running" /\ \E st \in {"pending", "failed"} : SetState(j, st)

\* A claimed job of an ended broadcast is not started.
CancelJob(j) ==
  /\ jobs[j].state = "running"
  /\ broadcasts[jobs[j].broadcast].status = "ended"
  /\ SetState(j, "cancelled")

\* housekeeping deletes terminal rows a week after their last update.
PurgeJob(j) ==
  /\ jobs[j].state \in {"finished", "failed", "cancelled"}
  /\ jobs' = [jobs EXCEPT ![j] = NoJob]
  /\ UNCHANGED <<channelVars, broadcastVars, cooled, healing, waiting>>

-----------------------------------------------------------------------------
Handlers ==
  \/ \E s \in Sources : Authorize(s)
  \/ \E c \in Channels : ResetKey(c)
  \/ \E s \in Sources, op \in {"online", "offline"} : Lookup(op, s)
  \/ \E h \in waiting : Online(h)
  \/ \E h \in waiting : Offline(h)

ControlLoop ==
  \/ \E b \in Broadcasts : GraceElapses(b)
  \/ ReadDue
  \/ \E b \in Broadcasts : Finalize(b)
  \/ \E b \in Broadcasts : CoolsDown(b)
  \/ \E b \in Broadcasts : HealInsert(b)
  \/ \E h \in healing : HealCommit(h)
  \/ \E h \in healing : HealAbort(h)
  \/ CancelLeftover

Workers ==
  \/ \E j \in Jobs : ClaimJob(j)
  \/ \E j \in Jobs : ReleaseJob(j)
  \/ \E j \in Jobs : CancelJob(j)
  \/ \E j \in Jobs : PurgeJob(j)

Next == Handlers \/ ControlLoop \/ Workers

Spec == Init /\ [][Next]_vars

-----------------------------------------------------------------------------
(* Fairness: one replica leads and its loop keeps ticking (every 2 s), the  *)
(* clock advances, and healJobs is not the victim of a deadlock for ever.   *)
(* PurgeJob only frees the bounded supply of job ids.  Events and workers   *)
(* owe nothing.                                                             *)

HealOf(b) == \E h \in healing : h.broadcast = b /\ HealCommit(h)

Fairness ==
  /\ \A b \in Broadcasts :
       /\ WF_vars(GraceElapses(b)) /\ WF_vars(Finalize(b))
       /\ WF_vars(CoolsDown(b)) /\ WF_vars(HealInsert(b)) /\ SF_vars(HealOf(b))
  /\ WF_vars(ReadDue) /\ WF_vars(CancelLeftover)
  /\ \A j \in Jobs : WF_vars(PurgeJob(j))

FairSpec == Spec /\ Fairness

-----------------------------------------------------------------------------
(* Properties *)

\* Type correctness of the three tables and of the control plane's state.
TypeOK ==
  /\ streamKey \in [Channels -> Keys]
  /\ keyOwner \in [Keys -> Channels \cup {None}]
  /\ authorized \subseteq Sources
  /\ broadcasts \in [Broadcasts -> BroadcastRow]
  /\ overdue \subseteq Broadcasts /\ due \subseteq Broadcasts
  /\ jobs \in [Jobs -> JobRow]
  /\ cooled \subseteq Broadcasts
  /\ healing \subseteq HealedRow
  /\ waiting \subseteq Handler

\* The index broadcasts_one_active_per_channel never has to reject a handler:
\* concurrent hooks and reconcilers agree on one broadcast per channel.
OneActiveBroadcast ==
  \A a, b \in Broadcasts :
    /\ Active(a) /\ Active(b)
    /\ broadcasts[a].channel = broadcasts[b].channel
    => a = b

\* "Exactly one active job" (broadcasts.ts:118), at most one of it: no order of
\* handlers, heals and workers gives a broadcast two jobs to transcode it.
OneActiveJob ==
  \A i, j \in Jobs :
    ActiveJob(i) /\ ActiveJob(j) /\ jobs[i].broadcast = jobs[j].broadcast => i = j

\* "... bound to the current ingest connection" (broadcasts.ts:118): whatever
\* healJobs read before a takeover, the job of a live broadcast pulls from the
\* connection that is on air.
JobFollowsSource ==
  \A j \in Jobs :
    /\ ActiveJob(j)
    /\ broadcasts[jobs[j].broadcast].status = "live"
    => jobs[j].source = broadcasts[jobs[j].broadcast].source

\* A connection is only ever put on air on the channel its key was issued to,
\* although keys are reset mid-stream and owners are looked up before the lock.
SourceOnOwnChannel ==
  \A b \in Broadcasts :
    Active(b) => keyOwner[PathOf[broadcasts[b].source]] = broadcasts[b].channel

\* The handlers, the finalizer and the healer together keep the promise of
\* Sessions: a reconnect racing the deadline either continues the session or
\* starts a fresh one, and stale events never close or revive a session.
SessionOf(c) ==
  IF ActiveOf(c) = {} THEN None ELSE CHOOSE b \in Broadcasts : b \in ActiveOf(c)

OnAirOf(c) ==
  IF ActiveOf(c) # {} /\ broadcasts[SessionOf(c)].status = "live"
  THEN broadcasts[SessionOf(c)].source ELSE None

Promise == INSTANCE Sessions WITH
  Ids     <- Broadcasts,
  session <- [c \in Channels |-> SessionOf(c)],
  onAir   <- [c \in Channels |-> OnAirOf(c)],
  lapsed  <- {c \in Channels : ActiveOf(c) \cap overdue # {}},
  used    <- {b \in Broadcasts : broadcasts[b].status # "none"}

KeepsPromise == Promise!Spec

\* A session without a connection is closed in the end (finalizeExpired).
ClosesAbandoned == Promise!Fairness

\* "a live broadcast must always have a job" (loop.ts:178): a job that failed
\* for good is replaced, or the broadcast is not live any more.
LiveGetsJob ==
  \A b \in Broadcasts :
    broadcasts[b].status = "live" /\ JobsOf(b) = {}
    ~> broadcasts[b].status # "live" \/ JobsOf(b) # {}

\* "Jobs of ended broadcasts must not keep running" (loop.ts:192): also the one
\* a heal committed while the broadcast was going offline and then ended.
EndedLosesJob ==
  \A b \in Broadcasts :
    broadcasts[b].status = "ended" /\ JobsOf(b) # {} ~> JobsOf(b) = {}

=============================================================================
