# TLA+ models of rtmps-demo

This directory models the parts of the streaming platform whose correctness depends on the
order in which several actors act: the control plane, the transcode workers, the API replicas,
the SRT gateway, and the pages in the browsers of viewers and streamers. It contains TLA+
modules, TLC configurations, and proofs for TLAPS. `src/` below is the repository; file names
that begin with `web/` or `deploy/` are under `src/`, all others under `src/server/src/`.

Contents: [the system](#the-system) · [modules and code](#modules-and-code) ·
[runs](#runs) · [fairness](#fairness) · [proofs](#proofs) ·
[known limits of the code](#known-limits-of-the-code) · [not modelled](#not-modelled) ·
[plan](#plan)

## The system

A streamer publishes over RTMPS, SRT (through a gateway) or WHIP (from a panel of the studio)
to an ingest node. The node asks the API whether the stream key may publish and reports, by
hooks, that a path went online or offline. The control plane keeps one *broadcast* per channel
in Postgres and one *transcode job* per broadcast. A worker claims the job, pulls the stream,
encodes the ladder with ffmpeg, uploads HLS to object storage, records it, and pushes it to
external platforms. API replicas tell the browsers, over SSE, what a channel looks like; the
page of a channel shows it in a player, and an overlay in OBS.

| Component | State it keeps | Operations | Talks to |
|---|---|---|---|
| Broadcast lifecycle, `control/broadcasts.ts` | rows of `broadcasts`, `transcode_jobs` | `authorizeIngest`, `handleOnline`, `handleOffline`, `finalizeExpired` | called by hooks (`routes/internal.ts`) and by the control loop; row locks in Postgres |
| Control loop, `control/loop.ts` | failures per node, leader lock | reconcile with the nodes, `healJobs`, `finalizeVods`, viewer counts, housekeeping, leadership | ingest nodes over HTTP, Postgres, Redis, S3 |
| Job queue and lease, `worker/queue.ts`, `runner.ts`, `main.ts` | `transcode_jobs` (state, worker, lease token, expiry), a run's clocks | claim, heartbeat, fence, release, orphan recovery, shutdown | Postgres, ffmpeg, the parts below |
| Publisher, `worker/output.ts` | upload chains, failed segments, ready variants, published master | `onFile`, `onDelete`, `maybePublishMaster`, `drain`, `abort` | ffmpeg through the local receiver, S3, broadcast row |
| Recording, `worker/vod.ts`, `finalizeVods` | lines of `vod.m3u8`, dirty flag, `vod_finalized_at` | `resume`, `onPlaylist`, `flush`, finalisation | S3, control loop |
| Ladder, `worker/ladder.ts`, `codecs.ts` | none (pure), plan of a run | `planLadder`, `sourceUpgraded` | ffprobe, ffmpeg |
| Multistream, `worker/restream.ts` | map of running pushes, their timers | `sync`, `launch`, `scheduleRestart`, `stopOne`, `stop` | the studio's rows, ffmpeg |
| Channel events, `api/sse.ts` | subscribers, cache, one reload and a queued one | `add`, `remove`, `reload`, `push`, `onEvent`, resync | Postgres, Redis pub/sub, browsers |
| Overlay events, `api/overlay.ts`, `web/src/pages/OverlayPage.tsx` | clients, cached stats; a page's shown stats and queue of alerts | load, event, reset of the address; reconnect, watchdog | as above |
| Accounts and second factor, `api/routes/auth.ts`, `account.ts`, `twofactor.ts`, with `AuthPage`, `SecurityPage`, `lib/auth.tsx` | user row, sessions, secrets, recovery codes; what a tab shows | register, login, code, logout, setup, enable, disable, new password, revoke | one browser tab per request |
| Studio, `RestreamPanel`, `StreamInfoForm`, `BrowserBroadcast` and their routes | a list, a form, a capture and a WHIP session in a tab, against the rows | switch, edit, add, delete; poll, type, save; preview, start, cancel, stop | API, media devices, ingest node |
| Channel page and player, `ChannelPage.tsx`, `Player.tsx` | shown state, event stream, loads; engine, `<video>`, retry timer | events, loads, watchdogs; errors, rebuilds, controls | API over SSE and GET, object storage |
| SRT gateway, `deploy/srt-gateway` (Go) | sessions, counter, ffmpeg per session | accept, authorise, copy, end, shutdown | control plane, ingest node |
| Follows, public pages, `api/` | rows | one statement or transaction per request | Postgres |
| HLS receiver, ffmpeg command lines, wrappers in `lib/` | none of their own | - | external programs |

What makes them hard, and what "correct" means:

* **Lifecycle.** Hooks are lost, repeated and reordered; the owner of a path is looked up before
  the channel is locked; a reconnect races the deadline of the grace period; `healJobs` inserts a
  job from a snapshot. Correct: one active broadcast per channel, one active job per broadcast,
  bound to the connection on air; a session is closed only when nobody is on air and the grace
  period is over, and it never comes back.
* **Reconciliation.** A round works on what it read before it asked the nodes; nodes are cut off,
  come back, vanish; leaders change. Correct: what is on air all the time is not taken off, and the
  row converges to what the nodes report.
* **Lease.** Queries hang, workers crash and restart under the same id, answers of claims are
  late. Correct: never two writers of one job's output; no job stuck.
* **Publisher.** Uploads fail or lag behind ffmpeg, the master races the settle timer and the
  drain. Correct: what viewers are offered exists; ready variants are offered.
* **Recording.** The file is rewritten as a whole by run after run and by the control plane.
  Correct: it only grows, misses nothing that was live, and is finished once.
* **Ladder.** Odd, vertical, multitrack sources; the source changes under a kept plan. Correct:
  everybody can watch.
* **Multistream.** Two waits (query, name lookup) during which anything else happens. Correct:
  one push per destination, none outlives the job, edits are followed.
* **Channel and overlay events.** Loads overtake events and each other; the bus loses messages.
  Correct: viewers agree, and see the state as it is in the end.
* **Accounts.** Statements of several requests interleave, answers are lost. Correct: a code is
  accepted once, and nobody is asked for a factor he does not hold.
* **Channel page.** A GET that was sent before an event is answered after it; a stream dies
  without an error. Correct: the stream has the last word, the page catches up.
* **Player.** Errors, retries and rebuilds overlap with what the viewer does. Correct: it never
  hangs, and never overrules a pause.
* **Broadcast from the browser.** The user, the browser and the router act while media are
  captured and a session is negotiated. Correct: nothing captures or sends unnoticed.
* **Studio lists and forms.** Optimistic switches and polls overlap with saves. Correct: the tab
  shows what is stored and writes what was typed.
* **Gateway.** The limit is checked before a wait and counted after; connection, ffmpeg and
  signal end in any order. Correct: the counter is the number of sessions, and all of them end.

## Modules and code

Each action is one handler up to its next `await`, or one transaction where a row lock makes it
atomic. `PROJECT.json` maps every definition to its lines.

### The control plane and the workers

**Lifecycle** (with **Sessions**, its abstract specification). State: stream keys, `broadcasts`
(channel, status, source), `transcode_jobs` (broadcast, source, state), handlers between their
lookup and the lock (`waiting`), the list `finalizeExpired` has read (`due`), rows `healJobs`
has inserted and not committed (`healing`). `Lookup` is the owner query of
`lockChannelForPath`, `Online` and `Offline` are the two handlers under the lock, `Finalize` is
one iteration of `finalizeExpired`, `HealInsert`/`HealCommit`/`HealAbort` the insert of
`healJobs` with its foreign-key wait. Lost, repeated and late hooks need no action of their own:
`Lookup` may be taken for any authorised connection, any operation, at any time, or never.
`Sessions` says what a channel is promised: a session is opened, continued by whoever connects,
loses its connection, lapses, closes. `KeepsPromise` is `Sessions!Spec` under the mapping
session = the active broadcast, on air = its source while live, lapsed = the grace period is
over.

**Reconciler.** A round of `reconcileIngest` for one path: `Begin` reads the broadcast and the
registry, each node answers (`Answer`) or fails (`NoAnswer`, which counts failures and gives the
verdict "dead" after `MaxFailures` or 15 s of silence), `Judge` decides by `newest`, the snapshot
and the verdicts and calls the handlers. Publishers come and go, hooks are delivered, lost and
reordered, nodes are cut off or vanish, and between rounds another replica may lead, with counts of its own.

**JobLease.** State: the job row with the seconds its lease has left, per worker the process
state, the claim whose answer is under way and, per job, the run: phase, lease token, age since
its last renewal, interval timer, heartbeat under way. `Tick` moves all clocks; it is disabled
while a timer or an answer is due, so time limits are hard. Graceful end, fence, release,
release that fails, attempts, shutdown (`stopping`, `closing` once the pool is closed), crash
and restart with `releaseOrphanedJobs` are actions.

**JobOutput.** State: per variant what ffmpeg hands over next, the chain of uploads and whether
its head is under way, failed segments, ready variants, settle timer, the master (published
signature, object, announced row), `closed`/`aborted`, what the drain waits for, and the object
store. `StartMedia`/`Finish...` are the two halves of an upload; `SkipMaster`, `StartMaster`,
`FinishMaster` are `maybePublishMaster`; `Drain`, `DrainWaited`, `DrainTimesOut`, `Abort` the
end. Whether the broadcast is recorded and which kinds of writes may fail is chosen in `Init`.

**VodRecording.** One variant, run after run: `Resume`, `OnPlaylist`, `Flush`, `FinalFlush` and
the writes under way (`Land`, `PutFails`), `Fence`, `Crash`; then `End` and the read and write
of `finalizeVods`. A run may have several writes under way (`MaxPuts`): its timer does not wait for
them, and neither does its last flush, which returns at once when nothing is new
(`NothingToFlush`). `faults` (chosen in `Init`) names what may go wrong beside ordinary failed
writes: a failed first read, a crash, a fence, writes that overtake each other, overlapping runs, a
failed last write.

**Ladder.** `planLadder` as set-valued operators over a source record, with the integer
arithmetic of the code (rounding, divisor of the frame rate), and `Probe`, the watch of a run
that keeps or replaces the plan.

**Restream.** `running` is the manager's map, `push` the `Running` objects, `reads` the queries
of `sync()` under way. `LookedUp` is the continuation of `launch()` after
`assertPublicTarget`. `lookup` (chosen in `Init`) is the setting `RESTREAM_ALLOW_PRIVATE`
reversed: with `lookup = FALSE` no name is resolved and `launch()` has no wait.

**SrtGateway.** Per request the step its goroutine is at, its connection, its ffmpeg and its
copy; the counter `active`; the process and its shutdown (`Signal`, `CloseListener`, `Exit`).
`Copied` and `FfmpegFailed` are the branches of the handler's select, `EndSession` its deferred
calls.

### The API and the browsers

**EventHub.** One channel on one replica: subscribers, cache, `reload` with its `dirty` flag,
loads of added clients, the Redis subscription, events on their way. A load is two reads (rows,
count), each a step. Clients connect, are looked up, added, and may leave at any time.

**Overlay.** The hub of one replica with its cached stats and the loads under way (which, unlike
those of `EventHub`, are not serialised), the two routes, and per page its link, its connection
(half open included), what it shows and its queue of alerts. `Probe` and `Watchdog` are the
page's two ways to find a dead connection.

**Accounts** and **AccountPages.** `Accounts` has the handlers as steps between their awaits: a
request holds what it has read (`seen`) while other requests act. `AccountPages` EXTENDS it with
the tabs that send them: what the form does with each answer, the refresh of `AuthProvider`, the
steps of setting up a factor, lost requests and answers, reloads. A request its tab no longer waits
for, since the connection broke or the page was loaded anew, goes on at one of the places `Unheard`
beside what the tab sends next. The owner's knowledge (secrets scanned, recovery codes seen, and
those whose answer was lost) is a variable, so that "the owner can sign in" can be said. Every device
may set the factor up, confirm it and turn it off.

**ChannelPage.** The server's channel is a version that moves on; the page has its refs
(`got`, `healthy`, the previous broadcast), its `EventSource` and the GETs under way with what
they have read. What the stream sends is what `EventHub` promises: states in order, beginning
with one.

**Player.** The engine with its retry timer and recent media errors, the `<video>` element, the
refs that hold the viewer's will, and what surrounds it (network, broadcast, visibility). One
model covers live and recordings, hls.js and the native engine, and three autoplay policies, all
chosen in `Init`.

**BrowserBroadcast.** `acquire`, `start`, `stop`, the callbacks of tracks and connections and the
unmount, each as steps between awaits, over the panel's refs and one record per call of
`WhipSession.start`.

**Destinations.** The list of one tab (`RestreamPanel`), with its optimistic switch, its dialog
and every request under way with the row it will put back, against the table; what other tabs do
is a step.

**StreamInfo.** The form with its baseline, the page's copy of the channel, polls and saves under
way, and the two queries an answer is put together from; per setting, whether the user has set it
(`typed`) and whether a write of another tab, or one beside an answer, has crossed it (`crossed`).

### For TLC

`MCLeaseAndList`, `MCOwner`, `MCEnds` and `MCMedia` put several parts that share nothing side by
side: `at`, fixed
in the initial state, names the one at work, and the others rest in a state in which nothing of
theirs is due, so that their fairness asks nothing of them (the lease rests in `LeaseRests`, a job
that is finished). Their state spaces add up, they do not multiply, and every part's properties and
fairness are its own. `JobLease`, `StreamInfo`, `ChannelPage` and `JobOutput` are EXTENDed there, the
other parts are instances. The other `MC*` modules hold sets and bounds; `*Proofs` modules hold
theorems. What is a set or a bound of one run only (nodes, sources, cameras, faults) is a CONSTANT of
these modules, so that the theorems hold for every value of it.

## Runs

Sizes and times are of TLC with two threads.

| Run | States | Checks | Bounds |
|---|---|---|---|
| `lifecycle` | 1.3 M, 1 min | `OneActiveBroadcast JobFollowsSource SourceOnOwnChannel` | two channels, two connections on two keys, a key either may reset to, two broadcasts and jobs, two handlers waiting at a time |
| `lifecycle_live` | 183 k, 3 min | `KeepsPromise ClosesAbandoned LiveGetsJob EndedLosesJob` | two connections on the key of one channel, two sessions one after the other |
| `job_lease` | 1.1 M, 2 min | `OneWriter WriterIsLeased` | two workers, one job, crashes, hanging heartbeats, restarts, shutdowns |
| `job_lease_live` | 364 k, 1 min | JobLease: `NeverStuck` | one worker that dies and restarts: an open job is taken up again or ended once the faults cease |
| | | Destinations: `ListIsHonest` | three ids, two rows, two calls, one write of another tab |
| `restream` | 285 k, 1 min | `OnePushPerDestination DirectPushEndsWithJob StatusIsHonest FollowsEdits` | one destination, two syncs under way, two edits (one with name lookups), three pushes alive |
| `sse` | 660 k, 2 min | `SameForAll QuietMeansFresh Converges` | two clients, two changes, one leave, one fault |
| `owner` | 1.2 M, 2 min | Accounts: `CodesOnce OwnerCanSignIn` | two devices, both of which turn the factor on and off, and one request nobody waits for; two sessions, two passwords, two secrets, one detour (the next time step, the sign-out, password or sessions form, another password, a lost message, a reload) |
| | | BrowserBroadcast: `NothingLeaks PhaseIsHonest` | two captures, two sessions |
| | | Overlay: `CounterIsCurrent` | two pages, one change, one alert, lost event, broken connection or reset |
| | | StreamInfo: `SavesWhatWasTyped` | two settings, two saves, of this tab or another |
| `ends` | 409 k, 2 min | ChannelPage: `StreamHasLastWord CatchesUp` | three versions of the channel (off, and two of one broadcast), two outages or broken streams, one act of the viewer |
| | | Player: `PauseIsKept NeverHangs` | a recording of two steps, three faults, two acts |
| | | SrtGateway: `LimitHolds SessionsEnd` | three requests, a limit of one |
| | | Reconciler: `NoFlapping Converges` | two nodes with a source each, verdict after two failures, one outage or change of leader |
| `media` | 514 k, 3 min | JobOutput: `VisibleIsStored PendingMasterKept ReadyIsAnnounced` | two videos and audio; recorded or not; no failing write, failing media, anything failing |
| | | VodRecording: `NothingMissing RecordingGrows TailRecorded Finalizes` | three runs, four segments, two writes of a run under way, each fault alone and crashes, fences and failed last writes together |
| | | Ladder: `EveryBrowserCanWatch` | 120 sources (three codecs, four sizes, two rates, with and without audio; four sets of extra tracks for wide H.264 and H.265, none for browsers and phones), all modes, every change of source |

Three runs are expected to find a violation; each shows what a comment or document of the
repository says and the code does not do:

| Run | Property | What happens |
|---|---|---|
| `job_lease_slow_claim` | `OneWriter` | the fence of a run counts from the *answer* of its claim; if that takes as long as the query timeout allows, the lease passes on first |
| `output_backlog` | `NeverPublishMissing` | `onDelete` forgets that a segment failed while playlists that list it still wait in the queue |
| `restream_orphan` | `EndsWithJob` | a push stopped while its name is looked up spawns its process all the same |

Every property of a passing run has a *mutant*: a definition of the model changed the way a
plausible bug would (`\* Mutant:` next to the definition it replaces), under which TLC finds
the property violated by the same configuration. A property that holds whatever the code does
would not survive this. Type invariants (`TypeOK` in every module) are stated; those the proofs
rest on are proved, the runs spend their time on the others.

**Why the bounds are enough.** The lifecycle is per channel: the second channel is there for
lookups to go wrong. A takeover needs two connections; a revived session two broadcasts; a
handler overtaken by another needs two waiting. The lease needs two workers, and time
constants only in their order: 4, 1, 0 keep `FenceSec + HeartbeatSec + ClaimDelay < LeaseSec`
as tight as the defaults 15, 3, 0 do (11 + 3 + 0 < 15; the model uses 2 + 1 + 0 < 4). A window
of one and no delete threshold is the tightest window of the publisher; two segments slide it.
Three runs are the least that resume a resumed recording. Two writes of a run are the
least that overtake each other. Overtaking syncs, reloads, switches and
handshakes need two of a kind; the gateway has a third request that meets the limit. A code used
twice, and a session revoked by another, need two devices. A node
that dies and one that takes over are two nodes. The player's faults end in a media error, its
recovery and a network error in one behaviour. Edits, changes, leaves, faults and acts are bounded
by constants named `Max...`, ids (`Broadcasts`, `Jobs`, `Tokens`, `Pushes`, `MaxIds`) bound what
exists at once; finished jobs and pushes free theirs. Where `CHECK_DEADLOCK FALSE` is set, a
behaviour may really stop: a broadcast ends, a page is left, a bound is used up.

Symmetry is used in runs without temporal properties only: over broadcasts and jobs in
`lifecycle`, workers and tokens in `job_lease`, sessions and passwords in `owner`.

## Fairness

* `Lifecycle`: the leader's loop ticks every two seconds, so `ReadDue`, `Finalize`,
  `HealInsert`, `CancelLeftover` are weakly fair; the deadlock between a heal and a handler has
  a victim that Postgres chooses, so the commit of a heal is strongly fair. Hooks and workers
  owe nothing.
* `Reconciler`: rounds go on, since somebody leads; a request is answered or times out; a node
  that has gone falls silent. Hooks, expiry and publishers owe nothing.
* `JobLease`: time passes, timers fire, processes that are up step, dead ones are restarted,
  ffmpeg dies of SIGKILL when told to stop. Faults happen any number of times but not for ever
  (`FaultsCease`); nothing makes ffmpeg end by itself.
* `JobOutput`: uploads end (S3 requests time out) and the settle timer fires.
* `VodRecording`: the tick runs and storage answers again and again (strong fairness of the
  write of `finalizeVods`). Runs owe nothing.
* `Restream`: timers fire, lookups return, killed processes end; the database answers now and
  then (strong fairness of `SyncApplies`).
* `EventHub`: queries are answered, events that were not lost are delivered, the 30 s timer
  fires, the subscription comes back.
* `ChannelPage`: requests to a server that is up are answered, what the stream sent arrives, its
  timers (reconnect, watchdog, refresh) fire. Nothing is assumed of outages, which are bounded.
* `Player`: what can be loaded is, the retry timer and the watchdog's interval fire. The viewer
  owes nothing.
* `SrtGateway`: handlers go on; the copy ends once its connection is closed, and ffmpeg ends once
  its input has (or it was signalled), not by itself.

`Overlay`, `Accounts` and the studio's modules are checked for safety only.

## Proofs

TLAPS proves the following for all values of the constants, from the constants' assumptions
(`LifecycleAssumption` and so on: naturals, distinct `None`, which TLC evaluates in every run).

| Module | Theorem | Statement |
|---|---|---|
| `LifecycleProofs` | `TypeCorrect`, `OneBroadcastPerChannel`, `OneJobOnCurrentSource`, `NoForeignSource` | `TypeOK` and the invariants of run `lifecycle`, and `OneActiveJob` |
| | `LifecycleKeepsPromise` | `Spec => KeepsPromise`, the refinement of `Sessions` |
| `LeaseAndListProofs` | `LeaseTypeCorrect`, `LeaseExcludesWriters`, `LeaseNamesWriter` | JobLease: `TypeOK` and the invariants of run `job_lease`, assuming `FenceInTime` |
| | `StudioListIsHonest` | Destinations: `ListIsHonest` |
| `RestreamProofs` | `RestreamTypeCorrect`, `StatusHonest`, `OnePush`, `PushesEndWithJob` | `TypeOK` and the invariants of run `restream` |
| `EventHubProofs` | `HubTypeCorrect`, `ViewersAgree`, `QuietIsFresh` | `TypeOK` and the invariants of run `sse` |
| `JobOutputProofs` | `OutputTypeCorrect`, `VisibleStored`, `NoPendingMasterLost` | `TypeOK`, `VisibleIsStored`, `PendingMasterKept` |
| `MediaProofs` | `RecordingTypes`, `RecordingIsComplete`, `RecordingIsAppended`, `LastSegmentsAreRecorded` | VodRecording: `TypeOK`, `NothingMissing`, `RecordingGrows`, `TailRecorded` |
| | `PlansServeEveryone`, `EverybodyWatches` | Ladder: three parts of `EveryBrowserCanWatch`; all of it, assuming `LevelsSuffice` |
| `OwnerProofs` | `NoCodeTwice`, `NobodyIsLockedOut` | Accounts: `CodesOnce`, `OwnerCanSignIn` |
| | `PanelLeaksNothing`, `PanelShowsWhatHappens` | BrowserBroadcast: `NothingLeaks`, `PhaseIsHonest` |
| | `OverlayIsCurrent` | Overlay: `CounterIsCurrent` |
| | `SavesOnlyWhatWasTyped` | StreamInfo: `SavesWhatWasTyped` |
| `EndsProofs` | `StreamRules`, `PauseKept`, `LimitKept`, `RoundsDoNotFlap` | ChannelPage: `StreamHasLastWord`; Player: `PauseIsKept`; SrtGateway: `LimitHolds`; Reconciler: `NoFlapping` |
| | `EndsTypes` | `TypeOK` of the four |

Every invariant and every safety property the passing runs check is stated by one of these theorems.
Where a run puts several parts side by side, the theorem is about the specification of that run
(`MediaSpec`, `OwnerSpec`, `EndsSpec`, `BothSpec`): each part takes the steps of its own `Spec` there
and no others, and the proof goes through that `Spec`.

*Lifecycle.* One active job alone is not inductive: a heal may have read the broadcast long
ago. `HealingOK` says that an open heal stands for the missing job (its broadcast has none) and,
while the broadcast is live, knows the connection on air; handlers cannot commit meanwhile
because of the foreign-key wait. `KeysOK` says that whoever waits for the lock was looked up by
a key that belongs to that channel for ever. For the refinement, `OneActiveBroadcast` makes the
CHOOSE of the mapping unique, and each action is shown to be one abstract action or a stutter.

*JobLease.* The key is `Clock`: whatever a run believes about its lease, the row grants at
least the rest (`LeaseSec <= left + age + ClaimDelay`), and a run that writes has an age below
its fence plus one interval. With `FenceInTime` (`FenceSec + HeartbeatSec + ClaimDelay <
LeaseSec`) a held job is not claimable (`HeldIsNotClaimable`), so `OneHolder` is preserved. The
hypothesis is the design rule behind runner.ts:114-118. It is not an assumption about the code's
constants only: it also needs the answer of a claim to be faster than the slack of one second,
and `job_lease_slow_claim` shows what happens when it is not.

*Restream.* The map of the manager is exact: a push that may still do something and was not told
to stop is on the map under its destination, and what is on the map was not told to stop
(`KnownUntilStopped`, `MapIsCurrent`). Together with "no process was told to stop and runs on",
which holds without name lookups only, two pushes to a destination would be the same map entry.
A sync that acts on an old answer may replace a push, never duplicate it.

*EventHub.* `SameForAll` is inductive together with `OthersAreNew`: whoever is not subscribed was
shown nothing and loads nothing, so a client that returns starts anew. For `QuietMeansFresh`,
`CalmInv` says what stands for freshness that has not arrived yet: as long as nothing failed and
nobody left, a cache that is behind the rows has an event on its way, a reload that reads after
the change, or one queued behind it (`dirty`), and before there is a cache each load of a client
does.

*JobOutput.* What viewers see is the end of a queue, so the invariant speaks of the whole queue
(`Queue`): every segment a queued playlist lists is stored, has failed, or is queued before it
(`Present`); no playlist is queued behind the deletion of a segment it lists (`NotRevived`); and
what a queued deletion removes has left, by the time it runs, whatever is visible (`Deletions`,
`Gone`). `Coming` says the same of the file ffmpeg hands over next; this is where the order of its
files, the window and the threshold enter. Lemmas say what appending to and taking from a queue
does to each. The two conditions of the property are what makes `failed` right: with no fault it
is empty, and for a recorded broadcast nothing is deleted, so nothing is forgotten (`Faults`).

*JobOutput, the master.* `PendingMasterKept` is about the moment the drain ends; the invariant says
where a variant that is ready is until then. Before the drain (`Pending`) it is announced, in the
master under way, or ahead of it is a queued master or the settle timer, and a master lists what is
ready when its turn comes. The drain turns the timer into a queued master and counts what it waits
for, so afterwards (`Promised`) the variant is announced or among those. `Grows` is why nothing is
taken back: each master lists at least what the last one did.

*VodRecording.* The file is rewritten as a whole, so what it has rests on who writes it. A run is over
when it is done with its work and its writes have settled, which may be later. `Alone`: one run at a
time is not over (the runs begin one after the other, `InTurn`); `AtRest`: the control plane reads
when all are. `Grown`: a run at work knows all that is stored, and so does each of its writes; this
alone gives `RecordingGrows`, and it survives crashes, fences and a failed last write. `Kept`: what a
run has recorded is marked dirty, in a write under way, or stored, and the writes a finished run has
left include the one of all its lines; with writes landing in the order they began (`Carried`, `Grown`)
this gives `TailRecorded`. `ShownKept`: what viewers saw is in the lines of the run that is not over,
or stored; the window of the live playlist enters by `NoGap`, which says that no playlist shows a
segment the recording has skipped. Each conjunct names the faults it does not survive, so the proof
also says which property depends on which of them.

*Ladder.* The invariant is that a kept plan knows as many tracks as are sent, and of the audio
(`PlanInv`); the rest is about the planner as an operator: every variant is the source, one of its
tracks or an encode, their directories differ in length or in size, and unless the streamer chose
pass-through one of them is H.264. That the start variant, a `CHOOSE` of the closest to 720p, exists
for every source uses that numbers are well-founded (`Least`). `LevelFits` does not hold for every
size (see the limits below), so `EverybodyWatches` has it as a hypothesis, `LevelsSuffice`, about the
sources and the table of levels alone; the run shows it of the sources it has. The other three parts
are proved without (`PlansServeEveryone`).

*Accounts.* A code is used once because its secret is: `SecretsOnce` says that a secret that was
never in force has accepted nothing, and the one in force has accepted no step after `lastStep`;
`RecoveryOnce` that a recovery code in the row is unused; `CodesInHand` that a code which was checked
and not yet consumed is of a secret made before. For `OwnerCanSignIn`,
whoever confirms a factor sends a code of the authenticator, and the pending secret he was checked
against is the one of that code (`AtSetup`), so the secret in force was scanned unless the pending one
was written between that check and the UPDATE (`SecretScanned`, `user.overtaken`); and the recovery
codes in the row have been seen, are in an answer under way, or were lost with one (`CodesKnown`).
Any number of devices set up, confirm and turn off the factor, and any number of requests go on
unheard.

*BrowserBroadcast.* Every session that may send is the one in the refs or is being started
(`RefsHold`); one that is being started has the panel to itself, or was cancelled by a step that put
the phase back (`StartHolds`); while a capture is asked for nothing else is held (`CaptureHolds`);
a session that was handed over sends, with its media in the refs (`SessionHolds`). Both properties
follow from these, and none of them without the others.

*Overlay.* At rest, what is cached and shown is the channel's but for the events on their way
(`RestHolds`), and `LastCount` says of these that the last count among them is right; while a load is
under way, its answer, or what is cached, will be (`TaskHolds`). `raced` names the overlaps for which
this is not so.

*StreamInfo.* A field nobody has touched is what is stored, in the form and in its baseline
(`Untouched`); an answer that is put together has what is stored, in each part it has read
(`Answers`). Both are said per setting, and of those that nothing has crossed: a write crosses the
settings it sets, until the form has shown what is stored with nothing under way.

*Destinations.* `ListIsHonest` speaks of moments with nothing under way, so the invariant (`Honest`)
says what each request under way is going to do: an addition that was served is not listed yet and its
row is the stored one (`Added`), a deleted destination has no row (`Deleted`), the list and the table
differ in what is being added or deleted only (`Listed`), and a destination whose row and entry
differ has an update under way that will show, or put back, what is stored (`Values`). `Dialogs` keeps
the requests of a dialog to one, and `Space` says that an addition that was counted has room until a
second one was counted beside it.

*ChannelPage.* Answers of GETs are taken while the page holds its stream for dead.
`StreamHasLastWord` is inductive together with `Healthy`: whoever declares a stream dead takes its
word from it in the same step.

*Player.* `PauseIsKept` is an action property and needs types only; the work is in the actions: each
of the engine's, the element's and the network's leaves a paused video paused or was the viewer's
own (`Kept`).

*SrtGateway.* The counter is the cardinality of the set of sessions, by lemmas on what one more
and one less does to it; `Room` says that the sessions and the handshakes past the check pass the limit by
no more than the most handshakes one was beside when it passed (`beside`).

*Reconciler.* A round judges by what it heard from the nodes it asked: `HeardOf` says that a source
that was on air and reachable since the round began is on a node it is yet to ask, or was seen, so
what the round does not know at the end was lost in between. Sources have a newest one among those
that have been on air (`HasNewest`), which is the one a round puts in place.

Checked by TLC only: `LevelFits`, one part of `EveryBrowserCanWatch`; and every liveness property,
since fairness and ENABLED are out of the prover's reach.

## Known limits of the code

Properties state what holds, with the conditions under which it does. Those conditions are not
decoration; beyond them the code does the following.

* *Lease.* `updateBroadcastSource` and `markBroadcastReady` (queue.ts:112-125) write the
  broadcast row by its id, without the lease token, also from a run that has lost its claim. A
  claim whose answer arrives when the pool is closing is not handed back (main.ts:61-90): the
  job waits for its lease to expire.
* *Reconciliation.* A node that is cut off from the loop only is declared dead by its failures
  while its publishers stay on air (loop.ts:124). The replacement of a source that vanished may
  override a takeover that arrived during the round. `finalizeVods` finishes the variants of the
  last plan only (loop.ts:245).
* *Publisher.* A master whose write or announcement fails is not queued again (output.ts:236;
  `ReadyIsAnnounced` excludes it). An init segment that fails stays referenced by `EXT-X-MAP`
  (output.ts:101). A variant that becomes ready while the job drains queues a master write nobody
  waits for (`PendingMasterKept` speaks of those ready when the drain began).
* *Recording.* A failed read of the earlier recording counts as no recording (vod.ts:110), and
  the next flush overwrites it. The segments of the last flush interval of a crashed worker are
  listed by nobody. The last flush waits for its own write only, and for none when nothing is new
  (vod.ts:141), so a run may be done before the timer's write has its tail stored, and that write may
  land after the last one (`overtake`), or fail, and nobody repeats it. Two
  runs that overlap lose each other's segments. Each is one of `faults`. Segment numbers begin at
  the seconds of the epoch, so a run on a host whose clock is behind (vod.ts:123) may repeat them.
* *Ladder.* 854x480 at 30 frames is given level 3.0, whose 40500 macroblocks per second it
  exceeds (48600); a level goes by the product of the sides, so 770x530 is given level 3.0 and has
  1666 macroblocks, where 1620 are allowed (`LevelsSuffice`). A track of the source's size is
  dropped whatever its codec (ladder.ts:173), so
  HEVC with an H.264 track of equal size is encoded anyway. Only the long side is made even
  (ladder.ts:121).
* *Channel events.* The cache may hold a load that is older than the one a new client made
  (sse.ts:54); the resync repairs it, which is why `QuietMeansFresh` asks for no leaves. A
  client whose own first load failed is shown nothing until something changes (public.ts:63). A
  client that goes away while its channel is looked up stays subscribed (public.ts:62).
* *Overlay.* A second page's load makes an event look as if it had been shown, so the counter of
  the first may stay after the broadcast: "only while the broadcast is on" (OverlayPanel.tsx:91)
  does not hold in the end (`CounterOnlyWhileLive`, stated and not run; TLC refutes it under
  `FairSpec`). A reset of the address cuts the connections of the replica that serves it only, and
  no lookup under way (routes/overlay.ts:44). After an outage of Redis nothing is read anew.
* *Accounts.* A confirmation reads the pending secret (account.ts:95) and later makes whatever is
  pending the secret (101): a setup beside it puts a secret in force that no code was checked for, and
  another confirmation, or turning the factor off, beside it leaves an account that asks for a factor
  without a secret (101, 116). `user.overtaken` names this window, and `OwnerCanSignIn` excludes
  nothing else. A code used while the factor is being turned off may be accepted
  again later (`uses` begins anew). A login that has read the old password may insert its session
  after the password was changed (account.ts:38). A refresh that was under way at a logout shows
  the page as signed in (auth.tsx:35-51). Two "sign out the others" side by side sign each other
  out. If the answer that enables the factor is lost, so are its recovery codes (`lost`); the
  authenticator still works.
* *Player.* A pause by media keys is not the viewer's for the watchdog, which starts playback
  again. A recording has no watchdog; the one of a live stream acts at 10 s, before the longest
  back-off of 15 s. `recoverMediaError` may leave a recording paused. A rebuild by the native
  engine starts a recording from where it was when the page was opened (`RebuildContinues`,
  Player.tsx:329, stated and not run).
* *Broadcast from the browser.* A panel that is unmounted while `start()` is under way leaves a
  session sending that nobody ends (`LeavesCleanly`, BrowserBroadcast.tsx:260, stated and not run);
  `ui.raced` names what the checked properties exclude.
* *Destinations.* `rowBusy` is one id (RestreamPanel.tsx:79): two updates of one destination side
  by side may leave the list wrong. The limit is counted before the insert (restreams.ts:55). What
  other tabs write is seen at the next visit.
* *Stream information.* A form that is being edited takes a new baseline and keeps the values of
  the fields nobody touched (StreamInfoForm.tsx:79-86), so after another tab's save, or an answer
  that crossed a save, it writes the old value of an untouched field back. What is typed while a
  save is under way is overwritten by its answer (105-117), and a poll that was read before a save
  takes the form back. `form.crossed` names the settings for which this may be so, until the form
  has shown what is stored with nothing under way.
* *SRT gateway.* Handshakes side by side pass the limit together (main.go:119, 145): by as
  many as there were (`beside`).
  An ffmpeg that hangs after the end of its input holds its session until the shutdown.

## Not modelled

* *Other pages of the web client* (directory, search, profile, settings, list of videos): a GET or
  a form each, with little state of their own.
* *Follows, notifications, public lists, housekeeping*: one statement or transaction per request;
  what they change that matters to a model (a key reset, a destination, a follow's alert) is an
  action there.
* *Viewer counting* (presence in Redis, peaks, samples): a count and its event are the
  environment of `EventHub`.
* *HLS receiver, ffmpeg command lines, probing*: input and output of an external program. The
  order in which ffmpeg hands over files is external in `JobOutput`.
* *`lib/`*: wrappers; row locks, single statements and whole-object writes are the grain of the
  actions. *`deploy/`* other than the gateway: configuration of external programs.
* *Inside the modelled parts*: byte limit of the upload backlog and retry delays, init segments,
  back-off of pushes, slots and degraded claims of a worker, codec strings, bitrates, the shape of
  codes and stream ids, rate limits, expiry of sessions, quality menu and layout.

## Plan

Done: the control plane and the workers (Lifecycle with Sessions, JobLease, JobOutput,
VodRecording, Ladder, Restream, Reconciler), the API and its clients (EventHub, Overlay, Accounts
with AccountPages, ChannelPage, Player, BrowserBroadcast, Destinations, StreamInfo), the SRT
gateway, and the proofs listed above.

What could follow:

1. Composition of Lifecycle and JobLease: the worker's actions on a job row in Lifecycle shown to
   be implemented by the lease protocol; of Lifecycle and Reconciler, whose row is one channel's.
2. An abstract specification shared by EventHub and Overlay: a client is shown only states the
   channel had, and the last one in the end.
3. Viewer presence and counting.
4. Proofs: that `EventHub` and `Overlay` implement it, step by step; `OwnerCanSignIn` without
   `overtaken`, once account.ts locks the row.
