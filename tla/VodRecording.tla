---------------------------- MODULE VodRecording ----------------------------
(***************************************************************************)
(* The recording of one variant of a broadcast: server/src/worker/vod.ts   *)
(* run after run, and finalizeVods of server/src/control/loop.ts.  Every   *)
(* run of the transcode job loads vod.m3u8, adds the segments of the live  *)
(* playlists it uploads and writes the whole file again; the control plane *)
(* writes the last version.  A playlist is the set of the segments it      *)
(* lists; segment numbers grow from run to run (start number "epoch").     *)
(***************************************************************************)
EXTENDS Naturals, FiniteSets

CONSTANTS
  MaxRun,    \* bound: runs of the job
  MaxSeg,    \* bound: segments of the broadcast
  MaxPuts,   \* bound: writes of a run that are under way
  Window,    \* -hls_list_size
  FaultSets  \* what may go wrong beside writes of a run that goes on

VodAssumption ==
  /\ MaxRun \in Nat /\ MaxSeg \in Nat /\ MaxPuts \in Nat /\ Window \in Nat \ {0}
  \* get: the first read fails.  crash: a worker dies.  fence: a worker loses
  \* its lease.  overtake: of two writes under way the later one may land first.
  \* overlap: the next run, or the end, does not wait until a run has ended and
  \* its writes have landed.  tail: the last write of a run may fail.
  /\ FaultSets \subseteq SUBSET {"get", "crash", "fence", "overtake", "overlap", "tail"}

Runs     == 1..MaxRun
Segments == 1..MaxSeg

VARIABLES
  phase,       \* where a run stands
  lines,       \* VariantState.lines
  dirty,       \* VariantState.dirty
  puts,        \* vod.m3u8 writes under way, by run
  made,        \* segments a run has produced
  last,        \* segments produced so far
  shown,       \* segments that were in an uploaded live playlist
  stored,      \* vod.m3u8 in object storage
  ended,       \* broadcast.status = 'ended'
  reading,     \* finalizeVods between its read and its write
  finalized,   \* broadcast.vod_finalized_at is set
  faults       \* what may go wrong in this behaviour

runVars == <<phase, lines, dirty, puts, made>>
endVars == <<ended, reading, finalized, faults>>
vars == <<runVars, last, shown, stored, endVars>>

\* "done" after the last flush, "gone" without one.
Phases == {"none", "resuming", "recording", "draining", "fenced", "flushing", "done", "gone"}

Playlist(segs, final) == [segs |-> segs, final |-> final]
NoFile == Playlist({}, FALSE)

\* The read of finalizeVods that has not begun.
NotReading == {0}

Init ==
  /\ phase = [r \in Runs |-> "none"] /\ lines = [r \in Runs |-> {}]
  /\ dirty = [r \in Runs |-> FALSE] /\ puts = [r \in Runs |-> {}]
  /\ made = [r \in Runs |-> {}] /\ last = 0 /\ shown = {}
  /\ stored = NoFile
  /\ ended = FALSE /\ reading = NotReading /\ finalized = FALSE
  /\ faults \in FaultSets

Goto(r, p) == phase' = [phase EXCEPT ![r] = p]

-----------------------------------------------------------------------------
(* A run of the job *)

\* A run has ended and its writes have landed or are lost.
Over(r) == phase[r] \in {"none", "done", "gone"} /\ puts[r] = {}

\* The control plane ends the job of a run, or its lease is lost, before the
\* worker and its writes are done with it.
LosesJob(r) ==
  "overlap" \in faults /\ phase[r] \in {"draining", "fenced", "flushing", "done", "gone"}

\* The job is claimed.
Start(r) ==
  /\ ~ ended /\ phase[r] = "none"
  /\ \A q \in Runs : q < r => phase[q] # "none" /\ (Over(q) \/ (q + 1 = r /\ LosesJob(q)))
  /\ Goto(r, "resuming")
  /\ UNCHANGED <<lines, dirty, puts, made, last, shown, stored, endVars>>

\* Mutant: the recording starts anew with every run.
StartsAnew == {}
\* What earlier runs recorded.
Recorded == stored.segs

\* resume(): a failed read is taken for a missing file.
Resume(r) ==
  /\ phase[r] = "resuming"
  /\ \/ lines' = [lines EXCEPT ![r] = Recorded]
     \/ "get" \in faults /\ lines' = [lines EXCEPT ![r] = {}]
  /\ Goto(r, "recording")
  /\ UNCHANGED <<dirty, puts, made, last, shown, stored, endVars>>

\* ffmpeg closes a segment.
Produce(r) ==
  /\ phase[r] = "recording" /\ last < MaxSeg
  /\ last' = last + 1
  /\ made' = [made EXCEPT ![r] = @ \cup {last + 1}]
  /\ UNCHANGED <<phase, lines, dirty, puts, shown, stored, endVars>>

Listed(r) == {k \in made[r] : \A n \in made[r] : n < k + Window}

\* Mutant: the segment numbers are read off by one.
OffByOne(r) == {k + 1 : k \in Listed(r)}
\* seg.seq > lastSeq
Fresh(r) == {k \in Listed(r) : \A n \in lines[r] : n < k}

\* A live playlist is uploaded, also while the run drains.  One whose upload
\* fails is not taken over: the action does not happen.
OnPlaylist(r) ==
  /\ phase[r] \in {"recording", "draining"}
  /\ Listed(r) # {}
  /\ shown' = shown \cup Listed(r)
  /\ lines' = [lines EXCEPT ![r] = @ \cup Fresh(r)]
  /\ dirty' = [dirty EXCEPT ![r] = @ \/ Fresh(r) # {}]
  /\ UNCHANGED <<phase, puts, made, last, stored, endVars>>

\* A write begins, beside those under way: it carries the whole recording.
Write(r) ==
  /\ Cardinality(puts[r]) < MaxPuts
  /\ dirty' = [dirty EXCEPT ![r] = FALSE]
  /\ puts' = [puts EXCEPT ![r] = @ \cup {lines[r]}]

\* flush() every ten seconds, until the drain is over or ffmpeg has exited.
Flush(r) ==
  /\ phase[r] \in {"recording", "draining", "fenced"} /\ dirty[r]
  /\ Write(r)
  /\ UNCHANGED <<phase, lines, made, last, shown, stored, endVars>>

\* ffmpeg exits: the stream is over, or the job is given back.
Stop(r) ==
  /\ phase[r] = "recording" /\ Goto(r, "draining")
  /\ UNCHANGED <<lines, dirty, puts, made, last, shown, stored, endVars>>

\* The last flush waits for its own write only ...
FinalFlush(r) ==
  /\ phase[r] = "draining" /\ dirty[r]
  /\ Write(r) /\ Goto(r, "flushing")
  /\ UNCHANGED <<lines, made, last, shown, stored, endVars>>

\* ... and for none when nothing is new, whatever the timer has begun to write.
NothingToFlush(r) ==
  /\ phase[r] = "draining" /\ ~ dirty[r]
  /\ Goto(r, "done")
  /\ UNCHANGED <<lines, dirty, puts, made, last, shown, stored, endVars>>

\* The write a last flush waits for is the one of all its lines.
Awaited(r, segs) == phase[r] = "flushing" /\ segs = lines[r]
AfterWrite(r, segs) == IF Awaited(r, segs) THEN Goto(r, "done") ELSE UNCHANGED phase

\* Mutant: what is recorded while a write is under way counts as written.
CleanWhenLanded(r) == [dirty EXCEPT ![r] = FALSE]
\* dirty was cleared when the write began.
AsItIs(r) == dirty

\* The writes of a run land in the order they began, unless one overtakes.
Land(r) == \E segs \in puts[r] :
  /\ "overtake" \in faults \/ \A other \in puts[r] : segs \subseteq other
  /\ puts' = [puts EXCEPT ![r] = @ \ {segs}]
  /\ stored' = Playlist(segs, FALSE)
  /\ dirty' = AsItIs(r)
  /\ AfterWrite(r, segs)
  /\ UNCHANGED <<lines, made, last, shown, endVars>>

\* Mutant: a failed write is forgotten.
NoRetry(r) == dirty
\* "retry on the next flush"
Retry(r) == [dirty EXCEPT ![r] = TRUE]

\* The write of all the lines, when there is no next flush.
LastWrite(r, segs) == phase[r] \in {"flushing", "done"} /\ segs = lines[r]

PutFails(r) == \E segs \in puts[r] :
  /\ "tail" \in faults \/ ~ LastWrite(r, segs)
  /\ puts' = [puts EXCEPT ![r] = @ \ {segs}]
  /\ dirty' = Retry(r)
  /\ AfterWrite(r, segs)
  /\ UNCHANGED <<lines, made, last, shown, stored, endVars>>

\* The lease is lost: nothing is drained, but the timer runs till ffmpeg exits.
Fence(r) ==
  /\ "fence" \in faults /\ phase[r] = "recording" /\ Goto(r, "fenced")
  /\ UNCHANGED <<lines, dirty, puts, made, last, shown, stored, endVars>>

FenceEnds(r) ==
  /\ phase[r] = "fenced" /\ Goto(r, "gone")
  /\ UNCHANGED <<lines, dirty, puts, made, last, shown, stored, endVars>>

\* A write that is under way may still land, or be lost.
Crash(r) ==
  /\ "crash" \in faults /\ phase[r] \notin {"none", "done", "gone"}
  /\ Goto(r, "gone")
  /\ \E left \in SUBSET puts[r] : puts' = [puts EXCEPT ![r] = left]
  /\ UNCHANGED <<lines, dirty, made, last, shown, stored, endVars>>

-----------------------------------------------------------------------------
(* The control plane *)

\* finalizeExpired, when the reconnect grace period is over: 30 s, and the job
\* ended when it began, so the runs and their writes are over by then, unless one
\* takes longer ("overlap").
End ==
  /\ ~ ended /\ \A r \in Runs : Over(r) \/ LosesJob(r)
  /\ ended' = TRUE
  /\ UNCHANGED <<runVars, last, shown, stored, reading, finalized, faults>>

\* status = 'ended' AND vod_finalized_at IS NULL
Due == ended /\ ~ finalized

FinalizeReads ==
  /\ Due /\ reading = NotReading
  /\ reading' = stored.segs
  /\ UNCHANGED <<runVars, last, shown, stored, ended, finalized, faults>>

\* Mutant: a broadcast without a recording is left for the next tick.
NotDone(segs) == finalized' = (segs # {})
\* vod_finalized_at is set, also when there was nothing to read.
Done(segs) == finalized' = TRUE

\* A missing file is passed over.
Finished == IF reading = {} THEN stored ELSE Playlist(reading, TRUE)

FinalizeWrites ==
  /\ reading # NotReading
  /\ stored' = Finished
  /\ Done(reading) /\ reading' = NotReading
  /\ UNCHANGED <<runVars, last, shown, ended, faults>>

\* A failed read, write or update of the row ends the step; the next tick tries again.
FinalizeFails ==
  /\ reading # NotReading /\ reading' = NotReading
  /\ stored' \in {stored, Finished}
  /\ UNCHANGED <<runVars, last, shown, ended, finalized, faults>>

-----------------------------------------------------------------------------
Ending(r) ==
  \/ FinalFlush(r) \/ NothingToFlush(r) \/ Land(r) \/ FenceEnds(r)

Run(r) ==
  \/ Start(r) \/ Resume(r) \/ Produce(r) \/ OnPlaylist(r) \/ Flush(r) \/ Stop(r)
  \/ Ending(r) \/ PutFails(r) \/ Fence(r) \/ Crash(r)

Next ==
  \/ \E r \in Runs : Run(r)
  \/ End \/ FinalizeReads \/ FinalizeWrites \/ FinalizeFails

Spec == Init /\ [][Next]_vars

\* The tick runs every two seconds and storage answers again and again.
Fairness == WF_vars(FinalizeReads) /\ SF_vars(FinalizeWrites)

FairSpec == Spec /\ Fairness

-----------------------------------------------------------------------------
(* Properties *)

TypeOK ==
  /\ phase \in [Runs -> Phases] /\ lines \in [Runs -> SUBSET Segments]
  /\ dirty \in [Runs -> BOOLEAN] /\ puts \in [Runs -> SUBSET SUBSET Segments]
  /\ made \in [Runs -> SUBSET Segments] /\ last \in 0..MaxSeg
  /\ shown \subseteq Segments
  /\ stored \in [segs : SUBSET Segments, final : BOOLEAN]
  /\ ended \in BOOLEAN /\ finalized \in BOOLEAN
  /\ reading \in (SUBSET Segments) \cup {NotReading}

\* "append-only playlist" that "survives failovers" (vod.ts:1-4): no run takes
\* back what an earlier run, or itself, has recorded, whether workers crash, lose
\* their lease or fail to write.  A failed read, writes that overtake each other
\* and runs that overlap do take it back.
RecordingGrows ==
  [][faults \subseteq {"crash", "fence", "tail"} => stored.segs \subseteq stored'.segs]_vars

\* "listing every segment of the broadcast" (vod.ts:2): a finished recording has
\* every segment that viewers could play live, unless one of the faults struck
\* (failed writes of a run that goes on are none).
NothingMissing == finalized /\ faults = {} => shown \subseteq stored.segs

\* "the recording includes the very last segments" (runner.ts:296).  Not yet when
\* the run is done: a write of the timer may still carry them (vod.ts:141).  But
\* when the writes of a run that ended in order have settled, every line is stored,
\* if none failed that nobody repeats and none was overtaken.
TailRecorded ==
  [][faults \subseteq {"get", "fence"} =>
       \A r \in Runs : ~ Over(r) /\ Over(r)' /\ phase'[r] = "done"
         => lines[r] \subseteq stored'.segs]_vars

\* Every ended broadcast is finalized at last, recorded or not, and then nobody
\* overwrites the finished recording, as long as no worker still flushes (loop.ts:242).
Finalizes ==
  /\ ended ~> finalized
  /\ [][finalized /\ "overlap" \notin faults => stored' = stored]_vars

=============================================================================
