----------------------------- MODULE JobOutput -----------------------------
(***************************************************************************)
(* The publisher of one transcode job: server/src/worker/output.ts.        *)
(* ffmpeg hands over segments, playlists and deletions; every variant has  *)
(* a chain of uploads that run one at a time and in order, and the master  *)
(* playlist has one of its own.  Segments are numbers, a playlist is the   *)
(* set of segments it lists, the master the set of variants it lists.      *)
(***************************************************************************)
EXTENDS Naturals, Sequences

CONSTANTS
  Videos,        \* video variants of the ladder plan
  Audio,         \* set of the audio variant: one element, or none
  MaxSeg,        \* bound: segments per variant
  Lengths,       \* bound: how many segments each variant makes in a run of TLC
  Window,        \* -hls_list_size
  Threshold,     \* -hls_delete_threshold
  FaultSets      \* kinds of writes that may fail for good: one set per job

ASSUME JobOutputAssumption ==
  /\ MaxSeg \in Nat /\ Window \in Nat \ {0} /\ Threshold \in Nat
  /\ FaultSets \subseteq SUBSET {"segment", "playlist", "delete", "master", "announce"}
  /\ Lengths \subseteq [Videos \cup Audio -> 0..MaxSeg]
  /\ "_master" \notin Videos \cup Audio

Variants == Videos \cup Audio
Chains   == Variants \cup {"_master"}
Segments == 1..MaxSeg

VARIABLES
  keep, faults, length,   \* the job: is it recorded, what may fail, its bound
  made, hand,    \* ffmpeg: last segment of a variant, and what it hands over next
  chain, busy,   \* queued tasks, and the chains whose first task is under way
  failed,        \* failedSegments
  ready,         \* readyVariants
  settled, timer,
  closed, aborted,
  published,     \* publishedSignature
  announced,     \* variants of the last onReady: the broadcast row
  waits, readyAtDrain,   \* drain(): tasks it waits for; ready variants it found
  drained,
  segs, list, master     \* object storage

jobVars    == <<keep, faults, length>>
ffmpegVars == <<jobVars, made, hand>>
storeVars  == <<segs, list, master, announced>>
masterVars == <<settled, timer, published>>
endVars    == <<closed, aborted, waits, readyAtDrain, drained>>
vars == <<ffmpegVars, chain, busy, failed, ready, masterVars, endVars, storeVars>>

Tasks == [kind : {"segment", "playlist", "delete", "master"},
          what : (SUBSET Segments) \cup (SUBSET Videos)]

Task(kind, what) == [kind |-> kind, what |-> what]

Init ==
  /\ keep \in BOOLEAN /\ faults \in FaultSets /\ length \in Lengths
  /\ made = [v \in Variants |-> 0] /\ hand = [v \in Variants |-> "segment"]
  /\ chain = [c \in Chains |-> <<>>] /\ busy = {}
  /\ failed = [v \in Variants |-> {}] /\ ready = {}
  /\ settled = FALSE /\ timer = FALSE /\ published = {} /\ announced = {}
  /\ closed = FALSE /\ aborted = FALSE
  /\ waits = [c \in Chains |-> 0] /\ readyAtDrain = {} /\ drained = FALSE
  /\ segs = [v \in Variants |-> {}] /\ list = [v \in Variants |-> {}]
  /\ master = {}

-----------------------------------------------------------------------------
(* ffmpeg: each segment, then the playlist that lists it, then the deletion *)
(* of the one that fell out of the window, if any                           *)

\* if (this.closed) return
Accepts == ~ closed

\* A promise chain per variant: one upload at a time, in the order of calls.
Enqueue(c, task) == chain' = [chain EXCEPT ![c] = Append(@, task)]

Listed(n)  == {k \in 1..n : n < k + Window}
Expired(n) == {k \in 1..n : n = k + Window + Threshold}

WriteSegment(v) ==
  /\ hand[v] = "segment" /\ made[v] < length[v] /\ Accepts
  /\ made' = [made EXCEPT ![v] = @ + 1]
  /\ hand' = [hand EXCEPT ![v] = "playlist"]
  /\ Enqueue(v, Task("segment", {made[v] + 1}))
  /\ UNCHANGED <<jobVars, busy, failed, ready, masterVars, endVars, storeVars>>

WritePlaylist(v) ==
  /\ hand[v] = "playlist" /\ Accepts
  /\ hand' = [hand EXCEPT ![v] = IF keep \/ Expired(made[v]) = {}
                                 THEN "segment" ELSE "delete"]
  /\ Enqueue(v, Task("playlist", Listed(made[v])))
  /\ UNCHANGED <<jobVars, made, busy, failed, ready, masterVars, endVars, storeVars>>

\* onDelete forgets at once that the segment failed, and queues the deletion.
DeleteSegment(v) ==
  /\ hand[v] = "delete" /\ Accepts
  /\ hand' = [hand EXCEPT ![v] = "segment"]
  /\ failed' = [failed EXCEPT ![v] = @ \ Expired(made[v])]
  /\ Enqueue(v, Task("delete", Expired(made[v])))
  /\ UNCHANGED <<jobVars, made, busy, ready, masterVars, endVars, storeVars>>

-----------------------------------------------------------------------------
(* Upload chains *)

\* All master writes go through one chain.
MasterChain(v) == "_master"

MasterTask == Task("master", {})

Popped(c)  == [chain EXCEPT ![c] = Tail(@)]
Counted(c) == [waits EXCEPT ![c] = IF @ = 0 THEN 0 ELSE @ - 1]

Idle(c) == c \notin busy /\ chain[c] # <<>> /\ ~ aborted

\* Mutant: the playlist is uploaded as ffmpeg wrote it.
Verbatim(v, ks) == ks
\* withoutSegments, when the upload starts
WithoutFailed(v, ks) == ks \ failed[v]

StartMedia(c) ==
  /\ Idle(c) /\ Head(chain[c]).kind # "master"
  /\ busy' = busy \cup {c}
  /\ chain' = IF Head(chain[c]).kind = "playlist"
              THEN [chain EXCEPT ![c][1] = Task("playlist", WithoutFailed(c, @.what))]
              ELSE chain
  /\ UNCHANGED <<ffmpegVars, failed, ready, masterVars, endVars, storeVars>>

\* plan.variants.filter(ready)
ReadyVideos == Videos \cap ready

\* Mutant: the settle timer has no effect.
NeverSettles == closed \/ ReadyVideos = Videos
\* "Give slower variants a moment so the first master is complete"
Settles  == settled \/ closed \/ ReadyVideos = Videos
Playable == Audio \subseteq ready /\ ReadyVideos # {}

\* maybePublishMaster: nothing to publish yet ...
SkipMaster(c) ==
  /\ Idle(c) /\ Head(chain[c]).kind = "master"
  /\ \/ ~ Playable /\ UNCHANGED masterVars
     \/ Playable /\ ~ Settles /\ timer' = TRUE /\ UNCHANGED <<settled, published>>
     \/ /\ Playable /\ Settles /\ ReadyVideos = published
        /\ settled' = TRUE /\ timer' = FALSE /\ UNCHANGED published
  /\ chain' = Popped(c) /\ waits' = Counted(c)
  /\ UNCHANGED <<ffmpegVars, busy, failed, ready, closed, aborted, readyAtDrain,
                 drained, storeVars>>

\* ... or everything that is ready now.
StartMaster(c) ==
  /\ Idle(c) /\ Head(chain[c]).kind = "master"
  /\ Playable /\ Settles /\ ReadyVideos # published
  /\ settled' = TRUE /\ timer' = FALSE
  /\ busy' = busy \cup {c}
  /\ chain' = [chain EXCEPT ![c][1] = Task("master", ReadyVideos)]
  /\ UNCHANGED <<ffmpegVars, failed, ready, published, endVars, storeVars>>

Finish(c) ==
  /\ c \in busy /\ busy' = busy \ {c}
  /\ waits' = Counted(c)
  /\ UNCHANGED <<ffmpegVars, settled, timer, closed, aborted, readyAtDrain, drained>>

FinishSegment(v) ==
  /\ Finish(v) /\ Head(chain[v]).kind = "segment" /\ chain' = Popped(v)
  /\ \/ /\ segs' = [segs EXCEPT ![v] = @ \cup Head(chain[v]).what]
        /\ UNCHANGED failed
     \/ /\ "segment" \in faults /\ ~ aborted     \* all retries used up
        /\ failed' = [failed EXCEPT ![v] = @ \cup Head(chain[v]).what]
        /\ UNCHANGED segs
     \/ aborted /\ UNCHANGED <<failed, segs>>
  /\ UNCHANGED <<ready, published, announced, list, master>>

\* A first playlist with media makes the variant ready and queues a master.
FinishPlaylist(v) ==
  /\ Finish(v) /\ Head(chain[v]).kind = "playlist"
  /\ \/ LET first == Head(chain[v]).what # {} /\ v \notin ready
            m     == MasterChain(v)
        IN  /\ list' = [list EXCEPT ![v] = Head(chain[v]).what]
            /\ ready' = IF first THEN ready \cup {v} ELSE ready
            /\ chain' = IF first /\ ~ aborted
                        THEN [Popped(v) EXCEPT ![m] = Append(@, MasterTask)]
                        ELSE Popped(v)
     \/ /\ "playlist" \in faults \/ aborted
        /\ chain' = Popped(v) /\ UNCHANGED <<list, ready>>
  /\ UNCHANGED <<failed, published, announced, segs, master>>

FinishDelete(v) ==
  /\ Finish(v) /\ Head(chain[v]).kind = "delete" /\ chain' = Popped(v)
  /\ \/ segs' = [segs EXCEPT ![v] = @ \ Head(chain[v]).what]
     \/ ("delete" \in faults \/ aborted) /\ UNCHANGED segs
  /\ UNCHANGED <<failed, ready, published, announced, list, master>>

\* "only after the write succeeded"
Written(vs) == master' = vs /\ published' = vs

\* The master, then its signature, then onReady: any of them may fail.
FinishMaster(c) ==
  /\ Finish(c) /\ Head(chain[c]).kind = "master" /\ chain' = Popped(c)
  /\ LET vs == Head(chain[c]).what IN
     \/ Written(vs) /\ announced' = vs
     \/ /\ "announce" \in faults \/ aborted
        /\ Written(vs) /\ UNCHANGED announced
     \/ /\ "master" \in faults \/ aborted
        /\ master' \in {master, vs} /\ UNCHANGED <<published, announced>>
  /\ UNCHANGED <<failed, ready, segs, list>>

\* settleMs are over.
Settle ==
  /\ timer /\ ~ settled /\ ~ closed
  /\ settled' = TRUE
  /\ Enqueue("_master", MasterTask)
  /\ UNCHANGED <<ffmpegVars, busy, failed, ready, timer, published, endVars, storeVars>>

-----------------------------------------------------------------------------
(* End of the job *)

\* Mutant: a pending first master is forgotten.
NoLastMaster == chain
\* "Don't lose a pending first master"
LastMaster == IF timer THEN [chain EXCEPT !["_master"] = Append(@, MasterTask)]
              ELSE chain

\* drain(): no more files; waits for the uploads queued at this moment.
Drain ==
  /\ ~ closed
  /\ closed' = TRUE /\ timer' = FALSE
  /\ chain' = LastMaster
  /\ waits' = [c \in Chains |-> Len(chain'[c])]
  /\ readyAtDrain' = ready
  /\ UNCHANGED <<ffmpegVars, busy, failed, ready, settled, published, aborted,
                 drained, storeVars>>

Waited == \A c \in Chains : waits[c] = 0

\* What is still queued is given up: only writes under way can land.
Dropped == [c \in Chains |-> IF c \in busy THEN <<Head(chain[c])>> ELSE <<>>]

DrainEnds ==
  /\ closed /\ ~ aborted /\ ~ drained
  /\ drained' = TRUE
  /\ IF \A c \in Chains : chain[c] = <<>>
     THEN UNCHANGED <<chain, aborted>>
     ELSE chain' = Dropped /\ aborted' = TRUE
  /\ UNCHANGED <<ffmpegVars, busy, failed, ready, masterVars, closed, waits,
                 readyAtDrain, storeVars>>

DrainWaited   == Waited /\ DrainEnds
DrainTimesOut == ~ Waited /\ DrainEnds

\* Fenced off, stuck, or the run is over.
Abort ==
  /\ ~ aborted
  /\ closed' = TRUE /\ aborted' = TRUE /\ timer' = FALSE
  /\ chain' = Dropped
  /\ UNCHANGED <<ffmpegVars, busy, failed, ready, settled, published, waits,
                 readyAtDrain, drained, storeVars>>

-----------------------------------------------------------------------------
Uploads(c) ==
  \/ StartMedia(c) \/ SkipMaster(c) \/ StartMaster(c)
  \/ c \in Variants /\ (FinishSegment(c) \/ FinishPlaylist(c) \/ FinishDelete(c))
  \/ FinishMaster(c)

Next ==
  \/ \E v \in Variants : WriteSegment(v) \/ WritePlaylist(v) \/ DeleteSegment(v)
  \/ \E c \in Chains : Uploads(c)
  \/ Settle \/ Drain \/ DrainWaited \/ DrainTimesOut \/ Abort

Spec == Init /\ [][Next]_vars

\* Every upload ends (S3 requests time out) and every timer fires.
Fairness == WF_vars(Settle) /\ \A c \in Chains : WF_vars(Uploads(c))

FairSpec == Spec /\ Fairness

-----------------------------------------------------------------------------
(* Properties *)

TypeOK ==
  /\ keep \in BOOLEAN /\ faults \in FaultSets /\ length \in Lengths
  /\ made \in [Variants -> 0..MaxSeg]
  /\ hand \in [Variants -> {"segment", "playlist", "delete"}]
  /\ chain \in [Chains -> Seq(Tasks)] /\ busy \subseteq Chains
  /\ failed \in [Variants -> SUBSET Segments]
  /\ ready \subseteq Variants /\ readyAtDrain \subseteq Variants
  /\ published \subseteq Videos /\ announced \subseteq Videos /\ master \subseteq Videos
  /\ settled \in BOOLEAN /\ timer \in BOOLEAN /\ drained \in BOOLEAN
  /\ closed \in BOOLEAN /\ aborted \in BOOLEAN
  /\ waits \in [Chains -> Nat]
  /\ segs \in [Variants -> SUBSET Segments] /\ list \in [Variants -> SUBSET Segments]

\* "Never publish a playlist entry whose segment failed to upload"
\* (output.ts:108): whenever a playlist becomes visible, every segment it lists
\* is in storage, also when uploads fail, lag behind ffmpeg or are cut off.
PublishesPresent ==
  \A v \in Variants : list'[v] # list[v] => list'[v] \subseteq segs[v]

NeverPublishMissing == [][PublishesPresent]_vars

\* "Queued behind the uploads of this variant, so we never delete before
\* writing" (output.ts:128): while no write fails, viewers can fetch every
\* segment of the playlist they see, even with no delete threshold at all; and so
\* they can whatever fails when the broadcast is recorded, since ffmpeg deletes
\* nothing then and no failure is forgotten.
VisibleIsStored == keep \/ faults = {} => \A v \in Variants : list[v] \subseteq segs[v]

MasterFails == faults \cap {"master", "announce"} # {}

\* "Don't lose a pending first master: publish whatever is ready now"
\* (output.ts:139): a drain that was not cut off leaves no variant behind that
\* was ready when it began, whatever the settle timer was doing.
PendingMasterKept ==
  [][DrainWaited /\ ~ MasterFails /\ Audio \subseteq readyAtDrain
       => Videos \cap readyAtDrain \subseteq announced]_vars

\* "Writes the master playlist once variants start producing media"
\* (output.ts:3-4): while writes of the master succeed, a ready variant is
\* offered to viewers sooner or later, unless its job ends.
ReadyIsAnnounced ==
  \A v \in Videos :
    (~ MasterFails /\ Audio \cup {v} \subseteq ready)
      ~> (closed \/ (v \in master /\ v \in announced))

=============================================================================
