--------------------------- MODULE JobOutputProofs ---------------------------
(***************************************************************************)
(* Proof that viewers can fetch what they see: for any ladder, window and  *)
(* number of segments, every segment of a visible playlist is in storage,  *)
(* while no write fails, and whatever fails while ffmpeg deletes nothing;  *)
(* and that a drain does not lose a master that waits for its timer.       *)
(***************************************************************************)
EXTENDS JobOutput, SequenceTheorems, TLAPS

-----------------------------------------------------------------------------
(* Types *)

\* Media are queued in the chain of their variant, masters in a chain of their own.
MediaTasks  == [kind : {"segment", "playlist", "delete"}, what : SUBSET Segments]
MasterTasks == [kind : {"master"}, what : SUBSET Videos]
TasksOf(c)  == IF c = "_master" THEN MasterTasks ELSE MediaTasks

ChainTypes ==
  /\ chain \in [Chains -> Seq(Tasks)]
  /\ \A c \in Chains : chain[c] \in Seq(TasksOf(c))

Busy == busy \subseteq Chains /\ \A c \in busy : chain[c] # <<>>

FilesOK ==
  /\ made \in [Variants -> 0..MaxSeg]
  /\ hand \in [Variants -> {"segment", "playlist", "delete"}]
  /\ failed \in [Variants -> SUBSET Segments]
  /\ segs \in [Variants -> SUBSET Segments] /\ list \in [Variants -> SUBSET Segments]

JobOK == keep \in BOOLEAN /\ faults \in FaultSets /\ length \in Lengths

MasterOK ==
  /\ ready \subseteq Variants /\ readyAtDrain \subseteq Variants
  /\ published \subseteq Videos /\ announced \subseteq Videos /\ master \subseteq Videos
  /\ settled \in BOOLEAN /\ timer \in BOOLEAN /\ drained \in BOOLEAN
  /\ closed \in BOOLEAN /\ aborted \in BOOLEAN

WaitsOK == waits \in [Chains -> Nat]

TypeInv == ChainTypes /\ Busy /\ FilesOK /\ JobOK /\ MasterOK /\ WaitsOK

LEMMA TypeInvTypeOK == TypeInv => TypeOK
BY DEF TypeInv, ChainTypes, Busy, FilesOK, JobOK, MasterOK, WaitsOK, TypeOK

LEMMA VariantChains == \A v \in Variants : v \in Chains /\ v # "_master"
BY JobOutputAssumption DEF Chains, Variants

LEMMA VideoVariants == Videos \subseteq Variants /\ Audio \subseteq Variants
BY DEF Variants

LEMMA TaskTypes == \A c \in Chains : TasksOf(c) \subseteq Tasks
BY DEF MediaTasks, MasterTasks, Tasks, TasksOf

\* A step that replaces one chain.
LEMMA OneChain ==
  ASSUME ChainTypes, NEW c \in Chains, NEW q \in Seq(TasksOf(c)),
         chain' = [chain EXCEPT ![c] = q]
  PROVE  ChainTypes'
<1>1. q \in Seq(Tasks)
  BY TaskTypes
<1> QED
  BY <1>1 DEF ChainTypes

\* The head of a chain that is not empty, and the chain without it.
LEMMA Heads ==
  ASSUME ChainTypes, NEW c \in Chains, chain[c] # <<>>
  PROVE  /\ Head(chain[c]) \in TasksOf(c) /\ Head(chain[c]) = chain[c][1]
         /\ Tail(chain[c]) \in Seq(TasksOf(c))
         /\ Popped(c) = [chain EXCEPT ![c] = Tail(chain[c])]
<1>1. chain[c] \in Seq(TasksOf(c))
  BY DEF ChainTypes
<1>2. Head(chain[c]) = chain[c][1] /\ Head(chain[c]) \in TasksOf(c)
  BY <1>1
<1>3. Tail(chain[c]) \in Seq(TasksOf(c))
  BY <1>1
<1> QED
  BY <1>2, <1>3 DEF Popped

LEMMA MasterHeads ==
  ASSUME ChainTypes, NEW c \in Chains, chain[c] # <<>>, Head(chain[c]).kind = "master"
  PROVE  c = "_master" /\ Head(chain[c]).what \subseteq Videos
<1>1. Head(chain[c]) \in TasksOf(c)
  BY Heads
<1> QED
  BY <1>1 DEF TasksOf, MediaTasks, MasterTasks

LEMMA MediaHeads ==
  ASSUME ChainTypes, NEW c \in Chains, chain[c] # <<>>, Head(chain[c]).kind # "master"
  PROVE  c \in Variants /\ c # "_master" /\ Head(chain[c]).what \subseteq Segments
<1>1. Head(chain[c]) \in TasksOf(c)
  BY Heads
<1> QED
  BY <1>1 DEF TasksOf, MediaTasks, MasterTasks, Chains

LEMMA InitTypes == Init => TypeInv
<1> SUFFICES ASSUME Init PROVE TypeInv
  OBVIOUS
<1>1. ChainTypes
  BY DEF Init, ChainTypes
<1>2. FilesOK
  BY JobOutputAssumption DEF Init, FilesOK
<1> QED
  BY <1>1, <1>2 DEF Init, TypeInv, Busy, JobOK, MasterOK, WaitsOK

-----------------------------------------------------------------------------
(* The types are kept *)

LEMMA ListedType == \A n \in 0..MaxSeg : Listed(n) \subseteq Segments /\ Expired(n) \subseteq Segments
BY JobOutputAssumption DEF Listed, Expired, Segments

\* ffmpeg hands something over.
LEMMA WriteTypes ==
  ASSUME TypeInv, NEW v \in Variants, WriteSegment(v) \/ WritePlaylist(v) \/ DeleteSegment(v)
  PROVE  ChainTypes' /\ Busy' /\ FilesOK'
<1> USE DEF TypeInv
<1>1. v \in Chains /\ v # "_master" /\ chain[v] \in Seq(MediaTasks)
  BY VariantChains DEF ChainTypes, TasksOf
<1>2. made[v] \in 0..MaxSeg /\ length[v] <= MaxSeg
  BY JobOutputAssumption DEF FilesOK, JobOK, Variants
<1>3. PICK t \in MediaTasks : Enqueue(v, t)
  <2>1. CASE WriteSegment(v)
    <3>1. Task("segment", {made[v] + 1}) \in MediaTasks
      BY <1>2, <2>1, JobOutputAssumption DEF WriteSegment, Task, MediaTasks, Segments, JobOK, Variants
    <3> QED
      BY <2>1, <3>1 DEF WriteSegment
  <2>2. CASE WritePlaylist(v)
    <3>1. Task("playlist", Listed(made[v])) \in MediaTasks
      BY <1>2, ListedType DEF Task, MediaTasks
    <3> QED
      BY <2>2, <3>1 DEF WritePlaylist
  <2>3. CASE DeleteSegment(v)
    <3>1. Task("delete", Expired(made[v])) \in MediaTasks
      BY <1>2, ListedType DEF Task, MediaTasks
    <3> QED
      BY <2>3, <3>1 DEF DeleteSegment
  <2> QED
    BY <2>1, <2>2, <2>3
<1>4. Append(chain[v], t) \in Seq(TasksOf(v)) /\ Append(chain[v], t) # <<>>
  BY <1>1 DEF TasksOf
<1>5. chain' = [chain EXCEPT ![v] = Append(chain[v], t)]
  BY <1>3 DEF Enqueue
<1>6. ChainTypes'
  BY <1>1, <1>4, <1>5, OneChain
<1>7. Busy'
  <2>1. busy' = busy
    BY DEF WriteSegment, WritePlaylist, DeleteSegment
  <2> QED
    BY <1>4, <1>5, <2>1 DEF Busy, ChainTypes
<1>8. FilesOK'
  <2>1. made' \in [Variants -> 0..MaxSeg]
    BY <1>2, JobOutputAssumption DEF WriteSegment, WritePlaylist, DeleteSegment, FilesOK, JobOK, Variants
  <2>2. hand' \in [Variants -> {"segment", "playlist", "delete"}]
    BY DEF WriteSegment, WritePlaylist, DeleteSegment, FilesOK
  <2>3. failed' \in [Variants -> SUBSET Segments] /\ UNCHANGED <<segs, list>>
    BY DEF WriteSegment, WritePlaylist, DeleteSegment, FilesOK, storeVars
  <2> QED
    BY <2>1, <2>2, <2>3 DEF FilesOK
<1> QED
  BY <1>6, <1>7, <1>8

\* An upload of a variant begins.
LEMMA StartTypes ==
  ASSUME TypeInv, NEW c \in Chains, StartMedia(c)
  PROVE  /\ ChainTypes' /\ Busy' /\ c \in Variants /\ c \notin busy /\ busy' = busy \cup {c}
         /\ chain[c] # <<>> /\ chain[c][1] \in MediaTasks
         /\ \/ chain[c][1].kind # "playlist" /\ chain' = chain
            \/ /\ chain[c][1].kind = "playlist"
               /\ chain' = [chain EXCEPT ![c] =
                    [chain[c] EXCEPT ![1] = Task("playlist", chain[c][1].what \ failed[c])]]
<1> USE DEF TypeInv
<1>1. chain[c] # <<>> /\ Head(chain[c]).kind # "master" /\ c \notin busy /\ busy' = busy \cup {c}
  BY DEF StartMedia, Idle
<1>2. c \in Variants /\ c # "_master"
  BY <1>1, MediaHeads
<1>3. TasksOf(c) = MediaTasks
  BY <1>2 DEF TasksOf
<1>4. chain[c][1] \in MediaTasks /\ Head(chain[c]) = chain[c][1] /\ chain[c] \in Seq(MediaTasks)
  BY <1>1, <1>3, Heads DEF ChainTypes
<1>5. CASE chain[c][1].kind # "playlist"
  <2>1. chain' = chain
    BY <1>4, <1>5 DEF StartMedia
  <2> QED
    BY <1>1, <1>2, <1>4, <1>5, <2>1 DEF ChainTypes, Busy
<1>6. CASE chain[c][1].kind = "playlist"
  <2> DEFINE t == Task("playlist", chain[c][1].what \ failed[c])
             q == [chain[c] EXCEPT ![1] = t]
  <2>1. t \in MediaTasks
    BY <1>4, <1>6 DEF Task, MediaTasks
  <2>2. chain' = [chain EXCEPT ![c] = q]
    BY <1>4, <1>6, <2>1 DEF StartMedia, WithoutFailed
  <2>3. q \in Seq(TasksOf(c)) /\ q # <<>>
    BY <1>1, <1>3, <1>4, <2>1
  <2> HIDE DEF q
  <2>4. ChainTypes'
    BY <2>2, <2>3, OneChain
  <2>5. Busy'
    BY <1>1, <2>2, <2>3 DEF Busy, ChainTypes
  <2> QED
    BY <1>1, <1>2, <1>4, <1>6, <2>2, <2>4, <2>5 DEF q
<1> QED
  BY <1>5, <1>6

\* An upload of a variant or of the master ends, and so does a task that has nothing to do.
LEMMA PopTypes ==
  ASSUME TypeInv, NEW c \in Chains, chain[c] # <<>>, chain' = Popped(c),
         busy' = busy \ {c}
  PROVE  ChainTypes' /\ Busy'
<1>1. chain' = [chain EXCEPT ![c] = Tail(chain[c])] /\ Tail(chain[c]) \in Seq(TasksOf(c))
  BY Heads DEF TypeInv
<1>2. ChainTypes'
  BY <1>1, OneChain DEF TypeInv
<1>3. Busy'
  BY <1>1 DEF TypeInv, Busy, ChainTypes
<1> QED
  BY <1>2, <1>3

LEMMA MasterTaskType == MasterTask \in MasterTasks
BY DEF MasterTask, Task, MasterTasks

\* A task is queued for the master.
LEMMA QueueMaster ==
  ASSUME TypeInv, chain' = [chain EXCEPT !["_master"] = Append(@, MasterTask)], busy' = busy
  PROVE  ChainTypes' /\ Busy'
<1>1. "_master" \in Chains /\ TasksOf("_master") = MasterTasks
  BY DEF Chains, TasksOf
<1>2. chain["_master"] \in Seq(MasterTasks)
  BY <1>1 DEF TypeInv, ChainTypes
<1>3. /\ Append(chain["_master"], MasterTask) \in Seq(MasterTasks)
      /\ Append(chain["_master"], MasterTask) # <<>>
  BY <1>2, MasterTaskType
<1>4. chain' = [chain EXCEPT !["_master"] = Append(chain["_master"], MasterTask)]
  BY <1>1 DEF TypeInv, ChainTypes
<1>5. ChainTypes'
  BY <1>1, <1>3, <1>4, OneChain DEF TypeInv
<1>6. Busy'
  BY <1>1, <1>3, <1>4 DEF TypeInv, Busy, ChainTypes
<1> QED
  BY <1>5, <1>6

\* A playlist was uploaded, and a master is queued for it.
LEMMA PopAndQueue ==
  ASSUME TypeInv, NEW v \in Variants, chain[v] # <<>>, busy' = busy \ {v},
         chain' = [Popped(v) EXCEPT !["_master"] = Append(@, MasterTask)]
  PROVE  ChainTypes' /\ Busy'
<1>1. v \in Chains /\ v # "_master" /\ "_master" \in Chains /\ TasksOf("_master") = MasterTasks
  BY VariantChains DEF Chains, TasksOf
<1>2. Popped(v) = [chain EXCEPT ![v] = Tail(chain[v])] /\ Tail(chain[v]) \in Seq(TasksOf(v))
  BY <1>1, Heads DEF TypeInv
<1> DEFINE r == Append(chain["_master"], MasterTask)
<1>3. r \in Seq(MasterTasks) /\ r # <<>>
  <2>1. chain["_master"] \in Seq(MasterTasks)
    BY <1>1 DEF TypeInv, ChainTypes
  <2> QED
    BY <2>1, MasterTaskType
<1>4. \A c \in Chains : chain'[c] = IF c = "_master" THEN r
                                    ELSE IF c = v THEN Tail(chain[v]) ELSE chain[c]
  BY <1>1, <1>2 DEF TypeInv, ChainTypes
<1> HIDE DEF r
<1>5. \A c \in Chains : chain'[c] \in Seq(TasksOf(c))
  BY <1>1, <1>2, <1>3, <1>4 DEF TypeInv, ChainTypes
<1>6. chain' \in [Chains -> Seq(Tasks)]
  <2>1. \A c \in Chains : chain'[c] \in Seq(Tasks)
    BY <1>5, TaskTypes
  <2>2. chain' = [c \in Chains |-> chain'[c]]
    BY <1>1, <1>2 DEF TypeInv, ChainTypes
  <2> QED
    BY <2>1, <2>2
<1>7. Busy'
  BY <1>3, <1>4 DEF TypeInv, Busy
<1> QED
  BY <1>5, <1>6, <1>7 DEF ChainTypes

\* What is queued is given up.
LEMMA DropTypes ==
  ASSUME TypeInv, chain' = Dropped, busy' = busy
  PROVE  ChainTypes' /\ Busy'
<1>1. \A c \in Chains : chain'[c] \in Seq(TasksOf(c)) /\ (c \in busy => chain'[c] # <<>>)
  <2> SUFFICES ASSUME NEW c \in Chains
               PROVE  chain'[c] \in Seq(TasksOf(c)) /\ (c \in busy => chain'[c] # <<>>)
    OBVIOUS
  <2>1. CASE c \in busy
    <3>1. Head(chain[c]) \in TasksOf(c)
      BY <2>1, Heads DEF TypeInv, Busy
    <3>2. chain'[c] = <<Head(chain[c])>>
      BY <2>1 DEF Dropped
    <3> QED
      BY <3>1, <3>2
  <2>2. CASE c \notin busy
    BY <2>2 DEF Dropped
  <2> QED
    BY <2>1, <2>2
<1>2. chain' \in [Chains -> Seq(Tasks)]
  <2>1. \A c \in Chains : chain'[c] \in Seq(Tasks)
    BY <1>1, TaskTypes
  <2>2. chain' = [c \in Chains |-> chain'[c]]
    BY DEF Dropped
  <2> QED
    BY <2>1, <2>2
<1> QED
  BY <1>1, <1>2 DEF ChainTypes, Busy, TypeInv

LEMMA MasterStartTypes ==
  ASSUME TypeInv, NEW c \in Chains, StartMaster(c)
  PROVE  ChainTypes' /\ Busy' /\ c = "_master"
<1> USE DEF TypeInv
<1>1. chain[c] # <<>> /\ Head(chain[c]).kind = "master" /\ busy' = busy \cup {c}
  BY DEF StartMaster, Idle
<1>2. c = "_master"
  BY <1>1, MasterHeads
<1>3. TasksOf(c) = MasterTasks
  BY <1>2 DEF TasksOf
<1>4. chain[c] \in Seq(MasterTasks)
  BY <1>3 DEF ChainTypes
<1> DEFINE t == Task("master", ReadyVideos)
           q == [chain[c] EXCEPT ![1] = t]
<1>5. t \in MasterTasks
  BY DEF Task, MasterTasks, ReadyVideos
<1>6. chain' = [chain EXCEPT ![c] = q]
  BY DEF StartMaster
<1>7. q \in Seq(MasterTasks) /\ q # <<>>
  BY <1>1, <1>4, <1>5
<1> HIDE DEF q
<1>8. ChainTypes'
  BY <1>3, <1>6, <1>7, OneChain
<1>9. Busy'
  BY <1>1, <1>6, <1>7 DEF Busy, ChainTypes
<1> QED
  BY <1>2, <1>8, <1>9

\* The task that a chain has finished.
LEMMA FinishTypes ==
  ASSUME TypeInv, NEW c \in Chains, Finish(c),
         FinishSegment(c) \/ FinishPlaylist(c) \/ FinishDelete(c) \/ FinishMaster(c)
  PROVE  /\ ChainTypes' /\ Busy' /\ chain[c] # <<>>
         /\ FinishMaster(c) => c = "_master" /\ Head(chain[c]).what \subseteq Videos
         /\ ~FinishMaster(c) =>
              c \in Variants /\ c # "_master" /\ Head(chain[c]).what \subseteq Segments
<1>1. chain[c] # <<>> /\ busy' = busy \ {c}
  BY DEF TypeInv, Busy, Finish
<1>2. CASE FinishMaster(c)
  <2>1. chain' = Popped(c) /\ Head(chain[c]).kind = "master"
    BY <1>2 DEF FinishMaster
  <2> QED
    BY <1>1, <1>2, <2>1, PopTypes, MasterHeads DEF TypeInv
<1>3. CASE ~FinishMaster(c)
  <2>1. Head(chain[c]).kind # "master"
    BY <1>3 DEF FinishSegment, FinishPlaylist, FinishDelete
  <2>2. c \in Variants /\ c # "_master" /\ Head(chain[c]).what \subseteq Segments
    BY <1>1, <2>1, MediaHeads DEF TypeInv
  <2>3. \/ chain' = Popped(c)
        \/ chain' = [Popped(c) EXCEPT !["_master"] = Append(@, MasterTask)]
    BY <1>3 DEF FinishSegment, FinishPlaylist, FinishDelete, MasterChain
  <2>4. ChainTypes' /\ Busy'
    BY <1>1, <2>2, <2>3, PopTypes, PopAndQueue
  <2> QED
    BY <1>1, <1>3, <2>2, <2>4
<1> QED
  BY <1>2, <1>3

LEMMA NextChains ==
  ASSUME TypeInv, Next
  PROVE  ChainTypes' /\ Busy'
<1>1. ASSUME NEW v \in Variants, WriteSegment(v) \/ WritePlaylist(v) \/ DeleteSegment(v)
      PROVE  ChainTypes' /\ Busy'
  BY <1>1, WriteTypes
<1>2. ASSUME NEW c \in Chains, Uploads(c) PROVE ChainTypes' /\ Busy'
  <2>1. CASE StartMedia(c)
    BY <2>1, StartTypes
  <2>2. CASE SkipMaster(c)
    <3>1. chain[c] # <<>> /\ c \notin busy /\ chain' = Popped(c) /\ busy' = busy
      BY <2>2 DEF SkipMaster, Idle
    <3> QED
      BY <3>1, PopTypes
  <2>3. CASE StartMaster(c)
    BY <2>3, MasterStartTypes
  <2>4. CASE FinishSegment(c) \/ FinishPlaylist(c) \/ FinishDelete(c) \/ FinishMaster(c)
    <3>1. Finish(c)
      BY <2>4 DEF FinishSegment, FinishPlaylist, FinishDelete, FinishMaster
    <3> QED
      BY <2>4, <3>1, FinishTypes
  <2> QED
    BY <1>2, <2>1, <2>2, <2>3, <2>4 DEF Uploads
<1>3. CASE Settle
  BY <1>3, QueueMaster DEF Settle, Enqueue
<1>4. CASE Drain
  <2>1. CASE timer
    BY <1>4, <2>1, QueueMaster DEF Drain, LastMaster
  <2>2. CASE ~timer
    BY <1>4, <2>2 DEF Drain, LastMaster, TypeInv, ChainTypes, Busy
  <2> QED
    BY <2>1, <2>2
<1>5. CASE DrainWaited \/ DrainTimesOut \/ Abort
  <2>1. chain' \in {chain, Dropped} /\ busy' = busy
    BY <1>5 DEF DrainWaited, DrainTimesOut, DrainEnds, Abort
  <2> QED
    BY <2>1, DropTypes DEF TypeInv, ChainTypes, Busy
<1> QED
  BY <1>1, <1>2, <1>3, <1>4, <1>5 DEF Next

LEMMA NextFiles ==
  ASSUME TypeInv, Next
  PROVE  FilesOK'
<1>1. ASSUME NEW v \in Variants, WriteSegment(v) \/ WritePlaylist(v) \/ DeleteSegment(v)
      PROVE  FilesOK'
  BY <1>1, WriteTypes
<1>2. ASSUME NEW v \in Variants, FinishSegment(v) \/ FinishPlaylist(v) \/ FinishDelete(v)
      PROVE  FilesOK'
  <2>1. Finish(v) /\ Head(chain[v]).kind # "master"
    BY <1>2 DEF FinishSegment, FinishPlaylist, FinishDelete
  <2>2. Head(chain[v]).what \subseteq Segments
    BY <2>1, VariantChains, MediaHeads DEF TypeInv, Busy, Finish
  <2>3. made' = made /\ hand' = hand
    BY <2>1 DEF Finish, ffmpegVars
  <2>4. segs' \in [Variants -> SUBSET Segments] /\ failed' \in [Variants -> SUBSET Segments]
        /\ list' \in [Variants -> SUBSET Segments]
    BY <1>2, <2>2 DEF FinishSegment, FinishPlaylist, FinishDelete, TypeInv, FilesOK
  <2> QED
    BY <2>3, <2>4 DEF TypeInv, FilesOK
<1>3. ASSUME NEW c \in Chains, StartMedia(c) \/ SkipMaster(c) \/ StartMaster(c) \/ FinishMaster(c)
      PROVE  FilesOK'
  BY <1>3 DEF StartMedia, SkipMaster, StartMaster, FinishMaster, Finish, ffmpegVars, storeVars,
              TypeInv, FilesOK
<1>4. CASE Settle \/ Drain \/ DrainWaited \/ DrainTimesOut \/ Abort
  BY <1>4 DEF Settle, Drain, DrainWaited, DrainTimesOut, DrainEnds, Abort, ffmpegVars, storeVars,
              TypeInv, FilesOK
<1> QED
  BY <1>1, <1>2, <1>3, <1>4 DEF Next, Uploads

LEMMA NextMasters ==
  ASSUME TypeInv, Next
  PROVE  MasterOK'
<1>1. ASSUME NEW v \in Variants, WriteSegment(v) \/ WritePlaylist(v) \/ DeleteSegment(v)
      PROVE  MasterOK'
  BY <1>1 DEF WriteSegment, WritePlaylist, DeleteSegment, masterVars, endVars, storeVars, TypeInv,
              MasterOK
<1>2. ASSUME NEW v \in Variants, FinishSegment(v) \/ FinishPlaylist(v) \/ FinishDelete(v)
      PROVE  MasterOK'
  BY <1>2 DEF FinishSegment, FinishPlaylist, FinishDelete, Finish, TypeInv, MasterOK
<1>3. ASSUME NEW c \in Chains, StartMedia(c) \/ SkipMaster(c) \/ StartMaster(c)
      PROVE  MasterOK'
  BY <1>3 DEF StartMedia, SkipMaster, StartMaster, masterVars, endVars, storeVars, TypeInv, MasterOK
<1>4. ASSUME NEW c \in Chains, FinishMaster(c) PROVE MasterOK'
  <2>1. Head(chain[c]).what \subseteq Videos
    BY <1>4, FinishTypes DEF FinishMaster
  <2> QED
    BY <1>4, <2>1 DEF FinishMaster, Finish, Written, TypeInv, MasterOK
<1>5. CASE Settle \/ Drain \/ DrainWaited \/ DrainTimesOut \/ Abort
  BY <1>5 DEF Settle, Drain, DrainWaited, DrainTimesOut, DrainEnds, Abort, masterVars, endVars,
              storeVars, TypeInv, MasterOK
<1> QED
  BY <1>1, <1>2, <1>3, <1>4, <1>5 DEF Next, Uploads

LEMMA NextWaits ==
  ASSUME TypeInv, Next
  PROVE  WaitsOK'
<1>1. CASE Drain
  <2>1. \A c \in Chains : Len(chain'[c]) \in Nat
    BY <1>1, NextChains DEF ChainTypes
  <2> QED
    BY <1>1, <2>1 DEF Drain, WaitsOK
<1>2. ASSUME NEW c \in Chains, waits' = Counted(c) PROVE WaitsOK'
  BY <1>2 DEF Counted, TypeInv, WaitsOK
<1>3. CASE waits' = waits
  BY <1>3 DEF TypeInv, WaitsOK
<1> QED
  BY <1>1, <1>2, <1>3, VariantChains
     DEF Next, Uploads, WriteSegment, WritePlaylist, DeleteSegment, StartMedia, SkipMaster,
         StartMaster, FinishSegment, FinishPlaylist, FinishDelete, FinishMaster, Finish, Settle,
         DrainWaited, DrainTimesOut, DrainEnds, Abort, endVars

LEMMA NextJob ==
  ASSUME Next
  PROVE  UNCHANGED jobVars
BY DEF Next, Uploads, WriteSegment, WritePlaylist, DeleteSegment, StartMedia, SkipMaster,
       StartMaster, FinishSegment, FinishPlaylist, FinishDelete, FinishMaster, Finish, Settle,
       Drain, DrainWaited, DrainTimesOut, DrainEnds, Abort, ffmpegVars

LEMMA NextTypes == TypeInv /\ [Next]_vars => TypeInv'
<1> SUFFICES ASSUME TypeInv, [Next]_vars PROVE TypeInv'
  OBVIOUS
<1>1. CASE Next
  <2>1. JobOK'
    BY <1>1, NextJob DEF TypeInv, JobOK, jobVars
  <2> QED
    BY <1>1, <2>1, NextChains, NextFiles, NextMasters, NextWaits DEF TypeInv
<1>2. CASE UNCHANGED vars
  BY <1>2 DEF vars, ffmpegVars, jobVars, masterVars, endVars, storeVars, TypeInv, ChainTypes, Busy,
              FilesOK, JobOK, MasterOK, WaitsOK
<1> QED
  BY <1>1, <1>2

\* The chains, the files and what was published stay well typed.
THEOREM OutputTypeCorrect == Spec => []TypeOK
BY InitTypes, NextTypes, TypeInvTypeOK, PTL DEF Spec

-----------------------------------------------------------------------------
(* The inductive invariant: what is queued for a variant, with q its chain, *)
(* stored what was uploaded or is known to have failed, and seen the        *)
(* visible playlist                                                         *)

\* Every segment a queued playlist lists was uploaded, has failed, or is queued before it.
Supplied(q, stored, i, ks) ==
  \A k \in ks : \/ k \in stored
                \/ \E j \in 1..(i - 1) : q[j].kind = "segment" /\ k \in q[j].what

Present(q, stored) ==
  \A i \in 1..Len(q) : q[i].kind = "playlist" => Supplied(q, stored, i, q[i].what)

\* No playlist is queued behind the deletion of a segment it lists.
NotRevived(q) ==
  \A i, j \in 1..Len(q) :
    i < j /\ q[i].kind = "delete" /\ q[j].kind = "playlist" => q[i].what \cap q[j].what = {}

\* Segment k has left what viewers will see by the time task i runs: some playlist before it, or
\* the visible one, does not list k, and no later one does.
Gone(q, i, k, seen) ==
  \E m \in 0..(i - 1) :
    /\ IF m = 0 THEN k \notin seen ELSE q[m].kind = "playlist"
    /\ \A j \in 1..(i - 1) : m <= j /\ q[j].kind = "playlist" => k \notin q[j].what

Deletions(q, n, seen) ==
  \A i \in 1..Len(q) : q[i].kind = "delete" =>
    \A k \in q[i].what : k + Window <= n /\ Gone(q, i, k, seen)

Queue(q, stored, n, seen) == Present(q, stored) /\ NotRevived(q) /\ Deletions(q, n, seen)

\* What ffmpeg may hand over next.
Coming(v) ==
  /\ Supplied(chain[v], segs[v] \cup failed[v], Len(chain[v]) + 1, Listed(made[v]))
  /\ hand[v] = "delete" =>
       \A k \in Expired(made[v]) : Gone(chain[v], Len(chain[v]) + 1, k, list[v])

\* Without faults nothing fails; with them, of a recorded broadcast, nothing is deleted.
Faults(v) ==
  /\ ~keep => failed[v] = {}
  /\ keep => hand[v] # "delete" /\ \A i \in 1..Len(chain[v]) : chain[v][i].kind # "delete"

CutOff(v) ==
  aborted => closed /\ Len(chain[v]) <= 1 /\ (chain[v] # <<>> => v \in busy)

OutInv(v) ==
  /\ Queue(chain[v], segs[v] \cup failed[v], made[v], list[v])
  /\ ~closed => Coming(v)
  /\ v \in busy /\ chain[v][1].kind = "playlist" => chain[v][1].what \subseteq segs[v]
  /\ list[v] \subseteq segs[v]
  /\ Faults(v) /\ CutOff(v)

IInv == TypeInv /\ (keep \/ faults = {} => \A v \in Variants : OutInv(v))

-----------------------------------------------------------------------------
(* Queues *)

\* A task is appended.
LEMMA AppendSupplied ==
  ASSUME NEW q \in Seq(MediaTasks), NEW t \in MediaTasks, NEW stored, NEW ks,
         NEW i \in 1..(Len(q) + 1)
  PROVE  Supplied(q, stored, i, ks) => Supplied(Append(q, t), stored, i, ks)
BY DEF Supplied

LEMMA AppendGone ==
  ASSUME NEW q \in Seq(MediaTasks), NEW t \in MediaTasks, NEW k, NEW seen,
         NEW i \in 1..(Len(q) + 1)
  PROVE  Gone(q, i, k, seen) => Gone(Append(q, t), i, k, seen)
BY DEF Gone

LEMMA AppendQueue ==
  ASSUME NEW q \in Seq(MediaTasks), NEW t \in MediaTasks, NEW stored, NEW seen,
         NEW n \in Nat, NEW m \in Nat, n <= m, Window \in Nat,
         Queue(q, stored, n, seen),
         t.kind = "playlist" => Supplied(q, stored, Len(q) + 1, t.what)
                                /\ \A k \in t.what : k \in Nat /\ k + Window > m,
         t.kind = "delete" => \A k \in t.what : k + Window <= m /\ Gone(q, Len(q) + 1, k, seen)
  PROVE  Queue(Append(q, t), stored, m, seen)
<1> DEFINE r == Append(q, t)
<1>1. /\ r \in Seq(MediaTasks) /\ Len(r) = Len(q) + 1 /\ r[Len(q) + 1] = t
      /\ \A i \in 1..Len(q) : r[i] = q[i]
  OBVIOUS
<1>2. \A i \in 1..Len(r) : r[i].what \subseteq Nat /\ Len(q) \in Nat
  <2> HIDE DEF r
  <2>1. \A i \in 1..Len(r) : r[i] \in MediaTasks
    BY <1>1
  <2>2. \A u \in MediaTasks : u.what \subseteq Nat
    BY DEF MediaTasks, Segments
  <2> QED
    BY <2>1, <2>2
<1>3. Present(r, stored)
  <2> SUFFICES ASSUME NEW i \in 1..Len(r), r[i].kind = "playlist"
               PROVE  Supplied(r, stored, i, r[i].what)
    BY DEF Present
  <2>1. Supplied(q, stored, i, r[i].what)
    BY <1>1 DEF Queue, Present
  <2> QED
    BY <1>1, <2>1, AppendSupplied
<1>4. Deletions(r, m, seen)
  <2> SUFFICES ASSUME NEW i \in 1..Len(r), r[i].kind = "delete", NEW k \in r[i].what
               PROVE  k + Window <= m /\ Gone(r, i, k, seen)
    BY DEF Deletions
  <2>1. i \in 1..(Len(q) + 1) /\ k \in Nat
    BY <1>1, <1>2
  <2>2. k + Window <= m /\ Gone(q, i, k, seen)
    BY <1>1, <2>1 DEF Queue, Deletions
  <2> QED
    BY <2>1, <2>2, AppendGone
<1>5. NotRevived(r)
  <2> SUFFICES ASSUME NEW i \in 1..Len(r), NEW j \in 1..Len(r), i < j,
                      r[i].kind = "delete", r[j].kind = "playlist"
               PROVE  r[i].what \cap r[j].what = {}
    BY DEF NotRevived
  <2>1. i \in 1..Len(q) /\ r[i] = q[i]
    BY <1>1
  <2>2. CASE j \in 1..Len(q)
    BY <1>1, <2>1, <2>2 DEF Queue, NotRevived
  <2>3. CASE j = Len(q) + 1
    <3> SUFFICES ASSUME NEW k \in r[i].what, k \in r[j].what PROVE FALSE
      OBVIOUS
    <3>1. k \in Nat /\ k + Window > m
      BY <1>1, <2>3
    <3>2. k + Window <= n
      BY <1>2, <2>1 DEF Queue, Deletions
    <3> QED
      BY <3>1, <3>2
  <2> QED
    BY <1>1, <2>2, <2>3
<1> QED
  BY <1>3, <1>4, <1>5 DEF Queue

\* The first task is done.
LEMMA TailFacts ==
  ASSUME NEW q \in Seq(MediaTasks), q # <<>>
  PROVE  /\ Tail(q) \in Seq(MediaTasks) /\ Len(q) \in Nat \ {0} /\ Len(Tail(q)) = Len(q) - 1
         /\ \A i \in 1..Len(Tail(q)) : Tail(q)[i] = q[i + 1]
OBVIOUS

LEMMA TailSupplied ==
  ASSUME NEW q \in Seq(MediaTasks), q # <<>>, NEW stored, NEW after, NEW ks,
         NEW i \in 1..Len(q), Supplied(q, stored, i + 1, ks),
         \A k \in ks : (k \in stored \/ (q[1].kind = "segment" /\ k \in q[1].what)) => k \in after
  PROVE  Supplied(Tail(q), after, i, ks)
<1> SUFFICES ASSUME NEW k \in ks, k \notin after
             PROVE  \E j \in 1..(i - 1) : Tail(q)[j].kind = "segment" /\ k \in Tail(q)[j].what
  BY DEF Supplied
<1>1. PICK j \in 1..i : q[j].kind = "segment" /\ k \in q[j].what
  BY TailFacts DEF Supplied
<1>2. j # 1
  BY <1>1
<1>3. j - 1 \in 1..(i - 1) /\ Tail(q)[j - 1] = q[j]
  BY <1>2, TailFacts
<1> QED
  BY <1>1, <1>3

LEMMA TailGone ==
  ASSUME NEW q \in Seq(MediaTasks), q # <<>>, NEW k, NEW seen, NEW after,
         NEW i \in 1..Len(q), Gone(q, i + 1, k, seen),
         after = IF q[1].kind = "playlist" THEN q[1].what ELSE seen
  PROVE  Gone(Tail(q), i, k, after)
<1> USE TailFacts
<1>1. PICK m \in 0..i :
        /\ IF m = 0 THEN k \notin seen ELSE q[m].kind = "playlist"
        /\ \A j \in 1..i : m <= j /\ q[j].kind = "playlist" => k \notin q[j].what
  BY DEF Gone
<1> DEFINE p == IF m = 0 THEN 0 ELSE m - 1
<1>2. p \in 0..(i - 1)
  OBVIOUS
<1>3. IF p = 0 THEN k \notin after ELSE Tail(q)[p].kind = "playlist"
  <2>1. CASE m = 0
    <3>1. q[1].kind = "playlist" => k \notin q[1].what
      BY <1>1, <2>1
    <3> QED
      BY <1>1, <2>1, <3>1
  <2>2. CASE m = 1
    <3>1. q[1].kind = "playlist" /\ k \notin q[1].what
      BY <1>1, <2>2
    <3> QED
      BY <2>2, <3>1
  <2>3. CASE m > 1
    <3>1. p = m - 1 /\ p \in 1..Len(Tail(q)) /\ Tail(q)[p] = q[m]
      BY <2>3
    <3> QED
      BY <1>1, <2>3, <3>1
  <2> QED
    BY <2>1, <2>2, <2>3
<1>4. ASSUME NEW j \in 1..(i - 1), p <= j, Tail(q)[j].kind = "playlist"
      PROVE  k \notin Tail(q)[j].what
  <2>1. j + 1 \in 1..i /\ m <= j + 1 /\ Tail(q)[j] = q[j + 1]
    BY <1>4
  <2> QED
    BY <1>1, <1>4, <2>1
<1> HIDE DEF p
<1> QED
  BY <1>2, <1>3, <1>4 DEF Gone

\* `after` has what was stored but for what the task deleted.
LEMMA TailQueue ==
  ASSUME NEW q \in Seq(MediaTasks), q # <<>>, NEW stored, NEW seen, NEW n, NEW after, NEW now,
         Queue(q, stored, n, seen),
         \A k \in stored : k \in after \/ (q[1].kind = "delete" /\ k \in q[1].what),
         q[1].kind = "segment" => q[1].what \subseteq after,
         \/ now = IF q[1].kind = "playlist" THEN q[1].what ELSE seen
         \/ \A i \in 1..Len(q) : q[i].kind # "delete"
  PROVE  Queue(Tail(q), after, n, now)
<1>1. /\ Tail(q) \in Seq(MediaTasks) /\ Len(q) \in Nat \ {0} /\ Len(Tail(q)) = Len(q) - 1
      /\ \A i \in 1..Len(Tail(q)) : Tail(q)[i] = q[i + 1] /\ i + 1 \in 1..Len(q) /\ i \in 1..Len(q)
  BY TailFacts
<1>2. Present(Tail(q), after)
  <2> SUFFICES ASSUME NEW i \in 1..Len(Tail(q)), Tail(q)[i].kind = "playlist"
               PROVE  Supplied(Tail(q), after, i, Tail(q)[i].what)
    BY DEF Present
  <2>1. Tail(q)[i] = q[i + 1] /\ i + 1 \in 1..Len(q) /\ i \in 1..Len(q)
    BY <1>1
  <2>2. Supplied(q, stored, i + 1, q[i + 1].what)
    BY <2>1 DEF Queue, Present
  <2>3. q[1].kind = "delete" => q[1].what \cap q[i + 1].what = {}
    BY <1>1, <2>1 DEF Queue, NotRevived
  <2>4. \A k \in q[i + 1].what :
          (k \in stored \/ (q[1].kind = "segment" /\ k \in q[1].what)) => k \in after
    BY <2>3
  <2> QED
    BY <2>1, <2>2, <2>4, TailSupplied
<1>3. NotRevived(Tail(q))
  BY <1>1 DEF Queue, NotRevived
<1>4. Deletions(Tail(q), n, now)
  <2> SUFFICES ASSUME NEW i \in 1..Len(Tail(q)), Tail(q)[i].kind = "delete", NEW k \in Tail(q)[i].what
               PROVE  k + Window <= n /\ Gone(Tail(q), i, k, now)
    BY DEF Deletions
  <2>1. Tail(q)[i] = q[i + 1] /\ i + 1 \in 1..Len(q) /\ i \in 1..Len(q)
    BY <1>1
  <2>2. k + Window <= n /\ Gone(q, i + 1, k, seen)
    BY <2>1 DEF Queue, Deletions
  <2>3. now = IF q[1].kind = "playlist" THEN q[1].what ELSE seen
    BY <2>1
  <2> QED
    BY <2>1, <2>2, <2>3, TailGone
<1> QED
  BY <1>2, <1>3, <1>4 DEF Queue

\* The playlist at the head of the queue is uploaded without some of its segments.
LEMMA HeadQueue ==
  ASSUME NEW q \in Seq(MediaTasks), q # <<>>, q[1].kind = "playlist", NEW stored, NEW n, NEW seen,
         NEW t \in MediaTasks, t.kind = "playlist", t.what \subseteq q[1].what,
         Queue(q, stored, n, seen)
  PROVE  Queue([q EXCEPT ![1] = t], stored, n, seen)
<1> DEFINE r == [q EXCEPT ![1] = t]
<1>1. /\ r \in Seq(MediaTasks) /\ Len(r) = Len(q) /\ Len(q) \in Nat \ {0} /\ r[1] = t
      /\ \A i \in 1..Len(q) : i # 1 => r[i] = q[i]
  OBVIOUS
<1> HIDE DEF r
<1>2. \A i \in 1..Len(q) : r[i].kind = q[i].kind /\ r[i].what \subseteq q[i].what
                          /\ (r[i].kind # "playlist" => r[i] = q[i])
  BY <1>1
<1>3. Present(r, stored)
  <2> SUFFICES ASSUME NEW i \in 1..Len(q), q[i].kind = "playlist"
               PROVE  Supplied(r, stored, i, r[i].what)
    BY <1>1, <1>2 DEF Present
  <2>1. Supplied(q, stored, i, q[i].what)
    BY DEF Queue, Present
  <2> QED
    BY <1>2, <2>1 DEF Supplied
<1>4. NotRevived(r)
  BY <1>1, <1>2 DEF Queue, NotRevived
<1>5. Deletions(r, n, seen)
  <2> SUFFICES ASSUME NEW i \in 1..Len(q), q[i].kind = "delete", NEW k \in q[i].what
               PROVE  k + Window <= n /\ Gone(r, i, k, seen)
    BY <1>1, <1>2 DEF Deletions
  <2>1. k + Window <= n /\ Gone(q, i, k, seen)
    BY DEF Queue, Deletions
  <2>2. PICK m \in 0..(i - 1) :
          /\ IF m = 0 THEN k \notin seen ELSE q[m].kind = "playlist"
          /\ \A j \in 1..(i - 1) : m <= j /\ q[j].kind = "playlist" => k \notin q[j].what
    BY <2>1 DEF Gone
  <2>3. IF m = 0 THEN k \notin seen ELSE r[m].kind = "playlist"
    BY <1>1, <1>2, <2>2
  <2>4. ASSUME NEW j \in 1..(i - 1), m <= j, r[j].kind = "playlist" PROVE k \notin r[j].what
    <3>1. j \in 1..Len(q)
      BY <1>1
    <3> QED
      BY <1>2, <2>2, <2>4, <3>1
  <2> QED
    BY <2>1, <2>3, <2>4 DEF Gone
<1> QED
  BY <1>3, <1>4, <1>5 DEF Queue, r

-----------------------------------------------------------------------------
(* The steps *)

\* Steps that leave a variant alone; that the job is closed asks less of it.
LEMMA OutFrame ==
  ASSUME NEW v \in Variants, OutInv(v), keep' = keep, aborted' = aborted,
         chain'[v] = chain[v], made'[v] = made[v], hand'[v] = hand[v], failed'[v] = failed[v],
         segs'[v] = segs[v], list'[v] = list[v], v \in busy' <=> v \in busy, closed => closed'
  PROVE  OutInv(v)'
BY SMTT(30) DEF OutInv, Queue, Present, NotRevived, Deletions, Supplied, Gone, Coming, Faults, CutOff

LEMMA InitOut ==
  ASSUME Init, NEW v \in Variants
  PROVE  OutInv(v)
<1>1. v \in Chains
  BY VariantChains
<1>2. /\ chain[v] = <<>> /\ made[v] = 0 /\ hand[v] = "segment" /\ failed[v] = {}
      /\ segs[v] = {} /\ list[v] = {} /\ ~aborted /\ v \notin busy /\ Len(chain[v]) = 0
  BY <1>1 DEF Init
<1>3. Listed(0) = {}
  BY DEF Listed
<1> QED
  BY <1>2, <1>3
     DEF OutInv, Queue, Present, NotRevived, Deletions, Supplied, Coming, Faults, CutOff

LEMMA WriteOut ==
  ASSUME TypeInv, NEW v \in Variants, OutInv(v), keep \/ faults = {},
         WriteSegment(v) \/ WritePlaylist(v) \/ DeleteSegment(v)
  PROVE  OutInv(v)'
<1> DEFINE q == chain[v]
           stored == segs[v] \cup failed[v]
           n == made[v]
<1>1. /\ v \in Chains /\ q \in Seq(MediaTasks) /\ Len(q) \in Nat /\ n \in Nat /\ Window \in Nat \ {0}
      /\ MaxSeg \in Nat /\ n \in 0..MaxSeg /\ length[v] \in 0..MaxSeg /\ Threshold \in Nat
  BY VariantChains, JobOutputAssumption DEF TypeInv, ChainTypes, TasksOf, FilesOK, JobOK, Variants
<1>2. /\ ~closed /\ closed' = closed /\ aborted' = aborted /\ busy' = busy /\ keep' = keep
      /\ segs' = segs /\ list' = list /\ ~aborted
  BY DEF WriteSegment, WritePlaylist, DeleteSegment, Accepts, jobVars, endVars, storeVars, OutInv,
         CutOff
<1>3. Queue(q, stored, n, list[v]) /\ Supplied(q, stored, Len(q) + 1, Listed(n)) /\ Faults(v)
  BY <1>2 DEF OutInv, Coming
<1>4. CASE WriteSegment(v)
  <2> DEFINE t == Task("segment", {n + 1})
             r == Append(q, t)
  <2>1. /\ chain'[v] = r /\ made'[v] = n + 1 /\ hand'[v] = "playlist" /\ failed' = failed
        /\ n + 1 \in 1..MaxSeg
    BY <1>1, <1>4 DEF WriteSegment, Enqueue, TypeInv, ChainTypes, FilesOK
  <2>2. t \in MediaTasks /\ t.kind = "segment" /\ t.what = {n + 1}
    BY <2>1 DEF Task, MediaTasks, Segments
  <2>3. /\ Len(r) = Len(q) + 1 /\ r[Len(q) + 1] = t /\ \A i \in 1..Len(q) : r[i] = q[i]
    BY <1>1, <2>2
  <2>4. Queue(r, stored, n + 1, list[v])
    BY <1>1, <1>3, <2>2, AppendQueue
  <2>5. Supplied(r, stored, Len(r) + 1, Listed(n + 1))
    <3>1. \A k \in Listed(n + 1) : k = n + 1 \/ k \in Listed(n)
      BY <1>1 DEF Listed
    <3>2. r[Len(q) + 1].kind = "segment" /\ n + 1 \in r[Len(q) + 1].what
      BY <2>2, <2>3
    <3> HIDE DEF r, t, q
    <3>3. \A k \in Listed(n) : \/ k \in stored
                              \/ \E j \in 1..Len(q) : r[j].kind = "segment" /\ k \in r[j].what
      BY <1>1, <1>3, <2>3 DEF Supplied
    <3>4. Len(q) + 1 \in 1..Len(r) /\ 1..Len(q) \subseteq 1..Len(r) /\ (Len(r) + 1) - 1 = Len(r)
      BY <1>1, <2>3
    <3> QED
      BY <3>1, <3>2, <3>3, <3>4 DEF Supplied
  <2>6. Faults(v)'
    BY <1>1, <1>2, <1>3, <2>1, <2>2, <2>3 DEF Faults
  <2>7. v \in busy => r[1] = q[1] /\ q # <<>>
    BY <1>1, <2>3 DEF TypeInv, Busy
  <2> HIDE DEF r, q, t, n
  <2> QED
    BY <1>2, <2>1, <2>4, <2>5, <2>6, <2>7 DEF OutInv, Coming, CutOff, q, n
<1>5. CASE WritePlaylist(v)
  <2> DEFINE t == Task("playlist", Listed(n))
             r == Append(q, t)
  <2>1. /\ chain'[v] = r /\ made' = made /\ failed' = failed
        /\ hand'[v] = IF keep \/ Expired(n) = {} THEN "segment" ELSE "delete"
    BY <1>1, <1>5 DEF WritePlaylist, Enqueue, TypeInv, ChainTypes, FilesOK
  <2>2. t \in MediaTasks /\ t.kind = "playlist" /\ t.what = Listed(n)
    BY <1>1, ListedType DEF Task, MediaTasks
  <2>3. /\ Len(r) = Len(q) + 1 /\ r[Len(q) + 1] = t /\ \A i \in 1..Len(q) : r[i] = q[i]
    BY <1>1, <2>2
  <2>4. \A k \in Listed(n) : k \in Nat /\ k + Window > n
    BY <1>1 DEF Listed
  <2>5. Queue(r, stored, n, list[v])
    BY <1>1, <1>3, <2>2, <2>4, AppendQueue
  <2>6. Supplied(r, stored, Len(r) + 1, Listed(n))
    BY <1>1, <1>3, <2>3 DEF Supplied
  <2>7. \A k \in Expired(n) : Gone(r, Len(r) + 1, k, list[v])
    <3> SUFFICES ASSUME NEW k \in Expired(n)
                 PROVE  \E m \in 0..Len(r) :
                          /\ IF m = 0 THEN k \notin list[v] ELSE r[m].kind = "playlist"
                          /\ \A j \in 1..Len(r) :
                               m <= j /\ r[j].kind = "playlist" => k \notin r[j].what
      BY <1>1, <2>3 DEF Gone
    <3>1. k \notin Listed(n)
      BY <1>1 DEF Listed, Expired
    <3>2. Len(r) \in 0..Len(r) /\ Len(r) # 0 /\ r[Len(r)].kind = "playlist"
      BY <1>1, <2>2, <2>3
    <3>3. \A j \in 1..Len(r) : Len(r) <= j => k \notin r[j].what
      BY <1>1, <2>2, <2>3, <3>1
    <3> QED
      BY <3>2, <3>3
  <2>8. Faults(v)'
    BY <1>1, <1>2, <1>3, <2>1, <2>2, <2>3 DEF Faults
  <2>9. v \in busy => r[1] = q[1] /\ q # <<>>
    BY <1>1, <2>3 DEF TypeInv, Busy
  <2> HIDE DEF r, q, t, n
  <2> QED
    BY <1>2, <2>1, <2>5, <2>6, <2>7, <2>8, <2>9 DEF OutInv, Coming, CutOff, q, n
<1>6. CASE DeleteSegment(v)
  <2> DEFINE t == Task("delete", Expired(n))
             r == Append(q, t)
  <2>1. /\ chain'[v] = r /\ made' = made /\ hand'[v] = "segment" /\ hand[v] = "delete"
        /\ failed'[v] = failed[v] \ Expired(n)
    BY <1>1, <1>6 DEF DeleteSegment, Enqueue, TypeInv, ChainTypes, FilesOK
  <2>2. t \in MediaTasks /\ t.kind = "delete" /\ t.what = Expired(n)
    BY <1>1, ListedType DEF Task, MediaTasks
  <2>3. /\ Len(r) = Len(q) + 1 /\ r[Len(q) + 1] = t /\ \A i \in 1..Len(q) : r[i] = q[i]
    BY <1>1, <2>2
  <2>4. ~keep /\ failed[v] = {} /\ failed'[v] = failed[v]
    BY <1>3, <2>1 DEF Faults
  <2>5. \A k \in Expired(n) : k + Window <= n /\ Gone(q, Len(q) + 1, k, list[v])
    <3>1. \A k \in Expired(n) : k + Window <= n
      BY <1>1 DEF Expired
    <3> QED
      BY <1>2, <2>1, <3>1 DEF OutInv, Coming
  <2>6. Queue(r, stored, n, list[v])
    BY <1>1, <1>3, <2>2, <2>5, AppendQueue
  <2>7. Supplied(r, stored, Len(r) + 1, Listed(n))
    BY <1>1, <1>3, <2>3 DEF Supplied
  <2>8. Faults(v)'
    BY <1>2, <2>4 DEF Faults
  <2>9. v \in busy => r[1] = q[1] /\ q # <<>>
    BY <1>1, <2>3 DEF TypeInv, Busy
  <2> HIDE DEF r, q, t, n
  <2> QED
    BY <1>2, <2>1, <2>4, <2>6, <2>7, <2>8, <2>9 DEF OutInv, Coming, CutOff, q, n
<1> QED
  BY <1>4, <1>5, <1>6

\* A playlist is sent without the segments that have failed.
LEMMA StartOut ==
  ASSUME TypeInv, NEW v \in Variants, OutInv(v), StartMedia(v)
  PROVE  OutInv(v)'
<1> DEFINE q == chain[v]
           t == Task("playlist", q[1].what \ failed[v])
           r == [q EXCEPT ![1] = t]
<1>1. v \in Chains /\ q \in Seq(MediaTasks) /\ q # <<>> /\ q[1] \in MediaTasks /\ v \in busy'
  <2>1. v \in Chains /\ TasksOf(v) = MediaTasks
    BY VariantChains DEF TasksOf
  <2>2. q \in Seq(MediaTasks)
    BY <2>1 DEF TypeInv, ChainTypes
  <2> QED
    BY <2>1, <2>2, StartTypes
<1>2. /\ UNCHANGED <<made, hand, failed, segs, list, closed, aborted, keep>>
      /\ ~aborted
  BY DEF StartMedia, Idle, ffmpegVars, jobVars, endVars, storeVars
<1>3. CASE q[1].kind # "playlist"
  <2>1. chain' = chain
    BY <1>1, <1>3, StartTypes
  <2>2. chain'[v][1].kind # "playlist"
    BY <1>3, <2>1
  <2> QED
    BY <1>2, <2>1, <2>2 DEF OutInv, Coming, Faults, CutOff
<1>4. CASE q[1].kind = "playlist"
  <2>1. chain'[v] = r
    BY <1>1, <1>4, StartTypes DEF TypeInv, ChainTypes
  <2>2. t \in MediaTasks /\ t.kind = "playlist" /\ t.what = q[1].what \ failed[v]
    BY <1>1 DEF Task, MediaTasks
  <2>3. /\ r \in Seq(MediaTasks) /\ Len(r) = Len(q) /\ Len(q) \in Nat \ {0} /\ r[1] = t
        /\ \A i \in 1..Len(q) : i # 1 => r[i] = q[i]
    BY <1>1, <2>2
  <2>4. Queue(r, segs[v] \cup failed[v], made[v], list[v])
    BY <1>1, <1>4, <2>2, HeadQueue DEF OutInv
  <2>5. t.what \subseteq segs[v]
    <3>1. Present(q, segs[v] \cup failed[v]) /\ 1 \in 1..Len(q)
      BY <2>3 DEF OutInv, Queue
    <3>2. Supplied(q, segs[v] \cup failed[v], 1, q[1].what)
      BY <1>4, <3>1 DEF Present
    <3> QED
      BY <2>2, <3>2 DEF Supplied
  <2> HIDE DEF r
  <2>6. \A i \in 1..Len(q) : r[i].kind = q[i].kind /\ r[i].what \subseteq q[i].what
                           /\ (r[i].kind # "playlist" => r[i] = q[i])
    BY <1>4, <2>2, <2>3
  <2>7. ~closed => Supplied(r, segs[v] \cup failed[v], Len(r) + 1, Listed(made[v]))
    <3>1. ~closed => Supplied(q, segs[v] \cup failed[v], Len(q) + 1, Listed(made[v]))
      BY DEF OutInv, Coming
    <3>2. ASSUME NEW ks, Supplied(q, segs[v] \cup failed[v], Len(q) + 1, ks)
          PROVE  Supplied(r, segs[v] \cup failed[v], Len(r) + 1, ks)
      <4> SUFFICES ASSUME NEW k \in ks, k \notin segs[v] \cup failed[v]
                   PROVE  \E j \in 1..Len(r) : r[j].kind = "segment" /\ k \in r[j].what
        BY <2>3 DEF Supplied
      <4>1. PICK j \in 1..Len(q) : q[j].kind = "segment" /\ k \in q[j].what
        BY <2>3, <3>2 DEF Supplied
      <4>2. r[j].kind # "playlist" /\ r[j] = q[j]
        BY <2>6, <4>1
      <4> QED
        BY <2>3, <4>1, <4>2
    <3> QED
      BY <3>1, <3>2
  <2>8. ~closed /\ hand[v] = "delete" =>
          \A k \in Expired(made[v]) : Gone(r, Len(r) + 1, k, list[v])
    <3>1. ASSUME NEW k, Gone(q, Len(q) + 1, k, list[v]) PROVE Gone(r, Len(r) + 1, k, list[v])
      <4>1. PICK m \in 0..Len(q) :
              /\ IF m = 0 THEN k \notin list[v] ELSE q[m].kind = "playlist"
              /\ \A j \in 1..Len(q) : m <= j /\ q[j].kind = "playlist" => k \notin q[j].what
        BY <2>3, <3>1 DEF Gone
      <4>2. IF m = 0 THEN k \notin list[v] ELSE r[m].kind = "playlist"
        BY <2>3, <2>6, <4>1
      <4>3. \A j \in 1..Len(r) : m <= j /\ r[j].kind = "playlist" => k \notin r[j].what
        BY <2>3, <2>6, <4>1
      <4>4. m \in 0..((Len(r) + 1) - 1) /\ (Len(r) + 1) - 1 = Len(r)
        BY <2>3
      <4> QED
        BY <4>2, <4>3, <4>4 DEF Gone
    <3> QED
      BY <3>1 DEF OutInv, Coming
  <2>9. Faults(v)'
    BY <1>2, <2>1, <2>3, <2>6 DEF OutInv, Faults
  <2> QED
    BY <1>2, <2>1, <2>3, <2>4, <2>5, <2>7, <2>8, <2>9 DEF OutInv, Coming, CutOff
<1> QED
  BY <1>3, <1>4

\* A task that ran when the uploads were cut off was the last one.
LEMMA LastOut ==
  ASSUME NEW v \in Variants, OutInv(v), chain[v] \in Seq(MediaTasks), chain[v] # <<>>, aborted,
         chain'[v] = Tail(chain[v]), keep' = keep, aborted' = aborted, closed' = closed,
         made'[v] = made[v], hand'[v] = hand[v], failed'[v] = failed[v],
         v \notin busy', list'[v] \subseteq segs'[v]
  PROVE  OutInv(v)'
<1> DEFINE q == chain[v]
<1>1. closed /\ Len(q) <= 1
  BY DEF OutInv, CutOff
<1>2. Tail(q) \in Seq(MediaTasks) /\ Len(Tail(q)) = 0
  <2>1. Tail(q) \in Seq(MediaTasks) /\ Len(q) \in Nat \ {0} /\ Len(Tail(q)) = Len(q) - 1
    BY TailFacts
  <2> DEFINE l == Len(q)
             lt == Len(Tail(q))
  <2>2. l \in Nat \ {0} /\ l <= 1 /\ lt = l - 1
    BY <1>1, <2>1
  <2> HIDE DEF l, lt
  <2>3. lt = 0
    BY <2>2
  <2> QED
    BY <2>1, <2>3 DEF lt
<1>3. chain'[v] = <<>> /\ Len(chain'[v]) = 0
  BY <1>2, EmptySeq
<1> QED
  BY <1>1, <1>3 DEF OutInv, Queue, Present, NotRevived, Deletions, Coming, Faults, CutOff

LEMMA FinishOut ==
  ASSUME TypeInv, NEW v \in Variants, OutInv(v), keep \/ faults = {},
         FinishSegment(v) \/ FinishPlaylist(v) \/ FinishDelete(v)
  PROVE  OutInv(v)'
<1> DEFINE q == chain[v]
           h == q[1]
           stored == segs[v] \cup failed[v]
<1>1. v \in Chains /\ v # "_master" /\ Finish(v)
  BY VariantChains DEF FinishSegment, FinishPlaylist, FinishDelete
<1>2. q \in Seq(MediaTasks) /\ q # <<>> /\ Head(q) = h /\ v \in busy /\ v \notin busy'
  BY <1>1 DEF TypeInv, ChainTypes, TasksOf, Busy, Finish
<1>3. UNCHANGED <<made, hand, keep, closed, aborted>>
  BY <1>1 DEF Finish, ffmpegVars, jobVars
<1>4. chain'[v] = Tail(q)
  BY <1>1, <1>2 DEF FinishSegment, FinishPlaylist, FinishDelete, Popped, MasterChain, TypeInv,
                    ChainTypes
<1>5. /\ Tail(q) \in Seq(MediaTasks) /\ Len(q) \in Nat \ {0} /\ Len(Tail(q)) = Len(q) - 1
      /\ \A i \in 1..Len(Tail(q)) : Tail(q)[i] = q[i + 1] /\ i + 1 \in 1..Len(q)
  BY <1>2, TailFacts
<1> DEFINE after == segs'[v] \cup failed'[v]
\* What holds of the rest of the queue when nothing was cut off.
<1>6. ASSUME \A k \in stored : k \in after \/ (h.kind = "delete" /\ k \in h.what),
             h.kind = "segment" => h.what \subseteq after,
             \/ list'[v] = IF h.kind = "playlist" THEN h.what ELSE list[v]
             \/ keep,
             list'[v] \subseteq segs'[v], ~keep => failed'[v] = {}, ~aborted
      PROVE  OutInv(v)'
  <2>1. keep => \A i \in 1..Len(q) : q[i].kind # "delete"
    BY DEF OutInv, Faults
  <2>2. Queue(q, stored, made[v], list[v])
    BY DEF OutInv
  <2>3. Queue(Tail(q), after, made[v], list'[v])
    BY <1>2, <1>6, <2>1, <2>2, TailQueue
  <2>4. ~closed => Supplied(Tail(q), after, Len(Tail(q)) + 1, Listed(made[v]))
    <3> SUFFICES ASSUME ~closed PROVE Supplied(Tail(q), after, Len(q), Listed(made[v]))
      BY <1>5
    <3>1. Supplied(q, stored, Len(q) + 1, Listed(made[v]))
      BY DEF OutInv, Coming
    <3>2. h.kind = "delete" => \A k \in h.what : k \notin Listed(made[v])
      <4>1. made[v] \in Nat /\ Window \in Nat
        BY JobOutputAssumption DEF TypeInv, FilesOK
      <4>2. h.kind = "delete" => \A k \in h.what : k + Window <= made[v]
        BY <1>5, <2>2 DEF Queue, Deletions
      <4>3. \A k \in Listed(made[v]) : k \in Nat /\ made[v] < k + Window
        BY <4>1 DEF Listed
      <4> QED
        BY <4>1, <4>2, <4>3
    <3>3. \A k \in Listed(made[v]) :
            (k \in stored \/ (h.kind = "segment" /\ k \in h.what)) => k \in after
      BY <1>6, <3>2
    <3>4. Len(q) \in 1..Len(q)
      BY <1>5
    <3> QED
      BY <1>2, <3>1, <3>3, <3>4, TailSupplied
  <2>5. ~closed /\ hand[v] = "delete" =>
          \A k \in Expired(made[v]) : Gone(Tail(q), Len(Tail(q)) + 1, k, list'[v])
    <3> SUFFICES ASSUME ~closed, hand[v] = "delete", NEW k \in Expired(made[v])
                 PROVE  Gone(Tail(q), Len(q), k, list'[v])
      BY <1>5
    <3>1. Gone(q, Len(q) + 1, k, list[v])
      BY DEF OutInv, Coming
    <3>2. list'[v] = IF h.kind = "playlist" THEN h.what ELSE list[v]
      BY <1>6 DEF OutInv, Faults
    <3>3. Len(q) \in 1..Len(q)
      BY <1>5
    <3> QED
      BY <1>2, <3>1, <3>2, <3>3, TailGone
  <2>6. Faults(v)'
    BY <1>3, <1>4, <1>5, <1>6, <2>1 DEF OutInv, Faults
  <2> HIDE DEF q, after
  <2> QED
    BY <1>2, <1>3, <1>4, <1>6, <2>3, <2>4, <2>5, <2>6 DEF OutInv, Coming, CutOff, after
<1>7. list[v] \subseteq segs[v] /\ (~keep => failed[v] = {})
      /\ (h.kind = "playlist" => h.what \subseteq segs[v])
  BY <1>2 DEF OutInv, Faults
<1>8. CASE aborted
  <2>1. CASE FinishSegment(v) /\ failed' = failed
    <3>1. list' = list /\ segs[v] \subseteq segs'[v]
      BY <2>1 DEF FinishSegment, TypeInv, FilesOK
    <3> QED
      BY <1>2, <1>3, <1>4, <1>7, <1>8, <2>1, <3>1, LastOut
  <2>2. CASE FinishPlaylist(v)
    <3>1. failed' = failed /\ segs' = segs /\ list'[v] \in {list[v], h.what} /\ h.kind = "playlist"
      BY <1>2, <2>2 DEF FinishPlaylist, TypeInv, FilesOK
    <3> QED
      BY <1>2, <1>3, <1>4, <1>7, <1>8, <3>1, LastOut
  <2>3. CASE FinishDelete(v)
    <3>1. failed' = failed /\ list' = list /\ h.kind = "delete"
          /\ segs'[v] \in {segs[v], segs[v] \ h.what}
      BY <1>2, <2>3 DEF FinishDelete, TypeInv, FilesOK
    <3>2. list[v] \cap h.what = {}
      BY <1>5, <3>1 DEF OutInv, Queue, Deletions, Gone
    <3> QED
      BY <1>2, <1>3, <1>4, <1>7, <1>8, <3>1, <3>2, LastOut
  <2>4. FinishSegment(v) => failed' = failed
    BY <1>8 DEF FinishSegment
  <2> QED
    BY <2>1, <2>2, <2>3, <2>4
<1>9. CASE ~aborted
  <2>1. CASE FinishSegment(v)
    <3>1. /\ h.kind = "segment" /\ list' = list
          /\ \/ segs'[v] = segs[v] \cup h.what /\ failed' = failed
             \/ segs' = segs /\ failed'[v] = failed[v] \cup h.what /\ faults # {}
      BY <1>2, <1>9, <2>1 DEF FinishSegment, TypeInv, FilesOK
    <3> QED
      BY <1>6, <1>7, <1>9, <3>1
  <2>2. CASE FinishPlaylist(v)
    <3>1. /\ h.kind = "playlist" /\ segs' = segs /\ failed' = failed
          /\ list'[v] = h.what \/ (list' = list /\ faults # {})
      BY <1>2, <1>9, <2>2 DEF FinishPlaylist, TypeInv, FilesOK
    <3> QED
      BY <1>6, <1>7, <1>9, <3>1
  <2>3. CASE FinishDelete(v)
    <3>1. /\ h.kind = "delete" /\ failed' = failed /\ list' = list
          /\ segs'[v] \in {segs[v], segs[v] \ h.what}
      BY <1>2, <2>3 DEF FinishDelete, TypeInv, FilesOK
    <3>2. list[v] \cap h.what = {}
      BY <1>5, <3>1 DEF OutInv, Queue, Deletions, Gone
    <3> QED
      BY <1>6, <1>7, <1>9, <3>1, <3>2
  <2> QED
    BY <2>1, <2>2, <2>3
<1> QED
  BY <1>8, <1>9

\* What is queued is given up; a task under way stays.
LEMMA CutOut ==
  ASSUME TypeInv, NEW v \in Variants, OutInv(v), keep' = keep, aborted', closed', chain' = Dropped,
         made' = made, hand' = hand, failed' = failed, segs' = segs, list' = list, busy' = busy
  PROVE  OutInv(v)'
<1> DEFINE q == chain[v]
           h == q[1]
<1>1. v \in Chains /\ q \in Seq(MediaTasks)
  BY VariantChains DEF TypeInv, ChainTypes, TasksOf
<1>2. list'[v] \subseteq segs'[v] /\ (~keep' => failed'[v] = {}) /\ (keep' => hand'[v] # "delete")
  BY DEF OutInv, Faults
<1>3. CASE v \notin busy
  <2>1. chain'[v] = <<>> /\ Len(chain'[v]) = 0
    BY <1>1, <1>3 DEF Dropped
  <2> QED
    BY <1>2, <1>3, <2>1 DEF OutInv, Queue, Present, NotRevived, Deletions, Coming, Faults, CutOff
<1>4. CASE v \in busy
  <2>1. q # <<>> /\ h \in MediaTasks /\ Head(q) = h /\ 1 \in 1..Len(q)
    BY <1>1, <1>4 DEF TypeInv, Busy
  <2> DEFINE r == <<h>>
  <2>2. chain'[v] = r
    BY <1>1, <1>4, <2>1 DEF Dropped
  <2>3. Len(r) = 1 /\ r[1] = h /\ \A i \in 1..Len(r) : i = 1 /\ r[i] = h
    BY <2>1
  <2> HIDE DEF r
  <2>4. Queue(q, segs[v] \cup failed[v], made[v], list[v])
    BY DEF OutInv
  <2>5. h.kind = "playlist" => h.what \subseteq segs[v]
    BY <1>4 DEF OutInv
  <2>6. Present(r, segs[v] \cup failed[v])
    BY <2>3, <2>5 DEF Present, Supplied
  <2>7. NotRevived(r)
    BY <2>3 DEF NotRevived
  <2>8. Deletions(r, made[v], list[v])
    <3> SUFFICES ASSUME h.kind = "delete", NEW k \in h.what
                 PROVE  k + Window <= made[v] /\ Gone(r, 1, k, list[v])
      BY <2>3 DEF Deletions
    <3>1. k + Window <= made[v] /\ Gone(q, 1, k, list[v])
      BY <2>1, <2>4 DEF Queue, Deletions
    <3> QED
      BY <3>1 DEF Gone
  <2>9. Faults(v)'
    <3>1. keep => h.kind # "delete"
      BY <2>1 DEF OutInv, Faults
    <3> QED
      BY <1>2, <2>2, <2>3, <3>1 DEF Faults
  <2> HIDE DEF q, h
  <2> QED
    BY <1>2, <1>4, <2>2, <2>3, <2>5, <2>6, <2>7, <2>8, <2>9 DEF OutInv, Queue, CutOff
<1> QED
  BY <1>3, <1>4

\* A step that leaves the chain of the variant as it is.
LEMMA OtherChain ==
  ASSUME TypeInv, NEW v \in Variants, OutInv(v), NEW c \in Chains, c # v,
         Uploads(c) \/ WriteSegment(c) \/ WritePlaylist(c) \/ DeleteSegment(c)
  PROVE  OutInv(v)'
<1>1. v \in Chains /\ v # "_master"
  BY VariantChains
<1>2. UNCHANGED <<keep, aborted, closed>>
  BY DEF Uploads, WriteSegment, WritePlaylist, DeleteSegment, StartMedia, SkipMaster, StartMaster,
         FinishSegment, FinishPlaylist, FinishDelete, FinishMaster, Finish, ffmpegVars, jobVars,
         endVars
<1>3. chain'[v] = chain[v]
  BY <1>1 DEF Uploads, WriteSegment, WritePlaylist, DeleteSegment, StartMedia, SkipMaster,
       StartMaster, FinishSegment, FinishPlaylist, FinishDelete, FinishMaster, Enqueue, Popped,
       MasterChain, TypeInv, ChainTypes
<1>4. made'[v] = made[v] /\ hand'[v] = hand[v]
  BY DEF Uploads, WriteSegment, WritePlaylist, DeleteSegment, StartMedia, SkipMaster, StartMaster,
         FinishSegment, FinishPlaylist, FinishDelete, FinishMaster, Finish, ffmpegVars, TypeInv,
         FilesOK
<1>5. failed'[v] = failed[v] /\ segs'[v] = segs[v] /\ list'[v] = list[v]
  BY DEF Uploads, WriteSegment, WritePlaylist, DeleteSegment, StartMedia, SkipMaster, StartMaster,
         FinishSegment, FinishPlaylist, FinishDelete, FinishMaster, storeVars, TypeInv, FilesOK
<1>6. v \in busy' <=> v \in busy
  BY DEF Uploads, WriteSegment, WritePlaylist, DeleteSegment, StartMedia, SkipMaster, StartMaster,
         FinishSegment, FinishPlaylist, FinishDelete, FinishMaster, Finish
<1> QED
  BY <1>2, <1>3, <1>4, <1>5, <1>6, OutFrame

LEMMA NextOut ==
  ASSUME TypeInv, NEW v \in Variants, OutInv(v), keep \/ faults = {}, Next
  PROVE  OutInv(v)'
<1> USE VariantChains
<1>1. ASSUME NEW c \in Variants, WriteSegment(c) \/ WritePlaylist(c) \/ DeleteSegment(c)
      PROVE  OutInv(v)'
  BY <1>1, WriteOut, OtherChain
<1>2. ASSUME NEW c \in Chains, Uploads(c)
      PROVE  OutInv(v)'
  <2>1. CASE c # v
    BY <1>2, <2>1, OtherChain
  <2>2. CASE c = v /\ StartMedia(v)
    BY <2>2, StartOut
  <2>3. CASE c = v /\ (FinishSegment(v) \/ FinishPlaylist(v) \/ FinishDelete(v))
    BY <2>3, FinishOut
  <2>4. ASSUME c = v, SkipMaster(v) \/ StartMaster(v) \/ FinishMaster(v)
        PROVE  FALSE
    <3>1. v \in Chains /\ chain[v] # <<>> /\ Head(chain[v]).kind = "master"
      BY <2>4 DEF SkipMaster, StartMaster, FinishMaster, Finish, Idle, TypeInv, Busy
    <3> QED
      BY <3>1, MasterHeads DEF TypeInv
  <2> QED
    BY <1>2, <2>1, <2>2, <2>3, <2>4 DEF Uploads
<1>3. CASE Settle
  BY <1>3, OutFrame DEF Settle, Enqueue, ffmpegVars, jobVars, endVars, storeVars, TypeInv, ChainTypes
<1>4. CASE Drain
  BY <1>4, OutFrame DEF Drain, LastMaster, ffmpegVars, jobVars, storeVars, TypeInv, ChainTypes
<1>5. CASE DrainWaited \/ DrainTimesOut
  <2>1. DrainEnds
    BY <1>5 DEF DrainWaited, DrainTimesOut
  <2>2. CASE chain' = Dropped /\ aborted'
    BY <2>1, <2>2, CutOut DEF DrainEnds, ffmpegVars, jobVars, storeVars
  <2>3. CASE UNCHANGED <<chain, aborted>>
    BY <2>1, <2>3, OutFrame DEF DrainEnds, ffmpegVars, jobVars, storeVars
  <2> QED
    BY <2>1, <2>2, <2>3 DEF DrainEnds
<1>6. CASE Abort
  BY <1>6, CutOut DEF Abort, ffmpegVars, jobVars, storeVars
<1> QED
  BY <1>1, <1>2, <1>3, <1>4, <1>5, <1>6 DEF Next

-----------------------------------------------------------------------------
(* The invariant is inductive, and what is visible is stored *)

LEMMA InitIInv == Init => IInv
BY InitTypes, InitOut DEF IInv

LEMMA NextIInv == IInv /\ [Next]_vars => IInv'
<1> SUFFICES ASSUME IInv, [Next]_vars PROVE IInv'
  OBVIOUS
<1>1. TypeInv'
  BY NextTypes DEF IInv
<1>2. CASE Next
  <2>1. keep' = keep /\ faults' = faults
    BY <1>2, NextJob DEF jobVars
  <2> QED
    BY <1>1, <1>2, <2>1, NextOut DEF IInv
<1>3. CASE UNCHANGED vars
  <2>1. keep' = keep /\ faults' = faults
    BY <1>3 DEF vars, ffmpegVars, jobVars
  <2>2. ASSUME NEW v \in Variants, OutInv(v) PROVE OutInv(v)'
    BY <1>3, <2>2, OutFrame DEF vars, ffmpegVars, jobVars, endVars, storeVars
  <2> QED
    BY <1>1, <2>1, <2>2 DEF IInv
<1> QED
  BY <1>2, <1>3

LEMMA IInvVisible == IInv => VisibleIsStored
BY DEF IInv, OutInv, VisibleIsStored

\* Whatever the ladder, the window and the delete threshold: while no write fails, and whatever
\* fails when the broadcast is recorded, every segment of a playlist viewers see is in storage.
THEOREM VisibleStored == Spec => []VisibleIsStored
BY InitIInv, NextIInv, IInvVisible, PTL DEF Spec

-----------------------------------------------------------------------------
(* The master: what is ready when the drain begins *)

\* What the master under way lists, if one is, and whether there are more than this one among n tasks.
OnTheWay == IF "_master" \in busy THEN Head(chain["_master"]).what ELSE {}
Ahead(n) == n > (IF "_master" \in busy THEN 1 ELSE 0)

\* What was written was announced, and no master under way takes a variant back.
Grows == published = announced /\ announced \subseteq ready
         /\ ("_master" \in busy => announced \subseteq OnTheWay /\ OnTheWay \subseteq ready)

\* A variant that is ready is announced, is in the master under way, or one that is queued or that
\* waits for the settle timer will list it ...
Pending ==
  ~closed /\ Audio \subseteq ready =>
    \A v \in Videos \cap ready :
      v \in announced \cup OnTheWay \/ Ahead(Len(chain["_master"])) \/ timer

\* ... and once the drain has begun, it is one of those the drain waits for.
Promised ==
  closed /\ Audio \subseteq readyAtDrain =>
    /\ readyAtDrain \subseteq ready
    /\ \A v \in Videos \cap readyAtDrain :
         v \in announced \/ (v \in OnTheWay /\ waits["_master"] > 0) \/ Ahead(waits["_master"])

MasterInv == ~aborted /\ ~MasterFails => Grows /\ Pending /\ Promised

LEMMA InitMaster == Init => MasterInv
BY DEF Init, MasterInv, Grows, Pending, Promised, OnTheWay

\* A step that concerns neither the master nor what it lists.
LEMMA MasterFrame ==
  ASSUME MasterInv, ~aborted' => ~aborted, chain'["_master"] = chain["_master"],
         "_master" \in busy' <=> "_master" \in busy, waits'["_master"] = waits["_master"],
         UNCHANGED <<faults, published, announced, ready, timer, closed, readyAtDrain>>
  PROVE  MasterInv'
<1>1. OnTheWay' = OnTheWay
  BY DEF OnTheWay
<1>2. Ahead(Len(chain["_master"]))' <=> Ahead(Len(chain["_master"]))
  BY DEF Ahead
<1>3. Ahead(waits["_master"])' <=> Ahead(waits["_master"])
  BY DEF Ahead
<1>4. MasterFails' = MasterFails
  BY DEF MasterFails
<1> QED
  BY <1>1, <1>2, <1>3, <1>4 DEF MasterInv, Grows, Pending, Promised

\* One more master is queued, for a variant that has become ready or because the timer fired.
LEMMA MasterQueued ==
  ASSUME TypeInv, MasterInv, ready \subseteq ready',
         chain'["_master"] = Append(chain["_master"], MasterTask),
         "_master" \in busy' <=> "_master" \in busy, waits'["_master"] = waits["_master"],
         UNCHANGED <<faults, published, announced, aborted, closed, readyAtDrain>>
  PROVE  MasterInv'
<1>1. "_master" \in Chains /\ chain["_master"] \in Seq(MasterTasks)
      /\ ("_master" \in busy => chain["_master"] # <<>>)
  BY DEF TypeInv, ChainTypes, TasksOf, Chains, Busy
<1>2. /\ Len(chain'["_master"]) = Len(chain["_master"]) + 1 /\ Len(chain["_master"]) \in Nat
      /\ chain["_master"] # <<>> =>
           Head(chain'["_master"]) = Head(chain["_master"]) /\ Len(chain["_master"]) > 0
  BY <1>1, MasterTaskType
<1>3. OnTheWay' = OnTheWay
  BY <1>1, <1>2 DEF OnTheWay
<1>4. Ahead(Len(chain["_master"]))'
  BY <1>1, <1>2 DEF Ahead
<1>5. Ahead(waits["_master"])' <=> Ahead(waits["_master"])
  BY DEF Ahead
<1>6. MasterFails' = MasterFails
  BY DEF MasterFails
<1> QED
  BY <1>3, <1>4, <1>5, <1>6 DEF MasterInv, Grows, Pending, Promised

\* The first task of the master's chain has nothing to do.
LEMMA SkipKeeps ==
  ASSUME TypeInv, MasterInv, NEW c \in Chains, SkipMaster(c)
  PROVE  MasterInv'
<1> SUFFICES ASSUME ~aborted, ~MasterFails PROVE (Grows /\ Pending /\ Promised)'
  BY DEF SkipMaster, MasterInv, MasterFails, ffmpegVars, jobVars
<1>1. chain[c] # <<>> /\ Head(chain[c]).kind = "master" /\ c \notin busy
  BY DEF SkipMaster, Idle
<1>2. c = "_master"
  BY <1>1, MasterHeads DEF TypeInv
<1>3. Grows /\ Pending /\ Promised
  BY DEF MasterInv
<1>4. /\ UNCHANGED <<busy, ready, closed, aborted, readyAtDrain, announced, published>>
      /\ \/ ~Playable /\ UNCHANGED timer
         \/ Playable /\ ~Settles /\ timer' = TRUE
         \/ Playable /\ ReadyVideos = published
  BY DEF SkipMaster, masterVars, storeVars
<1>5. OnTheWay' = {} /\ OnTheWay = {}
  BY <1>1, <1>2, <1>4 DEF OnTheWay
<1>6. Grows'
  BY <1>1, <1>2, <1>3, <1>4 DEF Grows
\* What is ready was announced already, or nothing is to be shown without audio, or the timer runs.
<1>7. Audio \subseteq ready =>
        \/ Videos \cap ready = {}
        \/ ~closed /\ timer'
        \/ Videos \cap ready \subseteq announced
  BY <1>3, <1>4 DEF Playable, ReadyVideos, Settles, Grows
<1>8. Pending'
  BY <1>4, <1>7 DEF Pending
<1>9. Promised'
  BY <1>3, <1>4, <1>7 DEF Promised
<1> QED
  BY <1>6, <1>8, <1>9

\* A master is begun with all that is ready.
LEMMA StartKeeps ==
  ASSUME TypeInv, MasterInv, NEW c \in Chains, StartMaster(c)
  PROVE  MasterInv'
<1> SUFFICES ASSUME ~aborted, ~MasterFails PROVE (Grows /\ Pending /\ Promised)'
  BY DEF StartMaster, MasterInv, MasterFails, ffmpegVars, jobVars, endVars
<1>1. chain[c] # <<>> /\ Head(chain[c]).kind = "master" /\ c \notin busy
  BY DEF StartMaster, Idle
<1>2. c = "_master"
  BY <1>1, MasterHeads DEF TypeInv
<1>3. Grows /\ Pending /\ Promised
  BY DEF MasterInv
<1>4. /\ UNCHANGED <<ready, published, announced, closed, readyAtDrain, waits>>
      /\ busy' = busy \cup {"_master"}
      /\ chain' = [chain EXCEPT !["_master"][1] = Task("master", ReadyVideos)]
  BY <1>2 DEF StartMaster, endVars, storeVars
<1>5. chain["_master"] \in Seq(MasterTasks) /\ chain["_master"] # <<>>
      /\ "_master" \in DOMAIN chain
  BY <1>1, <1>2 DEF TypeInv, ChainTypes, TasksOf
<1>6. OnTheWay' = ReadyVideos
  <2>1. chain'["_master"] = [chain["_master"] EXCEPT ![1] = Task("master", ReadyVideos)]
    BY <1>4, <1>5
  <2>2. Head(chain'["_master"]) = Task("master", ReadyVideos)
    BY <1>5, <2>1
  <2> QED
    BY <1>4, <2>2 DEF OnTheWay, Task
<1>7. ReadyVideos = Videos \cap ready /\ announced \subseteq Videos
  BY DEF ReadyVideos, TypeInv, MasterOK
<1>8. Grows'
  BY <1>3, <1>4, <1>6, <1>7 DEF Grows
<1>9. Pending'
  BY <1>4, <1>6, <1>7 DEF Pending
<1>10. Promised'
  <2> SUFFICES ASSUME closed', (Audio \subseteq readyAtDrain)'
               PROVE  /\ readyAtDrain \subseteq ready
                      /\ \A v \in Videos \cap readyAtDrain :
                           v \in announced \/ (v \in OnTheWay' /\ waits["_master"] > 0)
    BY <1>4 DEF Promised
  <2>1. /\ readyAtDrain \subseteq ready
        /\ \A v \in Videos \cap readyAtDrain :
             v \in announced \/ (v \in OnTheWay /\ waits["_master"] > 0) \/ Ahead(waits["_master"])
    BY <1>3, <1>4 DEF Promised
  <2>2. OnTheWay = {} /\ (Ahead(waits["_master"]) => waits["_master"] > 0)
    BY <1>1, <1>2 DEF OnTheWay, Ahead
  <2> QED
    BY <1>6, <1>7, <2>1, <2>2
<1> QED
  BY <1>8, <1>9, <1>10

\* A master is written and announced.
LEMMA WrittenKeeps ==
  ASSUME TypeInv, MasterInv, NEW c \in Chains, FinishMaster(c)
  PROVE  MasterInv'
<1>0. faults' = faults /\ aborted' = aborted /\ closed' = closed /\ timer' = timer
      /\ readyAtDrain' = readyAtDrain /\ ready' = ready
  BY DEF FinishMaster, Finish, ffmpegVars, jobVars
<1> SUFFICES ASSUME ~aborted, ~MasterFails PROVE (Grows /\ Pending /\ Promised)'
  BY <1>0 DEF MasterInv, MasterFails
<1>1. chain[c] # <<>> /\ Head(chain[c]).kind = "master" /\ c \in busy
  BY DEF FinishMaster, Finish, TypeInv, Busy
<1>2. c = "_master"
  BY <1>1, MasterHeads DEF TypeInv
<1>3. Grows /\ Pending /\ Promised
  BY DEF MasterInv
<1>4. /\ busy' = busy \ {"_master"} /\ announced' = OnTheWay /\ published' = OnTheWay
      /\ chain' = Popped("_master") /\ waits' = Counted("_master")
  BY <1>1, <1>2 DEF FinishMaster, Finish, MasterFails, Written, OnTheWay
<1>5. /\ chain["_master"] \in Seq(MasterTasks) /\ chain["_master"] # <<>>
      /\ chain'["_master"] = Tail(chain["_master"])
  <2>1. chain["_master"] \in Seq(MasterTasks) /\ chain["_master"] # <<>> /\ "_master" \in DOMAIN chain
    BY <1>1, <1>2 DEF TypeInv, ChainTypes, TasksOf
  <2> QED
    BY <1>4, <2>1 DEF Popped
<1>6. Len(chain'["_master"]) = Len(chain["_master"]) - 1 /\ Len(chain["_master"]) \in Nat
  BY <1>5
<1>7. /\ waits["_master"] \in Nat
      /\ waits'["_master"] = IF waits["_master"] = 0 THEN 0 ELSE waits["_master"] - 1
  <2>1. waits \in [Chains -> Nat] /\ "_master" \in Chains
    BY <1>2 DEF TypeInv, WaitsOK
  <2> QED
    BY <1>4, <2>1 DEF Counted
<1>8. "_master" \in busy /\ "_master" \notin busy'
  BY <1>1, <1>2, <1>4
<1>9. announced \subseteq announced' /\ OnTheWay' = {}
  BY <1>3, <1>4, <1>8 DEF Grows, OnTheWay
<1>10. Grows'
  BY <1>0, <1>3, <1>4, <1>8 DEF Grows
<1>11. Pending'
  <2>1. Ahead(Len(chain["_master"])) => Ahead(Len(chain["_master"]))'
    BY <1>6, <1>8 DEF Ahead
  <2> QED
    BY <1>0, <1>3, <1>4, <1>9, <2>1 DEF Pending
<1>12. Promised'
  <2>1. Ahead(waits["_master"]) => Ahead(waits["_master"])'
    BY <1>7, <1>8 DEF Ahead
  <2> QED
    BY <1>0, <1>3, <1>4, <1>9, <2>1 DEF Promised
<1> QED
  BY <1>10, <1>11, <1>12

\* A playlist is uploaded.
LEMMA PlaylistKeeps ==
  ASSUME TypeInv, MasterInv, NEW v \in Variants, FinishPlaylist(v)
  PROVE  MasterInv'
<1>1. v \in Chains /\ v # "_master" /\ "_master" \in Chains
  BY VariantChains DEF Chains
<1>2. /\ UNCHANGED <<faults, published, announced, timer, closed, aborted, readyAtDrain>>
      /\ "_master" \in busy' <=> "_master" \in busy
  BY <1>1 DEF FinishPlaylist, Finish, ffmpegVars, jobVars
<1>3. waits'["_master"] = waits["_master"]
  <2>1. waits \in [Chains -> Nat] /\ waits' = Counted(v)
    BY DEF TypeInv, WaitsOK, FinishPlaylist, Finish
  <2> QED
    BY <1>1, <2>1 DEF Counted
<1>4. Popped(v)["_master"] = chain["_master"] /\ "_master" \in DOMAIN Popped(v)
  BY <1>1 DEF Popped, TypeInv, ChainTypes
<1>5. CASE chain' = Popped(v) /\ (ready' = ready \/ aborted)
  <2>1. CASE aborted
    BY <1>2, <2>1 DEF MasterInv
  <2>2. CASE ready' = ready
    BY <1>2, <1>3, <1>4, <1>5, <2>2, MasterFrame
  <2> QED
    BY <1>5, <2>1, <2>2
<1>6. CASE chain' = [Popped(v) EXCEPT !["_master"] = Append(@, MasterTask)] /\ ready \subseteq ready'
  <2>1. chain'["_master"] = Append(chain["_master"], MasterTask)
    BY <1>4, <1>6
  <2> QED
    BY <1>2, <1>3, <1>6, <2>1, MasterQueued
<1> QED
  BY <1>5, <1>6 DEF FinishPlaylist, MasterChain

LEMMA DrainKeeps ==
  ASSUME TypeInv, MasterInv, Drain
  PROVE  MasterInv'
<1>0. faults' = faults /\ aborted' = aborted
  BY DEF Drain, ffmpegVars, jobVars
<1> SUFFICES ASSUME ~aborted, ~MasterFails PROVE (Grows /\ Pending /\ Promised)'
  BY <1>0 DEF MasterInv, MasterFails
<1>1. Grows /\ Pending /\ ~closed
  BY DEF MasterInv, Drain
<1>2. /\ UNCHANGED <<busy, ready, published, announced>> /\ readyAtDrain' = ready /\ closed'
      /\ chain' = LastMaster
  BY DEF Drain, storeVars
<1>3. "_master" \in Chains /\ chain["_master"] \in Seq(MasterTasks)
      /\ ("_master" \in busy => chain["_master"] # <<>>) /\ "_master" \in DOMAIN chain
  BY DEF TypeInv, ChainTypes, TasksOf, Chains, Busy
<1>4. waits'["_master"] = Len(chain'["_master"])
  BY <1>3 DEF Drain
<1>5. chain'["_master"] = IF timer THEN Append(chain["_master"], MasterTask) ELSE chain["_master"]
  BY <1>2, <1>3 DEF LastMaster
<1>6. /\ Len(chain["_master"]) \in Nat /\ ("_master" \in busy => Len(chain["_master"]) > 0)
      /\ Len(chain'["_master"]) = Len(chain["_master"]) + (IF timer THEN 1 ELSE 0)
      /\ ("_master" \in busy => Head(chain'["_master"]) = Head(chain["_master"]))
  BY <1>3, <1>5, MasterTaskType
<1>7. OnTheWay' = OnTheWay
  BY <1>2, <1>6 DEF OnTheWay
<1> DEFINE n == Len(chain["_master"])
<1>a. /\ waits'["_master"] = n + (IF timer THEN 1 ELSE 0) /\ n \in Nat
      /\ ("_master" \in busy => n > 0)
  BY <1>4, <1>6
<1>b. Ahead(waits["_master"])' <=> waits'["_master"] > (IF "_master" \in busy THEN 1 ELSE 0)
  BY <1>2 DEF Ahead
<1>c. Ahead(n) <=> n > (IF "_master" \in busy THEN 1 ELSE 0)
  BY DEF Ahead
<1>8. timer \/ Ahead(n) => Ahead(waits["_master"])'
  <2> HIDE DEF n
  <2> QED
    BY <1>a, <1>b, <1>c
<1>9. OnTheWay # {} => waits'["_master"] > 0
  <2>1. OnTheWay # {} => "_master" \in busy
    BY DEF OnTheWay
  <2> HIDE DEF n
  <2> QED
    BY <1>a, <2>1
<1>10. Grows'
  BY <1>1, <1>2, <1>7 DEF Grows
<1>11. Promised'
  <2> SUFFICES ASSUME Audio \subseteq ready, NEW v \in Videos \cap ready
               PROVE  v \in announced \/ (v \in OnTheWay /\ waits'["_master"] > 0)
                      \/ Ahead(waits["_master"])'
    BY <1>2, <1>7 DEF Promised
  <2>1. v \in announced \cup OnTheWay \/ Ahead(Len(chain["_master"])) \/ timer
    BY <1>1 DEF Pending
  <2> QED
    BY <1>8, <1>9, <2>1
<1> QED
  BY <1>2, <1>10, <1>11 DEF Pending

LEMMA NextMaster == TypeInv /\ MasterInv /\ [Next]_vars => MasterInv'
<1> SUFFICES ASSUME TypeInv, MasterInv, [Next]_vars PROVE MasterInv'
  OBVIOUS
<1>0. chain \in [Chains -> Seq(Tasks)] /\ "_master" \in Chains /\ waits \in [Chains -> Nat]
  BY DEF TypeInv, ChainTypes, Chains, WaitsOK
<1>1. ASSUME NEW v \in Variants, WriteSegment(v) \/ WritePlaylist(v) \/ DeleteSegment(v)
      PROVE  MasterInv'
  <2>1. v # "_master"
    BY VariantChains
  <2>2. UNCHANGED <<faults, published, announced, ready, timer, closed, aborted, readyAtDrain, busy, waits>>
    BY <1>1 DEF WriteSegment, WritePlaylist, DeleteSegment, jobVars, masterVars, endVars, storeVars
  <2>3. chain'["_master"] = chain["_master"]
    BY <1>0, <1>1, <2>1 DEF WriteSegment, WritePlaylist, DeleteSegment, Enqueue
  <2> QED
    BY <2>2, <2>3, MasterFrame
<1>2. ASSUME NEW c \in Chains, StartMedia(c) PROVE MasterInv'
  <2>1. c # "_master" /\ busy' = busy \cup {c}
    BY <1>2, StartTypes, VariantChains
  <2>2. UNCHANGED <<faults, published, announced, ready, timer, closed, aborted, readyAtDrain, waits>>
    BY <1>2 DEF StartMedia, ffmpegVars, jobVars, masterVars, endVars, storeVars
  <2>3. chain'["_master"] = chain["_master"]
    BY <1>0, <1>2, <2>1 DEF StartMedia
  <2> QED
    BY <2>1, <2>2, <2>3, MasterFrame
<1>3. ASSUME NEW v \in Variants, FinishSegment(v) \/ FinishDelete(v) PROVE MasterInv'
  <2>1. v # "_master" /\ Finish(v) /\ chain' = Popped(v)
    BY <1>3, VariantChains DEF FinishSegment, FinishDelete
  <2>2. UNCHANGED <<faults, published, announced, ready, timer, closed, aborted, readyAtDrain>>
    BY <1>3 DEF FinishSegment, FinishDelete, Finish, ffmpegVars, jobVars
  <2>3. chain'["_master"] = chain["_master"] /\ waits'["_master"] = waits["_master"]
    BY <1>0, <2>1 DEF Finish, Popped, Counted
  <2>4. "_master" \in busy' <=> "_master" \in busy
    BY <2>1 DEF Finish
  <2> QED
    BY <2>2, <2>3, <2>4, MasterFrame
<1>4. ASSUME NEW c \in Chains, Uploads(c) PROVE MasterInv'
  BY <1>2, <1>3, <1>4, SkipKeeps, StartKeeps, WrittenKeeps, PlaylistKeeps DEF Uploads
<1>5. CASE Settle
  <2>1. chain'["_master"] = Append(chain["_master"], MasterTask)
    BY <1>0, <1>5 DEF Settle, Enqueue
  <2>2. UNCHANGED <<faults, published, announced, ready, closed, aborted, readyAtDrain, busy, waits>>
    BY <1>5 DEF Settle, ffmpegVars, jobVars, endVars, storeVars
  <2> QED
    BY <2>1, <2>2, MasterQueued
<1>6. CASE DrainEnds
  <2>1. CASE aborted'
    BY <2>1 DEF MasterInv
  <2>2. CASE ~aborted'
    <3>1. UNCHANGED <<chain, aborted, faults, busy, published, announced, ready, timer, closed,
                      readyAtDrain, waits>>
      BY <1>6, <2>2 DEF DrainEnds, ffmpegVars, jobVars, masterVars, storeVars
    <3> QED
      BY <3>1, MasterFrame
  <2> QED
    BY <2>1, <2>2
<1>7. CASE Abort
  BY <1>7 DEF Abort, MasterInv
<1>8. CASE UNCHANGED vars
  <2>1. UNCHANGED <<chain, aborted, faults, busy, published, announced, ready, timer, closed,
                    readyAtDrain, waits>>
    BY <1>8 DEF vars, ffmpegVars, jobVars, masterVars, endVars, storeVars
  <2> QED
    BY <2>1, MasterFrame
<1> QED
  BY <1>1, <1>4, <1>5, <1>6, <1>7, <1>8, DrainKeeps DEF Next, DrainWaited, DrainTimesOut

\* "Don't lose a pending first master" (output.ts:139): for any ladder, a drain that was not cut off
\* leaves no variant behind that was ready when it began, whatever the settle timer was doing.
THEOREM NoPendingMasterLost == Spec => PendingMasterKept
<1>1. TypeInv /\ MasterInv /\ DrainWaited /\ ~MasterFails /\ Audio \subseteq readyAtDrain
        => Videos \cap readyAtDrain \subseteq announced
  <2> SUFFICES ASSUME TypeInv, MasterInv, DrainWaited, ~MasterFails, Audio \subseteq readyAtDrain
               PROVE  Videos \cap readyAtDrain \subseteq announced
    OBVIOUS
  <2>1. closed /\ ~aborted /\ waits["_master"] = 0
    BY DEF DrainWaited, DrainEnds, Waited, Chains
  <2>2. ~Ahead(waits["_master"])
    BY <2>1 DEF Ahead
  <2> QED
    BY <2>1, <2>2 DEF MasterInv, Promised
<1>2. Spec => [](TypeInv /\ MasterInv)
  BY InitTypes, NextTypes, InitMaster, NextMaster, PTL DEF Spec
<1>3. TypeInv /\ MasterInv /\ [Next]_vars
        => [DrainWaited /\ ~MasterFails /\ Audio \subseteq readyAtDrain
              => Videos \cap readyAtDrain \subseteq announced]_vars
  BY <1>1
<1> QED
  BY <1>2, <1>3, PTL DEF Spec, PendingMasterKept

=============================================================================
