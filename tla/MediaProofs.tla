---------------------------- MODULE MediaProofs ----------------------------
(***************************************************************************)
(* Proofs about the recording of a broadcast, VodRecording, for every      *)
(* number of runs and segments and every window of the live playlist, and  *)
(* about the plan of its ladder, for every set of sources and rungs.       *)
(* They are stated of MediaSpec, the specification the runs check: each is *)
(* one of its parts, and takes no other steps there.                       *)
(***************************************************************************)
EXTENDS MCMedia, SequenceTheorems, WellFoundedInduction, TLAPS

\* A run at work on its recording, and one whose writes have not settled either.
Recording(r) == phase[r] \in {"recording", "draining", "fenced", "flushing"}
Works(r) == Recording(r) \/ puts[r] # {}

\* Writes do not overtake each other, and runs do not overlap.
Orderly == trouble \cap {"overtake", "overlap"} = {}

\* Segments are numbered from run to run.
Numbers ==
  /\ stored.segs \subseteq 1..last /\ shown \subseteq 1..last
  /\ reading # V!NotReading => reading \subseteq 1..last
  /\ \A r \in V!Runs : /\ lines[r] \subseteq 1..last /\ recorded[r] \subseteq 1..last
                       /\ \A s \in puts[r] : s \subseteq 1..last

\* A write has nothing but lines.
Carried == \A r \in V!Runs : \A s \in puts[r] : s \subseteq lines[r]

\* A run that has not begun has nothing, and only a fault fences one or cuts it short.
NotBegun ==
  \A r \in V!Runs :
    /\ phase[r] \in {"none", "resuming"} => puts[r] = {} /\ recorded[r] = {}
    /\ phase[r] = "fenced" => "fence" \in trouble
    /\ phase[r] = "gone" => trouble \cap {"fence", "crash"} # {}

\* The runs begin one after the other.
InTurn == \A q, r \in V!Runs : q < r /\ phase[r] # "none" => phase[q] # "none"

\* One run at a time.
Alone == Orderly => \A q, r \in V!Runs : ~V!Over(q) /\ ~V!Over(r) => q = r

\* The control plane reads what no run writes any more.
AtRest ==
  Orderly =>
    /\ ended => \A r \in V!Runs : V!Over(r)
    /\ reading # V!NotReading => ended /\ reading = stored.segs
    /\ finalized => ended

\* A run knows what is stored, and so does each of its writes.
Grown ==
  trouble \subseteq {"crash", "fence", "tail"} =>
    \A r \in V!Runs :
      /\ Recording(r) => stored.segs \subseteq lines[r]
      /\ \A s \in puts[r] : stored.segs \subseteq s

\* What a run has recorded is stored, or the last of its writes under way, or will be written;
\* a run that is done has its last write under way, if any.
Kept ==
  Orderly =>
    \A r \in V!Runs :
      /\ Recording(r) => \/ dirty[r] \/ lines[r] \in puts[r]
                         \/ puts[r] = {} /\ lines[r] \subseteq stored.segs
      /\ phase[r] = "flushing" => lines[r] \in puts[r]
      /\ phase[r] = "done" /\ "tail" \notin trouble => lines[r] \in puts[r] \/ puts[r] = {}

\* A live playlist has nothing the recording has skipped.
NoGap == \A r \in V!Runs : \A k \in V!Listed(r) : (\E n \in lines[r] : k <= n) => k \in lines[r]

\* What was shown is recorded by the run at work, or stored.
ShownKept ==
  trouble = {} =>
    /\ \A r \in V!Runs : Works(r) => shown \subseteq lines[r]
    /\ (\A r \in V!Runs : ~Works(r)) => shown \subseteq stored.segs

VInv == /\ V!VodAssumption /\ V!TypeOK /\ trouble \in Troubles /\ Numbers /\ Carried /\ NotBegun
        /\ InTurn /\ Alone /\ AtRest /\ Grown /\ Kept /\ NoGap /\ ShownKept

-----------------------------------------------------------------------------
LEMMA VTypes ==
  ASSUME V!VodAssumption, V!TypeOK, trouble \in Troubles, [V!Next]_V!vars
  PROVE  V!TypeOK' /\ trouble' = trouble
<1> USE DEF V!TypeOK, V!runVars, V!endVars
<1>1. ASSUME NEW r \in V!Runs, V!Start(r) \/ V!Stop(r) \/ V!Fence(r) \/ V!FenceEnds(r)
             \/ V!NothingToFlush(r)
      PROVE  V!TypeOK' /\ trouble' = trouble
  BY <1>1 DEF V!Start, V!Stop, V!Fence, V!FenceEnds, V!NothingToFlush, V!Goto, V!Phases
<1>2. ASSUME NEW r \in V!Runs, V!Resume(r)
      PROVE  V!TypeOK' /\ trouble' = trouble
  BY <1>2 DEF V!Resume, V!Recorded, V!Goto, V!Phases
<1>3. ASSUME NEW r \in V!Runs, V!Produce(r)
      PROVE  V!TypeOK' /\ trouble' = trouble
  BY <1>3 DEF V!Produce, V!Segments, V!VodAssumption
<1>4. ASSUME NEW r \in V!Runs, V!OnPlaylist(r)
      PROVE  V!TypeOK' /\ trouble' = trouble
  <2>1. V!Listed(r) \subseteq V!Segments /\ V!Fresh(r) \subseteq V!Segments
    BY DEF V!Listed, V!Fresh
  <2> QED
    BY <1>4, <2>1 DEF V!OnPlaylist
<1>5. ASSUME NEW r \in V!Runs, V!Write(r)
      PROVE  puts' \in [V!Runs -> SUBSET SUBSET V!Segments] /\ dirty' \in [V!Runs -> BOOLEAN]
  <2>1. puts[r] \cup {lines[r]} \in SUBSET SUBSET V!Segments
    OBVIOUS
  <2> QED
    BY <1>5, <2>1 DEF V!Write
<1>6. ASSUME NEW r \in V!Runs, V!Flush(r)
      PROVE  V!TypeOK' /\ trouble' = trouble
  BY <1>5, <1>6 DEF V!Flush
<1>7. ASSUME NEW r \in V!Runs, V!FinalFlush(r)
      PROVE  V!TypeOK' /\ trouble' = trouble
  BY <1>5, <1>7 DEF V!FinalFlush, V!Goto, V!Phases
<1>8. ASSUME NEW r \in V!Runs, NEW content \in puts[r], V!AfterWrite(r, content),
             puts' = [puts EXCEPT ![r] = @ \ {content}]
      PROVE  /\ phase' \in [V!Runs -> V!Phases] /\ puts' \in [V!Runs -> SUBSET SUBSET V!Segments]
             /\ V!Playlist(content, FALSE) \in [segs : SUBSET V!Segments, final : BOOLEAN]
  BY <1>8 DEF V!AfterWrite, V!Goto, V!Phases, V!Playlist
<1>9. ASSUME NEW r \in V!Runs, V!Land(r)
      PROVE  V!TypeOK' /\ trouble' = trouble
  <2>1. PICK content \in puts[r] : /\ puts' = [puts EXCEPT ![r] = @ \ {content}]
                                   /\ stored' = V!Playlist(content, FALSE)
                                   /\ V!AfterWrite(r, content)
    BY <1>9 DEF V!Land
  <2>2. /\ phase' \in [V!Runs -> V!Phases] /\ puts' \in [V!Runs -> SUBSET SUBSET V!Segments]
        /\ stored' \in [segs : SUBSET V!Segments, final : BOOLEAN]
    BY <1>8, <2>1
  <2> QED
    BY <1>9, <2>2 DEF V!Land, V!AsItIs
<1>10. ASSUME NEW r \in V!Runs, V!PutFails(r)
      PROVE  V!TypeOK' /\ trouble' = trouble
  BY <1>8, <1>10 DEF V!PutFails, V!Retry
<1>11. ASSUME NEW r \in V!Runs, V!Crash(r)
      PROVE  V!TypeOK' /\ trouble' = trouble
  BY <1>11 DEF V!Crash, V!Goto, V!Phases
<1>12. CASE V!End \/ V!FinalizeReads
  BY <1>12 DEF V!End, V!FinalizeReads
<1>13. CASE V!FinalizeWrites \/ V!FinalizeFails
  <2>1. reading # V!NotReading
    BY <1>13 DEF V!FinalizeWrites, V!FinalizeFails
  <2>2. V!Finished \in [segs : SUBSET V!Segments, final : BOOLEAN]
    BY <2>1 DEF V!Finished, V!Playlist
  <2>3. stored' \in [segs : SUBSET V!Segments, final : BOOLEAN]
    BY <1>13, <2>2 DEF V!FinalizeWrites, V!FinalizeFails
  <2> QED
    BY <1>13, <2>3 DEF V!FinalizeWrites, V!FinalizeFails, V!Done
<1>14. CASE UNCHANGED V!vars
  BY <1>14 DEF V!vars
<1> QED
  BY <1>1, <1>2, <1>3, <1>4, <1>6, <1>7, <1>9, <1>10, <1>11, <1>12, <1>13, <1>14
     DEF V!Next, V!Run, V!Ending

LEMMA NextNumbers == VInv /\ [V!Next]_V!vars => Numbers'
<1> SUFFICES ASSUME VInv, [V!Next]_V!vars PROVE Numbers'
  OBVIOUS
<1> USE DEF V!TypeOK, V!runVars, V!endVars, Numbers
<1>0. V!TypeOK /\ Numbers /\ V!TypeOK'
  BY VTypes DEF VInv
<1>1. ASSUME NEW r \in V!Runs, V!Start(r) \/ V!Stop(r) \/ V!Fence(r) \/ V!FenceEnds(r)
             \/ V!NothingToFlush(r)
      PROVE  Numbers'
  BY <1>0, <1>1 DEF V!Start, V!Stop, V!Fence, V!FenceEnds, V!NothingToFlush
<1>2. ASSUME NEW r \in V!Runs, V!Resume(r)
      PROVE  Numbers'
  BY <1>0, <1>2 DEF V!Resume, V!Recorded
<1>3. ASSUME NEW r \in V!Runs, V!Produce(r)
      PROVE  Numbers'
  <2>1. last \in Nat /\ last' = last + 1 /\ 1..last \subseteq 1..last' /\ last + 1 \in 1..last'
    BY <1>0, <1>3 DEF V!Produce
  <2> QED
    BY <1>0, <1>3, <2>1 DEF V!Produce
<1>4. ASSUME NEW r \in V!Runs, V!OnPlaylist(r)
      PROVE  Numbers'
  <2>1. V!Listed(r) \subseteq 1..last /\ V!Fresh(r) \subseteq 1..last
    BY <1>0 DEF V!Listed, V!Fresh
  <2> QED
    BY <1>0, <1>4, <2>1 DEF V!OnPlaylist
<1>5. ASSUME NEW r \in V!Runs, V!Flush(r) \/ V!FinalFlush(r)
      PROVE  Numbers'
  BY <1>0, <1>5 DEF V!Flush, V!FinalFlush, V!Write
<1>6. ASSUME NEW r \in V!Runs, V!Land(r) \/ V!PutFails(r)
      PROVE  Numbers'
  <2>1. PICK content \in puts[r] : /\ puts' = [puts EXCEPT ![r] = @ \ {content}]
                                   /\ stored' \in {stored, V!Playlist(content, FALSE)}
    BY <1>6 DEF V!Land, V!PutFails
  <2> QED
    <3>1. stored'.segs \subseteq 1..last
      <4>1. content \subseteq 1..last
        BY <1>0
      <4>2. V!Playlist(content, FALSE).segs = content
        BY DEF V!Playlist
      <4>3. CASE stored' = stored
        BY <1>0, <4>3
      <4>4. CASE stored' = V!Playlist(content, FALSE)
        BY <4>1, <4>2, <4>4
      <4> QED
        BY <2>1, <4>3, <4>4
    <3>2. \A q \in V!Runs : \A s \in puts'[q] : s \in puts[q]
      BY <2>1
    <3> QED
      BY <1>0, <1>6, <3>1, <3>2 DEF V!Land, V!PutFails
<1>7. ASSUME NEW r \in V!Runs, V!Crash(r)
      PROVE  Numbers'
  BY <1>0, <1>7 DEF V!Crash
<1>8. CASE V!End \/ V!FinalizeReads \/ UNCHANGED V!vars
  BY <1>0, <1>8 DEF V!End, V!FinalizeReads, V!vars
<1>9. CASE V!FinalizeWrites \/ V!FinalizeFails
  <2>1. reading \in SUBSET V!Segments /\ reading # V!NotReading
    BY <1>0, <1>9 DEF V!FinalizeWrites, V!FinalizeFails
  <2>2. V!Finished.segs \subseteq 1..last
    BY <1>0, <2>1 DEF V!Finished, V!Playlist
  <2>3. stored'.segs \subseteq 1..last
    BY <1>0, <1>9, <2>2 DEF V!FinalizeWrites, V!FinalizeFails
  <2> QED
    BY <1>0, <1>9, <2>3 DEF V!FinalizeWrites, V!FinalizeFails
<1> QED
  BY <1>1, <1>2, <1>3, <1>4, <1>5, <1>6, <1>7, <1>8, <1>9 DEF V!Next, V!Run, V!Ending

LEMMA NextCarried == VInv /\ [V!Next]_V!vars => Carried'
<1> SUFFICES ASSUME VInv, [V!Next]_V!vars PROVE Carried'
  OBVIOUS
<1> USE DEF V!TypeOK, V!runVars, V!endVars, Carried
<1>0. V!TypeOK /\ Carried /\ NotBegun
  BY DEF VInv
<1>1. ASSUME NEW r \in V!Runs, V!Start(r) \/ V!Stop(r) \/ V!Fence(r) \/ V!FenceEnds(r)
             \/ V!NothingToFlush(r) \/ V!Produce(r) \/ V!Crash(r)
      PROVE  Carried'
  BY <1>0, <1>1 DEF V!Start, V!Stop, V!Fence, V!FenceEnds, V!NothingToFlush, V!Produce, V!Crash
<1>2. ASSUME NEW r \in V!Runs, V!Resume(r)
      PROVE  Carried'
  BY <1>0, <1>2 DEF V!Resume, NotBegun
<1>3. ASSUME NEW r \in V!Runs, V!OnPlaylist(r)
      PROVE  Carried'
  BY <1>0, <1>3 DEF V!OnPlaylist
<1>4. ASSUME NEW r \in V!Runs, V!Flush(r) \/ V!FinalFlush(r)
      PROVE  Carried'
  BY <1>0, <1>4 DEF V!Flush, V!FinalFlush, V!Write
<1>5. ASSUME NEW r \in V!Runs, V!Land(r) \/ V!PutFails(r)
      PROVE  Carried'
  <2>1. PICK content \in puts[r] : puts' = [puts EXCEPT ![r] = @ \ {content}]
    BY <1>5 DEF V!Land, V!PutFails
  <2>2. lines' = lines /\ \A q \in V!Runs : puts'[q] \subseteq puts[q]
    BY <1>0, <1>5, <2>1 DEF V!Land, V!PutFails
  <2> QED
    BY <1>0, <2>2
<1>6. CASE V!End \/ V!FinalizeReads \/ V!FinalizeWrites \/ V!FinalizeFails \/ UNCHANGED V!vars
  BY <1>0, <1>6 DEF V!End, V!FinalizeReads, V!FinalizeWrites, V!FinalizeFails, V!vars
<1> QED
  BY <1>1, <1>2, <1>3, <1>4, <1>5, <1>6 DEF V!Next, V!Run, V!Ending

\* A step of one run leaves the others alone.
LEMMA Others ==
  ASSUME V!TypeOK, NEW r \in V!Runs, V!Run(r)
  PROVE  \A q \in V!Runs \ {r} :
           /\ phase'[q] = phase[q] /\ lines'[q] = lines[q] /\ dirty'[q] = dirty[q]
           /\ puts'[q] = puts[q] /\ recorded'[q] = recorded[q]
<1> USE DEF V!TypeOK
<1>1. CASE V!Start(r) \/ V!Stop(r) \/ V!Fence(r) \/ V!FenceEnds(r) \/ V!NothingToFlush(r)
  BY <1>1 DEF V!Start, V!Stop, V!Fence, V!FenceEnds, V!NothingToFlush, V!Goto
<1>2. CASE V!Resume(r)
  BY <1>2 DEF V!Resume, V!Goto
<1>3. CASE V!Produce(r)
  BY <1>3 DEF V!Produce
<1>4. CASE V!OnPlaylist(r)
  BY <1>4 DEF V!OnPlaylist
<1>5. CASE V!Flush(r)
  BY <1>5 DEF V!Flush, V!Write
<1>6. CASE V!FinalFlush(r)
  BY <1>6 DEF V!FinalFlush, V!Write, V!Goto
<1>7. CASE V!Land(r)
  BY <1>7 DEF V!Land, V!AfterWrite, V!Goto, V!AsItIs
<1>8. CASE V!PutFails(r)
  BY <1>8 DEF V!PutFails, V!AfterWrite, V!Goto, V!Retry
<1>9. CASE V!Crash(r)
  BY <1>9 DEF V!Crash, V!Goto
<1> QED
  BY <1>1, <1>2, <1>3, <1>4, <1>5, <1>6, <1>7, <1>8, <1>9 DEF V!Run, V!Ending

\* A run at work is the only one, and the broadcast goes on.
LEMMA Solo ==
  ASSUME VInv, Orderly, NEW r \in V!Runs, V!Run(r)
  PROVE  /\ \A q \in V!Runs \ {r} : V!Over(q) /\ ~Works(q) /\ puts[q] = {}
         /\ ~ended /\ reading = V!NotReading /\ ~finalized
         /\ UNCHANGED V!endVars
<1> USE DEF VInv, Alone, AtRest, Orderly
<1>1. \A q \in V!Runs : V!Over(q) => ~Works(q) /\ puts[q] = {}
  BY DEF V!Over, Recording, Works
<1>2. UNCHANGED V!endVars
  BY DEF V!Run, V!Ending, V!Start, V!Resume, V!Produce, V!OnPlaylist, V!Flush, V!Stop,
     V!FinalFlush, V!NothingToFlush, V!Land, V!FenceEnds, V!PutFails, V!Fence, V!Crash, V!endVars
<1>3. CASE V!Start(r)
  <2>1. "overlap" \notin trouble
    OBVIOUS
  <2>2. ~ended /\ phase[r] = "none" /\ \A q \in V!Runs : q < r => V!Over(q)
    BY <1>3, <2>1 DEF V!Start, V!LosesJob
  <2>3. \A q \in V!Runs : r < q => V!Over(q)
    BY <2>2 DEF InTurn, NotBegun, V!Over
  <2>4. \A q \in V!Runs \ {r} : V!Over(q)
    BY <2>2, <2>3 DEF V!Runs
  <2> QED
    BY <1>1, <1>2, <2>2, <2>4
<1>4. CASE ~V!Start(r)
  <2>1. ~V!Over(r)
    BY <1>4 DEF V!Run, V!Ending, V!Resume, V!Produce, V!OnPlaylist, V!Flush, V!Stop,
       V!FinalFlush, V!NothingToFlush, V!FenceEnds, V!Fence, V!Crash, V!Over, V!Land, V!PutFails
  <2> QED
    BY <1>1, <1>2, <2>1
<1> QED
  BY <1>3, <1>4

LEMMA NextNotBegun == VInv /\ [V!Next]_V!vars => NotBegun'
<1> SUFFICES ASSUME VInv, [V!Next]_V!vars PROVE NotBegun'
  OBVIOUS
<1> USE DEF V!TypeOK, NotBegun
<1>0. V!TypeOK /\ NotBegun /\ trouble' = trouble
  BY VTypes DEF VInv
<1>1. ASSUME NEW r \in V!Runs, V!Run(r)
      PROVE  NotBegun'
  <2>0. /\ phase'[r] \in {"none", "resuming"} => puts'[r] = {} /\ recorded'[r] = {}
        /\ phase'[r] = "fenced" => "fence" \in trouble
        /\ phase'[r] = "gone" => trouble \cap {"fence", "crash"} # {}
    <3>1. CASE V!Start(r) \/ V!Stop(r) \/ V!Fence(r) \/ V!FenceEnds(r) \/ V!NothingToFlush(r)
      BY <1>0, <3>1 DEF V!Start, V!Stop, V!Fence, V!FenceEnds, V!NothingToFlush, V!Goto
    <3>2. CASE V!Resume(r)
      BY <1>0, <3>2 DEF V!Resume, V!Goto
    <3>3. CASE V!Produce(r)
      BY <1>0, <3>3 DEF V!Produce
    <3>4. CASE V!OnPlaylist(r)
      BY <1>0, <3>4 DEF V!OnPlaylist
    <3>5. CASE V!Flush(r)
      BY <1>0, <3>5 DEF V!Flush, V!Write
    <3>6. CASE V!FinalFlush(r)
      BY <1>0, <3>6 DEF V!FinalFlush, V!Write, V!Goto
    <3>7. CASE V!Land(r)
      BY <1>0, <3>7 DEF V!Land, V!AfterWrite, V!Goto
    <3>8. CASE V!PutFails(r)
      BY <1>0, <3>8 DEF V!PutFails, V!AfterWrite, V!Goto
    <3>9. CASE V!Crash(r)
      BY <1>0, <3>9 DEF V!Crash, V!Goto
    <3> QED
      BY <1>1, <3>1, <3>2, <3>3, <3>4, <3>5, <3>6, <3>7, <3>8, <3>9 DEF V!Run, V!Ending
  <2> QED
    BY <1>0, <1>1, <2>0, Others
<1>2. CASE V!End \/ V!FinalizeReads \/ V!FinalizeWrites \/ V!FinalizeFails \/ UNCHANGED V!vars
  BY <1>0, <1>2 DEF V!End, V!FinalizeReads, V!FinalizeWrites, V!FinalizeFails, V!runVars, V!vars
<1> QED
  BY <1>1, <1>2 DEF V!Next

LEMMA NextInTurn == VInv /\ [V!Next]_V!vars => InTurn'
<1> SUFFICES ASSUME VInv, [V!Next]_V!vars PROVE InTurn'
  OBVIOUS
<1> USE DEF V!TypeOK, InTurn
<1>0. V!TypeOK /\ InTurn
  BY DEF VInv
<1>1. ASSUME NEW r \in V!Runs, V!Run(r)
      PROVE  InTurn'
  <2>1. phase[r] # "none" => phase'[r] # "none"
    BY <1>0, <1>1 DEF V!Run, V!Ending, V!Start, V!Resume, V!Produce, V!OnPlaylist, V!Flush,
       V!Stop, V!FinalFlush, V!NothingToFlush, V!Land, V!FenceEnds, V!PutFails, V!Fence, V!Crash,
       V!AfterWrite, V!Goto
  <2>2. phase[r] = "none" /\ phase'[r] # "none" => \A q \in V!Runs : q < r => phase[q] # "none"
    BY <1>0, <1>1 DEF V!Run, V!Ending, V!Start, V!Resume, V!Produce, V!OnPlaylist, V!Flush,
       V!Stop, V!FinalFlush, V!NothingToFlush, V!Land, V!FenceEnds, V!PutFails, V!Fence, V!Crash,
       V!AfterWrite, V!Awaited, V!Goto
  <2>3. \A q \in V!Runs \ {r} : phase'[q] = phase[q]
    BY <1>0, <1>1, Others
  <2>4. \A q \in V!Runs : ~(q < q)
    BY DEF V!Runs
  <2> QED
    BY <1>0, <2>1, <2>2, <2>3, <2>4
<1>2. CASE V!End \/ V!FinalizeReads \/ V!FinalizeWrites \/ V!FinalizeFails \/ UNCHANGED V!vars
  BY <1>0, <1>2 DEF V!End, V!FinalizeReads, V!FinalizeWrites, V!FinalizeFails, V!runVars, V!vars
<1> QED
  BY <1>1, <1>2 DEF V!Next

LEMMA NextAlone == VInv /\ [V!Next]_V!vars => Alone'
<1> SUFFICES ASSUME VInv, [V!Next]_V!vars, Orderly PROVE Alone'
  BY VTypes DEF VInv, Alone, Orderly
<1> USE DEF Alone
<1>0. Alone /\ V!TypeOK
  BY DEF VInv
<1>1. ASSUME NEW r \in V!Runs, V!Run(r)
      PROVE  Alone'
  <2>1. \A q \in V!Runs \ {r} : V!Over(q)'
    BY <1>0, <1>1, Others, Solo DEF V!Over
  <2> QED
    BY <2>1
<1>2. CASE V!End \/ V!FinalizeReads \/ V!FinalizeWrites \/ V!FinalizeFails \/ UNCHANGED V!vars
  BY <1>0, <1>2 DEF V!End, V!FinalizeReads, V!FinalizeWrites, V!FinalizeFails, V!runVars, V!vars,
     V!Over
<1> QED
  BY <1>1, <1>2 DEF V!Next

LEMMA NextAtRest == VInv /\ [V!Next]_V!vars => AtRest'
<1> SUFFICES ASSUME VInv, [V!Next]_V!vars, Orderly PROVE AtRest'
  BY VTypes DEF VInv, AtRest, Orderly
<1> USE DEF AtRest, Orderly
<1>0. V!TypeOK /\ AtRest /\ trouble' = trouble
  BY VTypes DEF VInv
<1>1. ASSUME NEW r \in V!Runs, V!Run(r)
      PROVE  AtRest'
  BY <1>1, Solo DEF V!endVars
<1>2. CASE V!End \/ V!FinalizeReads \/ UNCHANGED V!vars
  BY <1>0, <1>2 DEF V!End, V!FinalizeReads, V!Due, V!LosesJob, V!runVars, V!endVars, V!vars, V!Over
<1>3. CASE V!FinalizeWrites \/ V!FinalizeFails
  BY <1>0, <1>3 DEF V!FinalizeWrites, V!FinalizeFails, V!Done, V!runVars, V!Over
<1> QED
  BY <1>1, <1>2, <1>3 DEF V!Next

\* The control plane writes what is stored again, marked as final.
LEMMA FinalizesTheSame ==
  ASSUME VInv, Orderly, V!FinalizeWrites \/ V!FinalizeFails
  PROVE  /\ stored'.segs = stored.segs
         /\ \A r \in V!Runs : V!Over(r) /\ V!Over(r)' /\ ~Works(r) /\ ~Works(r)'
<1>1. AtRest /\ reading # V!NotReading /\ stored' \in {stored, V!Finished} /\ UNCHANGED V!runVars
  BY DEF VInv, V!FinalizeWrites, V!FinalizeFails
<1>2. reading = stored.segs /\ \A r \in V!Runs : V!Over(r)
  BY <1>1 DEF AtRest
<1>3. V!Finished.segs = stored.segs
  BY <1>2 DEF V!Finished, V!Playlist
<1>4. \A r \in V!Runs : V!Over(r)' /\ ~Works(r) /\ ~Works(r)'
  BY <1>1, <1>2 DEF V!Over, V!runVars, Works, Recording
<1> QED
  BY <1>1, <1>2, <1>3, <1>4

LEMMA NextGrown == VInv /\ [V!Next]_V!vars => Grown'
<1> SUFFICES ASSUME VInv, [V!Next]_V!vars, trouble \subseteq {"crash", "fence",
   "tail"} PROVE Grown'
  BY VTypes DEF VInv, Grown
<1> USE DEF V!TypeOK, Grown
<1>0. V!TypeOK /\ Grown /\ Carried /\ NotBegun /\ Orderly /\ trouble' = trouble
  BY VTypes DEF VInv, Orderly
<1>1. ASSUME NEW r \in V!Runs, V!Run(r)
      PROVE  Grown'
  <2>1. /\ Recording(r)' => stored'.segs \subseteq lines'[r]
        /\ \A s \in puts'[r] : stored'.segs \subseteq s
    <3>1. CASE V!Start(r)
      BY <1>0, <3>1 DEF V!Start, V!Goto, NotBegun, Recording
    <3>2. CASE V!Resume(r)
      BY <1>0, <3>2 DEF V!Resume, V!Recorded, NotBegun
    <3>3. CASE V!Produce(r)
      BY <1>0, <3>3 DEF V!Produce, Recording
    <3>4. CASE V!OnPlaylist(r)
      BY <1>0, <3>4 DEF V!OnPlaylist, Recording
    <3>5. CASE V!Flush(r)
      BY <1>0, <3>5 DEF V!Flush, V!Write, Recording
    <3>6. CASE V!FinalFlush(r)
      BY <1>0, <3>6 DEF V!FinalFlush, V!Write, Recording
    <3>7. CASE V!Land(r)
      <4>1. PICK content \in puts[r] : /\ \A other \in puts[r] : content \subseteq other
                                       /\ puts' = [puts EXCEPT ![r] = @ \ {content}]
                                       /\ stored' = V!Playlist(content, FALSE) /\ lines' = lines
        BY <1>0, <3>7 DEF V!Land, Orderly
      <4>2. stored'.segs = content
        BY <4>1 DEF V!Playlist
      <4>3. content \subseteq lines[r]
        BY <1>0, <4>1 DEF Carried
      <4> QED
        BY <1>0, <4>1, <4>2, <4>3
    <3>8. CASE V!PutFails(r)
      BY <1>0, <3>8 DEF V!PutFails, V!AfterWrite, V!Goto, Recording
    <3>9. CASE V!Stop(r) \/ V!Fence(r) \/ V!FenceEnds(r) \/ V!NothingToFlush(r)
      BY <1>0, <3>9 DEF V!Stop, V!Fence, V!FenceEnds, V!NothingToFlush, V!Goto, Recording
    <3>10. CASE V!Crash(r)
      BY <1>0, <3>10 DEF V!Crash, V!Goto, Recording
    <3> QED
      BY <1>1, <3>1, <3>2, <3>3, <3>4, <3>5, <3>6, <3>7, <3>8, <3>9, <3>10 DEF V!Run, V!Ending
  <2>2. ASSUME NEW q \in V!Runs \ {r}
        PROVE  ~Recording(q)' /\ puts'[q] = {}
    BY <1>0, <1>1, Others, Solo DEF Recording, Works
  <2> QED
    BY <2>1, <2>2
<1>2. CASE V!End \/ V!FinalizeReads \/ UNCHANGED V!vars
  BY <1>0, <1>2 DEF V!End, V!FinalizeReads, V!runVars, V!vars, Recording
<1>3. CASE V!FinalizeWrites \/ V!FinalizeFails
  <2>1. \A r \in V!Runs : ~Recording(r)' /\ puts'[r] = {}
    BY <1>0, <1>3, FinalizesTheSame DEF Works
  <2> QED
    BY <2>1
<1> QED
  BY <1>1, <1>2, <1>3 DEF V!Next

LEMMA NextKept == VInv /\ [V!Next]_V!vars => Kept'
<1> SUFFICES ASSUME VInv, [V!Next]_V!vars, Orderly PROVE Kept'
  BY VTypes DEF VInv, Kept, Orderly
<1> USE DEF V!TypeOK, Kept
<1>0. V!TypeOK /\ Kept /\ Carried /\ NotBegun /\ Orderly /\ trouble' = trouble
  BY VTypes DEF VInv
<1>1. ASSUME NEW r \in V!Runs, V!Run(r)
      PROVE  Kept'
  <2>1. /\ Recording(r)' => \/ dirty'[r] \/ lines'[r] \in puts'[r]
                            \/ puts'[r] = {} /\ lines'[r] \subseteq stored'.segs
        /\ phase'[r] = "flushing" => lines'[r] \in puts'[r]
        /\ phase'[r] = "done" /\ "tail" \notin trouble => lines'[r] \in puts'[r] \/ puts'[r] = {}
    <3>1. CASE V!Start(r)
      BY <1>0, <3>1 DEF V!Start, V!Goto, Recording
    <3>2. CASE V!Resume(r)
      BY <1>0, <3>2 DEF V!Resume, V!Recorded, NotBegun, V!Goto
    <3>3. CASE V!Produce(r)
      BY <1>0, <3>3 DEF V!Produce, Recording
    <3>4. CASE V!OnPlaylist(r)
      <4>1. CASE V!Fresh(r) = {}
        BY <1>0, <3>4, <4>1 DEF V!OnPlaylist, Recording
      <4>2. CASE V!Fresh(r) # {}
        BY <1>0, <3>4, <4>2 DEF V!OnPlaylist
      <4> QED
        BY <4>1, <4>2
    <3>5. CASE V!Flush(r)
      BY <1>0, <3>5 DEF V!Flush, V!Write, Recording
    <3>6. CASE V!FinalFlush(r)
      BY <1>0, <3>6 DEF V!FinalFlush, V!Write, V!Goto
    <3>7. CASE V!Land(r)
      <4>1. PICK content \in puts[r] : /\ \A other \in puts[r] : content \subseteq other
                                       /\ puts' = [puts EXCEPT ![r] = @ \ {content}]
                                       /\ stored' = V!Playlist(content, FALSE)
                                       /\ V!AfterWrite(r, content) /\ UNCHANGED <<lines, dirty>>
        BY <1>0, <3>7 DEF V!Land, V!AsItIs, Orderly
      <4>2. stored'.segs = content
        BY <4>1 DEF V!Playlist
      <4>3. CASE content = lines[r]
        <5>0. ASSUME NEW other \in puts[r] PROVE other = lines[r]
          <6>1. other \subseteq lines[r]
            BY <1>0, <5>0 DEF Carried
          <6>2. lines[r] \subseteq other
            BY <4>1, <4>3, <5>0
          <6> QED
            BY <6>1, <6>2
        <5>1. puts'[r] = {}
          <6>1. puts'[r] = puts[r] \ {content}
            BY <1>0, <4>1
          <6> QED
            BY <4>3, <5>0, <6>1
        <5>2. phase'[r] # "flushing"
          BY <1>0, <4>1, <4>3 DEF V!AfterWrite, V!Awaited, V!Goto
        <5> QED
          BY <1>0, <4>1, <4>2, <4>3, <5>1, <5>2
      <4>4. CASE content # lines[r]
        <5>1. phase' = phase
          BY <4>1, <4>4 DEF V!AfterWrite, V!Awaited
        <5>2. lines[r] \in puts[r] => lines'[r] \in puts'[r]
          BY <1>0, <4>1, <4>4
        <5>3. puts[r] # {}
          BY <4>1
        <5> QED
          BY <1>0, <4>1, <5>1, <5>2, <5>3 DEF Recording
      <4> QED
        BY <4>3, <4>4
    <3>8. CASE V!PutFails(r)
      <4>1. PICK content \in puts[r] : /\ "tail" \in trouble \/ ~V!LastWrite(r, content)
                                       /\ puts' = [puts EXCEPT ![r] = @ \ {content}]
                                       /\ V!AfterWrite(r, content) /\ dirty' = V!Retry(r)
                                       /\ UNCHANGED lines
        BY <3>8 DEF V!PutFails
      <4>2. dirty'[r]
        BY <1>0, <4>1 DEF V!Retry
      <4>3. CASE V!Awaited(r, content)
        BY <1>0, <4>1, <4>2, <4>3 DEF V!AfterWrite, V!Awaited, V!LastWrite, V!Goto
      <4>4. CASE ~V!Awaited(r, content)
        <5>1. phase' = phase
          BY <4>1, <4>4 DEF V!AfterWrite
        <5>2. ASSUME lines[r] \in puts[r], content # lines[r] PROVE lines'[r] \in puts'[r]
          BY <1>0, <4>1, <5>2
        <5>3. phase[r] = "flushing" => content # lines[r]
          BY <4>4 DEF V!Awaited
        <5>4. phase[r] = "done" /\ "tail" \notin trouble => content # lines[r]
          BY <4>1 DEF V!LastWrite
        <5> QED
          BY <1>0, <4>1, <4>2, <5>1, <5>2, <5>3, <5>4
      <4> QED
        BY <4>3, <4>4
    <3>9. CASE V!Stop(r) \/ V!Fence(r) \/ V!FenceEnds(r) \/ V!NothingToFlush(r)
      BY <1>0, <3>9 DEF V!Stop, V!Fence, V!FenceEnds, V!NothingToFlush, V!Goto, Recording
    <3>10. CASE V!Crash(r)
      BY <1>0, <3>10 DEF V!Crash, V!Goto, Recording
    <3> QED
      BY <1>1, <3>1, <3>2, <3>3, <3>4, <3>5, <3>6, <3>7, <3>8, <3>9, <3>10 DEF V!Run, V!Ending
  <2>2. ASSUME NEW q \in V!Runs \ {r}
        PROVE  ~Recording(q)' /\ phase'[q] # "flushing" /\ puts'[q] = {}
    BY <1>0, <1>1, Others, Solo DEF Recording, Works
  <2> QED
    BY <1>0, <2>1, <2>2
<1>2. CASE V!End \/ V!FinalizeReads \/ UNCHANGED V!vars
  BY <1>0, <1>2 DEF V!End, V!FinalizeReads, V!runVars, V!vars, Recording
<1>3. CASE V!FinalizeWrites \/ V!FinalizeFails
  <2>1. \A q \in V!Runs : ~Recording(q)' /\ phase'[q] # "flushing" /\ puts'[q] = {}
    BY <1>0, <1>3, FinalizesTheSame DEF Works, Recording
  <2> QED
    BY <2>1
<1> QED
  BY <1>1, <1>2, <1>3 DEF V!Next

LEMMA NextNoGap == VInv /\ [V!Next]_V!vars => NoGap'
<1> SUFFICES ASSUME VInv, [V!Next]_V!vars PROVE NoGap'
  OBVIOUS
<1>0. V!TypeOK /\ V!VodAssumption /\ NoGap /\ NotBegun /\ Numbers
  BY DEF VInv
<1>1. ASSUME NEW r \in V!Runs, V!Run(r)
      PROVE  NoGap'
  <2>1. ASSUME NEW k \in V!Listed(r)', NEW n \in lines'[r], k <= n
        PROVE  k \in lines'[r]
    <3>1. CASE lines' = lines /\ recorded' = recorded
      BY <1>0, <2>1, <3>1 DEF NoGap, V!Listed
    <3>2. CASE V!Resume(r)
      BY <1>0, <2>1, <3>2 DEF V!Resume, NotBegun, V!Listed
    <3>3. CASE V!Produce(r)
      <4>1. /\ lines'[r] = lines[r] /\ lines[r] \subseteq 1..last /\ last \in Nat
            /\ recorded'[r] = recorded[r] \cup {last + 1}
        BY <1>0, <3>3 DEF V!Produce, V!TypeOK, Numbers
      <4>2. n <= last /\ n \in Nat
        BY <2>1, <4>1
      <4>3. k \in recorded[r]
        BY <2>1, <4>1, <4>2 DEF V!Listed
      <4>4. k \in V!Listed(r)
        BY <2>1, <4>1, <4>3 DEF V!Listed
      <4> QED
        BY <1>0, <2>1, <4>1, <4>4 DEF NoGap
    <3>4. CASE V!OnPlaylist(r)
      <4>1. /\ lines'[r] = lines[r] \cup V!Fresh(r) /\ V!Listed(r)' = V!Listed(r)
            /\ lines[r] \subseteq Nat /\ recorded[r] \subseteq Nat
        BY <1>0, <3>4 DEF V!OnPlaylist, V!TypeOK, V!Listed, V!Segments
      <4>2. CASE \E m \in lines[r] : k <= m
        BY <1>0, <2>1, <4>1, <4>2 DEF NoGap
      <4>3. CASE \A m \in lines[r] : m < k
        BY <2>1, <4>1, <4>3 DEF V!Fresh
      <4>4. k \in Nat
        BY <2>1, <4>1 DEF V!Listed
      <4> QED
        BY <4>1, <4>2, <4>3, <4>4
    <3> QED
      BY <1>1, <3>1, <3>2, <3>3, <3>4 DEF V!Run, V!Ending, V!Start, V!Flush, V!Write, V!Stop,
         V!FinalFlush,
         V!NothingToFlush, V!Land, V!FenceEnds, V!PutFails, V!Fence, V!Crash
  <2>2. ASSUME NEW q \in V!Runs \ {r}
        PROVE  lines'[q] = lines[q] /\ V!Listed(q)' = V!Listed(q)
    BY <1>0, <1>1, Others DEF V!Listed
  <2> QED
    BY <1>0, <2>1, <2>2 DEF NoGap
<1>2. CASE V!End \/ V!FinalizeReads \/ V!FinalizeWrites \/ V!FinalizeFails \/ UNCHANGED V!vars
  BY <1>0, <1>2 DEF V!End, V!FinalizeReads, V!FinalizeWrites, V!FinalizeFails, V!runVars, V!vars,
     NoGap, V!Listed
<1> QED
  BY <1>1, <1>2 DEF V!Next

LEMMA NextShownKept == VInv /\ [V!Next]_V!vars => ShownKept'
<1> SUFFICES ASSUME VInv, [V!Next]_V!vars, trouble = {} PROVE ShownKept'
  BY VTypes DEF VInv, ShownKept
<1> USE DEF V!TypeOK, ShownKept
<1>0. /\ V!TypeOK /\ ShownKept /\ Kept /\ NoGap /\ NotBegun /\ Orderly
      /\ Numbers /\ trouble' = trouble
  BY VTypes DEF VInv, Orderly
<1>1. ASSUME NEW r \in V!Runs, V!Run(r)
      PROVE  ShownKept'
  <2>1. ASSUME NEW q \in V!Runs \ {r}
        PROVE  ~Works(q) /\ ~Works(q)'
    BY <1>0, <1>1, Others, Solo DEF Recording, Works
  <2>2. IF Works(r)' THEN shown' \subseteq lines'[r] ELSE shown' \subseteq stored'.segs
    <3>0. IF Works(r) THEN shown \subseteq lines[r] ELSE shown \subseteq stored.segs
      BY <1>0, <2>1
    <3>1. CASE V!Start(r)
      BY <1>0, <3>0, <3>1 DEF V!Start, V!Goto, NotBegun, Recording, Works
    <3>2. CASE V!Resume(r)
      BY <1>0, <3>0, <3>2 DEF V!Resume, V!Recorded, V!Goto, NotBegun, Recording, Works
    <3>3. CASE V!Produce(r)
      BY <1>0, <3>0, <3>3 DEF V!Produce, Recording, Works
    <3>4. CASE V!OnPlaylist(r)
      <4>1. V!Listed(r) \subseteq lines[r] \cup V!Fresh(r)
        <5>1. lines[r] \subseteq Nat /\ V!Listed(r) \subseteq Nat
          BY <1>0 DEF V!Listed, V!Segments
        <5> QED
          BY <1>0, <5>1 DEF NoGap, V!Fresh
      <4> QED
        BY <1>0, <3>0, <3>4, <4>1 DEF V!OnPlaylist, Recording, Works
    <3>5. CASE V!Flush(r) \/ V!FinalFlush(r)
      <4>1. Works(r) /\ UNCHANGED <<shown, lines>>
        BY <3>5 DEF V!Flush, V!FinalFlush, Recording, Works
      <4>2. lines[r] \in puts'[r]
        BY <1>0, <3>5 DEF V!Flush, V!FinalFlush, V!Write
      <4> QED
        BY <3>0, <4>1, <4>2 DEF Works
    <3>6. CASE V!Land(r)
      <4>1. PICK content \in puts[r] : /\ puts' = [puts EXCEPT ![r] = @ \ {content}]
                                       /\ stored' = V!Playlist(content, FALSE)
                                       /\ V!AfterWrite(r, content) /\ UNCHANGED <<lines, shown>>
        BY <3>6 DEF V!Land
      <4>2. stored'.segs = content
        BY <4>1 DEF V!Playlist
      <4>3. shown \subseteq lines[r]
        BY <3>0, <4>1 DEF Works
      <4>4. ASSUME ~Works(r)' PROVE content = lines[r]
        <5>1. puts[r] = {content}
          BY <1>0, <4>1, <4>4 DEF Works
        <5>2. CASE V!Awaited(r, content)
          BY <5>2 DEF V!Awaited
        <5>3. CASE ~V!Awaited(r, content)
          <6>1. phase' = phase /\ ~Recording(r)
            BY <4>1, <4>4, <5>3 DEF V!AfterWrite, Works, Recording
          <6>2. phase[r] = "done"
            BY <1>0, <5>1, <6>1 DEF NotBegun, Recording, V!Phases
          <6> QED
            BY <1>0, <5>1, <6>2 DEF Kept
        <5> QED
          BY <5>2, <5>3
      <4> QED
        BY <4>1, <4>2, <4>3, <4>4
    <3>7. CASE V!PutFails(r)
      <4>1. PICK content \in puts[r] : /\ ~V!LastWrite(r, content)
                                       /\ puts' = [puts EXCEPT ![r] = @ \ {content}]
                                       /\ V!AfterWrite(r, content) /\ UNCHANGED <<lines, shown>>
        BY <1>0, <3>7 DEF V!PutFails
      <4>2. shown \subseteq lines[r]
        BY <3>0, <4>1 DEF Works
      <4>3. phase' = phase
        BY <4>1 DEF V!AfterWrite, V!Awaited, V!LastWrite
      <4>4. CASE Recording(r)
        BY <4>1, <4>2, <4>3, <4>4 DEF Works, Recording
      <4>5. CASE ~Recording(r)
        <5>1. phase[r] = "done"
          BY <1>0, <4>1, <4>5 DEF NotBegun, Recording, V!Phases
        <5>2. lines[r] \in puts[r] /\ content # lines[r]
          BY <1>0, <4>1, <5>1 DEF Kept, V!LastWrite
        <5>3. lines[r] \in puts'[r]
          BY <1>0, <4>1, <5>2
        <5> QED
          BY <4>1, <4>2, <5>3 DEF Works
      <4> QED
        BY <4>4, <4>5
    <3>8. CASE V!NothingToFlush(r)
      <4>1. /\ phase[r] = "draining" /\ ~dirty[r] /\ phase'[r] = "done"
            /\ UNCHANGED <<lines, dirty, puts, shown, stored>>
        BY <1>0, <3>8 DEF V!NothingToFlush, V!Goto
      <4>2. shown \subseteq lines[r]
        BY <3>0, <4>1 DEF Works, Recording
      <4>3. ASSUME puts[r] = {} PROVE lines[r] \subseteq stored.segs
        BY <1>0, <4>1, <4>3 DEF Kept, Recording
      <4> QED
        BY <4>1, <4>2, <4>3 DEF Works
    <3>9. CASE V!Stop(r)
      BY <1>0, <3>0, <3>9 DEF V!Stop, V!Goto, Recording, Works
    <3>10. CASE V!Fence(r) \/ V!FenceEnds(r) \/ V!Crash(r)
      BY <1>0, <3>10 DEF V!Fence, V!FenceEnds, V!Crash, NotBegun
    <3> QED
      BY <1>1, <3>1, <3>2, <3>3, <3>4, <3>5, <3>6, <3>7, <3>8, <3>9, <3>10 DEF V!Run, V!Ending
  <2> QED
    BY <2>1, <2>2
<1>2. CASE V!End \/ V!FinalizeReads \/ UNCHANGED V!vars
  BY <1>0, <1>2 DEF V!End, V!FinalizeReads, V!runVars, V!vars, Recording, Works
<1>3. CASE V!FinalizeWrites \/ V!FinalizeFails
  <2>1. shown' = shown
    BY <1>3 DEF V!FinalizeWrites, V!FinalizeFails
  <2> QED
    BY <1>0, <1>3, <2>1, FinalizesTheSame
<1> QED
  BY <1>1, <1>2, <1>3 DEF V!Next

-----------------------------------------------------------------------------
LEMMA VInitInv == V!VodAssumption /\ V!Init => VInv
<1> SUFFICES ASSUME V!VodAssumption, V!Init PROVE VInv
  OBVIOUS
<1>1. V!TypeOK
  <2>1. stored \in [segs : SUBSET V!Segments, final : BOOLEAN]
    BY DEF V!Init, V!NoFile, V!Playlist
  <2>2. last \in 0..VodSeg
    BY DEF V!Init, V!VodAssumption
  <2>3. puts \in [V!Runs -> SUBSET SUBSET V!Segments] /\ dirty \in [V!Runs -> BOOLEAN]
    BY DEF V!Init
  <2>4. phase \in [V!Runs -> V!Phases]
    BY DEF V!Init, V!Phases
  <2>5. lines \in [V!Runs -> SUBSET V!Segments] /\ recorded \in [V!Runs -> SUBSET V!Segments]
    BY DEF V!Init
  <2> QED
    BY <2>1, <2>2, <2>3, <2>4, <2>5 DEF V!Init, V!TypeOK
<1>2. V!NoFile.segs = {}
  BY DEF V!NoFile, V!Playlist
<1>3. /\ V!VodAssumption /\ trouble \in Troubles /\ stored.segs = {} /\ shown = {}
      /\ reading = V!NotReading /\ ended = FALSE /\ finalized = FALSE
      /\ \A r \in V!Runs : phase[r] = "none" /\ lines[r] = {} /\ puts[r] = {} /\ recorded[r] = {}
  <2>1. stored = V!NoFile
    BY DEF V!Init
  <2> QED
    BY <1>2, <2>1 DEF V!Init
<1>4. \A r \in V!Runs : V!Over(r) /\ ~Recording(r) /\ ~Works(r) /\ V!Listed(r) = {}
  BY <1>3 DEF V!Over, Recording, Works, V!Listed
<1>5. Numbers /\ Carried /\ NotBegun /\ InTurn /\ NoGap
  BY <1>3, <1>4 DEF Numbers, Carried, NotBegun, InTurn, NoGap
<1>6. Alone /\ AtRest
  BY <1>3, <1>4 DEF Alone, AtRest
<1>7. Grown /\ Kept /\ ShownKept
  BY <1>3, <1>4 DEF Grown, Kept, ShownKept
<1> QED
  BY <1>1, <1>3, <1>5, <1>6, <1>7 DEF VInv

LEMMA VNextInv == VInv /\ [V!Next]_V!vars => VInv'
BY VTypes, NextNumbers, NextCarried, NextNotBegun, NextInTurn, NextAlone, NextAtRest, NextGrown,
   NextKept, NextNoGap, NextShownKept DEF VInv, V!VodAssumption

LEMMA VodInvariant == V!VodAssumption /\ V!Spec => []VInv
<1>1. V!VodAssumption /\ V!Init => VInv
  BY VInitInv
<1>2. VInv /\ [V!Next]_V!vars => VInv'
  BY VNextInv
<1> QED
  BY <1>1, <1>2, PTL DEF V!Spec

LEMMA StepGrows ==
  VInv /\ [V!Next]_V!vars =>
    [trouble \subseteq {"crash", "fence", "tail"} => stored.segs \subseteq stored'.segs]_V!vars
<1> SUFFICES ASSUME VInv, [V!Next]_V!vars, trouble \subseteq {"crash", "fence", "tail"}
             PROVE  stored.segs \subseteq stored'.segs
  OBVIOUS
<1>0. Grown /\ Orderly
  BY DEF VInv, Orderly
<1>1. ASSUME NEW r \in V!Runs, V!Land(r)
      PROVE  stored.segs \subseteq stored'.segs
  BY <1>0, <1>1 DEF V!Land, Grown, V!Playlist
<1>2. CASE V!FinalizeWrites \/ V!FinalizeFails
  BY <1>0, <1>2, FinalizesTheSame
<1>3. CASE UNCHANGED stored
  BY <1>3
<1> QED
  BY <1>1, <1>2, <1>3 DEF V!Next, V!Run, V!Ending, V!Start, V!Resume, V!Produce, V!OnPlaylist,
     V!Flush, V!Stop,
     V!FinalFlush, V!NothingToFlush, V!FenceEnds, V!PutFails, V!Fence, V!Crash, V!End,
     V!FinalizeReads, V!vars

LEMMA StepRecordsTail ==
  VInv /\ [V!Next]_V!vars =>
    [trouble \subseteq {"get", "fence"} =>
       \A r \in V!Runs : ~V!Over(r) /\ V!Over(r)' /\ phase'[r] = "done"
         => lines[r] \subseteq stored'.segs]_V!vars
<1> SUFFICES ASSUME VInv, [V!Next]_V!vars, trouble \subseteq {"get", "fence"}, NEW r \in V!Runs,
                    ~V!Over(r), V!Over(r)', phase'[r] = "done"
             PROVE  lines[r] \subseteq stored'.segs
  OBVIOUS
<1>0. V!TypeOK /\ Kept /\ Orderly /\ "tail" \notin trouble /\ puts'[r] = {}
  BY DEF VInv, Orderly, V!Over
<1>1. ASSUME NEW q \in V!Runs, V!Run(q)
      PROVE  lines[r] \subseteq stored'.segs
  <2>0. q = r
    BY <1>0, <1>1, Others DEF V!Over
  <2>1. CASE V!Land(q)
    <3>1. PICK content \in puts[r] : /\ puts' = [puts EXCEPT ![r] = @ \ {content}]
                                     /\ stored' = V!Playlist(content, FALSE)
                                     /\ V!AfterWrite(r, content)
      BY <2>0, <2>1 DEF V!Land
    <3>2. stored'.segs = content
      BY <3>1 DEF V!Playlist
    <3>3. CASE V!Awaited(r, content)
      BY <3>2, <3>3 DEF V!Awaited
    <3>4. CASE ~V!Awaited(r, content)
      <4>1. phase[r] = "done"
        BY <3>1, <3>4 DEF V!AfterWrite
      <4>2. lines[r] \in puts[r]
        BY <1>0, <3>1, <4>1 DEF Kept
      <4>3. content = lines[r]
        BY <1>0, <3>1, <4>2 DEF V!TypeOK
      <4> QED
        BY <3>2, <4>3
    <3> QED
      BY <3>3, <3>4
  <2>2. CASE V!NothingToFlush(q)
    BY <1>0, <2>0, <2>2 DEF V!NothingToFlush, Kept, Recording
  <2>3. CASE V!PutFails(q)
    <3>1. PICK content \in puts[r] : /\ ~V!LastWrite(r, content)
                                     /\ puts' = [puts EXCEPT ![r] = @ \ {content}]
                                     /\ V!AfterWrite(r, content)
      BY <1>0, <2>0, <2>3 DEF V!PutFails
    <3>2. phase' = phase
      BY <3>1 DEF V!AfterWrite, V!Awaited, V!LastWrite
    <3>3. lines[r] \in puts[r] /\ content # lines[r]
      BY <1>0, <3>1, <3>2 DEF Kept, V!LastWrite
    <3> QED
      BY <1>0, <3>1, <3>3 DEF V!TypeOK
  <2>4. CASE V!Crash(q) \/ V!FenceEnds(q) \/ V!Fence(q) \/ V!Stop(q) \/ V!Start(q)
     \/ V!Resume(q) \/ V!FinalFlush(q)
    BY <1>0, <2>0, <2>4 DEF V!Crash, V!FenceEnds, V!Fence, V!Stop, V!Start, V!Resume,
       V!FinalFlush, V!Goto, V!TypeOK
  <2>5. CASE V!Produce(q) \/ V!OnPlaylist(q) \/ V!Flush(q)
    BY <2>0, <2>5 DEF V!Produce, V!OnPlaylist, V!Flush
  <2> QED
    BY <1>1, <2>1, <2>2, <2>3, <2>4, <2>5 DEF V!Run, V!Ending
<1>2. CASE V!End \/ V!FinalizeReads \/ V!FinalizeWrites \/ V!FinalizeFails \/ UNCHANGED V!vars
  BY <1>2 DEF V!End, V!FinalizeReads, V!FinalizeWrites, V!FinalizeFails, V!runVars, V!vars, V!Over
<1> QED
  BY <1>1, <1>2 DEF V!Next

LEMMA InvNothingMissing == VInv => V!NothingMissing
BY DEF VInv, V!NothingMissing, AtRest, ShownKept, Orderly, V!Over, Recording, Works

-----------------------------------------------------------------------------
(* The plan of a ladder *)

\* A kept plan knows as many tracks as are sent, and of the audio if there is one.
PlanInv ==
  /\ planned \in Cameras /\ source \in Cameras /\ mode \in L!Modes
  /\ Len(planned.extra) = Len(source.extra) /\ (source.audio => planned.audio)

LEMMA PlanInitInv == L!Init => PlanInv
BY DEF L!Init, PlanInv

LEMMA PlanNextInv == PlanInv /\ [L!Next]_L!vars => PlanInv'
<1> SUFFICES ASSUME PlanInv, [L!Next]_L!vars PROVE PlanInv'
  OBVIOUS
<1>1. CASE UNCHANGED L!vars
  BY <1>1 DEF PlanInv, L!vars
<1>2. CASE L!Probe
  <2>1. source' \in Cameras /\ mode' = mode
    BY <1>2 DEF L!Probe
  <2>2. CASE L!sourceUpgraded(planned, source')
    BY <1>2, <2>1, <2>2 DEF L!Probe, PlanInv
  <2>3. CASE ~L!sourceUpgraded(planned, source')
    <3>1. planned' = planned
      BY <1>2, <2>3 DEF L!Probe
    <3>2. Len(planned.extra) = Len(source'.extra) /\ (source'.audio => planned.audio)
      BY <2>3 DEF L!sourceUpgraded, L!TracksChanged
    <3> QED
      BY <2>1, <3>1, <3>2 DEF PlanInv
  <2> QED
    BY <2>2, <2>3
<1> QED
  BY <1>1, <1>2 DEF L!Next

\* What is copied is the primary track or one of the others, what is encoded is H.264.
LEMMA CopyIs ==
  ASSUME NEW s \in Cameras, NEW v \in L!Copies(s)
  PROVE  \/ v = L!Copy(s, <<"source">>, s.track)
         \/ \E i \in L!NewSizes(s) :
              v = L!Copy(s.extra[i],
                         <<"obs">> \o L!renditionName(L!Short(s.extra[i]), <<s.extra[i].fps, 1>>),
                         s.extra[i].track)
BY DEF L!Copies, L!SourceCopy, L!ExtraCopies

LEMMA EncodeIs ==
  ASSUME NEW s \in Cameras, NEW m \in L!Modes, NEW v \in L!Encodes(s, m)
  PROVE  \E short \in L!EncodeShorts(s, m) : v = L!Encode(s, short)
BY DEF L!Encodes

\* A plan that is kept fits what is sent.
LEMMA PlanFits == PlanInv => L!PlanFitsSource
<1> SUFFICES ASSUME PlanInv, NEW v \in L!Copies(planned) PROVE v.track <= Len(source.extra)
  BY DEF PlanInv, L!PlanFitsSource
<1>1. planned \in Cameras /\ Len(source.extra) = Len(planned.extra)
  BY DEF PlanInv
<1>2. planned.track \in 0..Len(planned.extra)
      /\ \A i \in DOMAIN planned.extra : planned.extra[i].track \in 0..Len(planned.extra)
  BY <1>1, MediaAssumption DEF L!LadderAssumption
<1>3. v.track = planned.track \/ \E i \in DOMAIN planned.extra : v.track = planned.extra[i].track
  <2>1. CASE v = L!Copy(planned, <<"source">>, planned.track)
    BY <2>1 DEF L!Copy
  <2>2. ASSUME NEW i \in L!NewSizes(planned),
               v = L!Copy(planned.extra[i],
                          <<"obs">> \o L!renditionName(L!Short(planned.extra[i]),
                                                       <<planned.extra[i].fps, 1>>),
                          planned.extra[i].track)
        PROVE  i \in DOMAIN planned.extra /\ v.track = planned.extra[i].track
    BY <2>2 DEF L!Copy, L!NewSizes
  <2> QED
    BY <1>1, <2>1, <2>2, CopyIs
<1> QED
  BY <1>1, <1>2, <1>3

\* The directories tell the kinds of renditions apart, and their sizes.
LEMMA Directory ==
  ASSUME NEW short, NEW fps
  PROVE  /\ Len(L!renditionName(short, fps)) = 2 /\ L!renditionName(short, fps)[1] = short
         /\ Len(<<"obs">> \o L!renditionName(short, fps)) = 3
         /\ (<<"obs">> \o L!renditionName(short, fps))[2] = short
<1> DEFINE rate == L!renditionName(short, fps)[2]
<1>1. L!renditionName(short, fps) = <<short, rate>>
  BY DEF L!renditionName
<1> HIDE DEF rate
<1> DEFINE Words == {"obs", short, rate}
<1>2. <<"obs">> \in Seq(Words) /\ <<short, rate>> \in Seq(Words)
      /\ Len(<<"obs">>) = 1 /\ Len(<<short, rate>>) = 2
  OBVIOUS
<1>3. /\ Len(<<"obs">> \o <<short, rate>>) = 3
      /\ (<<"obs">> \o <<short, rate>>)[2] = <<short, rate>>[1]
  BY <1>2, ConcatProperties
<1> QED
  BY <1>1, <1>3

OfSource(s, v) == v = L!Copy(s, <<"source">>, s.track) /\ Len(v.dir) = 1

OfTrack(s, v, i) ==
  /\ v = L!Copy(s.extra[i],
                <<"obs">> \o L!renditionName(L!Short(s.extra[i]), <<s.extra[i].fps, 1>>),
                s.extra[i].track)
  /\ Len(v.dir) = 3 /\ v.dir[2] = L!Short(s.extra[i])

OfServer(s, v, short) == v = L!Encode(s, short) /\ Len(v.dir) = 2 /\ v.dir[1] = short

LEMMA VariantIs ==
  ASSUME NEW s \in Cameras, NEW m \in L!Modes, NEW v \in L!Variants(s, m)
  PROVE  \/ OfSource(s, v) \/ \E i \in L!NewSizes(s) : OfTrack(s, v, i)
         \/ \E short \in L!EncodeShorts(s, m) : OfServer(s, v, short)
<1>1. CASE v = L!Copy(s, <<"source">>, s.track)
  BY <1>1 DEF OfSource, L!Copy
<1>2. ASSUME NEW i \in L!NewSizes(s),
             v = L!Copy(s.extra[i],
                        <<"obs">> \o L!renditionName(L!Short(s.extra[i]), <<s.extra[i].fps, 1>>),
                        s.extra[i].track)
      PROVE  OfTrack(s, v, i)
  <2>1. v.dir = <<"obs">> \o L!renditionName(L!Short(s.extra[i]), <<s.extra[i].fps, 1>>)
    BY <1>2 DEF L!Copy
  <2> DEFINE short == L!Short(s.extra[i])
             fps   == <<s.extra[i].fps, 1>>
  <2>2. /\ Len(<<"obs">> \o L!renditionName(short, fps)) = 3
        /\ (<<"obs">> \o L!renditionName(short, fps))[2] = short
    <3> HIDE DEF short, fps
    <3> QED
      BY Directory
  <2> QED
    BY <1>2, <2>1, <2>2 DEF OfTrack
<1>3. ASSUME NEW short \in L!EncodeShorts(s, m), v = L!Encode(s, short)
      PROVE  OfServer(s, v, short)
  <2>1. v.dir = L!renditionName(short, L!cappedFps(s.fps, L!FpsCap(short)))
    BY <1>3 DEF L!Encode
  <2> QED
    BY <1>3, <2>1, Directory DEF OfServer
<1>4. v \in L!Copies(s) \/ v \in L!Encodes(s, m)
  BY DEF L!Variants
<1> QED
  BY <1>1, <1>2, <1>3, <1>4, CopyIs, EncodeIs

LEMMA Directories ==
  ASSUME NEW s \in Cameras, NEW m \in L!Modes, NEW u \in L!Variants(s, m),
         NEW v \in L!Variants(s, m), u.dir = v.dir
  PROVE  u = v
<1>1. ASSUME NEW i \in L!NewSizes(s), NEW j \in L!NewSizes(s),
             L!Short(s.extra[i]) = L!Short(s.extra[j])
      PROVE  i = j
  <2>1. i \in 1..Len(s.extra) /\ j \in 1..Len(s.extra)
    BY MediaAssumption DEF L!LadderAssumption, L!NewSizes
  <2>2. \A k \in 1..(i - 1) : L!Copyable(s.extra[k]) => L!Short(s.extra[k]) # L!Short(s.extra[i])
    BY DEF L!NewSizes
  <2>3. \A k \in 1..(j - 1) : L!Copyable(s.extra[k]) => L!Short(s.extra[k]) # L!Short(s.extra[j])
    BY DEF L!NewSizes
  <2>4. L!Copyable(s.extra[i]) /\ L!Copyable(s.extra[j])
    BY DEF L!NewSizes
  <2>5. ~(i < j)
    BY <1>1, <2>1, <2>3, <2>4
  <2>6. ~(j < i)
    BY <1>1, <2>1, <2>2, <2>4
  <2> QED
    BY <2>1, <2>5, <2>6
<1>2. CASE OfSource(s, u) /\ OfSource(s, v)
  BY <1>2 DEF OfSource
<1>3. ASSUME NEW i \in L!NewSizes(s), NEW j \in L!NewSizes(s), OfTrack(s, u, i), OfTrack(s, v, j)
      PROVE  u = v
  BY <1>1, <1>3 DEF OfTrack
<1>4. ASSUME NEW a \in L!EncodeShorts(s, m), NEW b \in L!EncodeShorts(s, m),
             OfServer(s, u, a), OfServer(s, v, b)
      PROVE  u = v
  BY <1>4 DEF OfServer
<1>5. /\ OfSource(s, u) => Len(u.dir) = 1
      /\ (\E i \in L!NewSizes(s) : OfTrack(s, u, i)) => Len(u.dir) = 3
      /\ (\E a \in L!EncodeShorts(s, m) : OfServer(s, u, a)) => Len(u.dir) = 2
  BY DEF OfSource, OfTrack, OfServer
<1>6. /\ OfSource(s, v) => Len(u.dir) = 1
      /\ (\E i \in L!NewSizes(s) : OfTrack(s, v, i)) => Len(u.dir) = 3
      /\ (\E a \in L!EncodeShorts(s, m) : OfServer(s, v, a)) => Len(u.dir) = 2
  BY DEF OfSource, OfTrack, OfServer
<1>7. \/ OfSource(s, u) \/ \E i \in L!NewSizes(s) : OfTrack(s, u, i)
      \/ \E a \in L!EncodeShorts(s, m) : OfServer(s, u, a)
  BY VariantIs
<1>8. \/ OfSource(s, v) \/ \E i \in L!NewSizes(s) : OfTrack(s, v, i)
      \/ \E a \in L!EncodeShorts(s, m) : OfServer(s, v, a)
  BY VariantIs
<1> QED
  BY <1>2, <1>3, <1>4, <1>5, <1>6, <1>7, <1>8

\* Among things that have a number there is one with the least.
LEMMA Least ==
  ASSUME NEW S, NEW f, S # {}, \A x \in S : f[x] \in Nat
  PROVE  \E x \in S : \A y \in S : f[x] <= f[y]
<1> DEFINE T == {f[x] : x \in S}
<1>1. T \subseteq Nat /\ T # {}
  OBVIOUS
<1>2. \E n \in T : \A k \in T : ~(<<k, n>> \in OpToRel(<, Nat))
  <2> HIDE DEF T
  <2> QED
    BY <1>1, NatLessThanWellFounded, WFMin
<1>3. PICK n \in T : \A k \in T : ~(<<k, n>> \in OpToRel(<, Nat))
  BY <1>2
<1>4. \A k \in T : ~(k < n)
  BY <1>1, <1>3 DEF OpToRel
<1>5. PICK x \in S : f[x] = n
  OBVIOUS
<1>6. ASSUME NEW y \in S PROVE n <= f[y]
  <2>1. f[y] \in T
    OBVIOUS
  <2>2. ~(f[y] < n)
    BY <1>4, <2>1
  <2> QED
    BY <1>1, <2>1, <2>2
<1> QED
  BY <1>5, <1>6

\* How far a rendition is from 720p is a number.
LEMMA Distances ==
  ASSUME NEW s \in Cameras, NEW m \in L!Modes, NEW v \in L!Variants(s, m)
  PROVE  L!Distance(v) \in Nat
<1>1. ASSUME v.w \in Int, v.h \in Int PROVE L!Distance(v) \in Nat
  BY <1>1 DEF L!Distance, L!Short, L!Smaller
<1>2. s.w \in Nat \ {0} /\ s.h \in Nat \ {0}
      /\ \A i \in DOMAIN s.extra : s.extra[i].w \in Nat \ {0} /\ s.extra[i].h \in Nat \ {0}
  BY MediaAssumption DEF L!LadderAssumption
<1>3. CASE OfSource(s, v)
  BY <1>1, <1>2, <1>3 DEF OfSource, L!Copy
<1>4. ASSUME NEW i \in L!NewSizes(s), OfTrack(s, v, i) PROVE L!Distance(v) \in Nat
  BY <1>1, <1>2, <1>4 DEF OfTrack, L!Copy, L!NewSizes
<1>5. ASSUME NEW short \in L!EncodeShorts(s, m), OfServer(s, v, short) PROVE L!Distance(v) \in Nat
  <2>1. short \in Nat
    BY <1>2, MediaAssumption DEF L!LadderAssumption, L!EncodeShorts, L!Short, L!Smaller, L!Modes,
       L!MAX_ENCODE_SHORT, L!DEGRADED_MAX_SHORT
  <2>2. L!even(short * L!Long(s), L!Short(s)) \in Int
    <3>1. L!Short(s) \in Nat \ {0} /\ L!Long(s) \in Nat
      BY <1>2 DEF L!Short, L!Long, L!Smaller
    <3>2. short * L!Long(s) \in Nat
      BY <2>1, <3>1
    <3>3. \A p \in Nat, q \in Nat \ {0} : L!even(p, q) \in Int
      BY DEF L!even
    <3> QED
      BY <3>1, <3>2, <3>3
  <2>3. v.w = L!dimensions(s, short)[1] /\ v.h = L!dimensions(s, short)[2]
    BY <1>5 DEF OfServer, L!Encode
  <2>4. v.w \in Int /\ v.h \in Int
    BY <2>1, <2>2, <2>3 DEF L!dimensions
  <2> QED
    BY <1>1, <2>4
<1> QED
  BY <1>3, <1>4, <1>5, VariantIs

\* Some rendition is H.264, unless the streamer chose pass-through.
LEMMA SomeH264 ==
  ASSUME NEW s \in Cameras, NEW m \in L!Modes, m # "passthrough"
  PROVE  \E v \in L!Variants(s, m) : v.codec = "H264"
<1>1. CASE s.codec = "H264"
  <2>1. L!Copy(s, <<"source">>, s.track) \in L!Variants(s, m)
    BY <1>1 DEF L!Variants, L!Copies, L!SourceCopy, L!Copyable, L!PASSTHROUGH_CODECS
  <2>2. L!Copy(s, <<"source">>, s.track).codec = "H264"
    BY <1>1 DEF L!Copy
  <2> QED
    BY <2>1, <2>2
<1>2. CASE s.codec # "H264"
  <2>1. PICK short : short \in L!EncodeShorts(s, m)
    BY <1>2 DEF L!EncodeShorts, L!NeedsH264, L!Modes
  <2>2. CASE short \in L!ProvidedH264(s)
    BY <2>2 DEF L!ProvidedH264, L!Variants
  <2>3. CASE short \notin L!ProvidedH264(s)
    <3>1. L!Encode(s, short) \in L!Variants(s, m)
      BY <2>1, <2>3 DEF L!Variants, L!Encodes
    <3>2. L!Encode(s, short).codec = "H264"
      BY DEF L!Encode
    <3> QED
      BY <3>1, <3>2
  <2> QED
    BY <2>2, <2>3
<1> QED
  BY <1>1, <1>2

LEMMA StartIsH264 ==
  ASSUME NEW s \in Cameras, NEW m \in L!Modes, m # "passthrough"
  PROVE  L!Start(s, m).codec = "H264"
<1> DEFINE pool == {v \in L!Variants(s, m) : v.codec = "H264"}
           far  == [v \in pool |-> L!Distance(v)]
<1>1. pool # {}
  BY SomeH264
<1>2. \A v \in pool : far[v] = L!Distance(v) /\ far[v] \in Nat
  BY Distances
<1>3. \E v \in pool : \A u \in pool : L!Distance(v) <= L!Distance(u)
  <2>1. \E v \in pool : \A u \in pool : far[v] <= far[u]
    <3> HIDE DEF pool, far
    <3> QED
      BY <1>1, <1>2, Least
  <2> QED
    BY <1>2, <2>1
<1>4. L!Start(s, m) = CHOOSE v \in pool : \A u \in pool : L!Distance(v) <= L!Distance(u)
  BY <1>1 DEF L!Start
<1>5. L!Start(s, m) \in pool
  <2> HIDE DEF pool
  <2> QED
    BY <1>3, <1>4
<1> QED
  BY <1>5

\* What the planner promises for each source, and for a source that changes while its plan is kept.
LEMMA InvServes == PlanInv => L!StartsWithH264 /\ L!OwnDirectories /\ L!PlanFitsSource
<1> SUFFICES ASSUME PlanInv PROVE L!StartsWithH264 /\ L!OwnDirectories
  BY PlanFits
<1>1. planned \in Cameras /\ mode \in L!Modes
  BY DEF PlanInv
<1>2. L!StartsWithH264
  BY <1>1, StartIsH264 DEF L!StartsWithH264
<1>3. L!OwnDirectories
  BY <1>1, Directories DEF L!OwnDirectories, L!Offered
<1> QED
  BY <1>2, <1>3

-----------------------------------------------------------------------------
(* The runs' specification, where the other parts are at work beside it *)

\* The recording takes the steps of its own specification and no others.
LEMMA MediaRecords == MediaSpec => V!Spec
<1>1. MediaInit => V!Init
  BY DEF MediaInit
<1>2. [MediaNext]_<<at, vars, vVars, lVars>> => [V!Next]_V!vars
  BY DEF MediaNext, vVars, V!vars, V!runVars, V!endVars
<1> QED
  BY <1>1, <1>2, PTL DEF MediaSpec, V!Spec

\* The strengthened invariant of the recording.
LEMMA MediaInvariant == MediaSpec => []VInv
BY MediaRecords, VodInvariant, MediaAssumption, PTL

\* The recording keeps to its types, for every number of runs and segments.
THEOREM RecordingTypes == MediaSpec => []V!TypeOK
<1>1. VInv => V!TypeOK
  BY DEF VInv
<1> QED
  BY <1>1, MediaInvariant, PTL

\* vod.m3u8 "listing every segment of the broadcast" (vod.ts:2): once the control
\* plane has finalized a recording, every segment that was in an uploaded live
\* playlist is in it, when none of the faults strikes.
THEOREM RecordingIsComplete == MediaSpec => []NothingMissing
BY MediaInvariant, InvNothingMissing, PTL DEF NothingMissing

\* The playlist is append-only across runs, crashes, lost leases and failed writes.
THEOREM RecordingIsAppended == MediaSpec => RecordingGrows
<1>1. MediaSpec => [][V!Next]_V!vars
  BY MediaRecords, PTL DEF V!Spec
<1> QED
  BY <1>1, MediaInvariant, StepGrows, PTL DEF RecordingGrows, V!RecordingGrows

\* "the recording includes the very last segments" (runner.ts:296), for every number of writes
\* under way: when the last write of a run that ended in order has landed, all its lines are
\* stored.  The last flush does not wait for a write the timer has begun (vod.ts:141).
THEOREM LastSegmentsAreRecorded == MediaSpec => TailRecorded
<1>1. MediaSpec => [][V!Next]_V!vars
  BY MediaRecords, PTL DEF V!Spec
<1> QED
  BY <1>1, MediaInvariant, StepRecordsTail, PTL DEF TailRecorded, V!TailRecorded

\* The plan takes the steps of its own specification and no others.
LEMMA MediaPlans == MediaSpec => []PlanInv
<1>1. MediaInit => L!Init
  BY DEF MediaInit
<1>2. [MediaNext]_<<at, vars, vVars, lVars>> => [L!Next]_L!vars
  BY DEF MediaNext, lVars, L!vars
<1> QED
  BY <1>1, <1>2, PlanInitInv, PlanNextInv, PTL DEF MediaSpec

\* "Every browser can still watch" (ladder.ts:13), for all sources and rungs: unless the streamer
\* chose pass-through, players start with an H.264 rendition; no two renditions share a directory;
\* and a plan that is kept fits what is sent by then (ladder.ts:252-259).
THEOREM PlansServeEveryone ==
  MediaSpec => [](L!StartsWithH264 /\ L!OwnDirectories /\ L!PlanFitsSource)
BY MediaPlans, InvServes, PTL

\* The level a rendition is given depends on its size and rate alone (codecs.ts:81-87), and is not
\* enough for every size there could be.
LevelsSuffice ==
  \A s \in Cameras, m \in L!Modes : \A v \in L!Encodes(s, m) : L!LevelHolds(v)

\* All of it, for sources of sizes and rates whose levels suffice.
THEOREM EverybodyWatches == LevelsSuffice /\ MediaSpec => []EveryBrowserCanWatch
<1> SUFFICES ASSUME LevelsSuffice PROVE MediaSpec => []EveryBrowserCanWatch
  OBVIOUS
<1>1. PlanInv => EveryBrowserCanWatch
  BY InvServes DEF LevelsSuffice, PlanInv, EveryBrowserCanWatch, L!EveryBrowserCanWatch,
     L!LevelFits, L!Encoded
<1> QED
  BY <1>1, MediaPlans, PTL

=============================================================================
