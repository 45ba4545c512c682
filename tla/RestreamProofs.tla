--------------------------- MODULE RestreamProofs ---------------------------
(***************************************************************************)
(* Proofs about Restream, for any number of destinations, concurrent       *)
(* syncs, edits and failures.                                              *)
(*                                                                         *)
(* The inductive invariant says that the manager's map is exact: a push    *)
(* that may still do something and was not told to stop is on the map      *)
(* under its destination, and what is on the map was not told to stop and  *)
(* belongs there.  A sync that acts on an old answer then stops what it    *)
(* replaces.  It holds with name lookups and without; that no process is   *)
(* left behind holds without them only, because LookedUp starts a process  *)
(* for a push that has been told to stop.                                  *)
(***************************************************************************)
EXTENDS Restream, TLAPS

-----------------------------------------------------------------------------
(* The inductive invariant *)

\* Nothing is on the map of another destination.
InItsPlace == \A d \in Dests : running[d] # None => push[running[d]].dest = d

\* What is on the map was not told to stop; "live" is said of a process only;
\* and a sync that was late for the end of the job started nothing.
MapIsCurrent ==
  \A d \in Dests :
    running[d] # None =>
      /\ ~ push[running[d]].stopped
      /\ push[running[d]].state = "live" => push[running[d]].phase = "ffmpeg"
      /\ closed => push[running[d]].phase = "over" /\ push[running[d]].state # "live"

KnownUntilStopped ==
  \A p \in Pushes :
    push[p].phase # "over" /\ ~ push[p].stopped => running[push[p].dest] = p

KillingIsStopped == \A p \in Pushes : push[p].phase = "killing" => push[p].stopped

IInv ==
  /\ TypeOK /\ InItsPlace /\ MapIsCurrent
  /\ KnownUntilStopped /\ KillingIsStopped

\* Without name lookups, moreover, no process was told to stop and runs on.
StoppedIsKilled ==
  ~ lookup => \A p \in Pushes :
    /\ push[p].phase # "lookup"
    /\ push[p].phase = "ffmpeg" => ~ push[p].stopped

USE RestreamAssumption

LEMMA InitIInv == Init => IInv /\ StoppedIsKilled
<1> SUFFICES ASSUME Init PROVE IInv /\ StoppedIsKilled
  OBVIOUS
<1>1. PICK d \in Dests, s \in Specs :
        push = [p \in Pushes |-> [dest |-> d, spec |-> s, phase |-> "over",
                                 stopped |-> TRUE, state |-> "error"]]
  BY DEF Init
<1> DEFINE r == [dest |-> d, spec |-> s, phase |-> "over", stopped |-> TRUE,
                 state |-> "error"]
<1>2. r \in Push /\ r.phase = "over"
  BY DEF Push, Phases
<1> HIDE DEF r
<1>3. push \in [Pushes -> Push] /\ \A p \in Pushes : push[p].phase = "over"
  BY <1>1, <1>2 DEF r
<1>4. TypeOK
  <2>1. \A p \in Pushes : push[p].phase # "waiting"
    BY <1>3
  <2>2. /\ rows \in [Dests -> Specs \cup {Off}]
        /\ reads \in [Syncs -> {None} \cup [Dests -> Specs \cup {Off}]]
    BY DEF Init
  <2>3. running \in [Dests -> Pushes \cup {None}]
    BY DEF Init
  <2>4. closed \in BOOLEAN /\ lookup \in BOOLEAN
    BY DEF Init
  <2>5. edits \in 0..MaxEdits[lookup]
    <3>1. edits = 0 /\ MaxEdits[lookup] \in Nat
      BY <2>4 DEF Init
    <3> QED
      BY <3>1
  <2> QED
    BY <1>3, <2>1, <2>2, <2>3, <2>4, <2>5 DEF TypeOK
<1> QED
  BY <1>3, <1>4 DEF Init, IInv, InItsPlace, MapIsCurrent, KnownUntilStopped,
                    KillingIsStopped, StoppedIsKilled

-----------------------------------------------------------------------------
(* What the operations on one push do *)

LEMMA LaunchType ==
  ASSUME NEW r \in Push
  PROVE  /\ Launch(r) \in Push /\ Launch(r).dest = r.dest /\ Launch(r).stopped = r.stopped
         /\ r.stopped \/ closed => Launch(r).phase = "over"
         /\ Launch(r).phase \in {"over", "lookup", "ffmpeg"}
         /\ r.state # "live" => Launch(r).state # "live"
         /\ ~ lookup => Launch(r).phase # "lookup"
BY DEF Launch, Push, Phases

LEMMA StopOneType ==
  ASSUME NEW r \in Push
  PROVE  /\ StopOne(r) \in Push /\ StopOne(r).dest = r.dest /\ StopOne(r).stopped
         /\ StopOne(r).phase \notin {"ffmpeg", "waiting"}
         /\ r.phase # "lookup" => StopOne(r).phase # "lookup"
BY DEF StopOne, Push, Phases

\* A step that changes one push, which has something left to do, and keeps it in
\* its place.
LEMMA BecomesIInv ==
  ASSUME IInv, NEW p \in Pushes, NEW r \in Push, Becomes(p, r),
         push[p].phase # "over",
         r.dest = push[p].dest, r.stopped = push[p].stopped,
         r.phase = "waiting" => ~ r.stopped,
         r.phase = "killing" => r.stopped,
         r.state = "live" /\ ~ r.stopped => r.phase = "ffmpeg" \/ closed
  PROVE  IInv'
<1>1. /\ push' = [push EXCEPT ![p] = r]
      /\ UNCHANGED <<lookup, rows, reads, running, closed, edits>>
  BY DEF Becomes
<1>2. push \in [Pushes -> Push] /\ push' \in [Pushes -> Push]
  BY <1>1 DEF IInv, TypeOK
<1>3. \A q \in Pushes : push'[q] = IF q = p THEN r ELSE push[q]
  BY <1>1, <1>2
<1>4. KnownUntilStopped' /\ KillingIsStopped'
  BY <1>1, <1>3 DEF IInv, KnownUntilStopped, KillingIsStopped
<1>5. \A d \in Dests : running[d] # None => running[d] \in Pushes
  BY DEF IInv, TypeOK
<1>6. InItsPlace'
  BY <1>1, <1>3, <1>5 DEF IInv, InItsPlace
<1>7. MapIsCurrent'
  BY <1>1, <1>3, <1>5 DEF IInv, MapIsCurrent
<1>8. TypeOK'
  <2>1. \A q \in Pushes : push'[q].phase = "waiting" => running'[push'[q].dest] = q
    BY <1>1, <1>3 DEF IInv, TypeOK, KnownUntilStopped
  <2> QED
    BY <1>1, <1>2, <2>1 DEF IInv, TypeOK
<1> QED
  BY <1>4, <1>6, <1>7, <1>8 DEF IInv

-----------------------------------------------------------------------------
(* sync *)

\* What the answer of a sync does to the pushes.
LEMMA SyncEffect ==
  ASSUME IInv, NEW i \in Syncs, SyncApplies(i)
  PROVE  /\ UNCHANGED <<lookup, rows, closed, edits>>
         /\ reads' \in [Syncs -> {None} \cup [Dests -> Specs \cup {Off}]]
         /\ push' \in [Pushes -> Push]
         /\ running' \in [Dests -> Pushes \cup {None}]
         /\ \A d \in Dests :
              \/ running'[d] = None
              \/ /\ running'[d] \in Pushes
                 /\ push'[running'[d]].dest = d /\ ~ push'[running'[d]].stopped
                 /\ push'[running'[d]].state # "live"
                 /\ push'[running'[d]].phase \in {"over", "lookup", "ffmpeg"}
                 /\ closed => push'[running'[d]].phase = "over"
                 /\ ~ lookup => push'[running'[d]].phase # "lookup"
              \/ /\ running'[d] = running[d] /\ push'[running[d]] = push[running[d]]
         /\ \A p \in Pushes :
              \/ running'[push'[p].dest] = p
              \/ push'[p] = StopOne(push[p])
              \/ /\ push'[p] = push[p]
                 /\ \A d \in Dests : running[d] # p
<1> DEFINE wanted == reads[i]
           start  == ToStart(wanted)
           stop   == ToStop(wanted)
<1>1. wanted \in [Dests -> Specs \cup {Off}]
  BY DEF SyncApplies, IInv, TypeOK
<1>2. PICK new \in [start -> {p \in Pushes : Free(p)}] :
        /\ \A c, d \in start : new[c] = new[d] => c = d
        /\ running' = [d \in Dests |-> IF d \in start THEN new[d]
                                       ELSE IF d \in stop THEN None ELSE running[d]]
        /\ push' = [p \in Pushes |->
             IF \E d \in start : new[d] = p
             THEN LET d == CHOOSE d \in start : new[d] = p
                  IN Started(d, wanted[d])
             ELSE IF \E d \in stop : running[d] = p THEN StopOne(push[p])
             ELSE push[p]]
  BY DEF SyncApplies
<1>3. /\ reads' = [reads EXCEPT ![i] = None]
      /\ UNCHANGED <<lookup, rows, closed, edits>>
  BY DEF SyncApplies
<1>4. start \subseteq Dests /\ stop \subseteq Dests
  BY DEF ToStart, ToStop
<1>5. \A d \in stop : running[d] \in Pushes
  BY DEF ToStop, Outdated, IInv, TypeOK
<1>6. \A d \in start : running[d] = None \/ d \in stop
  BY DEF ToStart
<1> HIDE DEF start, stop, wanted
<1>7. \A d \in start : /\ wanted[d] \in Specs
                       /\ new[d] \in Pushes /\ Free(new[d])
  BY <1>1, <1>2, <1>4 DEF start, wanted, ToStart
<1>8. \A d \in start :
        /\ push'[new[d]] \in Push
        /\ push'[new[d]].dest = d /\ ~ push'[new[d]].stopped
        /\ push'[new[d]].state # "live"
        /\ push'[new[d]].phase \in {"over", "lookup", "ffmpeg"}
        /\ closed => push'[new[d]].phase = "over"
        /\ ~ lookup => push'[new[d]].phase # "lookup"
  <2> TAKE d \in start
  <2>1. push'[new[d]] = Started(d, wanted[d])
    <3>1. (CHOOSE c \in start : new[c] = new[d]) = d
      BY <1>2
    <3> QED
      BY <1>2, <1>7, <3>1
  <2> DEFINE r == [dest |-> d, spec |-> wanted[d], phase |-> "over", stopped |-> FALSE,
                   state |-> "connecting"]
  <2>2. r \in Push
    BY <1>4, <1>7 DEF Push, Phases
  <2>3. r.dest = d /\ ~ r.stopped /\ r.state # "live"
    OBVIOUS
  <2>4. push'[new[d]] = Launch(r)
    BY <2>1 DEF Started
  <2> HIDE DEF r
  <2> QED
    BY <2>2, <2>3, <2>4, LaunchType
<1>9. \A d \in stop :
        /\ push'[running[d]] = StopOne(push[running[d]])
        /\ push[running[d]] \in Push
  <2> TAKE d \in stop
  <2>1. running[d] \in Pushes /\ d \in Dests
    BY <1>4, <1>5
  <2>2. ~ \E c \in start : new[c] = running[d]
    BY <1>7, <2>1 DEF Free
  <2> QED
    BY <1>2, <2>1, <2>2 DEF IInv, TypeOK
<1>10. \A p \in Pushes :
         \/ \E d \in start : new[d] = p
         \/ \E d \in stop : running[d] = p
         \/ push'[p] = push[p]
  BY <1>2
<1>11. push' \in [Pushes -> Push]
  <2>1. \A p \in Pushes : push'[p] \in Push
    BY <1>8, <1>9, <1>10, StopOneType DEF IInv, TypeOK
  <2> QED
    BY <1>2, <2>1
<1>12. running' \in [Dests -> Pushes \cup {None}]
  BY <1>2, <1>7 DEF IInv, TypeOK
<1>13. reads' \in [Syncs -> {None} \cup [Dests -> Specs \cup {Off}]]
  BY <1>3 DEF IInv, TypeOK
<1>14. \A d \in Dests \ start : d \notin stop /\ running[d] # None =>
         running'[d] = running[d] /\ push'[running[d]] = push[running[d]]
  <2> SUFFICES ASSUME NEW d \in Dests \ start, d \notin stop, running[d] # None
               PROVE  running'[d] = running[d] /\ push'[running[d]] = push[running[d]]
    OBVIOUS
  <2>1. running[d] \in Pushes /\ push[running[d]].dest = d
    BY DEF IInv, TypeOK, InItsPlace
  <2>2. ~ \E c \in start : new[c] = running[d]
    BY <1>7 DEF Free
  <2>3. ~ \E c \in stop : running[c] = running[d]
    BY <1>4, <1>5, <2>1 DEF IInv, InItsPlace
  <2> QED
    BY <1>2, <1>10, <2>1, <2>2, <2>3
<1>15. ASSUME NEW d \in Dests
       PROVE  \/ running'[d] = None
              \/ /\ running'[d] \in Pushes
                 /\ push'[running'[d]].dest = d /\ ~ push'[running'[d]].stopped
                 /\ push'[running'[d]].state # "live"
                 /\ push'[running'[d]].phase \in {"over", "lookup", "ffmpeg"}
                 /\ closed => push'[running'[d]].phase = "over"
                 /\ ~ lookup => push'[running'[d]].phase # "lookup"
              \/ /\ running'[d] = running[d] /\ push'[running[d]] = push[running[d]]
  <2>1. CASE d \in start
    <3>1. running'[d] = new[d] /\ new[d] \in Pushes
      BY <1>2, <1>7, <2>1
    <3> QED
      BY <1>8, <2>1, <3>1
  <2>2. CASE d \notin start /\ d \in stop
    BY <1>2, <2>2
  <2>3. CASE d \notin start /\ d \notin stop
    BY <1>2, <1>14, <2>3
  <2> QED
    BY <2>1, <2>2, <2>3
<1>16. ASSUME NEW p \in Pushes
       PROVE  \/ running'[push'[p].dest] = p
              \/ push'[p] = StopOne(push[p])
              \/ /\ push'[p] = push[p]
                 /\ \A d \in Dests : running[d] # p
  <2>1. CASE \E d \in start : new[d] = p
    <3>1. PICK d \in start : new[d] = p
      BY <2>1
    <3>2. push'[p].dest = d /\ d \in Dests
      BY <3>1, <1>4, <1>8
    <3> QED
      BY <1>2, <3>1, <3>2
  <2>2. CASE \E d \in stop : running[d] = p
    BY <1>9, <2>2
  <2>3. CASE /\ ~ \E d \in start : new[d] = p
             /\ ~ \E d \in stop : running[d] = p
             /\ \E d \in Dests : running[d] = p
    <3>1. PICK d \in Dests : running[d] = p
      BY <2>3
    <3>2. d \notin stop /\ d \notin start /\ running[d] # None
      BY <1>6, <2>3, <3>1
    <3>3. push[p].dest = d
      BY <3>1, <3>2 DEF IInv, InItsPlace
    <3> QED
      BY <1>14, <3>1, <3>2, <3>3
  <2> QED
    BY <1>10, <2>1, <2>2, <2>3
<1> QED
  BY <1>3, <1>11, <1>12, <1>13, <1>15, <1>16

LEMMA SyncAppliesIInv ==
  ASSUME IInv, NEW i \in Syncs, SyncApplies(i)
  PROVE  IInv'
<1> USE SyncEffect
<1>1. InItsPlace'
  BY DEF IInv, InItsPlace
<1>2. MapIsCurrent'
  BY DEF IInv, MapIsCurrent
<1>3. ASSUME NEW p \in Pushes
      PROVE  /\ push'[p].phase # "over" /\ ~ push'[p].stopped => running'[push'[p].dest] = p
             /\ push'[p].phase = "killing" => push'[p].stopped
             /\ push'[p].phase = "waiting" => running'[push'[p].dest] = p
  <2>1. push[p] \in Push /\ push'[p] \in Push
    BY DEF IInv, TypeOK
  <2>2. CASE push'[p] = StopOne(push[p])
    BY <2>1, <2>2, StopOneType
  <2>3. CASE push'[p] = push[p] /\ \A d \in Dests : running[d] # p
    BY <2>1, <2>3 DEF IInv, KnownUntilStopped, KillingIsStopped, TypeOK, Push
  <2>4. CASE running'[push'[p].dest] = p
    <3> DEFINE d == push'[p].dest
    <3>1. d \in Dests /\ running'[d] # None
      BY <2>1, <2>4 DEF Push
    <3>2. \/ push'[p].phase \in {"over", "lookup", "ffmpeg"}
          \/ push'[p] = push[p]
      BY <2>4, <3>1
    <3> QED
      BY <2>4, <3>2 DEF IInv, KillingIsStopped
  <2> QED
    BY <2>2, <2>3, <2>4
<1>4. TypeOK'
  <2>1. /\ rows' \in [Dests -> Specs \cup {Off}] /\ closed' \in BOOLEAN
        /\ lookup' \in BOOLEAN /\ edits' \in 0..MaxEdits[lookup]'
    BY DEF IInv, TypeOK
  <2> QED
    BY <1>3, <2>1 DEF TypeOK
<1> QED
  BY <1>1, <1>2, <1>3, <1>4 DEF IInv, KnownUntilStopped, KillingIsStopped

-----------------------------------------------------------------------------
(* The other steps *)

LEMMA StopIInv ==
  ASSUME IInv, Stop
  PROVE  /\ IInv'
         /\ ~ lookup /\ StoppedIsKilled => StoppedIsKilled'
<1>1. /\ closed' = TRUE
      /\ push' = [p \in Pushes |-> IF \E d \in Dests : running[d] = p
                                   THEN StopOne(push[p]) ELSE push[p]]
      /\ running' = [d \in Dests |-> None]
      /\ UNCHANGED <<lookup, rows, reads, edits>>
  BY DEF Stop
<1>2. \A p \in Pushes :
        /\ push'[p] \in Push
        /\ push'[p].stopped \/ push'[p].phase = "over"
        /\ push'[p].phase # "waiting"
        /\ push'[p].phase = "killing" => push'[p].stopped
        /\ ~ lookup /\ StoppedIsKilled => push'[p].phase \notin {"lookup", "ffmpeg"}
  <2> TAKE p \in Pushes
  <2>1. push[p] \in Push
    BY DEF IInv, TypeOK
  <2>2. CASE \E d \in Dests : running[d] = p
    <3>1. push'[p] = StopOne(push[p])
      BY <1>1, <2>2
    <3>2. ~ lookup /\ StoppedIsKilled => push[p].phase # "lookup"
      BY DEF StoppedIsKilled
    <3> QED
      BY <2>1, <3>1, <3>2, StopOneType
  <2>3. CASE ~ \E d \in Dests : running[d] = p
    <3>1. push[p].dest \in Dests
      BY <2>1 DEF Push
    <3>2. push'[p] = push[p] /\ running[push[p].dest] # p
      BY <1>1, <2>3, <3>1
    <3>3. push[p].phase # "waiting"
      BY <3>2 DEF IInv, TypeOK
    <3>4. push[p].stopped \/ push[p].phase = "over"
      BY <3>2 DEF IInv, KnownUntilStopped
    <3>5. push[p].phase = "killing" => push[p].stopped
      BY DEF IInv, KillingIsStopped
    <3>6. ~ lookup /\ StoppedIsKilled => push[p].phase \notin {"lookup", "ffmpeg"}
      BY <3>4 DEF StoppedIsKilled
    <3> QED
      BY <2>1, <3>2, <3>3, <3>4, <3>5, <3>6
  <2> QED
    BY <2>2, <2>3
<1>3. TypeOK'
  <2>1. push' \in [Pushes -> Push] /\ running' \in [Dests -> Pushes \cup {None}]
    BY <1>1, <1>2
  <2> QED
    BY <1>1, <1>2, <2>1 DEF IInv, TypeOK
<1> QED
  BY <1>1, <1>2, <1>3 DEF IInv, InItsPlace, MapIsCurrent, KnownUntilStopped, KillingIsStopped,
                          StoppedIsKilled

\* The steps of one push, each as the new value of its record.
LEMMA OnePushStep ==
  ASSUME IInv, NEW p \in Pushes,
         LookedUp(p) \/ LookupFails(p) \/ GoesLive(p) \/ Exits(p) \/ Restart(p)
  PROVE  \E r \in Push :
           /\ Becomes(p, r) /\ push[p].phase # "over"
           /\ r.dest = push[p].dest /\ r.stopped = push[p].stopped
           /\ r.phase = "waiting" => ~ r.stopped
           /\ r.phase # "killing"
           /\ r.state = "live" /\ ~ r.stopped => r.phase = "ffmpeg" \/ closed
           /\ push[p].phase # "lookup" /\ ~ lookup => r.phase # "lookup"
           /\ r.phase = "ffmpeg" => push[p].phase \in {"lookup", "ffmpeg"} \/ ~ r.stopped
<1>1. push[p] \in Push
  BY DEF IInv, TypeOK
<1>2. CASE LookedUp(p)
  <2> DEFINE r == [push[p] EXCEPT !.phase = "ffmpeg", !.state = "connecting"]
  <2>1. /\ r \in Push /\ r.dest = push[p].dest /\ r.stopped = push[p].stopped
        /\ r.phase = "ffmpeg" /\ r.state = "connecting"
    BY <1>1 DEF Push, Phases
  <2>2. Becomes(p, r) /\ push[p].phase = "lookup"
    BY <1>2 DEF LookedUp
  <2> HIDE DEF r
  <2> QED
    BY <2>1, <2>2
<1>3. CASE LookupFails(p)
  <2> DEFINE r == ScheduleRestart([push[p] EXCEPT !.state = "error"])
  <2>1. /\ r \in Push /\ r.dest = push[p].dest /\ r.stopped = push[p].stopped
        /\ r.phase = IF r.stopped \/ closed THEN "over" ELSE "waiting"
        /\ r.state = "error"
    BY <1>1 DEF ScheduleRestart, Push, Phases
  <2>2. Becomes(p, r) /\ push[p].phase = "lookup"
    BY <1>3 DEF LookupFails
  <2> HIDE DEF r
  <2> QED
    BY <2>1, <2>2
<1>4. CASE GoesLive(p)
  <2> DEFINE r == [push[p] EXCEPT !.state = "live"]
  <2>1. /\ r \in Push /\ r.dest = push[p].dest /\ r.stopped = push[p].stopped
        /\ r.phase = push[p].phase
    BY <1>1 DEF Push
  <2>2. Becomes(p, r) /\ push[p].phase = "ffmpeg"
    BY <1>4 DEF GoesLive
  <2> HIDE DEF r
  <2> QED
    BY <2>1, <2>2
<1>5. CASE Exits(p)
  <2> DEFINE r == Closed(push[p])
  <2>1. /\ r \in Push /\ r.dest = push[p].dest /\ r.stopped = push[p].stopped
        /\ r.phase = IF r.stopped \/ closed THEN "over" ELSE "waiting"
        /\ r.stopped \/ closed \/ r.state = "error"
    BY <1>1 DEF Closed, ScheduleRestart, Push, Phases
  <2>2. Becomes(p, r) /\ push[p].phase \in {"ffmpeg", "killing"}
    BY <1>5 DEF Exits
  <2> HIDE DEF r
  <2> QED
    BY <2>1, <2>2
<1>6. CASE Restart(p)
  <2>1. Becomes(p, Launch(push[p])) /\ push[p].phase = "waiting"
    BY <1>6 DEF Restart
  <2>2. running[push[p].dest] = p /\ push[p].dest \in Dests
    BY <1>1, <2>1 DEF IInv, TypeOK, Push
  <2>3. ~ push[p].stopped /\ push[p].state # "live"
    BY <2>1, <2>2 DEF IInv, MapIsCurrent
  <2> QED
    BY <1>1, <2>1, <2>3, LaunchType
<1> QED
  BY <1>2, <1>3, <1>4, <1>5, <1>6

LEMMA NextIInv ==
  ASSUME IInv, [Next]_vars
  PROVE  IInv'
<1>1. CASE UNCHANGED vars
  BY <1>1 DEF vars, IInv, TypeOK, InItsPlace, MapIsCurrent, KnownUntilStopped, KillingIsStopped
<1>2. CASE Stop
  BY <1>2, StopIInv
<1>3. ASSUME NEW d \in Dests, Edit(d) PROVE IInv'
  BY <1>3 DEF Edit, IInv, TypeOK, InItsPlace, MapIsCurrent, KnownUntilStopped, KillingIsStopped
<1>4. ASSUME NEW i \in Syncs, SyncReads(i) \/ SyncFails(i) PROVE IInv'
  BY <1>4 DEF SyncReads, SyncFails, IInv, TypeOK, InItsPlace, MapIsCurrent,
              KnownUntilStopped, KillingIsStopped
<1>5. ASSUME NEW i \in Syncs, SyncApplies(i) PROVE IInv'
  BY <1>5, SyncAppliesIInv
<1>6. ASSUME NEW p \in Pushes,
             LookedUp(p) \/ LookupFails(p) \/ GoesLive(p) \/ Exits(p) \/ Restart(p)
      PROVE  IInv'
  BY <1>6, OnePushStep, BecomesIInv
<1> QED
  BY <1>1, <1>2, <1>3, <1>4, <1>5, <1>6 DEF Next

LEMMA NextStoppedIsKilled ==
  ASSUME IInv, StoppedIsKilled, [Next]_vars
  PROVE  StoppedIsKilled'
<1>0. lookup' = lookup
  BY DEF Next, vars, Stop, Edit, SyncReads, SyncApplies, SyncFails, LookedUp, LookupFails,
         GoesLive, Exits, Restart, Becomes
<1> SUFFICES ASSUME ~ lookup PROVE StoppedIsKilled'
  BY <1>0 DEF StoppedIsKilled
<1> USE DEF StoppedIsKilled
<1>1. CASE UNCHANGED vars
  BY <1>1 DEF vars
<1>2. CASE Stop
  BY <1>2, StopIInv
<1>3. ASSUME NEW d \in Dests, Edit(d) PROVE StoppedIsKilled'
  BY <1>3 DEF Edit
<1>4. ASSUME NEW i \in Syncs, SyncReads(i) \/ SyncFails(i) PROVE StoppedIsKilled'
  BY <1>4 DEF SyncReads, SyncFails
<1>5. ASSUME NEW i \in Syncs, SyncApplies(i), NEW p \in Pushes
      PROVE  push'[p].phase # "lookup" /\ (push'[p].phase = "ffmpeg" => ~ push'[p].stopped)
  <2>1. push[p] \in Push
    BY DEF IInv, TypeOK
  <2>0. push[p].phase # "lookup" /\ (push[p].phase = "ffmpeg" => ~ push[p].stopped)
    OBVIOUS
  <2>2. CASE push'[p] = push[p]
    BY <2>0, <2>2
  <2>3. CASE push'[p] = StopOne(push[p])
    BY <2>0, <2>1, <2>3, StopOneType
  <2>4. CASE push'[p] # push[p] /\ running'[push'[p].dest] = p
    <3>1. push'[p] \in Push
      BY <1>5, SyncEffect
    <3>2. push'[p].dest \in Dests
      BY <3>1 DEF Push
    <3> QED
      BY <1>5, <2>4, <3>2, SyncEffect
  <2> QED
    BY <1>5, <2>2, <2>3, <2>4, SyncEffect
<1>6. ASSUME NEW p \in Pushes,
             LookedUp(p) \/ LookupFails(p) \/ GoesLive(p) \/ Exits(p) \/ Restart(p)
      PROVE  StoppedIsKilled'
  <2>1. PICK r \in Push :
          /\ Becomes(p, r) /\ r.stopped = push[p].stopped
          /\ push[p].phase # "lookup" /\ ~ lookup => r.phase # "lookup"
          /\ r.phase = "ffmpeg" => push[p].phase \in {"lookup", "ffmpeg"} \/ ~ r.stopped
    BY <1>6, OnePushStep
  <2>2. \A q \in Pushes : push'[q] = IF q = p THEN r ELSE push[q]
    BY <2>1 DEF Becomes, IInv, TypeOK
  <2>3. push[p].phase # "lookup" /\ (push[p].phase = "ffmpeg" => ~ push[p].stopped)
    OBVIOUS
  <2>4. r.phase # "lookup" /\ (r.phase = "ffmpeg" => ~ r.stopped)
    BY <2>1, <2>3
  <2> QED
    BY <2>2, <2>4
<1> QED
  BY <1>1, <1>2, <1>3, <1>4, <1>5, <1>6 DEF Next

-----------------------------------------------------------------------------
(* The theorems *)

\* The map stays exact, whatever order syncs, lookups, edits and failures come in.
THEOREM RestreamInvariance == Spec => []IInv
<1>1. Init => IInv
  BY InitIInv
<1>2. IInv /\ [Next]_vars => IInv'
  BY NextIInv
<1> QED
  BY <1>1, <1>2, PTL DEF Spec

\* The timer of a push that was taken off the map is cleared.
THEOREM RestreamTypeCorrect == Spec => []TypeOK
<1>1. IInv => TypeOK
  BY DEF IInv
<1> QED
  BY <1>1, RestreamInvariance, PTL

\* The studio never shows as live what is not being pushed.
THEOREM StatusHonest == Spec => []StatusIsHonest
<1>1. IInv => StatusIsHonest
  BY DEF IInv, MapIsCurrent, InItsPlace, StatusIsHonest
<1> QED
  BY <1>1, RestreamInvariance, PTL

LEMMA Killed == Spec => []StoppedIsKilled
<1>1. Init => StoppedIsKilled
  BY InitIInv
<1>2. IInv /\ StoppedIsKilled /\ [Next]_vars => StoppedIsKilled'
  BY NextStoppedIsKilled
<1> QED
  BY <1>1, <1>2, RestreamInvariance, PTL DEF Spec

\* Without name lookups, two pushes to one destination would both be its entry
\* on the map.
THEOREM OnePush == Spec => []OnePushPerDestination
<1>1. IInv /\ StoppedIsKilled => OnePushPerDestination
  <2> SUFFICES ASSUME IInv, StoppedIsKilled, ~ lookup, NEW p \in Pushes, NEW q \in Pushes,
                      push[p].phase = "ffmpeg", push[q].phase = "ffmpeg",
                      push[p].dest = push[q].dest
               PROVE  p = q
    BY DEF OnePushPerDestination
  <2> QED
    BY DEF IInv, KnownUntilStopped, StoppedIsKilled
<1> QED
  BY <1>1, RestreamInvariance, Killed, PTL

\* Without name lookups, no push outlives the job that started it, except while
\* it is killed.
THEOREM PushesEndWithJob == Spec => []DirectPushEndsWithJob
<1>1. IInv /\ StoppedIsKilled => DirectPushEndsWithJob
  <2> SUFFICES ASSUME IInv, StoppedIsKilled, ~ lookup, closed, NEW p \in Pushes,
                      push[p].phase = "ffmpeg"
               PROVE  FALSE
    BY DEF DirectPushEndsWithJob, EndsWithJob
  <2>1. running[push[p].dest] = p /\ push[p].dest \in Dests
    BY DEF IInv, KnownUntilStopped, StoppedIsKilled, TypeOK, Push
  <2> QED
    BY <2>1 DEF IInv, MapIsCurrent
<1> QED
  BY <1>1, RestreamInvariance, Killed, PTL

=============================================================================
