------------------------------ MODULE Restream ------------------------------
(***************************************************************************)
(* Multistream, server/src/worker/restream.ts: while a job runs, its       *)
(* RestreamManager pushes the broadcast to the channel's external          *)
(* destinations, which the studio edits meanwhile (routes/restreams.ts).   *)
(*                                                                         *)
(* A push is one Running object, from startOne until nothing can happen to *)
(* it any more; its identity is then used again.  The two places where the *)
(* manager waits are steps of their own: the query of sync() and the name  *)
(* lookup of launch().  The length of the back-off, the decryption of the  *)
(* key and the row limit are left out.                                     *)
(***************************************************************************)
EXTENDS Naturals

CONSTANTS
  Dests,      \* the destinations of the channel
  Specs,      \* what a destination may be: URL, key, service, transcode
  Off,        \* a destination that is disabled or deleted
  Pushes,     \* identities of Running objects
  Syncs,      \* calls of sync() that may be under way together
  None,
  Lookups,    \* the values that lookup may have
  MaxEdits    \* bound: edits in the studio, with and without lookups

ASSUME RestreamAssumption ==
  /\ Off \notin Specs /\ None \notin Pushes
  /\ None \notin [Dests -> Specs \cup {Off}]
  /\ Lookups \subseteq BOOLEAN /\ MaxEdits \in [BOOLEAN -> Nat]

VARIABLES
  lookup,     \* whether a target's name is resolved before connecting
              \* (RESTREAM_ALLOW_PRIVATE is not set)
  rows,       \* restream_destinations
  reads,      \* what the query of a sync() under way returned
  running,    \* the map of the manager: the push of a destination
  push,       \* the Running objects
  closed,     \* the job's run has called stop()
  edits       \* bound: edits so far

vars == <<lookup, rows, reads, running, push, closed, edits>>

\* lookup: in assertPublicTarget; ffmpeg: its process runs; killing: it was sent
\* SIGTERM; waiting: restartTimer is set; over: nothing will happen to it.
Phases == {"lookup", "ffmpeg", "killing", "waiting", "over"}

Free(p) == push[p].phase = "over" /\ \A d \in Dests : running[d] # p

-----------------------------------------------------------------------------
(* launch, scheduleRestart and stopOne, of one push *)

\* Mutant: the end of the job is not looked at.
LaunchAnyway(r) ==
  IF r.stopped THEN [r EXCEPT !.phase = "over"]
  ELSE IF lookup THEN [r EXCEPT !.phase = "lookup"]
  ELSE [r EXCEPT !.phase = "ffmpeg", !.state = "connecting"]

Launch(r) ==
  IF r.stopped \/ closed THEN [r EXCEPT !.phase = "over"]
  ELSE IF lookup THEN [r EXCEPT !.phase = "lookup"]
  ELSE [r EXCEPT !.phase = "ffmpeg", !.state = "connecting"]

ScheduleRestart(r) ==
  [r EXCEPT !.phase = IF r.stopped \/ closed THEN "over" ELSE "waiting"]

\* Mutant: the process of a push that is taken off the map goes on.
Forget(r) == [r EXCEPT !.stopped = TRUE]

\* A push that looks up its target has neither a process nor a timer.
StopOne(r) ==
  [r EXCEPT !.stopped = TRUE,
            !.phase = CASE r.phase = "ffmpeg"  -> "killing"
                        [] r.phase = "waiting" -> "over"
                        [] OTHER               -> r.phase]

Started(d, s) ==
  Launch([dest |-> d, spec |-> s, phase |-> "over", stopped |-> FALSE, state |-> "connecting"])

-----------------------------------------------------------------------------
(* Environment: the studio *)

\* POST, PATCH and DELETE of /api/channel/restreams.
Edit(d) ==
  /\ edits < MaxEdits[lookup]
  /\ \E s \in (Specs \cup {Off}) \ {rows[d]} : rows' = [rows EXCEPT ![d] = s]
  /\ edits' = edits + 1
  /\ UNCHANGED <<lookup, reads, running, push, closed>>

-----------------------------------------------------------------------------
(* sync: every 15 s, whether or not the one before has returned *)

SyncReads(i) ==
  /\ ~ closed /\ reads[i] = None
  /\ reads' = [reads EXCEPT ![i] = rows]
  /\ UNCHANGED <<lookup, rows, running, push, closed, edits>>

\* Mutant: a destination that was edited, not disabled, goes unnoticed.
Gone(d, wanted) == running[d] # None /\ wanted[d] = Off
Outdated(d, wanted) == running[d] # None /\ wanted[d] # push[running[d]].spec

ToStop(wanted) == {d \in Dests : Outdated(d, wanted)}
ToStart(wanted) ==
  {d \in Dests : wanted[d] # Off /\ (running[d] = None \/ d \in ToStop(wanted))}

\* The answer is acted upon whatever has happened since the query was sent.
SyncApplies(i) ==
  /\ reads[i] # None
  /\ \E new \in [ToStart(reads[i]) -> {p \in Pushes : Free(p)}] :
       /\ \A c, d \in ToStart(reads[i]) : new[c] = new[d] => c = d
       /\ running' = [d \in Dests |-> IF d \in ToStart(reads[i]) THEN new[d]
                                      ELSE IF d \in ToStop(reads[i]) THEN None
                                      ELSE running[d]]
       /\ push' = [p \in Pushes |->
            IF \E d \in ToStart(reads[i]) : new[d] = p
            THEN LET d == CHOOSE d \in ToStart(reads[i]) : new[d] = p
                 IN Started(d, reads[i][d])
            ELSE IF \E d \in ToStop(reads[i]) : running[d] = p THEN StopOne(push[p])
            ELSE push[p]]
  /\ reads' = [reads EXCEPT ![i] = None]
  /\ UNCHANGED <<lookup, rows, closed, edits>>

SyncFails(i) ==
  /\ reads[i] # None
  /\ reads' = [reads EXCEPT ![i] = None]
  /\ UNCHANGED <<lookup, rows, running, push, closed, edits>>

-----------------------------------------------------------------------------
(* launch after its wait, the process, and the timer *)

Becomes(p, r) ==
  /\ push' = [push EXCEPT ![p] = r]
  /\ UNCHANGED <<lookup, rows, reads, running, closed, edits>>

\* The process is spawned without another look at stopped and closed.
LookedUp(p) ==
  /\ push[p].phase = "lookup"
  /\ Becomes(p, [push[p] EXCEPT !.phase = "ffmpeg", !.state = "connecting"])

LookupFails(p) ==
  /\ push[p].phase = "lookup"
  /\ Becomes(p, ScheduleRestart([push[p] EXCEPT !.state = "error"]))

\* The first progress report with media (of a process that was told to stop,
\* nobody sees it).
GoesLive(p) ==
  /\ push[p].phase = "ffmpeg" /\ push[p].state # "live"
  /\ Becomes(p, [push[p] EXCEPT !.state = "live"])

\* Mutant: a process that ended leaves its state behind.
Silent(r) == ScheduleRestart(r)
Closed(r) ==
  ScheduleRestart(IF r.stopped \/ closed THEN r ELSE [r EXCEPT !.state = "error"])

Exits(p) ==
  /\ push[p].phase \in {"ffmpeg", "killing"}
  /\ Becomes(p, Closed(push[p]))

Restart(p) ==
  /\ push[p].phase = "waiting"
  /\ Becomes(p, Launch(push[p]))

\* The job's ffmpeg has ended, or its run failed.
Stop ==
  /\ ~ closed
  /\ closed' = TRUE
  /\ push' = [p \in Pushes |-> IF \E d \in Dests : running[d] = p THEN StopOne(push[p])
                               ELSE push[p]]
  /\ running' = [d \in Dests |-> None]
  /\ UNCHANGED <<lookup, rows, reads, edits>>

-----------------------------------------------------------------------------
Init ==
  /\ lookup \in Lookups /\ rows \in [Dests -> Specs \cup {Off}]
  /\ reads = [i \in Syncs |-> None]
  /\ running = [d \in Dests |-> None]
  /\ \E d \in Dests, s \in Specs :
       push = [p \in Pushes |-> [dest |-> d, spec |-> s, phase |-> "over",
                                stopped |-> TRUE, state |-> "error"]]
  /\ closed = FALSE /\ edits = 0

Next ==
  \/ Stop
  \/ \E d \in Dests : Edit(d)
  \/ \E i \in Syncs : SyncReads(i) \/ SyncApplies(i) \/ SyncFails(i)
  \/ \E p \in Pushes : \/ LookedUp(p) \/ LookupFails(p) \/ GoesLive(p)
                       \/ Exits(p) \/ Restart(p)

Spec == Init /\ [][Next]_vars

\* Timers fire, lookups return, a process that was told to stop does; the
\* database answers again and again.
Fairness ==
  /\ \A i \in Syncs : WF_vars(SyncReads(i)) /\ SF_vars(SyncApplies(i))
  /\ \A p \in Pushes : /\ WF_vars(LookedUp(p) \/ LookupFails(p)) /\ WF_vars(Restart(p))
                       /\ WF_vars(push[p].phase = "killing" /\ Exits(p))

FairSpec == Spec /\ Fairness

-----------------------------------------------------------------------------
(* Properties *)

Push == [dest : Dests, spec : Specs, phase : Phases, stopped : BOOLEAN,
         state : {"connecting", "live", "error"}]

\* Types; and the timer of a push that was taken off the map is cleared.
TypeOK ==
  /\ lookup \in BOOLEAN
  /\ rows \in [Dests -> Specs \cup {Off}]
  /\ reads \in [Syncs -> {None} \cup [Dests -> Specs \cup {Off}]]
  /\ running \in [Dests -> Pushes \cup {None}]
  /\ push \in [Pushes -> Push]
  /\ closed \in BOOLEAN /\ edits \in 0..MaxEdits[lookup]
  /\ \A p \in Pushes : push[p].phase = "waiting" => running[push[p].dest] = p

\* A platform accepts one publisher per key: two pushes to a destination throw
\* each other out.  Where no name is looked up, edits, restarts and syncs that
\* act on old answers never start a second one before the first is told to end.
OnePushPerDestination ==
  ~ lookup => \A p, q \in Pushes :
    push[p].phase = "ffmpeg" /\ push[q].phase = "ffmpeg" /\ push[p].dest = push[q].dest
      => p = q

\* "Restreams live as long as the transcode job" (ARCHITECTURE.md, 10): when the
\* job ends, and another worker may start, every push has been told to end,
\* whatever syncs and lookups are still under way.
EndsWithJob == closed => \A p \in Pushes : push[p].phase # "ffmpeg"

\* The same where no name is looked up.
DirectPushEndsWithJob == ~ lookup => EndsWithJob

\* What the studio shows as live is being pushed.
StatusIsHonest ==
  \A d \in Dests :
    running[d] # None /\ push[running[d]].state = "live"
      => push[running[d]].phase = "ffmpeg" /\ push[running[d]].dest = d

Pushed(d, s) == running[d] # None /\ push[running[d]].spec = s
NotPushed(d) == \A p \in Pushes : push[p].dest = d => push[p].phase = "over"

\* sync "picks up studio edits live": once a destination is left alone, it is
\* pushed the way it was last saved, or no longer at all, in spite of syncs that
\* overtake each other.
FollowsEdits ==
  \A d \in Dests :
    /\ \A s \in Specs :
         <>[](~ lookup /\ ~ closed /\ rows[d] = s) => <>[]Pushed(d, s)
    /\ <>[](~ lookup /\ (closed \/ rows[d] = Off)) => <>[]NotPushed(d)

=============================================================================
