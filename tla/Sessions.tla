------------------------------ MODULE Sessions ------------------------------
(***************************************************************************)
(* What the broadcast lifecycle promises a channel and its viewers.  A     *)
(* channel has at most one session.  A session survives the loss of its    *)
(* ingest connection: whatever connection comes (back) while the session   *)
(* is open continues it.  It is closed only while nobody is on air and the *)
(* grace period has elapsed since, and a closed session never comes back.  *)
(***************************************************************************)


CONSTANTS Channels, Sources, Ids, None

VARIABLES
  session,  \* the open session of a channel, or None
  onAir,    \* the ingest connection that feeds it, or None
  lapsed,   \* channels whose grace period is over
  used      \* sessions opened so far

vars == <<session, onAir, lapsed, used>>

Init ==
  /\ session = [c \in Channels |-> None]
  /\ onAir = [c \in Channels |-> None]
  /\ lapsed = {} /\ used = {}

Open(c, i, s) ==
  /\ session[c] = None /\ i \notin used
  /\ session' = [session EXCEPT ![c] = i]
  /\ onAir' = [onAir EXCEPT ![c] = s]
  /\ used' = used \cup {i}
  /\ UNCHANGED lapsed

Continue(c, s) ==
  /\ session[c] # None
  /\ onAir' = [onAir EXCEPT ![c] = s]
  /\ lapsed' = lapsed \ {c}
  /\ UNCHANGED <<session, used>>

Lose(c) ==
  /\ onAir[c] # None
  /\ onAir' = [onAir EXCEPT ![c] = None]
  /\ UNCHANGED <<session, lapsed, used>>

Lapse(c) ==
  /\ session[c] # None /\ onAir[c] = None /\ c \notin lapsed
  /\ lapsed' = lapsed \cup {c}
  /\ UNCHANGED <<session, onAir, used>>

Close(c) ==
  /\ session[c] # None /\ onAir[c] = None /\ c \in lapsed
  /\ session' = [session EXCEPT ![c] = None]
  /\ lapsed' = lapsed \ {c}
  /\ UNCHANGED <<onAir, used>>

Next ==
  \E c \in Channels :
    \/ \E i \in Ids, s \in Sources : Open(c, i, s)
    \/ \E s \in Sources : Continue(c, s)
    \/ Lose(c) \/ Lapse(c) \/ Close(c)

Spec == Init /\ [][Next]_vars

\* A session nobody feeds any more is eventually closed.
Fairness == \A c \in Channels : WF_vars(Lapse(c)) /\ WF_vars(Close(c))

FairSpec == Spec /\ Fairness

=============================================================================
