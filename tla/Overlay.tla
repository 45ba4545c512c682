------------------------------- MODULE Overlay -------------------------------
(***************************************************************************)
(* The overlay of a channel for OBS: its hub in an API replica             *)
(* (api/overlay.ts, routes/overlay.ts), the page OBS shows                 *)
(* (web/src/pages/OverlayPage.tsx) and the studio's panel of it.           *)
(*                                                                         *)
(* A load reads the broadcast and its count in one step.  An alert is the  *)
(* number of its publication.                                              *)
(***************************************************************************)
EXTENDS Naturals, Sequences, FiniteSets

CONSTANTS
  Pages,        \* browser sources and previews
  None,
  MaxChanges,   \* bound: broadcasts started, ended and counted
  MaxQueue,     \* alerts a page keeps
  MaxExtras     \* bound: alerts, broken connections, lost events and resets

VARIABLES
  air,          \* the channel: live, viewers, the version of its token
  bus,          \* events on their way from Redis
  hub,          \* OverlayHub: subscribers and cached stats
  tasks,        \* loads of add and of onChannelEvent under way
  page,
  changes, extras,
  raced         \* history: loads overlapped each other or an event, or an event was lost

vars == <<air, bus, hub, tasks, page, changes, extras, raced>>

Stats == [live : BOOLEAN, viewers : 0..1]
Now   == [live |-> air.live, viewers |-> air.viewers]

OverlayAssumption ==
  /\ MaxChanges \in Nat /\ MaxQueue \in Nat \ {0} /\ MaxExtras \in Nat
  /\ None \notin Stats /\ "event" \notin Pages

Tasks == [to : Pages \cup {"event"}, prev : Stats \cup {None}, got : Stats \cup {None}]

\* link: the token of its URL; accepted: the token was looked up.  On half a connection the
\* server has gone and the page has not noticed.
PageStates ==
  [at : {"connecting", "accepted", "open", "half", "refused", "backoff", "invalid"},
   link : 0..MaxExtras, shown : Stats \cup {None}, queue : Seq(1..MaxExtras),
   current : 0..MaxExtras]

Extra == extras < MaxExtras /\ extras' = extras + 1

Init ==
  /\ air \in [live : BOOLEAN, viewers : {0}, token : {0}]
  /\ bus = <<>> /\ tasks = {}
  /\ hub = [subs |-> {}, stats |-> None]
  /\ page = [p \in Pages |-> [at |-> "connecting", link |-> 0, shown |-> None, queue |-> <<>>,
                              current |-> 0]]
  /\ changes = 0 /\ extras = 0 /\ raced = FALSE

-----------------------------------------------------------------------------
(* What is published *)

Change ==
  /\ changes < MaxChanges /\ changes' = changes + 1

GoLiveOrEnd ==
  /\ Change
  /\ air' = [air EXCEPT !.live = ~@, !.viewers = 0]
  /\ bus' = Append(bus, [kind |-> "state", n |-> 0])
  /\ UNCHANGED <<hub, tasks, page, extras, raced>>

Count ==
  /\ air.live /\ Change
  /\ air' = [air EXCEPT !.viewers = 1 - @]
  /\ bus' = Append(bus, [kind |-> "viewers", n |-> air'.viewers])
  /\ UNCHANGED <<hub, tasks, page, extras, raced>>

\* A first follow of the day, or the panel's test.
Alert ==
  /\ Extra
  /\ bus' = Append(bus, [kind |-> "alert", n |-> extras'])
  /\ UNCHANGED <<air, hub, tasks, page, changes, raced>>

\* The replica's Redis connection is down, or the publication failed.
LoseEvent ==
  /\ Extra
  /\ bus # <<>> /\ bus' = Tail(bus)
  /\ raced' = TRUE
  /\ UNCHANGED <<air, hub, tasks, page, changes>>

-----------------------------------------------------------------------------
(* The hub *)

Pushed(stats) == [p \in Pages |-> IF p \in hub.subs /\ page[p].at = "open"
                                    THEN [page[p] EXCEPT !.shown = stats] ELSE page[p]]

\* The page keeps the last MaxQueue alerts.
Queued(p, n) ==
  LET q == Append(page[p].queue, n) IN
  [page[p] EXCEPT !.queue = IF Len(q) > MaxQueue THEN Tail(q) ELSE q]

Alerted(n) == [p \in Pages |-> IF p \in hub.subs /\ page[p].at = "open"
                                 THEN Queued(p, n) ELSE page[p]]

\* Mutant: only a broadcast that starts or ends is worth a push.
SameLive(prev, next) == prev # None /\ prev.live = next.live

Same(prev, next) == prev # None /\ prev = next

\* onChannelEvent from where `next` is known.
Announce(prev, next) ==
  /\ hub' = [hub EXCEPT !.stats = next]
  /\ page' = IF Same(prev, next) THEN page ELSE Pushed(next)

\* The count of a cached broadcast needs no load.
Deliver ==
  /\ bus # <<>> /\ bus' = Tail(bus)
  /\ LET ev == Head(bus) IN
     \/ hub.subs = {} /\ UNCHANGED <<hub, tasks, page, raced>>
     \/ /\ hub.subs # {} /\ ev.kind = "alert"
        /\ page' = Alerted(ev.n) /\ UNCHANGED <<hub, tasks, raced>>
     \/ /\ hub.subs # {} /\ ev.kind = "viewers" /\ hub.stats # None
        /\ Announce(hub.stats, [hub.stats EXCEPT !.viewers = ev.n])
        /\ raced' = (raced \/ tasks # {}) /\ UNCHANGED tasks
     \/ /\ hub.subs # {} /\ (ev.kind = "state" \/ (ev.kind = "viewers" /\ hub.stats = None))
        /\ tasks' = tasks \cup {[to |-> "event", prev |-> hub.stats, got |-> None]}
        /\ raced' = (raced \/ tasks # {}) /\ UNCHANGED <<hub, page>>
  /\ UNCHANGED <<air, changes, extras>>

Load(t) ==
  /\ t \in tasks /\ t.got = None
  /\ tasks' = (tasks \ {t}) \cup {[t EXCEPT !.got = Now]}
  /\ UNCHANGED <<air, bus, hub, page, changes, extras, raced>>

\* The answer is cached whoever asked; an added page that has left is written nothing.
Loaded(t) ==
  /\ t \in tasks /\ t.got # None
  /\ tasks' = tasks \ {t}
  /\ raced' = (raced \/ tasks' # {} \/ bus # <<>>)
  /\ IF t.to = "event" THEN Announce(t.prev, t.got)
     ELSE /\ hub' = [hub EXCEPT !.stats = t.got]
          /\ page' = IF t.to \in hub.subs /\ page[t.to].at = "open"
                       THEN [page EXCEPT ![t.to].shown = t.got] ELSE page
  /\ UNCHANGED <<air, bus, changes, extras>>

Without(p) == LET s == hub.subs \ {p} IN
              [subs |-> s, stats |-> IF s = {} /\ p \in hub.subs THEN None ELSE hub.stats]

-----------------------------------------------------------------------------
(* The connection of a page *)

Lookup(p) ==
  /\ page[p].at = "connecting"
  /\ page' = [page EXCEPT ![p].at = IF page[p].link = air.token THEN "accepted" ELSE "refused"]
  /\ UNCHANGED <<air, bus, hub, tasks, changes, extras, raced>>

Add(p) ==
  /\ page[p].at = "accepted"
  /\ page' = [page EXCEPT ![p].at = "open"]
  /\ hub' = [hub EXCEPT !.subs = @ \cup {p}]
  /\ tasks' = tasks \cup {[to |-> p, prev |-> None, got |-> None]}
  /\ raced' = (raced \/ tasks # {} \/ bus # <<>>)
  /\ UNCHANGED <<air, bus, changes, extras>>

\* The server refuses (404) or cannot answer; the page asks once more which it was.
Fail(p) ==
  /\ page[p].at = "connecting" /\ Extra
  /\ page' = [page EXCEPT ![p].at = "refused"]
  /\ UNCHANGED <<air, bus, hub, tasks, changes, raced>>

Probe(p) ==
  /\ page[p].at = "refused"
  /\ page' = [page EXCEPT ![p].at = IF page[p].link = air.token THEN "backoff" ELSE "invalid"]
  /\ UNCHANGED <<air, bus, hub, tasks, changes, extras, raced>>

\* The connection is lost, noticed by the page or not.
Lose(p) ==
  /\ page[p].at = "open" /\ Extra
  /\ \E at \in {"connecting", "half"} : page' = [page EXCEPT ![p].at = at]
  /\ hub' = Without(p)
  /\ UNCHANGED <<air, bus, tasks, changes, raced>>

Watchdog(p) ==
  /\ page[p].at = "half"
  /\ page' = [page EXCEPT ![p].at = "backoff"]
  /\ UNCHANGED <<air, bus, hub, tasks, changes, extras, raced>>

Reconnect(p) ==
  /\ page[p].at = "backoff"
  /\ page' = [page EXCEPT ![p].at = "connecting"]
  /\ UNCHANGED <<air, bus, hub, tasks, changes, extras, raced>>

\* The panel's button: a new token, and the connections of this replica end.
Reset ==
  /\ Extra
  /\ air' = [air EXCEPT !.token = @ + 1]
  /\ page' = [p \in Pages |-> IF p \in hub.subs THEN [page[p] EXCEPT !.at = "connecting"]
                              ELSE page[p]]
  /\ hub' = [subs |-> {}, stats |-> None]
  /\ UNCHANGED <<bus, tasks, changes, raced>>

\* The new link is pasted into OBS: a new page.
Paste(p) ==
  /\ page[p].at = "invalid"
  /\ page' = [page EXCEPT ![p] = [at |-> "connecting", link |-> air.token, shown |-> None,
                                  queue |-> <<>>, current |-> 0]]
  /\ UNCHANGED <<air, bus, hub, tasks, changes, extras, raced>>

-----------------------------------------------------------------------------
(* The alerts of a page, one at a time *)

ShowAlert(p) ==
  /\ page[p].current = 0 /\ page[p].queue # <<>>
  /\ page' = [page EXCEPT ![p].current = Head(page[p].queue), ![p].queue = Tail(@)]
  /\ UNCHANGED <<air, bus, hub, tasks, changes, extras, raced>>

AlertEnds(p) ==
  /\ page[p].current # 0
  /\ page' = [page EXCEPT ![p].current = 0]
  /\ UNCHANGED <<air, bus, hub, tasks, changes, extras, raced>>

Next ==
  \/ GoLiveOrEnd \/ Count \/ Alert \/ LoseEvent \/ Deliver \/ Reset
  \/ \E t \in Tasks : Load(t) \/ Loaded(t)
  \/ \E p \in Pages : \/ Lookup(p) \/ Add(p) \/ Fail(p) \/ Probe(p) \/ Lose(p) \/ Watchdog(p)
                      \/ Reconnect(p) \/ Paste(p) \/ ShowAlert(p) \/ AlertEnds(p)

Spec == Init /\ [][Next]_vars

\* Events arrive, queries are answered, timers fire.
Fairness ==
  /\ WF_vars(Deliver)
  /\ \A t \in Tasks : WF_vars(Load(t)) /\ WF_vars(Loaded(t))
  /\ \A p \in Pages : /\ WF_vars(Lookup(p)) /\ WF_vars(Add(p)) /\ WF_vars(Probe(p))
                      /\ WF_vars(Watchdog(p)) /\ WF_vars(Reconnect(p))

FairSpec == Spec /\ Fairness

-----------------------------------------------------------------------------
(* Properties *)

TypeOK ==
  /\ air \in [live : BOOLEAN, viewers : 0..1, token : 0..MaxExtras]
  /\ hub.subs \subseteq Pages /\ hub.stats \in Stats \cup {None}
  /\ tasks \subseteq Tasks /\ page \in [Pages -> PageStates]

\* Without loads that overlap each other or an event (overlay.ts:66-78 does not keep them apart),
\* the events alone keep every overlay at the channel's state and count.
CounterIsCurrent ==
  ~raced /\ bus = <<>> /\ tasks = {} =>
    \A p \in Pages : page[p].at = "open" /\ page[p].shown # None => page[p].shown = Now

\* The counter is shown "only while the broadcast is on" (OverlayPanel.tsx:91): after the last
\* broadcast every overlay takes it down in the end.
CounterOnlyWhileLive ==
  <>[]~air.live =>
    \A p \in Pages : <>[](page[p].at = "open" => page[p].shown = None \/ ~page[p].shown.live)
=============================================================================
