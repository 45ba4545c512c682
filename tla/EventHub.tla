------------------------------ MODULE EventHub ------------------------------
(***************************************************************************)
(* The channel events of one API replica, server/src/api/sse.ts, for one   *)
(* channel: its subscribers, the cached state, reloads and the Redis       *)
(* subscription, with the route that opens the stream (routes/public.ts)   *)
(* and the bus (lib/events.ts).                                            *)
(*                                                                         *)
(* What a client sees is a version v of the rows, the broadcast b (odd     *)
(* while the channel is live) and its viewers n.  A load reads the rows    *)
(* and then, of a live channel, the count; each answer is a step.          *)
(***************************************************************************)
EXTENDS Naturals, Sequences

CONSTANTS
  Clients,      \* responses of the route
  None,
  MaxChanges,   \* bound: changes of the rows and of the count
  MaxLeaves,    \* bound: clients that go away
  MaxFaults     \* bound: lost events, lost subscriptions, failed loads

Views == [v : 0..MaxChanges, b : 0..MaxChanges, n : {0, 1}]
Loads == [wait : {"rows", "count", "none"}, v : 0..MaxChanges, b : 0..MaxChanges, n : {0, 1}]

ASSUME EventHubAssumption ==
  /\ MaxChanges \in Nat /\ MaxLeaves \in Nat /\ MaxFaults \in Nat
  /\ None \notin Views \cup Loads

VARIABLES
  row,          \* the rows: [v, b]
  counts,       \* viewer_counts
  stateEvents,  \* number of state events on their way
  viewerEvents, \* viewers events on their way, in order
  subscriber,   \* the Redis subscription: "up", "down" or "subscribing"
  open,         \* clients whose connection is open
  asking,       \* clients whose channel is looked up
  subs, cache, dirty,
  reload,       \* the load of the reload under way, or None
  adding,       \* the load of a client that was added, or None
  shown,        \* what was last written to a client
  changes, leaves, faults

db     == <<row, counts, changes>>
bus    == <<stateEvents, viewerEvents>>
conns  == <<open, asking, leaves>>
hub    == <<subs, cache, dirty, reload, adding, shown>>
vars   == <<db, bus, conns, hub, subscriber, faults>>

Live(b) == b % 2 = 1

\* A load under way: what it waits for, and what it has read.
Sent == [wait |-> "rows", v |-> 0, b |-> 0, n |-> 0]
View(l) == [v |-> l.v, b |-> l.b, n |-> l.n]

Current == [v |-> row.v, b |-> row.b, n |-> IF Live(row.b) THEN counts[row.b] ELSE 0]

Fault == faults < MaxFaults /\ faults' = faults + 1

-----------------------------------------------------------------------------
(* The hub's operations *)

\* Mutant: an event during a reload is taken as served by it.
ReloadOnce ==
  /\ reload' = IF reload = None THEN Sent ELSE reload
  /\ UNCHANGED dirty

\* "At most one in-flight + one queued reload."
Reload ==
  IF reload = None THEN reload' = Sent /\ UNCHANGED dirty
  ELSE dirty' = TRUE /\ UNCHANGED reload

Push(view) == shown' = [c \in Clients |-> IF c \in subs THEN view ELSE shown[c]]

ReloadIfWatched ==
  /\ IF subs # {} THEN Reload ELSE UNCHANGED <<reload, dirty>>
  /\ UNCHANGED <<subs, cache, adding, shown>>

\* Mutant: the periodic resync is left out.
NoResync == FALSE
ResyncDue == subs # {}

-----------------------------------------------------------------------------
(* Environment: rows, counts, the bus *)

\* A change is committed, then announced; every other change starts or ends a
\* broadcast.
Change ==
  /\ changes < MaxChanges /\ changes' = changes + 1
  /\ \E b \in {row.b, row.b + 1} : row' = [v |-> row.v + 1, b |-> b]
  /\ stateEvents' = stateEvents + 1
  /\ UNCHANGED <<counts, viewerEvents, conns, hub, subscriber, faults>>

\* countViewers writes the count, then publishes it.
CountViewers ==
  /\ changes < MaxChanges /\ changes' = changes + 1
  /\ Live(row.b)
  /\ counts' = [counts EXCEPT ![row.b] = 1 - @]
  /\ viewerEvents' = Append(viewerEvents, [b |-> row.b, n |-> counts'[row.b]])
  /\ UNCHANGED <<row, stateEvents, conns, hub, subscriber, faults>>

\* The publish fails.
LoseEvent ==
  /\ Fault
  /\ \/ stateEvents > 0 /\ stateEvents' = stateEvents - 1 /\ UNCHANGED viewerEvents
     \/ viewerEvents # <<>> /\ viewerEvents' = Tail(viewerEvents) /\ UNCHANGED stateEvents
  /\ UNCHANGED <<db, conns, hub, subscriber>>

Disconnect ==
  /\ Fault
  /\ subscriber # "down" /\ subscriber' = "down"
  /\ UNCHANGED <<db, bus, conns, hub>>

-----------------------------------------------------------------------------
(* start: the subscription and its messages *)

\* The reload does not wait for psubscribe to take effect.
Ready ==
  /\ subscriber = "down" /\ subscriber' = "subscribing"
  /\ ReloadIfWatched
  /\ UNCHANGED <<db, bus, conns, faults>>

Subscribed ==
  /\ subscriber = "subscribing" /\ subscriber' = "up"
  /\ UNCHANGED <<db, bus, conns, hub, faults>>

StateEvent ==
  /\ stateEvents > 0 /\ stateEvents' = stateEvents - 1
  /\ IF subscriber = "up" THEN ReloadIfWatched ELSE UNCHANGED hub
  /\ UNCHANGED <<db, viewerEvents, conns, subscriber, faults>>

\* The count of the cached broadcast is taken from the event.
ViewersEvent ==
  /\ viewerEvents # <<>> /\ viewerEvents' = Tail(viewerEvents)
  /\ LET ev == Head(viewerEvents) IN
     IF subscriber # "up" \/ subs = {} THEN UNCHANGED hub
     ELSE IF cache # None /\ cache.b = ev.b
     THEN IF cache.n = ev.n THEN UNCHANGED hub
          ELSE /\ cache' = [cache EXCEPT !.n = ev.n]
               /\ Push(cache')
               /\ UNCHANGED <<subs, dirty, reload, adding>>
     ELSE ReloadIfWatched
  /\ UNCHANGED <<db, stateEvents, conns, subscriber, faults>>

\* Every 30 s.
Resync ==
  /\ ResyncDue
  /\ ReloadIfWatched
  /\ UNCHANGED <<db, bus, conns, subscriber, faults>>

-----------------------------------------------------------------------------
(* The route, add and remove *)

Connect(c) ==
  /\ c \notin open \cup asking \cup subs
  /\ open' = open \cup {c} /\ asking' = asking \cup {c}
  /\ UNCHANGED <<db, bus, hub, leaves, subscriber, faults>>

\* The listener for "close" is registered in the same step.
Add(c) ==
  /\ c \in asking /\ asking' = asking \ {c}
  /\ subs' = subs \cup {c}
  /\ IF cache # None
     THEN shown' = [shown EXCEPT ![c] = cache] /\ UNCHANGED adding
     ELSE adding' = [adding EXCEPT ![c] = Sent] /\ UNCHANGED shown
  /\ UNCHANGED <<db, bus, open, leaves, cache, dirty, reload, subscriber, faults>>

\* Mutant: what the client loaded itself is what it is shown.
OwnLoad(c) == View(adding[c])
FirstShown(c) == IF cache # None THEN cache ELSE View(adding[c])

Added(c) ==
  /\ adding[c] # None /\ adding[c].wait = "none"
  /\ cache' = IF cache # None THEN cache ELSE View(adding[c])
  /\ shown' = [shown EXCEPT ![c] = FirstShown(c)]
  /\ adding' = [adding EXCEPT ![c] = None]
  /\ UNCHANGED <<db, bus, conns, subs, dirty, reload, subscriber, faults>>

\* The response was hijacked: the error is logged, the connection stays.
AddFails(c) ==
  /\ Fault
  /\ adding[c] # None
  /\ adding' = [adding EXCEPT ![c] = None]
  /\ UNCHANGED <<db, bus, conns, subs, cache, dirty, reload, shown, subscriber>>

\* Only a registered listener hears it.  An add under way finds its client gone
\* when it goes on.
Close(c) ==
  /\ c \in open /\ leaves < MaxLeaves
  /\ open' = open \ {c} /\ leaves' = leaves + 1
  /\ IF c \in subs
     THEN /\ subs' = subs \ {c}
          /\ cache' = IF subs' = {} THEN None ELSE cache
          /\ adding' = [adding EXCEPT ![c] = None]
          /\ shown' = [shown EXCEPT ![c] = None]
     ELSE UNCHANGED <<subs, cache, adding, shown>>
  /\ UNCHANGED <<db, bus, asking, dirty, reload, subscriber, faults>>

-----------------------------------------------------------------------------
(* loadState and reload *)

Read(l) ==
  CASE l.wait = "rows"  -> [l EXCEPT !.v = row.v, !.b = row.b,
                                     !.wait = IF Live(row.b) THEN "count" ELSE "none"]
    [] l.wait = "count" -> [l EXCEPT !.n = counts[l.b], !.wait = "none"]

ReadForReload ==
  /\ reload # None /\ reload.wait # "none"
  /\ reload' = Read(reload)
  /\ UNCHANGED <<db, bus, conns, subs, cache, dirty, adding, shown, subscriber, faults>>

ReadForAdd(c) ==
  /\ adding[c] # None /\ adding[c].wait # "none"
  /\ adding' = [adding EXCEPT ![c] = Read(adding[c])]
  /\ UNCHANGED <<db, bus, conns, subs, cache, dirty, reload, shown, subscriber, faults>>

\* finally: the queued reload starts.
ReloadEnds ==
  /\ reload' = IF dirty THEN Sent ELSE None
  /\ dirty' = FALSE
  /\ UNCHANGED <<db, bus, conns, subs, adding, subscriber>>

Reloaded ==
  /\ reload # None /\ reload.wait = "none"
  /\ IF subs # {}
     THEN /\ cache' = View(reload)
          /\ IF cache' # cache THEN Push(cache') ELSE UNCHANGED shown
     ELSE UNCHANGED <<cache, shown>>
  /\ ReloadEnds
  /\ UNCHANGED faults

ReloadFails ==
  /\ Fault
  /\ reload # None
  /\ ReloadEnds
  /\ UNCHANGED <<cache, shown>>

-----------------------------------------------------------------------------
Init ==
  /\ row = [v |-> 0, b |-> 0]
  /\ counts = [b \in 0..MaxChanges |-> 0]
  /\ stateEvents = 0 /\ viewerEvents = <<>>
  /\ subscriber = "up"
  /\ open = {} /\ asking = {} /\ subs = {}
  /\ cache = None /\ dirty = FALSE /\ reload = None
  /\ adding = [c \in Clients |-> None] /\ shown = [c \in Clients |-> None]
  /\ changes = 0 /\ leaves = 0 /\ faults = 0

Next ==
  \/ Change \/ CountViewers \/ LoseEvent \/ Disconnect
  \/ Ready \/ Subscribed \/ StateEvent \/ ViewersEvent \/ Resync
  \/ ReadForReload \/ Reloaded \/ ReloadFails
  \/ \E c \in Clients : \/ Connect(c) \/ Add(c) \/ Added(c) \/ AddFails(c) \/ Close(c)
                        \/ ReadForAdd(c)

Spec == Init /\ [][Next]_vars

\* Queries are answered, events delivered, and the timer fires; the subscription
\* comes back.
Fairness ==
  /\ WF_vars(Ready) /\ WF_vars(Subscribed)
  /\ WF_vars(StateEvent) /\ WF_vars(ViewersEvent) /\ WF_vars(Resync)
  /\ WF_vars(ReadForReload) /\ WF_vars(Reloaded)
  /\ \A c \in Clients : WF_vars(Add(c)) /\ WF_vars(Added(c)) /\ WF_vars(ReadForAdd(c))

FairSpec == Spec /\ Fairness

-----------------------------------------------------------------------------
(* Properties *)

\* Types; a queued reload has one to wait for; a channel nobody watches is not
\* cached, so that its cache cannot grow stale unnoticed.
TypeOK ==
  /\ row \in [v : 0..MaxChanges, b : 0..MaxChanges]
  /\ subscriber \in {"up", "down", "subscribing"}
  /\ open \subseteq Clients /\ asking \subseteq Clients /\ subs \subseteq Clients
  /\ cache \in Views \cup {None} /\ reload \in Loads \cup {None}
  /\ adding \in [Clients -> Loads \cup {None}]
  /\ shown \in [Clients -> Views \cup {None}]
  /\ dirty => reload # None
  /\ subs = {} => cache = None

\* Whoever was shown something was shown what is cached: two viewers of a
\* channel never see different states of it, in spite of loads that overtake
\* each other, lost events and failed loads.
SameForAll == \A c \in subs : shown[c] \in {None, cache}

\* While nobody leaves and nothing fails, the events alone keep clients up to
\* date: when nothing is under way, each was shown the rows as they are, in spite
\* of reloads that are coalesced and of loads that overtake each other.
Quiet ==
  /\ stateEvents = 0 /\ viewerEvents = <<>> /\ reload = None
  /\ \A c \in Clients : adding[c] = None

QuietMeansFresh ==
  leaves = 0 /\ faults = 0 /\ Quiet
    => \A c \in subs : shown[c].v = row.v /\ shown[c].b = row.b

\* The first load of the client failed, and nothing has changed since.
Orphaned(c) == shown[c] = None /\ adding[c] = None

\* "Periodic resync covers a Redis outage" (sse.ts:42; ARCHITECTURE.md: every
\* 30 s): whatever was lost, failed or came out of order, every client is shown
\* the state of the channel, its viewers included, in the end and for good, or
\* it is one of those whose own first load failed.
Converges ==
  \A c \in Clients : <>[](c \in subs => shown[c] = Current \/ Orphaned(c))

=============================================================================
