--------------------------- MODULE EventHubProofs ---------------------------
(***************************************************************************)
(* Proofs that two viewers of a channel are never shown different states,  *)
(* and that without faults the events alone keep them up to date, for any  *)
(* number of viewers, changes and faults.                                  *)
(*                                                                         *)
(* SameForAll speaks of subscribers only.  It is inductive together with   *)
(* three facts about the others: whoever is not subscribed was shown       *)
(* nothing and loads nothing, and does not wait to be added twice; so a    *)
(* client that comes back starts anew.                                     *)
(***************************************************************************)
EXTENDS EventHub, TLAPS

OthersAreNew ==
  /\ \A c \in Clients \ subs : shown[c] = None
  /\ \A c \in Clients : adding[c] # None => c \in subs
  /\ asking \cap subs = {}

Functions ==
  /\ subs \subseteq Clients
  /\ DOMAIN shown = Clients /\ DOMAIN adding = Clients

IInv == Functions /\ OthersAreNew /\ SameForAll

-----------------------------------------------------------------------------
LEMMA InitIInv == Init => IInv
BY DEF Init, IInv, Functions, OthersAreNew, SameForAll

LEMMA PushIInv ==
  ASSUME IInv, NEW view, cache' = view, Push(view), UNCHANGED <<subs, asking, adding>>
  PROVE  IInv'
BY DEF IInv, Functions, OthersAreNew, SameForAll, Push

LEMMA NextIInv ==
  ASSUME IInv, [Next]_vars
  PROVE  IInv'
<1> USE DEF IInv, Functions, OthersAreNew, SameForAll
<1>1. CASE \/ UNCHANGED vars \/ Change \/ CountViewers \/ LoseEvent \/ Disconnect \/ Ready
           \/ Subscribed \/ StateEvent \/ Resync \/ ReadForReload \/ ReloadFails
  <2>1. UNCHANGED <<subs, cache, shown, asking, adding>>
    BY <1>1 DEF Change, CountViewers, LoseEvent, Disconnect, Ready, Subscribed, StateEvent,
                Resync, ReadForReload, ReloadFails, ReloadEnds, ReloadIfWatched,
                vars, hub, conns
  <2> QED
    BY <2>1
<1>2. CASE ViewersEvent
  <2>1. CASE UNCHANGED hub \/ ReloadIfWatched
    BY <1>2, <2>1 DEF ViewersEvent, ReloadIfWatched, hub, conns
  <2>2. CASE ~ (UNCHANGED hub \/ ReloadIfWatched)
    <3>1. Push(cache') /\ UNCHANGED <<subs, asking, adding>>
      BY <1>2, <2>2 DEF ViewersEvent, conns
    <3> QED
      BY <3>1, PushIInv
  <2> QED
    BY <2>1, <2>2
<1>3. CASE Reloaded
  <2>1. UNCHANGED <<subs, asking, adding>>
    BY <1>3 DEF Reloaded, ReloadEnds, conns
  <2>2. CASE Push(cache')
    BY <2>1, <2>2, PushIInv
  <2>3. CASE UNCHANGED <<cache, shown>>
    BY <2>1, <2>3
  <2> QED
    BY <1>3, <2>2, <2>3 DEF Reloaded
<1>4. ASSUME NEW c \in Clients, Connect(c) PROVE IInv'
  BY <1>4 DEF Connect, hub
<1>5. ASSUME NEW c \in Clients, Add(c) PROVE IInv'
  <2>1. \A d \in Clients : shown'[d] = IF d = c /\ cache # None THEN cache ELSE shown[d]
    BY <1>5 DEF Add
  <2>2. \A d \in Clients \ {c} : adding'[d] = adding[d]
    BY <1>5 DEF Add
  <2>3. DOMAIN shown' = Clients /\ DOMAIN adding' = Clients
    BY <1>5 DEF Add
  <2>4. /\ subs' = subs \cup {c} /\ cache' = cache
        /\ asking' = asking \ {c} /\ c \in asking
    BY <1>5 DEF Add
  <2>5. c \notin subs /\ shown[c] = None
    BY <2>4
  <2>6. OthersAreNew'
    BY <2>1, <2>2, <2>4
  <2>7. SameForAll'
    BY <2>1, <2>4, <2>5
  <2> QED
    BY <2>3, <2>4, <2>6, <2>7
<1>6. ASSUME NEW c \in Clients, Added(c) PROVE IInv'
  <2>1. \A d \in Clients : shown'[d] = IF d = c THEN cache' ELSE shown[d]
    BY <1>6 DEF Added, FirstShown
  <2>2. adding[c] # None /\ \A d \in Clients : adding'[d] = IF d = c THEN None ELSE adding[d]
    BY <1>6 DEF Added
  <2>3. DOMAIN shown' = Clients /\ DOMAIN adding' = Clients
    BY <1>6 DEF Added
  <2>4. subs' = subs /\ asking' = asking /\ (cache # None => cache' = cache)
    BY <1>6 DEF Added, conns
  <2>5. OthersAreNew'
    BY <2>1, <2>2, <2>4
  <2>6. SameForAll'
    BY <2>1, <2>4
  <2> QED
    BY <2>3, <2>4, <2>5, <2>6
<1>7. ASSUME NEW c \in Clients, AddFails(c) \/ ReadForAdd(c) PROVE IInv'
  BY <1>7 DEF AddFails, ReadForAdd, conns
<1>8. ASSUME NEW c \in Clients, Close(c) PROVE IInv'
  <2>1. CASE c \notin subs
    <3>1. UNCHANGED <<subs, cache, shown, adding, asking>>
      BY <1>8, <2>1 DEF Close
    <3> QED
      BY <3>1
  <2>2. CASE c \in subs
    <3>1. \A d \in Clients : /\ shown'[d] = IF d = c THEN None ELSE shown[d]
                             /\ adding'[d] = IF d = c THEN None ELSE adding[d]
      BY <1>8, <2>2 DEF Close
    <3>2. DOMAIN shown' = Clients /\ DOMAIN adding' = Clients
      BY <1>8, <2>2 DEF Close
    <3>3. subs' = subs \ {c} /\ asking' = asking /\ (subs' # {} => cache' = cache)
      BY <1>8, <2>2 DEF Close
    <3> QED
      BY <3>1, <3>2, <3>3
  <2> QED
    BY <2>1, <2>2
<1> QED
  BY <1>1, <1>2, <1>3, <1>4, <1>5, <1>6, <1>7, <1>8 DEF Next

\* Two viewers of a channel never see different states of it: with lost events,
\* failed and overtaking loads, and clients that come and go.
THEOREM ViewersAgree == Spec => []SameForAll
<1>1. Init => IInv
  BY InitIInv
<1>2. IInv /\ [Next]_vars => IInv'
  BY NextIInv
<1>3. IInv => SameForAll
  BY DEF IInv
<1> QED
  BY <1>1, <1>2, <1>3, PTL DEF Spec

-----------------------------------------------------------------------------
(* Types *)

Events == [b : 0..MaxChanges, n : {0, 1}]

RowsOK ==
  /\ changes \in 0..MaxChanges
  /\ row \in [v : 0..MaxChanges, b : 0..MaxChanges] /\ row.v <= changes /\ row.b <= changes
  /\ counts \in [0..MaxChanges -> {0, 1}]

BusOK ==
  /\ stateEvents \in Nat /\ viewerEvents \in Seq(Events)
  /\ subscriber \in {"up", "down", "subscribing"}
  /\ open \subseteq Clients /\ asking \subseteq Clients /\ subs \subseteq Clients
  /\ leaves \in Nat /\ faults \in Nat

HubOK ==
  /\ cache \in Views \cup {None} /\ reload \in Loads \cup {None}
  /\ adding \in [Clients -> Loads \cup {None}]
  /\ shown \in [Clients -> Views \cup {None}]
  /\ dirty \in BOOLEAN /\ (dirty => reload # None)

Unwatched == subs = {} => cache = None

TypeInv == RowsOK /\ BusOK /\ HubOK /\ Unwatched

LEMMA LoadFacts ==
  /\ Sent \in Loads /\ Sent # None /\ Sent.wait = "rows"
  /\ \A l \in Loads : /\ View(l) \in Views /\ View(l) # None
                      /\ View(l).v = l.v /\ View(l).b = l.b
BY EventHubAssumption DEF Sent, Loads, Views, View

\* What a load has read so far.
LEMMA ReadFacts ==
  ASSUME RowsOK, NEW l \in Loads, l.wait # "none"
  PROVE  /\ Read(l) \in Loads /\ Read(l) # None
         /\ l.wait = "rows"  => Read(l).wait # "rows" /\ Read(l).v = row.v /\ Read(l).b = row.b
         /\ l.wait = "count" => Read(l).wait = "none" /\ Read(l).v = l.v /\ Read(l).b = l.b
<1>1. CASE l.wait = "rows"
  <2>1. Read(l) = [l EXCEPT !.v = row.v, !.b = row.b,
                            !.wait = IF Live(row.b) THEN "count" ELSE "none"]
    BY <1>1 DEF Read
  <2>2. Read(l) \in Loads
    BY <2>1 DEF RowsOK, Loads
  <2> QED
    BY <1>1, <2>1, <2>2, EventHubAssumption DEF Loads
<1>2. CASE l.wait = "count"
  <2>1. Read(l) = [l EXCEPT !.n = counts[l.b], !.wait = "none"]
    BY <1>2 DEF Read
  <2>2. counts[l.b] \in {0, 1}
    BY DEF RowsOK, Loads
  <2>3. Read(l) \in Loads
    BY <2>1, <2>2 DEF Loads
  <2> QED
    BY <1>2, <2>1, <2>3, EventHubAssumption DEF Loads
<1> QED
  BY <1>1, <1>2 DEF Loads

LEMMA InitTypes == Init => TypeInv
<1> SUFFICES ASSUME Init PROVE TypeInv
  OBVIOUS
<1>1. RowsOK
  BY EventHubAssumption DEF Init, RowsOK
<1>2. BusOK
  BY DEF Init, BusOK
<1>3. HubOK
  BY DEF Init, HubOK
<1> QED
  BY <1>1, <1>2, <1>3 DEF Init, TypeInv, Unwatched

LEMMA NextRows ==
  ASSUME RowsOK, [Next]_vars
  PROVE  RowsOK'
<1>1. CASE Change
  <2>1. PICK b \in {row.b, row.b + 1} : row' = [v |-> row.v + 1, b |-> b]
    BY <1>1 DEF Change
  <2>2. changes' = changes + 1 /\ changes < MaxChanges /\ counts' = counts
    BY <1>1 DEF Change
  <2>3. changes' \in 0..MaxChanges /\ row.v + 1 \in 0..MaxChanges /\ b \in 0..MaxChanges
        /\ row.v + 1 <= changes' /\ b <= changes'
    BY <2>2, EventHubAssumption DEF RowsOK
  <2> QED
    BY <2>1, <2>2, <2>3 DEF RowsOK
<1>2. CASE CountViewers
  BY <1>2, EventHubAssumption DEF CountViewers, RowsOK
<1>3. CASE UNCHANGED db
  BY <1>3 DEF db, RowsOK
<1> QED
  BY <1>1, <1>2, <1>3 DEF Next, LoseEvent, Disconnect, Ready, Subscribed, StateEvent, ViewersEvent,
     Resync, ReadForReload, Reloaded, ReloadFails, ReloadEnds, Connect, Add, Added, AddFails, Close,
     ReadForAdd, vars

LEMMA NextBus ==
  ASSUME RowsOK, BusOK, [Next]_vars
  PROVE  BusOK'
<1> USE DEF BusOK
<1>1. CASE CountViewers
  <2>1. [b |-> row.b, n |-> counts'[row.b]] \in Events
    BY <1>1, NextRows DEF CountViewers, RowsOK, Events
  <2> QED
    BY <1>1, <2>1 DEF CountViewers, conns, hub
<1>2. CASE Change
  BY <1>2 DEF Change, conns, hub
<1>3. CASE LoseEvent
  BY <1>3 DEF LoseEvent, conns, hub, Fault
<1>4. CASE ViewersEvent
  <2>1. Tail(viewerEvents) \in Seq(Events)
    BY <1>4 DEF ViewersEvent
  <2>2. subs' = subs
    BY <1>4 DEF ViewersEvent, ReloadIfWatched, hub
  <2> QED
    BY <1>4, <2>1, <2>2 DEF ViewersEvent, conns
<1>5. CASE Disconnect \/ Ready \/ Subscribed \/ StateEvent \/ Resync
  BY <1>5 DEF Disconnect, Ready, Subscribed, StateEvent, Resync, ReloadIfWatched, hub, conns, bus,
              Fault
<1>6. CASE ReadForReload \/ Reloaded \/ ReloadFails
  BY <1>6 DEF ReadForReload, Reloaded, ReloadFails, ReloadEnds, conns, bus, Fault
<1>7. ASSUME NEW c \in Clients, Connect(c) \/ Add(c) \/ Added(c) \/ AddFails(c) \/ ReadForAdd(c)
      PROVE  BusOK'
  BY <1>7 DEF Connect, Add, Added, AddFails, ReadForAdd, hub, conns, bus, Fault
<1>8. ASSUME NEW c \in Clients, Close(c)
      PROVE  BusOK'
  BY <1>8 DEF Close, bus
<1>9. CASE UNCHANGED vars
  BY <1>9 DEF vars, bus, conns, hub
<1> QED
  BY <1>1, <1>2, <1>3, <1>4, <1>5, <1>6, <1>7, <1>8, <1>9 DEF Next

LEMMA PushType ==
  ASSUME HubOK, NEW view \in Views, Push(view)
  PROVE  shown' \in [Clients -> Views \cup {None}]
BY DEF HubOK, Push

LEMMA ReloadType ==
  ASSUME HubOK, ReloadIfWatched
  PROVE  HubOK'
BY LoadFacts DEF HubOK, ReloadIfWatched, Reload

LEMMA NextHub ==
  ASSUME TypeInv, [Next]_vars
  PROVE  HubOK'
<1> USE DEF TypeInv
<1>1. CASE UNCHANGED hub
  BY <1>1 DEF HubOK, hub
<1>2. CASE ReloadIfWatched
  BY <1>2, ReloadType
<1>3. CASE Change \/ CountViewers \/ LoseEvent \/ Disconnect \/ Ready \/ Subscribed \/ StateEvent
           \/ Resync \/ UNCHANGED vars
  BY <1>1, <1>2, <1>3 DEF Change, CountViewers, LoseEvent, Disconnect, Ready, Subscribed, StateEvent,
                          Resync, vars
<1>4. CASE ViewersEvent
  <2>1. CASE cache' = [cache EXCEPT !.n = Head(viewerEvents).n] /\ Push(cache') /\ cache # None
             /\ viewerEvents # <<>> /\ UNCHANGED <<subs, dirty, reload, adding>>
    <3>1. Head(viewerEvents) \in Events
      BY <2>1 DEF BusOK
    <3>2. cache' \in Views
      BY <2>1, <3>1 DEF HubOK, Views, Events
    <3> QED
      BY <2>1, <3>2, PushType DEF HubOK
  <2> QED
    BY <1>1, <1>2, <1>4, <2>1 DEF ViewersEvent
<1>5. CASE ReadForReload
  <2>1. reload \in Loads /\ reload.wait # "none" /\ reload' = Read(reload)
    BY <1>5 DEF ReadForReload, HubOK
  <2>2. reload' \in Loads /\ reload' # None
    BY <2>1, ReadFacts
  <2> QED
    BY <1>5, <2>2 DEF ReadForReload, HubOK
<1>6. CASE Reloaded
  <2>1. reload \in Loads
    BY <1>6 DEF Reloaded, HubOK
  <2>2. cache' \in Views \cup {None} /\ shown' \in [Clients -> Views \cup {None}]
    BY <1>6, <2>1, LoadFacts, PushType DEF Reloaded, HubOK
  <2>3. adding' = adding /\ reload' \in Loads \cup {None} /\ dirty' = FALSE
    BY <1>6, LoadFacts DEF Reloaded, ReloadEnds
  <2> QED
    BY <2>2, <2>3 DEF HubOK
<1>7. CASE ReloadFails
  BY <1>7, LoadFacts DEF ReloadFails, ReloadEnds, HubOK
<1>8. ASSUME NEW c \in Clients, Connect(c) \/ Add(c) \/ AddFails(c)
      PROVE  HubOK'
  BY <1>8, LoadFacts DEF Connect, Add, AddFails, HubOK, hub
<1>9. ASSUME NEW c \in Clients, Added(c)
      PROVE  HubOK'
  <2>1. adding[c] \in Loads
    BY <1>9 DEF Added, HubOK
  <2>2. View(adding[c]) \in Views
    BY <2>1, LoadFacts
  <2> QED
    BY <1>9, <2>2 DEF Added, FirstShown, HubOK
<1>10. ASSUME NEW c \in Clients, ReadForAdd(c)
       PROVE  HubOK'
  <2>1. adding[c] \in Loads /\ adding[c].wait # "none"
    BY <1>10 DEF ReadForAdd, HubOK
  <2>2. Read(adding[c]) \in Loads
    BY <2>1, ReadFacts
  <2> QED
    BY <1>10, <2>2 DEF ReadForAdd, HubOK
<1>11. ASSUME NEW c \in Clients, Close(c)
       PROVE  HubOK'
  BY <1>11 DEF Close, HubOK
<1> QED
  BY <1>3, <1>4, <1>5, <1>6, <1>7, <1>8, <1>9, <1>10, <1>11 DEF Next

LEMMA NextUnwatched ==
  ASSUME IInv, TypeInv, [Next]_vars
  PROVE  Unwatched'
<1> USE DEF TypeInv, Unwatched
<1>1. CASE UNCHANGED <<subs, cache>>
  BY <1>1
<1>2. CASE Change \/ CountViewers \/ LoseEvent \/ Disconnect \/ Ready \/ Subscribed \/ StateEvent
           \/ Resync \/ ReadForReload \/ ReloadFails \/ UNCHANGED vars
  BY <1>1, <1>2 DEF Change, CountViewers, LoseEvent, Disconnect, Ready, Subscribed, StateEvent,
                    Resync, ReadForReload, ReloadFails, ReloadEnds, ReloadIfWatched, hub, vars
<1>3. CASE ViewersEvent
  BY <1>3 DEF ViewersEvent, ReloadIfWatched, hub
<1>4. CASE Reloaded
  BY <1>4 DEF Reloaded, ReloadEnds
<1>5. ASSUME NEW c \in Clients, Connect(c) \/ AddFails(c) \/ ReadForAdd(c)
      PROVE  Unwatched'
  BY <1>5 DEF Connect, AddFails, ReadForAdd, hub
<1>6. ASSUME NEW c \in Clients, Add(c)
      PROVE  Unwatched'
  BY <1>6 DEF Add
<1>7. ASSUME NEW c \in Clients, Added(c)
      PROVE  Unwatched'
  BY <1>7 DEF Added, IInv, OthersAreNew
<1>8. ASSUME NEW c \in Clients, Close(c)
      PROVE  Unwatched'
  BY <1>8 DEF Close
<1> QED
  BY <1>2, <1>3, <1>4, <1>5, <1>6, <1>7, <1>8 DEF Next

LEMMA NextTypes == IInv /\ TypeInv /\ [Next]_vars => TypeInv'
BY NextRows, NextBus, NextHub, NextUnwatched DEF TypeInv

LEMMA TypeInvTypeOK == TypeInv => TypeOK
BY DEF TypeInv, RowsOK, BusOK, HubOK, Unwatched, TypeOK

\* The hub's state stays well typed, a queued reload has one to wait for, and a channel that
\* nobody watches is not cached.
THEOREM HubTypeCorrect == Spec => []TypeOK
BY InitIInv, NextIInv, InitTypes, NextTypes, TypeInvTypeOK, PTL DEF Spec

-----------------------------------------------------------------------------
(* Quiet means fresh.  While nobody leaves and nothing fails, and no state   *)
(* event is on its way: a reload under way will have the rows as they are,   *)
(* or another one is queued; without one, what is cached is fresh, or what   *)
(* will be cached first is.                                                  *)

Fresh(x) == x.v = row.v /\ x.b = row.b

Coming(l) == l.wait = "rows" \/ Fresh(l)

UpToDate ==
  IF reload # None THEN dirty \/ Coming(reload)
  ELSE IF cache # None THEN Fresh(cache)
  ELSE \A c \in subs : adding[c] # None => Coming(adding[c])

Calm == leaves = 0 /\ faults = 0

CalmInv ==
  /\ subscriber = "up"
  /\ subs = {} => reload = None
  /\ \A c \in subs : adding[c] = None => shown[c] # None
  /\ stateEvents = 0 => UpToDate

FInv == IInv /\ TypeInv /\ (Calm => CalmInv)

LEMMA InitCalm == Init => CalmInv
BY DEF Init, CalmInv, UpToDate

LEMMA CalmFresh == FInv => QuietMeansFresh
<1> SUFFICES ASSUME FInv, Calm, Quiet, NEW c \in subs
             PROVE  shown[c].v = row.v /\ shown[c].b = row.b
  BY DEF QuietMeansFresh, Calm
<1>1. c \in Clients /\ adding[c] = None /\ reload = None /\ stateEvents = 0 /\ CalmInv
  BY DEF FInv, TypeInv, BusOK, Quiet
<1>2. shown[c] = cache /\ cache # None
  BY <1>1 DEF CalmInv, FInv, IInv, SameForAll
<1> QED
  BY <1>1, <1>2 DEF CalmInv, UpToDate, Fresh

\* What has happened has happened.
LEMMA CalmBefore ==
  ASSUME TypeInv, [Next]_vars, Calm'
  PROVE  Calm
<1>1. leaves \in Nat /\ faults \in Nat
  BY DEF TypeInv, BusOK
<1>2. leaves' \in {leaves, leaves + 1}
  BY DEF Next, Change, CountViewers, LoseEvent, Disconnect, Ready, Subscribed, StateEvent,
     ViewersEvent, Resync, ReadForReload, Reloaded, ReloadFails, ReloadEnds, Connect, Add, Added,
     AddFails, Close, ReadForAdd, conns, vars
<1>3. faults' \in {faults, faults + 1}
  BY DEF Next, Change, CountViewers, LoseEvent, Disconnect, Ready, Subscribed, StateEvent,
     ViewersEvent, Resync, ReadForReload, Reloaded, ReloadFails, ReloadEnds, Connect, Add, Added,
     AddFails, Close, ReadForAdd, Fault, vars
<1> QED
  BY <1>1, <1>2, <1>3 DEF Calm

\* Steps that are a fault, or for which there must have been one, and departures.
LEMMA NoFault ==
  ASSUME TypeInv, Calm, Calm', CalmInv,
         \/ LoseEvent \/ Disconnect \/ Ready \/ Subscribed \/ ReloadFails
         \/ \E c \in Clients : AddFails(c) \/ Close(c)
  PROVE  FALSE
BY DEF Calm, CalmInv, LoseEvent, Disconnect, Ready, Subscribed, ReloadFails, AddFails, Close, Fault,
       TypeInv, BusOK

\* A reload is asked for, by an event or by the timer.
LEMMA ReloadCalm ==
  ASSUME TypeInv, CalmInv, ReloadIfWatched, row' = row, subscriber' = subscriber
  PROVE  CalmInv'
<1>1. UNCHANGED <<subs, cache, adding, shown>>
  BY DEF ReloadIfWatched
<1>2. CASE subs = {}
  <2>1. reload' = reload /\ dirty' = dirty /\ cache = None /\ reload = None
    BY <1>2 DEF ReloadIfWatched, CalmInv, TypeInv, Unwatched
  <2> QED
    BY <1>1, <1>2, <2>1 DEF CalmInv, UpToDate
<1>3. CASE subs # {}
  <2>1. reload' # None /\ (dirty' \/ reload'.wait = "rows")
    BY <1>3, LoadFacts DEF ReloadIfWatched, Reload
  <2> QED
    BY <1>1, <1>3, <2>1 DEF CalmInv, UpToDate, Coming
<1> QED
  BY <1>2, <1>3

LEMMA NextCalm ==
  ASSUME IInv, TypeInv, CalmInv, Calm, Calm', Next
  PROVE  CalmInv'
<1> USE DEF TypeInv
<1>1. CASE Change
  BY <1>1 DEF Change, conns, hub, CalmInv, BusOK
<1>2. CASE CountViewers
  BY <1>2 DEF CountViewers, conns, hub, CalmInv, UpToDate, Coming, Fresh
<1>3. CASE StateEvent \/ Resync
  <2>1. ReloadIfWatched /\ row' = row /\ subscriber' = subscriber
    BY <1>3 DEF StateEvent, Resync, CalmInv, db
  <2> QED
    BY <2>1, ReloadCalm
<1>4. CASE ViewersEvent
  <2>1. row' = row /\ stateEvents' = stateEvents /\ subscriber' = subscriber
    BY <1>4 DEF ViewersEvent, db
  <2>2. CASE UNCHANGED hub
    BY <2>1, <2>2 DEF hub, CalmInv, UpToDate, Coming, Fresh
  <2>3. CASE ReloadIfWatched
    BY <2>1, <2>3, ReloadCalm
  <2>4. CASE /\ cache # None /\ cache' = [cache EXCEPT !.n = Head(viewerEvents).n]
             /\ Push(cache') /\ UNCHANGED <<subs, dirty, reload, adding>>
    <3>1. cache' # None /\ cache'.v = cache.v /\ cache'.b = cache.b
      <4>1. cache \in Views /\ Head(viewerEvents) \in Events
        BY <1>4, <2>4 DEF ViewersEvent, HubOK, BusOK
      <4> QED
        BY <2>4, <4>1, EventHubAssumption DEF Views, Events
    <3>2. \A c \in subs : shown'[c] # None
      BY <2>4, <3>1 DEF Push, BusOK
    <3> QED
      BY <2>1, <2>4, <3>1, <3>2 DEF CalmInv, UpToDate, Coming, Fresh
  <2> QED
    BY <1>4, <2>2, <2>3, <2>4 DEF ViewersEvent
<1>5. CASE ReadForReload
  <2>1. reload \in Loads /\ reload.wait # "none" /\ reload' = Read(reload) /\ reload # None
    BY <1>5 DEF ReadForReload, HubOK
  <2>2. reload' # None /\ (Coming(reload) => Fresh(reload'))
    BY <2>1, ReadFacts DEF Coming, Fresh, Loads
  <2>3. UNCHANGED <<row, stateEvents, subscriber, subs, dirty, adding, shown>>
    BY <1>5 DEF ReadForReload, db, bus
  <2>4. UpToDate => UpToDate'
    BY <2>1, <2>2, <2>3 DEF UpToDate, Coming, Fresh
  <2> QED
    BY <2>1, <2>2, <2>3, <2>4 DEF CalmInv
<1>6. CASE Reloaded
  <2>1. reload \in Loads /\ reload # None /\ reload.wait = "none"
    BY <1>6 DEF Reloaded, HubOK
  <2>2. UNCHANGED <<row, stateEvents, subscriber, subs, adding>> /\ subs # {}
    BY <1>6, <2>1 DEF Reloaded, ReloadEnds, db, bus, CalmInv
  <2>3. cache' = View(reload) /\ cache' # None /\ cache'.v = reload.v /\ cache'.b = reload.b
    BY <1>6, <2>1, <2>2, LoadFacts DEF Reloaded
  <2>4. \A c \in subs : shown'[c] # None \/ (shown'[c] = shown[c] /\ adding'[c] = adding[c])
    BY <1>6, <2>2, <2>3 DEF Reloaded, Push, BusOK
  <2>5. IF dirty THEN reload' # None /\ reload'.wait = "rows" ELSE reload' = None
    BY <1>6, LoadFacts DEF Reloaded, ReloadEnds
  <2>6. UpToDate => UpToDate'
    BY <2>1, <2>2, <2>3, <2>5 DEF UpToDate, Coming, Fresh
  <2> QED
    BY <2>2, <2>4, <2>5, <2>6 DEF CalmInv
<1>7. ASSUME NEW c \in Clients, Connect(c)
      PROVE  CalmInv'
  BY <1>7 DEF Connect, db, bus, hub, CalmInv, UpToDate, Coming, Fresh
<1>8. ASSUME NEW c \in Clients, Add(c)
      PROVE  CalmInv'
  <2>1. UNCHANGED <<row, stateEvents, subscriber, cache, dirty, reload>> /\ subs' = subs \cup {c}
    BY <1>8 DEF Add, db, bus
  <2>2. IF cache # None THEN shown'[c] # None /\ adding' = adding
        ELSE adding'[c] # None /\ adding'[c].wait = "rows"
    BY <1>8, LoadFacts DEF Add, HubOK
  <2>3. \A d \in Clients \ {c} : shown'[d] = shown[d] /\ adding'[d] = adding[d]
    BY <1>8 DEF Add, HubOK
  <2>4. subs' # {} /\ subs' \subseteq Clients
    BY <2>1 DEF BusOK
  <2>5. UpToDate => UpToDate'
    BY <2>1, <2>2, <2>3, <2>4 DEF UpToDate, Coming, Fresh
  <2>6. \A d \in subs' : adding'[d] = None => shown'[d] # None
    BY <2>1, <2>2, <2>3, <2>4 DEF CalmInv, BusOK
  <2> QED
    BY <2>1, <2>4, <2>5, <2>6 DEF CalmInv
<1>9. ASSUME NEW c \in Clients, Added(c)
      PROVE  CalmInv'
  <2>1. adding[c] \in Loads /\ adding[c] # None /\ adding[c].wait = "none" /\ c \in subs
    BY <1>9 DEF Added, HubOK, IInv, OthersAreNew
  <2>2. UNCHANGED <<row, stateEvents, subscriber, subs, dirty, reload>>
    BY <1>9 DEF Added, db, bus
  <2>3. /\ cache' # None /\ shown'[c] = cache'
        /\ IF cache # None THEN cache' = cache ELSE cache'.v = adding[c].v /\ cache'.b = adding[c].b
    BY <1>9, <2>1, LoadFacts DEF Added, FirstShown, HubOK
  <2>4. \A d \in Clients \ {c} : shown'[d] = shown[d] /\ adding'[d] = adding[d]
    BY <1>9 DEF Added, HubOK
  <2>5. UpToDate => UpToDate'
    BY <2>1, <2>2, <2>3 DEF UpToDate, Coming, Fresh
  <2>6. \A d \in subs' : adding'[d] = None => shown'[d] # None
    BY <2>2, <2>3, <2>4 DEF CalmInv, BusOK
  <2> QED
    BY <2>2, <2>5, <2>6 DEF CalmInv
<1>10. ASSUME NEW c \in Clients, ReadForAdd(c)
       PROVE  CalmInv'
  <2>1. adding[c] \in Loads /\ adding[c] # None /\ adding[c].wait # "none"
        /\ adding'[c] = Read(adding[c])
    BY <1>10 DEF ReadForAdd, HubOK
  <2>2. adding'[c] # None /\ (Coming(adding[c]) => Fresh(adding'[c]))
    BY <2>1, ReadFacts DEF Coming, Fresh, Loads
  <2>3. UNCHANGED <<row, stateEvents, subscriber, subs, cache, dirty, reload, shown>>
    BY <1>10 DEF ReadForAdd, db, bus
  <2>4. \A d \in Clients \ {c} : adding'[d] = adding[d]
    BY <1>10 DEF ReadForAdd, HubOK
  <2>5. UpToDate => UpToDate'
    BY <2>1, <2>2, <2>3, <2>4 DEF UpToDate, Coming, Fresh, BusOK
  <2>6. \A d \in subs' : adding'[d] = None => shown'[d] # None
    BY <2>2, <2>3, <2>4 DEF CalmInv, BusOK
  <2> QED
    BY <2>3, <2>5, <2>6 DEF CalmInv
<1> QED
  BY <1>1, <1>2, <1>3, <1>4, <1>5, <1>6, <1>7, <1>8, <1>9, <1>10, NoFault DEF Next

LEMMA NextFInv == FInv /\ [Next]_vars => FInv'
<1> SUFFICES ASSUME FInv, [Next]_vars, Calm' PROVE CalmInv'
  BY NextIInv, NextTypes DEF FInv
<1>1. IInv /\ TypeInv /\ Calm /\ CalmInv
  BY CalmBefore DEF FInv
<1>2. CASE UNCHANGED vars
  BY <1>1, <1>2 DEF vars, db, bus, hub, CalmInv, UpToDate, Coming, Fresh
<1> QED
  BY <1>1, <1>2, NextCalm

\* While nobody leaves and nothing fails, the events alone keep every viewer up to date, whatever
\* the number of viewers and of changes: reloads that are coalesced and loads that overtake each
\* other lose nothing.
THEOREM QuietIsFresh == Spec => []QuietMeansFresh
<1>1. Init => FInv
  BY InitIInv, InitTypes, InitCalm DEF FInv
<1> QED
  BY <1>1, NextFInv, CalmFresh, PTL DEF Spec

=============================================================================
