---------------------------- MODULE ChannelPage ----------------------------
(***************************************************************************)
(* The page of a channel (web/src/pages/ChannelPage.tsx): what it shows of *)
(* a broadcast comes from a stream of events and from GETs that overlap    *)
(* it, fail, and answer in any order.                                      *)
(*                                                                         *)
(* The server's side of the stream is EventHub; here it sends states of    *)
(* the channel in order, and a stream begins with one.  Timers have no     *)
(* lengths: one that is set fires eventually.                              *)
(***************************************************************************)
EXTENDS Integers, FiniteSets

CONSTANTS
  MaxVersion,   \* bound: changes of the channel
  MaxFaults,    \* bound: outages and broken streams
  MaxActs       \* bound: what the viewer does

ASSUME ChannelPageAssumption == MaxVersion \in Nat \ {0} /\ MaxFaults \in Nat /\ MaxActs \in Nat

VARIABLES
  channel,      \* the server: version of the channel, existence, reachability
  page,         \* the state and the refs of useChannel
  stream,       \* its EventSource
  loads,        \* GETs under way
  trouble, clicks

vars == <<channel, page, stream, loads, trouble, clicks>>

Versions == 0..MaxVersion
Nothing  == -1

\* Of three versions one is off the air and two are of one broadcast.
Broadcast(v) == IF v % 3 = 0 THEN 0 ELSE (v \div 3) + 1

Channels == [version : Versions, exists : BOOLEAN, up : BOOLEAN]

Pages == [phase : {"loading", "ready", "notfound", "error"}, info : Versions \cup {Nothing},
          live : Versions, got : BOOLEAN, healthy : BOOLEAN,
          prev : 0..(MaxVersion + 1) \cup {Nothing}, visible : BOOLEAN]

\* again: the browser reconnects by itself; waiting: closed, a timer runs; half: the connection
\* is gone and no one has noticed; off: the page has given up the channel.
Streams == [at : {"opening", "open", "half", "again", "waiting", "off"},
            seen : Versions \cup {Nothing}]

Loads == [periodic : BOOLEAN, v : Versions \cup {Nothing}]

Fresh(periodic) == [periodic |-> periodic, v |-> Nothing]
Opening         == [at |-> "opening", seen |-> Nothing]

Init ==
  /\ channel \in [version : {0, 1}, exists : BOOLEAN, up : {TRUE}]
  /\ page = [phase |-> "loading", info |-> Nothing, live |-> 0, got |-> FALSE, healthy |-> TRUE,
             prev |-> Nothing, visible |-> TRUE]
  /\ stream = Opening
  /\ loads = {Fresh(FALSE)}
  /\ trouble = 0 /\ clicks = 0

-----------------------------------------------------------------------------
(* The effect on a transition: a page that was ready for another broadcast loads again. *)

Transition(p) ==
  p.phase = "ready" /\ p.prev # Nothing /\ p.prev # Broadcast(p.live)

Commit(p, ls) ==
  /\ page' = [p EXCEPT !.prev = IF p.phase = "ready" THEN Broadcast(p.live) ELSE @]
  /\ loads' = ls \cup (IF Transition(p) THEN {Fresh(FALSE)} ELSE {})

-----------------------------------------------------------------------------
(* load() *)

Read(r) ==
  /\ r \in loads /\ r.v = Nothing /\ channel.up /\ channel.exists
  /\ loads' = (loads \ {r}) \cup {[r EXCEPT !.v = channel.version]}
  /\ UNCHANGED <<channel, page, stream, trouble, clicks>>

\* Mutant: the answer is taken whatever the stream has said.
LoadedAnyway(p, v) == v

\* "SSE is the source of truth for `live` once it has spoken (and is connected)."
LoadedLive(p, v) == IF ~p.got \/ ~p.healthy THEN v ELSE p.live

Answered(r) ==
  /\ r \in loads /\ r.v # Nothing /\ channel.up
  /\ Commit([page EXCEPT !.info = r.v, !.live = LoadedLive(page, r.v), !.phase = "ready"],
            loads \ {r})
  /\ UNCHANGED <<channel, stream, trouble, clicks>>

NotFound(r) ==
  /\ r \in loads /\ channel.up /\ ~channel.exists
  /\ page' = [page EXCEPT !.phase = "notfound"]
  /\ stream' = [at |-> "off", seen |-> Nothing]
  /\ loads' = loads \ {r}
  /\ UNCHANGED <<channel, trouble, clicks>>

\* Of a load of the periodic refresh: "assume the event stream is dead too".
LoadFails(r) ==
  /\ r \in loads /\ ~channel.up
  /\ page' = [page EXCEPT !.phase = IF page.info = Nothing THEN "error" ELSE @,
                          !.healthy = @ /\ ~r.periodic]
  /\ stream' = IF r.periodic THEN Opening ELSE stream
  /\ loads' = loads \ {r}
  /\ UNCHANGED <<channel, trouble, clicks>>

\* The interval of the refresh; a slow answer lets another one begin.
Refresh ==
  /\ page.phase = "ready" /\ page.visible
  /\ \A r \in loads : r.periodic => r.v # Nothing
  /\ loads' = loads \cup {Fresh(TRUE)}
  /\ UNCHANGED <<channel, page, stream, trouble, clicks>>

-----------------------------------------------------------------------------
(* The stream *)

Opens ==
  /\ stream.at \in {"opening", "again"} /\ channel.up /\ channel.exists
  /\ stream' = [at |-> "open", seen |-> Nothing]
  /\ page' = [page EXCEPT !.healthy = TRUE]
  /\ UNCHANGED <<channel, loads, trouble, clicks>>

State(v) ==
  /\ stream.at = "open" /\ channel.up /\ v > stream.seen /\ v <= channel.version
  /\ stream' = [stream EXCEPT !.seen = v]
  /\ Commit([page EXCEPT !.got = TRUE, !.healthy = TRUE, !.live = v,
                         !.info = IF @ = Nothing THEN @ ELSE v], loads)
  /\ UNCHANGED <<channel, trouble, clicks>>

\* An attempt fails: on a network error the browser goes on by itself, on an HTTP error not.
Fails ==
  /\ stream.at \in {"opening", "again"} /\ ~(channel.up /\ channel.exists)
  /\ \E at \in {"again", "waiting"} : stream' = [at |-> at, seen |-> Nothing]
  /\ page' = [page EXCEPT !.healthy = FALSE]
  /\ UNCHANGED <<channel, loads, trouble, clicks>>

Breaks ==
  /\ stream.at = "open" /\ trouble < MaxFaults
  /\ trouble' = trouble + 1
  /\ stream' = [at |-> "again", seen |-> Nothing]
  /\ page' = [page EXCEPT !.healthy = FALSE]
  /\ UNCHANGED <<channel, loads, clicks>>

BreaksSilently ==
  /\ stream.at = "open" /\ trouble < MaxFaults
  /\ trouble' = trouble + 1
  /\ stream' = [stream EXCEPT !.at = "half"]
  /\ UNCHANGED <<channel, page, loads, clicks>>

TimerFires ==
  /\ stream.at = "waiting"
  /\ stream' = Opening
  /\ UNCHANGED <<channel, page, loads, trouble, clicks>>

\* Mutant: only a stream that reports an error is opened anew.
WatchReported == stream.at = "again"

\* No event and no ping for 40 s, which is what a stream closed by its error is not asked for.
Silent == stream.at \in {"half", "again"} \/ (stream.at \in {"open", "opening"} /\ ~channel.up)

Watchdog ==
  /\ Silent
  /\ stream' = Opening
  /\ page' = [page EXCEPT !.healthy = FALSE]
  /\ UNCHANGED <<channel, loads, trouble, clicks>>

-----------------------------------------------------------------------------
(* The viewer and the server *)

Hide ==
  /\ clicks < MaxActs /\ clicks' = clicks + 1
  /\ page' = [page EXCEPT !.visible = ~@]
  /\ UNCHANGED <<channel, stream, loads, trouble>>

\* The button of the error: the first load is made again, the stream stays.
Retry ==
  /\ page.phase = "error" /\ clicks < MaxActs /\ clicks' = clicks + 1
  /\ page' = [page EXCEPT !.phase = "loading", !.info = Nothing, !.live = 0, !.got = FALSE]
  /\ loads' = {Fresh(FALSE)}
  /\ UNCHANGED <<channel, stream, trouble>>

Changes ==
  /\ channel.exists /\ channel.version < MaxVersion
  /\ channel' = [channel EXCEPT !.version = @ + 1]
  /\ UNCHANGED <<page, stream, loads, trouble, clicks>>

Outage ==
  /\ channel.up /\ trouble < MaxFaults /\ trouble' = trouble + 1
  /\ channel' = [channel EXCEPT !.up = FALSE]
  /\ UNCHANGED <<page, stream, loads, clicks>>

Recovers ==
  /\ ~channel.up
  /\ channel' = [channel EXCEPT !.up = TRUE]
  /\ UNCHANGED <<page, stream, loads, trouble, clicks>>

Next ==
  \/ \E r \in Loads : Read(r) \/ Answered(r) \/ NotFound(r) \/ LoadFails(r)
  \/ \E v \in Versions : State(v)
  \/ Refresh \/ Opens \/ Fails \/ Breaks \/ BreaksSilently \/ TimerFires \/ Watchdog
  \/ Hide \/ Retry \/ Changes \/ Outage \/ Recovers

Spec == Init /\ [][Next]_vars

\* Requests are answered, what was sent arrives, timers fire.
Fairness ==
  /\ \A r \in Loads : WF_vars(Read(r)) /\ WF_vars(Answered(r))
  /\ WF_vars(\E v \in Versions : State(v))
  /\ WF_vars(Refresh) /\ WF_vars(Opens) /\ WF_vars(TimerFires) /\ WF_vars(Watchdog)

FairSpec == Spec /\ Fairness

-----------------------------------------------------------------------------
(* Properties *)

TypeOK ==
  /\ channel \in Channels /\ page \in Pages /\ stream \in Streams /\ loads \subseteq Loads
  /\ trouble \in 0..MaxFaults /\ clicks \in 0..MaxActs

\* A stream that has spoken has the last word (ChannelPage.tsx:64-65): no answer to a GET, however
\* late, replaces what the open stream said.
StreamHasLastWord ==
  page.got /\ stream.seen # Nothing => page.live = stream.seen

\* The page catches up with the channel (ChannelPage.tsx:100-188) after any outage, broken stream
\* or change it slept through, once the server answers; details too while it is visible.  A first
\* load that failed waits for the viewer.
CatchesUp ==
  []<>(\/ page.live = channel.version /\ (page.visible => page.info = channel.version)
       \/ ~channel.up \/ ~channel.exists \/ page.phase = "error")
=============================================================================
