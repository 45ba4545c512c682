------------------------------ MODULE EndsProofs ------------------------------
(***************************************************************************)
(* Proofs about the two ends of a broadcast: the page of a channel, the    *)
(* player, the gateway of SRT and the control loop's rounds.               *)
(*                                                                         *)
(* Page: StreamHasLastWord is not inductive, an answer to a GET is taken   *)
(* when the page holds its stream for dead.  It is so together with        *)
(* Healthy: whoever declares a stream dead takes its word from it in the   *)
(* same step.                                                              *)
(*                                                                         *)
(* Gateway: the sessions and the handshakes that are past the limit but    *)
(* not counted yet exceed it by no more than the handshakes that were past *)
(* it when another one passed.                                             *)
(*                                                                         *)
(* Loop: a round knows of every source that was on air and reachable all   *)
(* the time, as soon as the source's node is not asked any more.           *)
(***************************************************************************)
EXTENDS MCEnds, FiniteSetTheorems, TLAPS

-----------------------------------------------------------------------------
(* The page of a channel *)

Healthy == page.got /\ stream.seen # Nothing => page.healthy

IInv == TypeOK /\ Healthy /\ StreamHasLastWord

-----------------------------------------------------------------------------
LEMMA BroadcastType == \A v \in Versions : Broadcast(v) \in 0..(MaxVersion + 1)
BY ChannelPageAssumption DEF Versions, Broadcast

\* A transition never changes what the page shows.
LEMMA CommitType ==
  ASSUME NEW p \in Pages, NEW ls \in SUBSET Loads, Commit(p, ls)
  PROVE  /\ page' \in Pages /\ loads' \subseteq Loads
         /\ page'.got = p.got /\ page'.live = p.live /\ page'.healthy = p.healthy
<1>1. p.live \in Versions
  BY DEF Pages
<1>2. Broadcast(p.live) \in 0..(MaxVersion + 1)
  BY <1>1, BroadcastType
<1>3. Fresh(FALSE) \in Loads
  BY DEF Fresh, Loads, Nothing
<1>4. loads' \subseteq Loads
  BY <1>3 DEF Commit
<1>5. page' = [p EXCEPT !.prev = IF p.phase = "ready" THEN Broadcast(p.live) ELSE @]
  BY DEF Commit
<1>6. page' \in Pages
  BY <1>2, <1>5 DEF Pages
<1>7. page'.got = p.got /\ page'.live = p.live /\ page'.healthy = p.healthy
  BY <1>5 DEF Pages
<1> QED
  BY <1>4, <1>6, <1>7

LEMMA InitIInv == Init => IInv
<1> SUFFICES ASSUME Init PROVE IInv
  OBVIOUS
<1>1. 0 \in Versions /\ 1 \in Versions
  BY ChannelPageAssumption DEF Versions
<1>2. channel \in Channels
  BY <1>1 DEF Init, Channels
<1>3. page \in Pages
  BY <1>1 DEF Init, Pages
<1>4. stream \in Streams /\ stream.seen = Nothing
  BY DEF Init, Streams, Opening
<1>5. loads \subseteq Loads
  BY DEF Init, Loads, Fresh
<1>6. trouble \in 0..MaxFaults /\ clicks \in 0..MaxActs
  BY ChannelPageAssumption DEF Init
<1> QED
  BY <1>2, <1>3, <1>4, <1>5, <1>6 DEF IInv, TypeOK, Healthy, StreamHasLastWord

-----------------------------------------------------------------------------
(* One lemma per group of actions *)

\* A GET is read or refused; what the stream said is not touched.
LEMMA GetIInv ==
  ASSUME IInv, NEW r \in Loads, Read(r) \/ NotFound(r) \/ LoadFails(r)
  PROVE  IInv'
<1> USE DEF IInv, TypeOK
<1>1. CASE Read(r)
  <2>1. [r EXCEPT !.v = channel.version] \in Loads
    BY DEF Loads, Channels
  <2>2. loads' \subseteq Loads
    BY <1>1, <2>1 DEF Read
  <2> QED
    BY <1>1, <2>2 DEF Read, Healthy, StreamHasLastWord
<1>2. CASE NotFound(r)
  BY <1>2 DEF NotFound, Pages, Streams, Healthy, StreamHasLastWord, Nothing
<1>3. CASE LoadFails(r)
  <2>1. stream' = Opening \/ (stream' = stream /\ ~r.periodic)
    BY <1>3 DEF LoadFails
  <2>2. page' \in Pages /\ page'.got = page.got /\ page'.live = page.live
        /\ (~r.periodic => page'.healthy = page.healthy)
    BY <1>3 DEF LoadFails, Pages, Loads
  <2>3. stream' \in Streams
    BY <2>1 DEF Opening, Streams, Nothing
  <2>4. Healthy' /\ StreamHasLastWord'
    BY <2>1, <2>2 DEF Opening, Healthy, StreamHasLastWord
  <2> QED
    BY <1>3, <2>2, <2>3, <2>4 DEF LoadFails
<1> QED
  BY <1>1, <1>2, <1>3

\* An answer is taken only if the stream has not spoken or is held for dead.
LEMMA AnswerIInv ==
  ASSUME IInv, NEW r \in Loads, Answered(r)
  PROVE  IInv'
<1> USE DEF IInv, TypeOK
<1> DEFINE p == [page EXCEPT !.info = r.v, !.live = LoadedLive(page, r.v), !.phase = "ready"]
<1>1. r.v \in Versions
  BY DEF Answered, Loads
<1>2. p \in Pages /\ p.got = page.got /\ p.healthy = page.healthy
      /\ p.live = LoadedLive(page, r.v)
  BY <1>1 DEF Pages, LoadedLive
<1>3. Commit(p, loads \ {r})
  BY DEF Answered
<1> HIDE DEF p
<1>4. /\ page' \in Pages /\ loads' \subseteq Loads
      /\ page'.got = page.got /\ page'.live = LoadedLive(page, r.v)
      /\ page'.healthy = page.healthy
  BY <1>2, <1>3, CommitType
<1>5. UNCHANGED <<channel, stream, trouble, clicks>>
  BY DEF Answered
<1>6. Healthy' /\ StreamHasLastWord'
  BY <1>4, <1>5 DEF Healthy, StreamHasLastWord, LoadedLive
<1> QED
  BY <1>4, <1>5, <1>6

LEMMA StateIInv ==
  ASSUME IInv, NEW v \in Versions, State(v)
  PROVE  IInv'
<1> USE DEF IInv, TypeOK
<1> DEFINE p == [page EXCEPT !.got = TRUE, !.healthy = TRUE, !.live = v,
                             !.info = IF @ = Nothing THEN @ ELSE v]
<1>1. p \in Pages /\ p.got /\ p.healthy /\ p.live = v
  BY DEF Pages
<1>2. Commit(p, loads)
  BY DEF State
<1> HIDE DEF p
<1>3. page' \in Pages /\ loads' \subseteq Loads /\ page'.live = v /\ page'.healthy
  BY <1>1, <1>2, CommitType
<1>4. stream' \in Streams /\ stream'.seen = v
  BY DEF State, Streams
<1>5. UNCHANGED <<channel, trouble, clicks>>
  BY DEF State
<1> QED
  BY <1>3, <1>4, <1>5 DEF Healthy, StreamHasLastWord

\* Whoever opens, closes or gives up a stream takes its word from it.
LEMMA StreamIInv ==
  ASSUME IInv, Opens \/ Fails \/ Breaks \/ BreaksSilently \/ TimerFires \/ Watchdog
  PROVE  IInv'
<1> USE DEF IInv, TypeOK
<1>1. page' \in Pages /\ page'.got = page.got /\ page'.live = page.live
  BY DEF Opens, Fails, Breaks, BreaksSilently, TimerFires, Watchdog, Pages
<1>2. stream' \in Streams
  BY DEF Opens, Fails, Breaks, BreaksSilently, TimerFires, Watchdog, Opening, Streams, Nothing
<1>3. stream'.seen = Nothing \/ (stream'.seen = stream.seen /\ page' = page)
  BY DEF Opens, Fails, Breaks, BreaksSilently, TimerFires, Watchdog, Opening, Streams
<1>4. trouble' \in 0..MaxFaults
  BY ChannelPageAssumption DEF Opens, Fails, Breaks, BreaksSilently, TimerFires, Watchdog
<1>5. UNCHANGED <<channel, loads, clicks>>
  BY DEF Opens, Fails, Breaks, BreaksSilently, TimerFires, Watchdog
<1> QED
  BY <1>1, <1>2, <1>3, <1>4, <1>5 DEF Healthy, StreamHasLastWord

LEMMA OthersIInv ==
  ASSUME IInv, Refresh \/ Hide \/ Retry \/ Changes \/ Outage \/ Recovers
  PROVE  IInv'
<1> USE DEF IInv, TypeOK
<1>1. channel' \in Channels
  <2>1. channel.version < MaxVersion => channel.version + 1 \in Versions
    BY ChannelPageAssumption DEF Channels, Versions
  <2> QED
    BY <2>1 DEF Refresh, Hide, Retry, Changes, Outage, Recovers, Channels
<1>2. page' \in Pages
  <2>1. 0 \in Versions
    BY ChannelPageAssumption DEF Versions
  <2> QED
    BY <2>1 DEF Refresh, Hide, Retry, Changes, Outage, Recovers, Pages
<1>3. page'.got => page'.live = page.live /\ page'.healthy = page.healthy /\ page.got
  BY DEF Refresh, Hide, Retry, Changes, Outage, Recovers, Pages
<1>4. loads' \subseteq Loads
  <2>1. \A b \in BOOLEAN : Fresh(b) \in Loads
    BY DEF Fresh, Loads
  <2> QED
    BY <2>1 DEF Refresh, Hide, Retry, Changes, Outage, Recovers
<1>5. stream' = stream
  BY DEF Refresh, Hide, Retry, Changes, Outage, Recovers
<1>6. trouble' \in 0..MaxFaults /\ clicks' \in 0..MaxActs
  <2>1. trouble' = trouble \/ (trouble < MaxFaults /\ trouble' = trouble + 1)
    BY DEF Refresh, Hide, Retry, Changes, Outage, Recovers
  <2>2. clicks' = clicks \/ (clicks < MaxActs /\ clicks' = clicks + 1)
    BY DEF Refresh, Hide, Retry, Changes, Outage, Recovers
  <2> QED
    BY <2>1, <2>2, ChannelPageAssumption
<1> QED
  BY <1>1, <1>2, <1>3, <1>4, <1>5, <1>6 DEF Healthy, StreamHasLastWord

LEMMA NextIInv == IInv /\ [Next]_vars => IInv'
<1> SUFFICES ASSUME IInv, [Next]_vars PROVE IInv'
  OBVIOUS
<1>1. CASE UNCHANGED vars
  BY <1>1 DEF vars, IInv, TypeOK, Healthy, StreamHasLastWord
<1>2. CASE Next
  BY <1>2, GetIInv, AnswerIInv, StateIInv, StreamIInv, OthersIInv DEF Next
<1> QED
  BY <1>1, <1>2

-----------------------------------------------------------------------------
(* The gateway of SRT *)

Sessions == {r \in Requests : G!Session(r)}

Counts == active = Cardinality(Sessions)

\* The inductive invariant: what is past the limit, counted or not, is above it by no more than
\* what was past it when a handshake passed.
Room == active + Cardinality(G!Handshakes) <= MaxSessions + beside

GateInv == G!GatewayAssumption /\ G!TypeOK /\ Counts /\ Room

-----------------------------------------------------------------------------
(* What a step does to the set of sessions *)

\* The gateway's sets and their sizes are those of FiniteSets.
LEMMA SameFinite == ASSUME NEW S PROVE G!IsFiniteSet(S) <=> IsFiniteSet(S)
BY DEF G!IsFiniteSet, IsFiniteSet

LEMMA SameCardinality == ASSUME NEW S PROVE G!Cardinality(S) = Cardinality(S)
BY DEF G!Cardinality, Cardinality

LEMMA SessionsFinite ==
  ASSUME G!GatewayAssumption
  PROVE  IsFiniteSet(Sessions) /\ Cardinality(Sessions) \in Nat
<1>1. Sessions \subseteq Requests
  BY DEF Sessions
<1> QED
  BY <1>1, SameFinite, FS_Subset, FS_CardinalityType DEF G!GatewayAssumption

LEMMA HandshakesFinite ==
  ASSUME G!GatewayAssumption
  PROVE  IsFiniteSet(G!Handshakes) /\ Cardinality(G!Handshakes) \in Nat
<1>1. G!Handshakes \subseteq Requests
  BY DEF G!Handshakes
<1> QED
  BY <1>1, SameFinite, FS_Subset, FS_CardinalityType DEF G!GatewayAssumption

\* A request whose handler goes on within or without a session.
LEMMA SameSessions ==
  ASSUME G!TypeOK, NEW r \in Requests, NEW to \in G!Steps, handler' = [handler EXCEPT ![r] = to],
         G!Session(r) <=> to \in {"start", "run", "flushing", "failed"}
  PROVE  Sessions' = Sessions
BY DEF G!TypeOK, Sessions, G!Session

LEMMA OneMore ==
  ASSUME G!GatewayAssumption, G!TypeOK, Counts, NEW r \in Requests, ~G!Session(r),
         handler' = [handler EXCEPT ![r] = "start"], active' = active + 1
  PROVE  Counts'
<1>1. Sessions' = Sessions \cup {r} /\ r \notin Sessions
  BY DEF G!TypeOK, Sessions, G!Session
<1>2. Cardinality(Sessions \cup {r}) = Cardinality(Sessions) + 1
  BY <1>1, SessionsFinite, FS_AddElement
<1> QED
  BY <1>1, <1>2 DEF Counts

LEMMA OneLess ==
  ASSUME G!GatewayAssumption, G!TypeOK, Counts, NEW r \in Requests, G!Session(r), G!Leave(r)
  PROVE  Counts' /\ active' \in Nat
<1>1. Sessions' = Sessions \ {r} /\ r \in Sessions
  BY DEF G!TypeOK, Sessions, G!Session, G!Leave
<1>2. Cardinality(Sessions \ {r}) = Cardinality(Sessions) - 1
  BY <1>1, SessionsFinite, FS_RemoveElement
<1>3. Cardinality(Sessions \ {r}) \in Nat
  BY SessionsFinite, FS_RemoveElement, FS_CardinalityType
<1> QED
  BY <1>1, <1>2, <1>3 DEF Counts, G!Leave

-----------------------------------------------------------------------------
(* Types *)

LEMMA GateTypes ==
  ASSUME G!GatewayAssumption, G!TypeOK, Counts, [G!Next]_G!vars
  PROVE  G!TypeOK'
<1> USE DEF G!TypeOK, G!Steps
<1>1. CASE G!Signal \/ G!CloseListener \/ G!Exit
  BY <1>1 DEF G!Signal, G!CloseListener, G!Exit
<1>2. ASSUME NEW r \in Requests,
             \/ G!Accept2(r) \/ G!Check(r) \/ G!Authorize(r) \/ G!PublisherLeaves(r) \/ G!CopyEnds(r)
             \/ G!FfmpegExits(r) \/ G!Copied(r) \/ G!FfmpegFailed(r)
      PROVE  G!TypeOK'
  <2>1. G!Cardinality(G!Handshakes) \in Nat
    BY HandshakesFinite, SameCardinality
  <2>2. CASE G!Check(r)
    BY <2>1, <2>2 DEF G!Check
  <2>3. CASE ~G!Check(r)
    BY <1>2, <2>3 DEF G!Accept2, G!Authorize, G!PublisherLeaves, G!CopyEnds, G!FfmpegExits,
                      G!Copied, G!FfmpegFailed, G!CloseConn
  <2> QED
    BY <2>2, <2>3
<1>3. ASSUME NEW r \in Requests, G!Accept(r)
      PROVE  G!TypeOK'
  BY <1>3 DEF G!Accept
<1>4. ASSUME NEW r \in Requests, G!StartFfmpeg(r) \/ G!EndSession(r)
      PROVE  G!TypeOK'
  <2>1. CASE G!Leave(r)
    <3>1. G!Session(r)
      BY <1>4 DEF G!StartFfmpeg, G!EndSession, G!Session
    <3>2. active' \in Nat
      BY <2>1, <3>1, OneLess
    <3> QED
      BY <1>4, <2>1, <3>2 DEF G!StartFfmpeg, G!EndSession, G!Leave
  <2>2. CASE ~G!Leave(r)
    BY <1>4, <2>2 DEF G!StartFfmpeg, G!EndSession
  <2> QED
    BY <2>1, <2>2
<1>5. CASE UNCHANGED G!vars
  BY <1>5 DEF G!vars
<1> QED
  BY <1>1, <1>2, <1>3, <1>4, <1>5 DEF G!Next

-----------------------------------------------------------------------------
(* The counter and the limit *)

LEMMA GateCounts ==
  ASSUME G!GatewayAssumption, G!TypeOK, Counts, [G!Next]_G!vars
  PROVE  Counts'
<1>1. CASE UNCHANGED <<handler, active>>
  BY <1>1 DEF Counts, Sessions, G!Session
<1>2. CASE G!Signal \/ G!CloseListener \/ G!Exit \/ UNCHANGED G!vars
  BY <1>1, <1>2 DEF G!Signal, G!CloseListener, G!Exit, G!vars
<1>3. ASSUME NEW r \in Requests, G!PublisherLeaves(r) \/ G!CopyEnds(r) \/ G!FfmpegExits(r)
      PROVE  Counts'
  BY <1>1, <1>3 DEF G!PublisherLeaves, G!CopyEnds, G!FfmpegExits
<1>4. ASSUME NEW r \in Requests,
             G!Accept2(r) \/ G!Check(r) \/ G!Authorize(r) \/ G!Copied(r) \/ G!FfmpegFailed(r)
      PROVE  Counts'
  <2>1. PICK to \in G!Steps : /\ handler' = [handler EXCEPT ![r] = to]
                              /\ G!Session(r) <=> to \in {"start", "run", "flushing", "failed"}
    BY <1>4 DEF G!Accept2, G!Check, G!Authorize, G!Copied, G!FfmpegFailed, G!Steps, G!Session
  <2>2. active' = active
    BY <1>4 DEF G!Accept2, G!Check, G!Authorize, G!Copied, G!FfmpegFailed
  <2> QED
    BY <2>1, <2>2, SameSessions DEF Counts
<1>5. ASSUME NEW r \in Requests, G!Accept(r)
      PROVE  Counts'
  <2>1. ~G!Session(r)
    BY <1>5 DEF G!Accept, G!Session
  <2>2. CASE active' = active /\ handler' = [handler EXCEPT ![r] = "done"]
    BY <2>1, <2>2, SameSessions DEF G!Steps, Counts
  <2> QED
    BY <1>5, <2>1, <2>2, OneMore DEF G!Accept
<1>6. ASSUME NEW r \in Requests, G!StartFfmpeg(r) \/ G!EndSession(r)
      PROVE  Counts'
  <2>1. G!Session(r)
    BY <1>6 DEF G!StartFfmpeg, G!EndSession, G!Session
  <2>2. CASE active' = active /\ handler' = [handler EXCEPT ![r] = "run"]
    BY <2>1, <2>2, SameSessions DEF G!Steps, Counts
  <2> QED
    BY <1>6, <2>1, <2>2, OneLess DEF G!StartFfmpeg, G!EndSession
<1> QED
  BY <1>2, <1>3, <1>4, <1>5, <1>6 DEF G!Next

\* A step after which no more handshakes are past the limit, and no more sessions counted.
LEMMA NoMore ==
  ASSUME GateInv, beside' = beside, active' \in Nat, active' <= active,
         G!Handshakes' \subseteq G!Handshakes
  PROVE  Room'
<1>1. Cardinality(G!Handshakes') <= Cardinality(G!Handshakes) /\ Cardinality(G!Handshakes') \in Nat
  BY HandshakesFinite, FS_Subset, FS_CardinalityType DEF GateInv
<1>2. active \in Nat /\ beside \in Nat /\ MaxSessions \in Nat /\ Cardinality(G!Handshakes) \in Nat
  BY HandshakesFinite DEF GateInv, G!TypeOK, G!GatewayAssumption
<1> QED
  BY <1>1, <1>2 DEF GateInv, Room

LEMMA GateRoom == GateInv /\ [G!Next]_G!vars => Room'
<1> SUFFICES ASSUME GateInv, [G!Next]_G!vars PROVE Room'
  OBVIOUS
<1>1. /\ MaxSessions \in Nat /\ active \in Nat /\ beside \in Nat /\ handler \in [Requests -> G!Steps]
      /\ Cardinality(G!Handshakes) \in Nat /\ IsFiniteSet(G!Handshakes)
      /\ G!Cardinality(G!Handshakes) = Cardinality(G!Handshakes)
  BY HandshakesFinite, SameCardinality DEF GateInv, G!TypeOK, G!GatewayAssumption
<1>2. CASE UNCHANGED G!vars \/ G!Signal \/ G!CloseListener \/ G!Exit
  <2>1. UNCHANGED <<handler, active, beside>>
    BY <1>2 DEF G!vars, G!Signal, G!CloseListener, G!Exit
  <2> QED
    BY <1>1, <2>1, NoMore DEF G!Handshakes
<1>3. ASSUME NEW r \in Requests,
             \/ G!Accept2(r) \/ G!Authorize(r) \/ G!PublisherLeaves(r) \/ G!CopyEnds(r)
             \/ G!FfmpegExits(r) \/ G!Copied(r) \/ G!FfmpegFailed(r)
      PROVE  Room'
  <2>1. UNCHANGED <<active, beside>>
    BY <1>3 DEF G!Accept2, G!Authorize, G!PublisherLeaves, G!CopyEnds, G!FfmpegExits, G!Copied,
                G!FfmpegFailed
  <2>2. G!Handshakes' \subseteq G!Handshakes
    BY <1>1, <1>3 DEF G!Accept2, G!Authorize, G!PublisherLeaves, G!CopyEnds, G!FfmpegExits,
                      G!Copied, G!FfmpegFailed, G!Handshakes
  <2> QED
    BY <1>1, <2>1, <2>2, NoMore
<1>4. ASSUME NEW r \in Requests, G!StartFfmpeg(r) \/ G!EndSession(r)
      PROVE  Room'
  <2>1. beside' = beside /\ G!Handshakes' \subseteq G!Handshakes
    BY <1>1, <1>4 DEF G!StartFfmpeg, G!EndSession, G!Leave, G!Handshakes
  <2>2. active' \in {active, active - 1} /\ active' \in Nat
    <3>1. G!Session(r)
      BY <1>4 DEF G!StartFfmpeg, G!EndSession, G!Session
    <3> QED
      BY <1>1, <1>4, <3>1, OneLess DEF G!StartFfmpeg, G!EndSession, G!Leave, GateInv
  <2>3. active' <= active
    BY <1>1, <2>2
  <2> QED
    BY <2>1, <2>2, <2>3, NoMore
<1>5. ASSUME NEW r \in Requests, G!Check(r)
      PROVE  Room'
  <2>1. CASE UNCHANGED beside /\ handler' = [handler EXCEPT ![r] = "done"]
    <3>1. active' = active /\ G!Handshakes' \subseteq G!Handshakes
      BY <1>1, <1>5, <2>1 DEF G!Check, G!Handshakes
    <3> QED
      BY <1>1, <2>1, <3>1, NoMore
  <2>2. CASE /\ ~G!Full /\ handler' = [handler EXCEPT ![r] = "authorize"]
             /\ beside' = IF G!Cardinality(G!Handshakes) > beside THEN G!Cardinality(G!Handshakes)
                                                                 ELSE beside
    <3>1. active' = active /\ active < MaxSessions
      BY <1>1, <1>5, <2>2 DEF G!Check, G!Full
    <3>2. G!Handshakes' = G!Handshakes \cup {r} /\ r \notin G!Handshakes
      BY <1>1, <1>5, <2>2 DEF G!Check, G!Handshakes
    <3>3. Cardinality(G!Handshakes') = Cardinality(G!Handshakes) + 1
      BY <1>1, <3>2, FS_AddElement
    <3>4. beside' >= Cardinality(G!Handshakes) /\ beside' \in Nat
      BY <1>1, <2>2
    <3> QED
      BY <1>1, <3>1, <3>3, <3>4 DEF Room
  <2> QED
    BY <1>5, <2>1, <2>2 DEF G!Check
<1>6. ASSUME NEW r \in Requests, G!Accept(r)
      PROVE  Room'
  <2>1. beside' = beside
    BY <1>6 DEF G!Accept
  <2>2. G!Handshakes' = G!Handshakes \ {r} /\ r \in G!Handshakes
    BY <1>1, <1>6 DEF G!Accept, G!Handshakes
  <2>3. Cardinality(G!Handshakes') = Cardinality(G!Handshakes) - 1
    BY <1>1, <2>2, FS_RemoveElement
  <2>4. active' \in {active, active + 1}
    BY <1>6 DEF G!Accept
  <2> QED
    BY <1>1, <2>1, <2>3, <2>4 DEF Room, GateInv
<1> QED
  BY <1>2, <1>3, <1>4, <1>5, <1>6 DEF G!Next

LEMMA GateInit == G!GatewayAssumption /\ G!Init => GateInv
<1> SUFFICES ASSUME G!GatewayAssumption, G!Init PROVE GateInv
  OBVIOUS
<1>1. G!TypeOK
  BY DEF G!Init, G!TypeOK, G!Steps
<1>2. Counts
  <2>1. Sessions = {}
    BY DEF G!Init, Sessions, G!Session
  <2> QED
    BY <2>1, FS_EmptySet DEF G!Init, Counts
<1>3. Room
  <2>1. G!Handshakes = {}
    BY DEF G!Init, G!Handshakes
  <2> QED
    BY <2>1, FS_EmptySet DEF G!Init, Room, G!GatewayAssumption
<1> QED
  BY <1>1, <1>2, <1>3 DEF GateInv

LEMMA GateNext == GateInv /\ [G!Next]_G!vars => GateInv'
BY GateTypes, GateCounts, GateRoom DEF GateInv

LEMMA GateLimit == GateInv => G!LimitHolds
<1> SUFFICES ASSUME GateInv PROVE G!LimitHolds
  OBVIOUS
<1>1. active = G!Cardinality({r \in Requests : G!Session(r)})
  BY SameCardinality DEF GateInv, Counts, Sessions
<1>2. active <= MaxSessions + beside
  BY HandshakesFinite DEF GateInv, Room, G!GatewayAssumption, G!TypeOK
<1> QED
  BY <1>1, <1>2 DEF G!LimitHolds

-----------------------------------------------------------------------------
(* The player *)

LEMMA PlayerInit == P!PlayerAssumption /\ P!Init => P!TypeOK
<1> SUFFICES ASSUME P!PlayerAssumption, P!Init PROVE P!TypeOK
  OBVIOUS
<1>1. 0 \in 0..Length /\ 0 \in 0..MaxPlayerFaults /\ 0 \in 0..MaxPlayerActs /\ 0 \in 0..2 /\ 0 \in 0..1
  BY DEF P!PlayerAssumption
<1>2. setting \in P!Settings /\ video \in P!Videos
  BY <1>1 DEF P!Init, P!Videos
<1>3. P!StartAt(video) \in 0..Length
  BY <1>1, <1>2 DEF P!StartAt, P!Settings, P!Videos
<1>4. engine \in P!Engines
  BY <1>1, <1>3 DEF P!Init, P!Engines
<1>5. around \in P!Arounds
  BY <1>2 DEF P!Init, P!Arounds, P!Settings
<1> QED
  BY <1>1, <1>2, <1>4, <1>5 DEF P!Init, P!TypeOK

LEMMA TryPlayType ==
  ASSUME NEW v \in P!Videos, NEW policy
  PROVE  /\ P!TryPlay(v, policy) \in P!Videos
         /\ v.userPaused => P!TryPlay(v, policy) = v
         /\ P!TryPlay(v, policy).userPaused = v.userPaused
<1>1. CASE v.userPaused
  BY <1>1 DEF P!TryPlay
<1>2. CASE ~v.userPaused
  <2>1. \A w \in P!Videos : P!Playing(w) \in P!Videos /\ P!Playing(w).userPaused = w.userPaused
    BY DEF P!Playing, P!Videos
  <2>2. LET w == [v EXCEPT !.muted = TRUE] IN w \in P!Videos /\ w.userPaused = v.userPaused
    BY DEF P!Videos
  <2>3. LET w == [v EXCEPT !.gesture = TRUE, !.muted = TRUE]
        IN  w \in P!Videos /\ w.userPaused = v.userPaused
    BY DEF P!Videos
  <2> QED
    BY <1>2, <2>1, <2>2, <2>3 DEF P!TryPlay, P!Played
<1> QED
  BY <1>1, <1>2

\* A rebuilt engine stops the element and starts somewhere in the recording.
LEMMA RecreateTypes ==
  ASSUME P!PlayerAssumption, P!TypeOK, P!Recreate
  PROVE  video' \in P!Videos /\ engine' \in P!Engines /\ video'.paused
<1>1. 0 \in 0..Length /\ 0 \in 0..2
  BY DEF P!PlayerAssumption
<1>2. P!Detached(video) \in P!Videos /\ P!Detached(video).paused
  BY <1>1 DEF P!Detached, P!Videos, P!TypeOK
<1>3. P!StartAt(P!Detached(video)) \in 0..Length
  BY <1>1, <1>2 DEF P!StartAt, P!Settings, P!Videos, P!TypeOK
<1>4. 1 - engine.generation \in 0..1
  BY DEF P!TypeOK, P!Engines
<1> QED
  BY <1>1, <1>2, <1>3, <1>4 DEF P!Recreate, P!Engines

\* What the viewer paused is played only when he takes the pause back.
Kept == video.userPaused /\ video.paused => video'.paused \/ ~video'.userPaused

LEMMA EngineSteps ==
  ASSUME P!PlayerAssumption, P!TypeOK,
         \/ P!Parsed \/ P!FragLoaded \/ P!Progress \/ P!Ended
         \/ P!NetworkError \/ P!MediaError \/ P!ErrorsExpire \/ P!OtherError
         \/ P!IncompatibleCodecs \/ P!Stall \/ P!RetryFires \/ P!Watchdog
  PROVE  P!TypeOK' /\ Kept
<1> USE DEF P!TypeOK, P!PlayerAssumption
<1>1. faults < MaxPlayerFaults => faults + 1 \in 0..MaxPlayerFaults
  OBVIOUS
<1>2. CASE P!Parsed
  <2> DEFINE v == [video EXCEPT !.pos = engine.startAt]
  <2>1. v \in P!Videos /\ v.userPaused = video.userPaused /\ v.paused = video.paused
    BY DEF P!Videos, P!Engines
  <2>2. video' = P!TryPlay(v, setting.autoplay)
    BY <1>2 DEF P!Parsed
  <2> HIDE DEF v
  <2>3. video' \in P!Videos /\ Kept
    BY <2>1, <2>2, TryPlayType DEF Kept
  <2> QED
    BY <1>2, <2>3 DEF P!Parsed, P!Engines
<1>3. CASE P!FragLoaded \/ P!ErrorsExpire \/ P!IncompatibleCodecs \/ P!Stall
  <2>1. engine' \in P!Engines
    BY <1>3 DEF P!FragLoaded, P!ErrorsExpire, P!IncompatibleCodecs, P!Stall, P!Engines
  <2> QED
    BY <1>1, <1>3, <2>1 DEF P!FragLoaded, P!ErrorsExpire, P!IncompatibleCodecs, P!Stall, Kept
<1>4. CASE P!Progress \/ P!Ended
  <2>1. video' \in P!Videos
    <3>1. video.pos < Length => video.pos + 1 \in 0..Length
      BY DEF P!Videos
    <3>2. CASE P!Progress
      BY <3>1, <3>2 DEF P!Progress, P!Videos
    <3>3. CASE P!Ended
      BY <3>3 DEF P!Ended, P!Videos
    <3> QED
      BY <1>4, <3>2, <3>3
  <2>2. ~video.paused
    BY <1>4 DEF P!Progress, P!Ended
  <2> QED
    BY <1>4, <2>1, <2>2 DEF P!Progress, P!Ended, Kept
<1>5. CASE P!NetworkError \/ P!OtherError
  <2>1. engine' \in P!Engines
    BY <1>5 DEF P!NetworkError, P!OtherError, P!Schedule, P!Engines
  <2> QED
    BY <1>1, <1>5, <2>1 DEF P!NetworkError, P!OtherError, Kept
<1>6. CASE P!MediaError
  <2>1. engine' \in P!Engines
    <3>1. engine.errors # 2 => engine.errors + 1 \in 0..2
      BY DEF P!Engines
    <3>2. [engine EXCEPT !.at = "failed", !.retry = "recreate"] \in P!Engines
      BY DEF P!Engines
    <3>3. engine.errors # 2 => [engine EXCEPT !.at = "ready", !.errors = @ + 1] \in P!Engines
      BY <3>1 DEF P!Engines
    <3> QED
      BY <1>6, <3>2, <3>3 DEF P!MediaError, P!Schedule
  <2>2. video' \in P!Videos /\ (video.paused => video'.paused)
    BY <1>6 DEF P!MediaError, P!Videos, P!Settings
  <2> QED
    BY <1>1, <1>6, <2>1, <2>2 DEF P!MediaError, Kept
<1>7. CASE P!RetryFires
  <2>1. CASE P!Recreate
    BY <1>7, <2>1, RecreateTypes DEF P!RetryFires, Kept
  <2>2. CASE engine' = [engine EXCEPT !.at = "ready", !.retry = "none"] /\ UNCHANGED video
    <3>1. engine' \in P!Engines
      BY <2>2 DEF P!Engines
    <3> QED
      BY <1>7, <2>2, <3>1 DEF P!RetryFires, Kept
  <2> QED
    BY <1>7, <2>1, <2>2 DEF P!RetryFires
<1>8. CASE P!Watchdog
  BY <1>8, RecreateTypes DEF P!Watchdog, Kept
<1> QED
  BY <1>2, <1>3, <1>4, <1>5, <1>6, <1>7, <1>8

LEMMA ViewerSteps ==
  ASSUME P!PlayerAssumption, P!TypeOK, P!Controls \/ P!Retry \/ P!Surroundings
  PROVE  P!TypeOK' /\ Kept
<1> USE DEF P!TypeOK, P!PlayerAssumption
<1>1. acts' \in 0..MaxPlayerActs
  BY DEF P!Controls, P!Keyboard, P!TogglePlay, P!GoLive, P!SetSound, P!SeekTo, P!Retry,
         P!Surroundings, P!Acts
<1>2. [setting EXCEPT !.autoplay = "any"] \in P!Settings
  BY DEF P!Settings
<1>3. 0 \in 0..Length
  OBVIOUS
<1>4. CASE P!TogglePlay
  <2>1. P!Rewound(video) \in P!Videos /\ ~P!Rewound(video).userPaused
    BY <1>3 DEF P!Rewound, P!Videos
  <2>2. video' \in P!Videos /\ (video.paused => ~video'.userPaused)
    <3>1. CASE video.paused
      BY <1>4, <2>1, <3>1, TryPlayType DEF P!TogglePlay
    <3>2. CASE ~video.paused
      BY <1>4, <3>2 DEF P!TogglePlay, P!Videos
    <3> QED
      BY <3>1, <3>2
  <2> QED
    BY <1>1, <1>2, <1>4, <2>2 DEF P!TogglePlay, Kept
<1>5. CASE P!GoLive
  <2> DEFINE v == [video EXCEPT !.userPaused = FALSE]
  <2>1. v \in P!Videos /\ ~v.userPaused
    BY DEF P!Videos
  <2>2. video' = P!TryPlay(v, "any")
    BY <1>5 DEF P!GoLive
  <2> HIDE DEF v
  <2>3. video' \in P!Videos /\ ~video'.userPaused
    BY <2>1, <2>2, TryPlayType
  <2> QED
    BY <1>1, <1>2, <1>5, <2>3 DEF P!GoLive, Kept
<1>6. CASE P!SetSound
  <2> DEFINE v == [video EXCEPT !.muted = ~@]
  <2>1. v \in P!Videos /\ v.userPaused = video.userPaused /\ v.paused = video.paused
    BY DEF P!Videos
  <2>2. video' = IF ~v.muted /\ v.paused /\ ~v.userPaused THEN P!TryPlay(v, "any") ELSE v
    BY <1>6 DEF P!SetSound
  <2> HIDE DEF v
  <2>3. video' \in P!Videos /\ (video.userPaused => video'.paused = video.paused)
    BY <2>1, <2>2, TryPlayType
  <2> QED
    BY <1>1, <1>2, <1>6, <2>3 DEF P!SetSound, Kept
<1>7. CASE P!SeekTo
  <2>1. video' \in P!Videos /\ video'.paused = video.paused
    BY <1>7 DEF P!SeekTo, P!Videos
  <2> QED
    BY <1>1, <1>7, <2>1 DEF P!SeekTo, Kept
<1>8. CASE P!Retry
  BY <1>1, <1>8, RecreateTypes DEF P!Retry, Kept
<1>9. CASE P!Surroundings
  <2>1. around' \in P!Arounds
    BY <1>9 DEF P!Surroundings, P!Arounds
  <2> QED
    BY <1>1, <1>9, <2>1 DEF P!Surroundings, Kept
<1> QED
  BY <1>4, <1>5, <1>6, <1>7, <1>8, <1>9 DEF P!Controls, P!Keyboard

LEMMA PlayerNext == P!PlayerAssumption /\ P!TypeOK /\ [P!Next]_P!vars => P!TypeOK' /\ (Kept \/ UNCHANGED P!vars)
<1> SUFFICES ASSUME P!PlayerAssumption, P!TypeOK, [P!Next]_P!vars
             PROVE  P!TypeOK' /\ (Kept \/ UNCHANGED P!vars)
  OBVIOUS
<1>1. CASE UNCHANGED P!vars
  BY <1>1 DEF P!vars, P!TypeOK
<1>2. CASE P!Next
  BY <1>2, EngineSteps, ViewerSteps DEF P!Next
<1> QED
  BY <1>1, <1>2

-----------------------------------------------------------------------------
(* The control loop's rounds *)

\* The sources that have been on air.
Aired == {s \in Sources : air[s] # "new"}

\* Sources have a newest one, whichever of those that have been on air they are.
HasNewest == \A S \in SUBSET Aired : S # {} => \E m \in S : \A s \in S : s <= m

\* Whatever speaks of a source speaks of one that has been on air.
OfAired ==
  /\ row.status = "live" => row.source \in Aired
  /\ \A h \in hooks : h.source \in Aired
  /\ round.seen \subseteq Aired

UpIsKnown == \A n \in Nodes : node[n].reach = "up" => node[n].known

\* Of a source that was there all the time the round has heard or is to hear.
HeardOf ==
  round.at = "asking" =>
    /\ \A s \in round.began \ round.lost :
         R!Reachable(s) /\ (NodeOf[s] \in round.asked \/ s \in round.seen)
    /\ round.snap.status = "live" => round.snap.source \in round.began \cup round.lost

LoopInv == R!TypeOK /\ HasNewest /\ OfAired /\ UpIsKnown /\ HeardOf

LEMMA LoopInit == R!ReconcilerAssumption /\ R!Init => LoopInv
<1> SUFFICES ASSUME R!ReconcilerAssumption, R!Init PROVE LoopInv
  OBVIOUS
<1> USE DEF R!Init, R!ReconcilerAssumption
<1>1. 0 \in 0..MaxFailures /\ 0 \in 0..MaxMishaps
  OBVIOUS
<1>2. R!TypeOK
  <2>1. R!NoRow \in R!Rows
    BY DEF R!NoRow, R!Rows
  <2>2. R!Idle \in R!Rounds
    BY <2>1 DEF R!Idle, R!Rounds
  <2>3. node \in [Nodes -> R!NodeStates]
    BY DEF R!NodeStates
  <2> QED
    BY <1>1, <2>1, <2>2, <2>3 DEF R!TypeOK
<1>3. Aired = {}
  BY DEF Aired
<1>4. HasNewest
  BY <1>3 DEF HasNewest
<1>5. OfAired /\ UpIsKnown /\ HeardOf
  BY DEF OfAired, UpIsKnown, HeardOf, R!NoRow, R!Idle
<1> QED
  BY <1>2, <1>4, <1>5 DEF LoopInv

\* A source takes no part in a round that loses it.
LEMMA LostRound ==
  ASSUME R!TypeOK, NEW S \in SUBSET Sources, round' = R!Lost(S)
  PROVE  /\ round' \in R!Rounds
         /\ round'.at = round.at /\ round'.snap = round.snap /\ round'.began = round.began
         /\ round'.asked = round.asked /\ round'.seen = round.seen
         /\ round.at = "asking" => round'.lost = round.lost \cup S
<1>1. round \in R!Rounds
  BY DEF R!TypeOK
<1>2. CASE round.at = "idle"
  BY <1>1, <1>2 DEF R!Lost
<1>3. CASE round.at # "idle"
  BY <1>1, <1>3 DEF R!Lost, R!Rounds
<1> QED
  BY <1>2, <1>3

LEMMA PublishKeeps ==
  ASSUME R!ReconcilerAssumption, LoopInv, NEW s \in Sources, R!Publish(s)
  PROVE  LoopInv'
<1> USE DEF LoopInv, R!TypeOK, R!Publish
<1>1. Aired' = Aired \cup {s}
  BY DEF Aired
<1>2. R!TypeOK'
  <2>1. [op |-> "online", source |-> s] \in R!Hooks
    BY DEF R!Hooks
  <2> QED
    BY <2>1
<1>3. HasNewest'
  <2> SUFFICES ASSUME NEW S \in SUBSET (Aired \cup {s}), S # {}
               PROVE  \E m \in S : \A q \in S : q <= m
    BY <1>1 DEF HasNewest
  <2>1. S \subseteq Nat
    BY DEF Aired, R!ReconcilerAssumption
  <2>2. CASE S \ {s} = {}
    <3>1. S = {s}
      BY <2>2
    <3>2. s <= s
      BY <2>1, <3>1
    <3> QED
      BY <3>1, <3>2
  <2>3. CASE S \ {s} # {}
    <3>1. PICK m \in S \ {s} : \A q \in S \ {s} : q <= m
      BY <2>3 DEF HasNewest
    <3>2. CASE s \in S /\ m <= s
      BY <2>1, <3>1, <3>2
    <3>3. CASE s \notin S
      BY <3>1, <3>3
    <3>4. CASE s \in S /\ s <= m
      BY <3>1, <3>4
    <3> QED
      BY <2>1, <3>1, <3>2, <3>3, <3>4
  <2> QED
    BY <2>2, <2>3
<1>4. OfAired'
  BY <1>1 DEF OfAired
<1>5. UpIsKnown'
  BY DEF UpIsKnown
<1>6. HeardOf'
  BY DEF HeardOf, R!Reachable, R!On
<1> QED
  BY <1>2, <1>3, <1>4, <1>5, <1>6

\* A publisher leaves, or a node fails with its publishers or without them.
LEMMA LossKeeps ==
  ASSUME R!ReconcilerAssumption, LoopInv,
         \/ \E s \in Sources : R!Unpublish(s)
         \/ \E n \in Nodes : R!NodeFails(n)
  PROVE  LoopInv'
<1> USE DEF LoopInv, R!TypeOK
<1>1. ASSUME NEW s \in Sources, R!Unpublish(s)
      PROVE  LoopInv'
  <2> USE <1>1 DEF R!Unpublish
  <2>1. Aired' = Aired
    BY DEF Aired, R!On
  <2>2. [op |-> "offline", source |-> s] \in R!Hooks /\ s \in Aired
    BY DEF R!Hooks, R!On, Aired
  <2>3. round' = R!Lost({s})
    OBVIOUS
  <2>4. /\ round' \in R!Rounds
        /\ round'.at = round.at /\ round'.snap = round.snap /\ round'.began = round.began
        /\ round'.asked = round.asked /\ round'.seen = round.seen
        /\ round.at = "asking" => round'.lost = round.lost \cup {s}
    BY <2>3, LostRound
  <2>5. R!TypeOK'
    BY <2>2, <2>4
  <2>6. HasNewest' /\ OfAired' /\ UpIsKnown'
    BY <2>1, <2>2, <2>4 DEF HasNewest, OfAired, UpIsKnown
  <2>7. \A q \in Sources : R!Reachable(q) /\ q # s => R!Reachable(q)'
    BY DEF R!Reachable, R!On
  <2>8. round.began \subseteq Sources
    BY DEF R!Rounds
  <2>9. HeardOf'
    BY <2>4, <2>7, <2>8 DEF HeardOf
  <2> QED
    BY <2>5, <2>6, <2>9
<1>2. ASSUME NEW n \in Nodes, R!NodeFails(n)
      PROVE  LoopInv'
  <2> DEFINE S == {s \in Sources : R!On(s) /\ NodeOf[s] = n}
  <2>1. PICK reach \in {"cut", "gone"}, lost \in SUBSET S :
          /\ node' = [node EXCEPT ![n].reach = reach]
          /\ air' = [s \in Sources |-> IF s \in lost THEN "gone" ELSE air[s]]
    BY <1>2 DEF R!NodeFails
  <2>2. Aired' = Aired
    BY <2>1 DEF Aired, R!On
  <2>3. round' = R!Lost(S)
    BY <1>2 DEF R!NodeFails
  <2>4. /\ round' \in R!Rounds
        /\ round'.at = round.at /\ round'.snap = round.snap /\ round'.began = round.began
        /\ round'.asked = round.asked /\ round'.seen = round.seen
        /\ round.at = "asking" => round'.lost = round.lost \cup S
    BY <2>3, LostRound
  <2>5. UNCHANGED <<row, hooks, failures>> /\ mishaps' \in 0..MaxMishaps
    BY <1>2 DEF R!NodeFails, R!Fault, R!ReconcilerAssumption
  <2>6. node' \in [Nodes -> R!NodeStates] /\ air' \in [Sources -> {"new", "on", "gone"}]
    BY <2>1 DEF R!NodeStates
  <2>7. R!TypeOK'
    BY <2>4, <2>5, <2>6
  <2>8. HasNewest' /\ OfAired'
    BY <2>2, <2>4, <2>5 DEF HasNewest, OfAired
  <2>9. UpIsKnown'
    BY <2>1 DEF UpIsKnown, R!NodeStates
  <2>10. \A q \in Sources : R!Reachable(q) /\ q \notin S => R!Reachable(q)'
    <3> SUFFICES ASSUME NEW q \in Sources, R!Reachable(q), q \notin S
                 PROVE  R!Reachable(q)'
      OBVIOUS
    <3>1. air[q] = "on" /\ NodeOf[q] # n /\ NodeOf[q] \in Nodes
      BY DEF R!Reachable, R!On, R!ReconcilerAssumption
    <3> QED
      BY <2>1, <3>1 DEF R!Reachable, R!On
  <2>11. round.began \subseteq Sources
    BY DEF R!Rounds
  <2> HIDE DEF S
  <2>12. HeardOf'
    BY <2>4, <2>10, <2>11 DEF HeardOf
  <2> QED
    BY <2>7, <2>8, <2>9, <2>12
<1> QED
  BY <1>1, <1>2

LEMMA NodeKeeps ==
  ASSUME R!ReconcilerAssumption, LoopInv, NEW n \in Nodes, R!NodeReturns(n) \/ R!FallsSilent(n)
  PROVE  LoopInv'
<1> USE DEF LoopInv, R!TypeOK
<1>1. node' \in [Nodes -> R!NodeStates]
  <2>1. [reach |-> "up", silent |-> FALSE, known |-> TRUE] \in R!NodeStates
    BY DEF R!NodeStates
  <2>2. [node[n] EXCEPT !.silent = TRUE, !.known = ~node[n].silent] \in R!NodeStates
    BY DEF R!NodeStates
  <2>3. CASE R!NodeReturns(n)
    BY <2>1, <2>3 DEF R!NodeReturns
  <2>4. CASE R!FallsSilent(n)
    <3>1. node' = [node EXCEPT ![n] = [node[n] EXCEPT !.silent = TRUE, !.known = ~node[n].silent]]
      BY <2>4 DEF R!FallsSilent
    <3> QED
      BY <2>2, <3>1
  <2> QED
    BY <2>3, <2>4
<1>2. UNCHANGED <<air, row, hooks, failures, round, mishaps>>
  BY DEF R!NodeReturns, R!FallsSilent
<1>3. \A m \in Nodes : /\ node[m].reach = "up" => node'[m].reach = "up"
                       /\ node'[m].reach = "up" => node'[m].known
  BY DEF R!NodeReturns, R!FallsSilent, R!NodeStates, UpIsKnown
<1>4. HasNewest' /\ OfAired' /\ UpIsKnown'
  BY <1>2, <1>3 DEF HasNewest, OfAired, UpIsKnown, Aired
<1>5. \A q \in Sources : R!Reachable(q) => R!Reachable(q)'
  BY <1>2, <1>3 DEF R!Reachable, R!On, R!ReconcilerAssumption
<1>6. round.began \subseteq Sources
  BY DEF R!Rounds
<1>7. HeardOf'
  BY <1>2, <1>5, <1>6 DEF HeardOf
<1> QED
  BY <1>1, <1>2, <1>4, <1>7

\* The handlers touch the row only, and the round's judgement below as well.
LEMMA RowKeeps ==
  ASSUME LoopInv, row' \in R!Rows, row'.status = "live" => row'.source \in Aired,
         hooks' \subseteq hooks, UNCHANGED <<air, node, failures, round, mishaps>>
  PROVE  LoopInv'
<1> USE DEF LoopInv
<1>1. R!TypeOK'
  BY DEF R!TypeOK
<1>2. Aired' = Aired
  BY DEF Aired
<1>3. HasNewest' /\ OfAired' /\ UpIsKnown'
  BY <1>2 DEF HasNewest, OfAired, UpIsKnown
<1>4. HeardOf'
  BY DEF HeardOf, R!Reachable, R!On
<1> QED
  BY <1>1, <1>3, <1>4

LEMMA OnlineType ==
  ASSUME NEW s \in Aired
  PROVE  R!OnlineRow(s) \in R!Rows /\ R!OnlineRow(s).status = "live" /\ R!OnlineRow(s).source = s
BY DEF R!OnlineRow, R!Rows, Aired

LEMMA OfflineType ==
  ASSUME R!TypeOK, NEW s
  PROVE  /\ R!OfflineRow(s) \in R!Rows
         /\ R!OfflineRow(s).status = "live" => row.status = "live" /\ R!OfflineRow(s) = row
         /\ row.status = "live" /\ row.source # s => R!OfflineRow(s) = row
BY DEF R!OfflineRow, R!Rows, R!TypeOK

LEMMA HandlerKeeps ==
  ASSUME LoopInv, (\E h \in R!Hooks : R!Hook(h) \/ R!LoseHook(h)) \/ R!Expire
  PROVE  LoopInv'
<1>1. R!TypeOK /\ OfAired
  BY DEF LoopInv
<1>2. ASSUME NEW h \in R!Hooks, R!Hook(h) PROVE LoopInv'
  <2>1. h.source \in Aired
    BY <1>1, <1>2 DEF R!Hook, OfAired
  <2>2. row' = R!OnlineRow(h.source) \/ row' = R!OfflineRow(h.source)
    BY <1>2 DEF R!Hook
  <2>3. row' \in R!Rows /\ (row'.status = "live" => row'.source \in Aired)
    BY <1>1, <2>1, <2>2, OnlineType, OfflineType DEF OfAired
  <2> QED
    BY <1>2, <2>3, RowKeeps DEF R!Hook
<1>3. ASSUME NEW h \in R!Hooks, R!LoseHook(h) PROVE LoopInv'
  BY <1>1, <1>3, RowKeeps DEF R!LoseHook, R!TypeOK, OfAired
<1>4. CASE R!Expire
  <2>1. row' \in R!Rows /\ row'.status # "live"
    BY <1>4 DEF R!Expire, R!NoRow, R!Rows
  <2> QED
    BY <1>4, <2>1, RowKeeps DEF R!Expire
<1> QED
  BY <1>2, <1>3, <1>4

LEMMA BeginKeeps ==
  ASSUME R!ReconcilerAssumption, LoopInv, R!Begin
  PROVE  LoopInv'
<1> USE DEF LoopInv, R!TypeOK
<1> DEFINE known == {n \in Nodes : node[n].known}
           began == {s \in Sources : R!Reachable(s)}
           lost  == {s \in Sources : air[s] # "new" /\ ~R!Reachable(s)}
<1>1. round' = [at |-> "asking", snap |-> row, known |-> known, asked |-> known, responded |-> {},
                dead |-> {}, seen |-> {}, began |-> began, lost |-> lost]
  BY DEF R!Begin, R!Idle
<1>2. UNCHANGED <<air, node, row, hooks, failures, mishaps>>
  BY DEF R!Begin
<1>3. R!TypeOK'
  BY <1>1, <1>2 DEF R!Rounds
<1>4. HasNewest' /\ OfAired' /\ UpIsKnown'
  BY <1>1, <1>2 DEF HasNewest, OfAired, UpIsKnown, Aired
<1>5. \A s \in began : R!Reachable(s)' /\ NodeOf[s] \in known
  BY <1>2 DEF R!Reachable, R!On, UpIsKnown, R!ReconcilerAssumption
<1>6. row.status = "live" => row.source \in began \cup lost
  BY DEF OfAired, Aired
<1> HIDE DEF known, began, lost
<1>7. HeardOf'
  BY <1>1, <1>2, <1>5, <1>6 DEF HeardOf
<1> QED
  BY <1>3, <1>4, <1>7

\* A node that answers tells of the round's sources on it; one that does not has none of them.
LEMMA AskKeeps ==
  ASSUME R!ReconcilerAssumption, LoopInv, NEW n \in Nodes, R!Answer(n) \/ R!NoAnswer(n)
  PROVE  LoopInv'
<1> USE DEF LoopInv, R!TypeOK
<1>1. round \in R!Rounds /\ n \in round.asked
  BY DEF R!Answer, R!NoAnswer
<1>2. UNCHANGED <<air, node, row, hooks, mishaps>>
  BY DEF R!Answer, R!NoAnswer
<1>3. failures' \in [Nodes -> 0..MaxFailures]
  <2>1. 0 \in 0..MaxFailures /\ MaxFailures \in 0..MaxFailures
    BY DEF R!ReconcilerAssumption
  <2>2. failures[n] \in 0..MaxFailures
    OBVIOUS
  <2>3. failures[n] + 1 > MaxFailures \/ failures[n] + 1 \in 0..MaxFailures
    BY <2>2 DEF R!ReconcilerAssumption
  <2> QED
    BY <2>1, <2>3 DEF R!Answer, R!NoAnswer
<1>4. /\ round' \in R!Rounds
      /\ round'.at = round.at /\ round'.snap = round.snap /\ round'.began = round.began
      /\ round'.lost = round.lost /\ round'.asked = round.asked \ {n}
  <2>1. CASE R!Answer(n)
    BY <1>1, <2>1 DEF R!Answer, R!Rounds
  <2>2. CASE R!NoAnswer(n)
    BY <1>1, <2>2 DEF R!NoAnswer, R!Rounds
  <2> QED
    BY <2>1, <2>2
<1>5. round'.seen = IF R!Answer(n)
                    THEN round.seen \cup {s \in Sources : R!On(s) /\ NodeOf[s] = n}
                    ELSE round.seen
  BY <1>1 DEF R!Answer, R!NoAnswer, R!Rounds
<1>6. R!TypeOK'
  BY <1>2, <1>3, <1>4
<1>7. HasNewest' /\ UpIsKnown'
  BY <1>2 DEF HasNewest, UpIsKnown, Aired
<1>8. OfAired'
  <2>1. round'.seen \subseteq Aired
    BY <1>5 DEF OfAired, Aired, R!On
  <2> QED
    BY <1>2, <2>1 DEF OfAired, Aired
<1>9. HeardOf'
  <2> SUFFICES ASSUME round.at = "asking", NEW s \in round.began \ round.lost
               PROVE  R!Reachable(s)' /\ (NodeOf[s] \in round'.asked \/ s \in round'.seen)
    BY <1>4 DEF HeardOf
  <2>1. s \in Sources /\ R!Reachable(s) /\ (NodeOf[s] \in round.asked \/ s \in round.seen)
    BY <1>1 DEF HeardOf, R!Rounds
  <2>2. R!Reachable(s)'
    BY <1>2, <2>1 DEF R!Reachable, R!On
  <2>3. CASE NodeOf[s] = n
    <3>1. R!Answer(n)
      BY <2>1, <2>3 DEF R!NoAnswer, R!Reachable
    <3> QED
      BY <1>5, <2>1, <2>2, <2>3, <3>1 DEF R!Reachable
  <2>4. CASE NodeOf[s] # n
    BY <1>4, <1>5, <2>1, <2>2, <2>4
  <2> QED
    BY <2>3, <2>4
<1> QED
  BY <1>6, <1>7, <1>8, <1>9

\* What the round makes of the row.
Unflapped ==
  row.status = "live" /\ row.source \notin round.lost
    => row'.status = "live" /\ (row.source \in round.began => row'.source >= row.source)

LEMMA NewestSeen ==
  ASSUME LoopInv, round.seen # {}
  PROVE  /\ R!Newest(round.seen) \in round.seen
         /\ \A s \in round.seen : R!Newest(round.seen) >= s
<1>1. round.seen \in SUBSET Aired
  BY DEF LoopInv, OfAired
<1>2. \E m \in round.seen : \A s \in round.seen : s <= m
  BY <1>1 DEF LoopInv, HasNewest
<1> QED
  BY <1>2 DEF R!Newest, R!Max

LEMMA JudgeKeeps ==
  ASSUME R!ReconcilerAssumption, LoopInv, R!Judge
  PROVE  LoopInv' /\ Unflapped
<1> DEFINE b == round.snap
<1>1. R!TypeOK /\ OfAired /\ HeardOf
  BY DEF LoopInv
<1>2. round.at = "asking" /\ round.asked = {} /\ row' = R!Judged(b)
  BY DEF R!Judge
<1>3. round \in R!Rounds /\ round.seen \subseteq Aired /\ b \in R!Rows
  BY <1>1 DEF R!TypeOK, OfAired, R!Rounds
<1>4. \A s \in round.began \ round.lost : s \in round.seen
  BY <1>1, <1>2 DEF HeardOf
\* It stays, it goes to the newest seen, or it is lost when none is seen.
<1>5. \/ row' = row
      \/ round.seen # {} /\ row' = R!OnlineRow(R!Newest(round.seen))
      \/ round.seen = {} /\ b.status = "live" /\ row' = R!OfflineRow(b.source)
  BY <1>2 DEF R!Judged
<1>6. row' \in R!Rows /\ (row'.status = "live" => row'.source \in Aired)
  <2>1. CASE row' = row
    BY <1>1, <2>1 DEF R!TypeOK, OfAired
  <2>2. CASE round.seen # {} /\ row' = R!OnlineRow(R!Newest(round.seen))
    BY <1>3, <2>2, NewestSeen, OnlineType
  <2>3. CASE row' = R!OfflineRow(b.source)
    BY <1>1, <2>3, OfflineType DEF OfAired
  <2> QED
    BY <1>5, <2>1, <2>2, <2>3
<1>7. Unflapped
  <2> SUFFICES ASSUME row.status = "live", row.source \notin round.lost
               PROVE  row'.status = "live" /\ (row.source \in round.began => row'.source >= row.source)
    BY DEF Unflapped
  <2>1. row.source \in Nat
    BY <1>1 DEF OfAired, Aired, R!ReconcilerAssumption
  <2>2. CASE row' = row
    BY <2>1, <2>2
  <2>3. CASE round.seen # {} /\ row' = R!OnlineRow(R!Newest(round.seen))
    <3>1. row'.status = "live" /\ row'.source = R!Newest(round.seen)
      BY <2>3 DEF R!OnlineRow
    <3> QED
      BY <1>4, <2>3, <3>1, NewestSeen
  <2>4. CASE round.seen = {} /\ b.status = "live" /\ row' = R!OfflineRow(b.source)
    <3>1. b.source \in round.began \cup round.lost
      BY <1>1, <1>2, <2>4 DEF HeardOf
    <3>2. b.source \in round.lost
      BY <1>4, <2>4, <3>1
    <3>3. row' = row
      BY <1>1, <2>4, <3>2, OfflineType
    <3> QED
      BY <2>1, <3>3
  <2> QED
    BY <1>5, <2>2, <2>3, <2>4
<1>8. round' = R!Idle /\ UNCHANGED <<air, node, hooks, failures, mishaps>>
  BY DEF R!Judge
<1> HIDE DEF b
<1>9. R!Idle \in R!Rounds /\ R!Idle.at = "idle" /\ R!Idle.seen = {}
  BY DEF R!Idle, R!Rounds, R!NoRow, R!Rows
<1>10. R!TypeOK'
  BY <1>1, <1>6, <1>8, <1>9 DEF R!TypeOK
<1>11. Aired' = Aired
  BY <1>8 DEF Aired
<1>12. HasNewest' /\ OfAired' /\ UpIsKnown'
  BY <1>6, <1>8, <1>9, <1>11 DEF LoopInv, HasNewest, OfAired, UpIsKnown
<1>13. HeardOf'
  BY <1>8, <1>9 DEF HeardOf
<1> QED
  BY <1>7, <1>10, <1>12, <1>13 DEF LoopInv

LEMMA LeaderKeeps ==
  ASSUME R!ReconcilerAssumption, LoopInv, R!NewLeader
  PROVE  LoopInv'
<1>1. failures' \in [Nodes -> 0..MaxFailures]
  <2>1. 0 \in 0..MaxFailures
    BY DEF R!ReconcilerAssumption
  <2> QED
    BY <2>1 DEF R!NewLeader
<1>2. mishaps' \in 0..MaxMishaps
  BY DEF R!NewLeader, R!Fault, R!ReconcilerAssumption, LoopInv, R!TypeOK
<1>3. UNCHANGED <<air, node, row, hooks, round>>
  BY DEF R!NewLeader
<1>4. R!TypeOK'
  BY <1>1, <1>2, <1>3 DEF LoopInv, R!TypeOK
<1>5. HasNewest' /\ OfAired' /\ UpIsKnown' /\ HeardOf'
  BY <1>3 DEF LoopInv, HasNewest, OfAired, UpIsKnown, HeardOf, Aired, R!Reachable, R!On
<1> QED
  BY <1>4, <1>5 DEF LoopInv

LEMMA LoopNext ==
  R!ReconcilerAssumption /\ LoopInv /\ [R!Next]_R!vars => LoopInv' /\ (R!Judge => Unflapped)
<1> SUFFICES ASSUME R!ReconcilerAssumption, LoopInv, [R!Next]_R!vars
             PROVE  LoopInv' /\ (R!Judge => Unflapped)
  OBVIOUS
<1>1. R!Judge => Unflapped
  BY JudgeKeeps
<1>2. CASE UNCHANGED R!vars
  <2>1. UNCHANGED <<air, node, row, hooks, failures, round, mishaps>>
    BY <1>2 DEF R!vars
  <2>2. row' \in R!Rows /\ (row'.status = "live" => row'.source \in Aired) /\ hooks' \subseteq hooks
    BY <2>1 DEF LoopInv, R!TypeOK, OfAired
  <2> QED
    BY <1>1, <2>1, <2>2, RowKeeps
<1>3. CASE R!Next
  BY <1>3, PublishKeeps, LossKeeps, NodeKeeps, HandlerKeeps, BeginKeeps, AskKeeps, JudgeKeeps,
     LeaderKeeps DEF R!Next
<1> QED
  BY <1>1, <1>2, <1>3

-----------------------------------------------------------------------------
(* The runs' specification, where one of them is at work and the others rest *)

LEMMA RestingPage == PageRests => IInv
<1> SUFFICES ASSUME PageRests PROVE IInv
  OBVIOUS
<1>1. 0 \in Versions /\ 0 \in 0..MaxFaults /\ 0 \in 0..MaxActs
  BY ChannelPageAssumption DEF Versions
<1>2. channel \in Channels /\ page \in Pages /\ stream \in Streams /\ loads \subseteq Loads
  BY <1>1 DEF PageRests, Channels, Pages, Streams
<1> QED
  BY <1>1, <1>2 DEF PageRests, IInv, TypeOK, Healthy, StreamHasLastWord

LEMMA RestingPlayer == PlayerRests => P!TypeOK
<1> SUFFICES ASSUME PlayerRests PROVE P!TypeOK
  OBVIOUS
<1>1. 0 \in 0..Length /\ 0 \in 0..MaxPlayerFaults /\ 0 \in 0..MaxPlayerActs
  BY EndsAssumption DEF P!PlayerAssumption
<1>2. setting \in P!Settings /\ engine \in P!Engines /\ video \in P!Videos /\ around \in P!Arounds
  BY <1>1 DEF PlayerRests, P!Settings, P!Engines, P!Videos, P!Arounds
<1> QED
  BY <1>1, <1>2 DEF PlayerRests, P!TypeOK

LEMMA RestingGateway == GatewayRests => GateInv
<1> SUFFICES ASSUME GatewayRests PROVE GateInv
  OBVIOUS
<1>1. G!TypeOK
  BY DEF GatewayRests, G!TypeOK, G!Steps
<1>2. Counts
  <2>1. Sessions = {}
    BY DEF GatewayRests, Sessions, G!Session
  <2> QED
    BY <2>1, FS_EmptySet DEF GatewayRests, Counts
<1>3. Room
  <2>1. G!Handshakes = {}
    BY DEF GatewayRests, G!Handshakes
  <2> QED
    BY <2>1, FS_EmptySet, EndsAssumption DEF GatewayRests, Room, G!GatewayAssumption
<1> QED
  BY <1>1, <1>2, <1>3, EndsAssumption DEF GateInv

\* Each part takes the steps of its own specification and no others.
LEMMA EndsSteps ==
  [EndsNext]_endsVars => [Next]_vars /\ [P!Next]_P!vars /\ [G!Next]_G!vars /\ [R!Next]_R!vars
BY DEF EndsNext, endsVars, vars, pVars, rVars, gVars, P!vars, G!vars, R!vars

LEMMA EndsInits == EndsInit => IInv /\ P!TypeOK /\ GateInv /\ LoopInv
BY InitIInv, PlayerInit, GateInit, LoopInit, RestingPage, RestingPlayer, RestingGateway,
   EndsAssumption DEF EndsInit

LEMMA EndsInvariant == EndsSpec => [](IInv /\ P!TypeOK /\ GateInv /\ LoopInv)
<1>1. /\ IInv /\ P!TypeOK /\ GateInv /\ LoopInv
      /\ [EndsNext]_endsVars
      => (IInv /\ P!TypeOK /\ GateInv /\ LoopInv)'
  BY EndsSteps, NextIInv, PlayerNext, GateNext, LoopNext, EndsAssumption
<1> QED
  BY EndsInits, <1>1, PTL DEF EndsSpec

\* Channel, page, stream and GETs, the player, the gateway and the loop stay well typed.
THEOREM EndsTypes == EndsSpec => [](TypeOK /\ P!TypeOK /\ G!TypeOK /\ R!TypeOK)
<1>1. IInv /\ P!TypeOK /\ GateInv /\ LoopInv => TypeOK /\ P!TypeOK /\ G!TypeOK /\ R!TypeOK
  BY DEF IInv, GateInv, LoopInv
<1> QED
  BY EndsInvariant, <1>1, PTL

\* The counter is the number of sessions at every moment, and it is above MAX_SESSIONS by no more
\* than the number of handshakes that were past the check when another one passed it
\* (main.go:119-124, 144-145).
THEOREM LimitKept == EndsSpec => []LimitHolds
<1>1. GateInv => LimitHolds
  BY GateLimit DEF LimitHolds
<1> QED
  BY EndsInvariant, <1>1, PTL

\* What an open stream said is what the page shows: no answer to a GET, however late, replaces
\* it (ChannelPage.tsx:64-65), whatever breaks, is retried or is declared dead meanwhile.
THEOREM StreamRules == EndsSpec => []StreamHasLastWord
<1>1. IInv => StreamHasLastWord
  BY DEF IInv
<1> QED
  BY EndsInvariant, <1>1, PTL

\* What the viewer paused stays paused, whatever the engine goes through and however often it is
\* rebuilt (Player.tsx:187, 242-244): only an act of his that takes the pause back plays it.
THEOREM PauseKept == EndsSpec => PauseIsKept
<1>1. P!TypeOK /\ [P!Next]_P!vars
      => [video.userPaused /\ video.paused => video'.paused \/ ~video'.userPaused]_P!vars
  BY PlayerNext, EndsAssumption DEF Kept
<1>2. EndsSpec => [][P!Next]_P!vars
  BY EndsSteps, PTL DEF EndsSpec
<1> QED
  BY EndsInvariant, <1>1, <1>2, PTL DEF PauseIsKept, P!PauseIsKept

\* A round of the control loop takes no source off air that was on air and reachable all the time
\* of it, and hands its broadcast to none older, whatever hooks are lost or late and whichever
\* nodes fail or return meanwhile (loop.ts:99-100, 131-134).
THEOREM RoundsDoNotFlap == EndsSpec => NoFlapping
<1>1. LoopInv /\ [R!Next]_R!vars
      => [R!Judge /\ row.status = "live" /\ row.source \notin round.lost
            => /\ row'.status = "live"
               /\ row.source \in round.began => row'.source >= row.source]_R!vars
  BY LoopNext, EndsAssumption DEF Unflapped
<1>2. EndsSpec => [][R!Next]_R!vars
  BY EndsSteps, PTL DEF EndsSpec
<1> QED
  BY EndsInvariant, <1>1, <1>2, PTL DEF NoFlapping, R!NoFlapping
=============================================================================
