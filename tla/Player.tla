------------------------------- MODULE Player -------------------------------
(***************************************************************************)
(* The video player of the web client (web/src/components/Player.tsx): an  *)
(* engine (hls.js, or the browser's own HLS) that is torn down and rebuilt *)
(* on errors, the <video> element it drives, and the stall watchdog.       *)
(*                                                                         *)
(* One instance plays one source: the pages key it by broadcast or         *)
(* recording.  Timers have no lengths: one that is set fires eventually.   *)
(* Positions count steps of several seconds.                               *)
(***************************************************************************)
EXTENDS Naturals

CONSTANTS
  Length,       \* steps of the recording
  MaxFaults,    \* bound: network, media and silent faults
  MaxActs       \* bound: what the viewer, the tab and the broadcast do

PlayerAssumption == Length \in Nat \ {0} /\ MaxFaults \in Nat /\ MaxActs \in Nat

VARIABLES
  setting,      \* props and browser: mode, native, what autoplay is allowed, startAtRef
  engine,       \* the engine, its retry timer and recent media errors
  video,        \* the element and the component's refs about it
  around,       \* network, `live`, visibility of the tab
  faults, acts

vars == <<setting, engine, video, around, faults, acts>>

Settings == [vod : BOOLEAN, native : BOOLEAN, autoplay : {"any", "muted", "none"},
             saved : 0..Length]

\* loading: the master playlist; ready: segments; flowing: media arrives; stuck: nothing
\* arrives and no error is reported; failed: a fatal error waits for the retry timer.
Engines == [at : {"loading", "ready", "flowing", "stuck", "failed", "fatal"},
            retry : {"none", "recreate", "startLoad"}, errors : 0..2,
            startAt : 0..Length, generation : 0..1]

Videos == [paused : BOOLEAN, userPaused : BOOLEAN, gesture : BOOLEAN, muted : BOOLEAN,
           pos : 0..Length]

Arounds == [up : BOOLEAN, live : BOOLEAN, hidden : BOOLEAN]

\* Where the engine starts: from where the element is (VOD), else from the position
\* remembered when the page was opened.
StartAt(v) == IF ~setting.vod THEN 0 ELSE IF v.pos > 0 THEN v.pos ELSE setting.saved

Init ==
  /\ setting \in Settings /\ (~setting.vod => setting.saved = 0)
  /\ video \in [paused : {TRUE}, userPaused : {FALSE}, gesture : {FALSE}, muted : BOOLEAN, pos : {0}]
  /\ engine = [at |-> "loading", retry |-> "none", errors |-> 0, startAt |-> StartAt(video),
               generation |-> 0]
  /\ around = [up |-> TRUE, live |-> ~setting.vod, hidden |-> FALSE]
  /\ faults = 0 /\ acts = 0

-----------------------------------------------------------------------------
(* play() and its refusals *)

Playing(v)  == [v EXCEPT !.paused = FALSE, !.gesture = FALSE]

Played(v, policy) ==
  IF policy = "any" \/ (policy = "muted" /\ v.muted) THEN Playing(v)
  ELSE IF policy = "muted" THEN Playing([v EXCEPT !.muted = TRUE])
  ELSE [v EXCEPT !.gesture = TRUE, !.muted = TRUE]

\* Mutant: what the viewer paused is played.
PlayAnyway(v, policy) == Played(v, policy)

TryPlay(v, policy) == IF v.userPaused THEN v ELSE Played(v, policy)

-----------------------------------------------------------------------------
(* The engine *)

\* The source is taken from the element, which stops and goes back to the start.
Detached(v) == [v EXCEPT !.pos = 0, !.paused = TRUE]

\* The effect's cleanup, then the effect: whatever was pending is dropped.
Recreate ==
  /\ video' = Detached(video)
  /\ engine' = [at |-> "loading", retry |-> "none", errors |-> 0,
                startAt |-> StartAt(Detached(video)), generation |-> 1 - engine.generation]

Schedule(what) == engine' = [engine EXCEPT !.at = "failed", !.retry = what]

\* MANIFEST_PARSED, or loadedmetadata of the native engine.
Parsed ==
  /\ engine.at = "loading" /\ around.up
  /\ engine' = [engine EXCEPT !.at = "ready"]
  /\ video' = TryPlay([video EXCEPT !.pos = engine.startAt], setting.autoplay)
  /\ UNCHANGED <<setting, around, faults, acts>>

FragLoaded ==
  /\ engine.at = "ready" /\ around.up
  /\ engine' = [engine EXCEPT !.at = "flowing"]
  /\ UNCHANGED <<setting, video, around, faults, acts>>

Progress ==
  /\ engine.at = "flowing" /\ ~video.paused /\ setting.vod /\ video.pos < Length
  /\ video' = [video EXCEPT !.pos = @ + 1]
  /\ UNCHANGED <<setting, engine, around, faults, acts>>

\* 'ended' counts as a pause of the viewer.
Ended ==
  /\ engine.at = "flowing" /\ ~video.paused
  /\ IF setting.vod THEN video.pos = Length ELSE ~around.live
  /\ video' = [video EXCEPT !.paused = TRUE, !.userPaused = TRUE]
  /\ UNCHANGED <<setting, engine, around, faults, acts>>

\* The master playlist is loaded anew by a new engine, segments by the same one.
NetworkError ==
  /\ ~around.up /\ engine.at \in {"loading", "ready", "flowing"}
  /\ Schedule(IF engine.at = "loading" \/ setting.native THEN "recreate" ELSE "startLoad")
  /\ UNCHANGED <<setting, video, around, faults, acts>>

\* Of three media errors within 15 s hls.js recovers from two; it takes the element off its
\* source and back, which may leave it paused.
MediaError ==
  /\ engine.at \in {"ready", "flowing"} /\ faults < MaxFaults
  /\ faults' = faults + 1
  /\ IF setting.native \/ engine.errors = 2 THEN Schedule("recreate")
     ELSE engine' = [engine EXCEPT !.at = "ready", !.errors = @ + 1]
  /\ video' \in {video, [video EXCEPT !.paused = @ \/ ~setting.native]}
  /\ UNCHANGED <<setting, around, acts>>

ErrorsExpire ==
  /\ engine.errors > 0
  /\ engine' = [engine EXCEPT !.errors = 0]
  /\ UNCHANGED <<setting, video, around, faults, acts>>

OtherError ==
  /\ engine.at \in {"loading", "ready", "flowing"} /\ faults < MaxFaults
  /\ faults' = faults + 1
  /\ Schedule("recreate")
  /\ UNCHANGED <<setting, video, around, acts>>

IncompatibleCodecs ==
  /\ engine.at = "loading" /\ around.up /\ ~setting.native
  /\ engine' = [engine EXCEPT !.at = "fatal"]
  /\ UNCHANGED <<setting, video, around, faults, acts>>

Stall ==
  /\ engine.at \in {"loading", "ready", "flowing"} /\ faults < MaxFaults
  /\ faults' = faults + 1
  /\ engine' = [engine EXCEPT !.at = "stuck"]
  /\ UNCHANGED <<setting, video, around, acts>>

RetryFires ==
  /\ engine.retry # "none"
  /\ IF engine.retry = "recreate" THEN Recreate
     ELSE engine' = [engine EXCEPT !.at = "ready", !.retry = "none"] /\ UNCHANGED video
  /\ UNCHANGED <<setting, around, faults, acts>>

Moving == engine.at = "flowing" /\ ~video.paused

\* An engine that can load does so within the ten seconds of the watchdog.
Coming == engine.at \in {"loading", "ready"} /\ around.up

\* Mutant: a player that lost its picture is left alone while its engine reports nothing.
WatchErrors ==
  /\ around.live /\ ~setting.vod /\ engine.at = "failed"
  /\ Recreate
  /\ UNCHANGED <<setting, around, faults, acts>>

\* "If the picture hasn't moved for 10 s while live, rebuild from master."
Watchdog ==
  /\ around.live /\ ~setting.vod /\ engine.at # "fatal"
  /\ ~around.hidden /\ ~video.userPaused /\ ~video.gesture
  /\ ~Moving /\ ~Coming
  /\ Recreate
  /\ UNCHANGED <<setting, around, faults, acts>>

-----------------------------------------------------------------------------
(* The viewer and the surroundings *)

Acts == acts < MaxActs /\ acts' = acts + 1

\* A recording that has ended is played from its start.
Rewound(v) == [v EXCEPT !.userPaused = FALSE,
                        !.pos = IF setting.vod /\ @ = Length THEN 0 ELSE @]

\* A click lets the page play from then on.
TogglePlay ==
  /\ Acts
  /\ video' = IF video.paused THEN TryPlay(Rewound(video), "any")
              ELSE [video EXCEPT !.userPaused = TRUE, !.paused = TRUE]
  /\ setting' = [setting EXCEPT !.autoplay = "any"]
  /\ UNCHANGED <<engine, around, faults>>

GoLive ==
  /\ Acts /\ ~setting.vod
  /\ video' = TryPlay([video EXCEPT !.userPaused = FALSE], "any")
  /\ setting' = [setting EXCEPT !.autoplay = "any"]
  /\ UNCHANGED <<engine, around, faults>>

SetSound ==
  /\ Acts
  /\ video' = LET v == [video EXCEPT !.muted = ~@] IN
              IF ~v.muted /\ v.paused /\ ~v.userPaused THEN TryPlay(v, "any") ELSE v
  /\ setting' = [setting EXCEPT !.autoplay = "any"]
  /\ UNCHANGED <<engine, around, faults>>

\* Not to the very end.
SeekTo ==
  /\ Acts /\ setting.vod
  /\ \E p \in 0..(Length - 1) : video' = [video EXCEPT !.pos = p]
  /\ UNCHANGED <<setting, engine, around, faults>>

\* The button shown with a fatal error.
Retry ==
  /\ Acts /\ engine.at = "fatal"
  /\ Recreate
  /\ UNCHANGED <<setting, around, faults>>

Surroundings ==
  /\ Acts
  /\ \/ around' = [around EXCEPT !.up = ~@]
     \/ around' = [around EXCEPT !.hidden = ~@]
     \/ ~setting.vod /\ around' = [around EXCEPT !.live = ~@]
  /\ UNCHANGED <<setting, engine, video, faults>>

Keyboard == TogglePlay \/ SetSound \/ SeekTo
Controls == Keyboard \/ GoLive

Next ==
  \/ Parsed \/ FragLoaded \/ Progress \/ Ended
  \/ NetworkError \/ MediaError \/ ErrorsExpire \/ OtherError \/ IncompatibleCodecs \/ Stall
  \/ RetryFires \/ Watchdog
  \/ Controls \/ Retry \/ Surroundings

Spec == Init /\ [][Next]_vars

\* The browser's timers fire, and what can be loaded is.
Fairness == WF_vars(Parsed) /\ WF_vars(FragLoaded) /\ WF_vars(RetryFires) /\ WF_vars(Watchdog)

FairSpec == Spec /\ Fairness

-----------------------------------------------------------------------------
(* Properties *)

TypeOK ==
  /\ setting \in Settings /\ engine \in Engines /\ video \in Videos /\ around \in Arounds
  /\ faults \in 0..MaxFaults /\ acts \in 0..MaxActs

\* What the viewer paused stays paused, whatever the engine goes through (Player.tsx:187, 242-244):
\* only an act of his that takes the pause back starts playback.
PauseIsKept ==
  [][video.userPaused /\ video.paused => video'.paused \/ ~video'.userPaused]_vars

\* A player may stand still for these reasons only.
Excused ==
  \/ video.userPaused \/ video.gesture \/ engine.at = "fatal" \/ ~around.up
  \/ (~around.live \/ around.hidden) /\ (engine.at = "stuck" \/ (engine.at = "flowing" /\ video.paused))

\* The retries and the watchdog leave no way to hang (Player.tsx:342-349, 371-410, 529-555): again
\* and again the picture moves or the player is excused.
NeverHangs == []<>(Moving \/ Excused)

\* "On a rebuild, continue from where we were (VOD)" (Player.tsx:329).
RebuildContinues ==
  [][engine'.generation # engine.generation /\ video.pos > 0 => engine'.startAt = video.pos]_vars
=============================================================================
