-------------------------- MODULE BrowserBroadcast --------------------------
(***************************************************************************)
(* The studio panel that broadcasts a camera or a screen from the browser  *)
(* (web/src/pages/dashboard/BrowserBroadcast.tsx, lib/whip.ts).            *)
(*                                                                         *)
(* Capturing media, negotiating a WHIP session and ending one are awaited, *)
(* and the user, the browser (a track ends, a connection changes) and the  *)
(* router (the panel is unmounted) act in between.  Codec, resolution and  *)
(* bit rate do not change what happens and are left out.                   *)
(***************************************************************************)
EXTENDS Naturals

CONSTANTS
  MaxStreams,   \* bound: captures asked for
  MaxStarts     \* bound: calls of WhipSession.start

BroadcastAssumption == MaxStreams \in Nat /\ MaxStarts \in Nat

VARIABLES
  ui,           \* the component: its phase and refs
  capture,      \* per stream what has become of it
  whip          \* per call of WhipSession.start its session

vars == <<ui, capture, whip>>

Streams == 1..MaxStreams
Starts  == 1..MaxStarts

Phases == {"idle", "acquiring", "preview", "connecting", "live", "stopping"}

\* `raced`: while the broadcast was being opened something else than the button to cancel it
\* intervened, or it came up although it had been cancelled.
Ui == [phase : Phases, media : 0..MaxStreams, session : 0..MaxStarts, cancelled : BOOLEAN,
       mounted : BOOLEAN, raced : BOOLEAN]

\* "preview" and "start": asked for, by which button.
Captures == {"none", "preview", "start", "on", "off"}

WhipSessions == [step : {"none", "offer", "posted", "answered", "done"},
             pc : {"none", "new", "connected", "failed", "closed"},
             stop : {"no", "keep", "drop"}]

Init ==
  /\ ui = [phase |-> "idle", media |-> 0, session |-> 0, cancelled |-> FALSE,
           mounted |-> TRUE, raced |-> FALSE]
  /\ capture = [n \in Streams |-> "none"]
  /\ whip = [s \in Starts |-> [step |-> "none", pc |-> "none", stop |-> "no"]]

-----------------------------------------------------------------------------
Starting(s) == whip[s].step \in {"offer", "posted", "answered"}
Acquiring   == \E n \in Streams : capture[n] \in {"preview", "start"}
Opening     == Acquiring \/ \E s \in Starts : Starting(s)
Stopping    == \E s \in Starts : whip[s].stop # "no"

Sending(s)  == whip[s].pc \in {"new", "connected"}

Races(u) == [u EXCEPT !.raced = @ \/ Opening]

\* Mutant: the panel is idle whatever it keeps.
SettledIdle(u, keep) == [u EXCEPT !.phase = "idle", !.media = IF keep THEN @ ELSE 0]

\* releaseMedia, and the phase that remains.
Settled(u, keep) ==
  IF keep /\ u.media # 0 THEN [u EXCEPT !.phase = "preview"]
  ELSE [u EXCEPT !.media = 0, !.phase = "idle"]

Released(u, keep) ==
  IF keep \/ u.media = 0 THEN capture ELSE [capture EXCEPT ![u.media] = "off"]

\* stopAll up to its await: the session is taken out of the ref before it is ended.
StopAll(u, keep) ==
  IF u.session = 0
    THEN ui' = Settled(u, keep) /\ capture' = Released(u, keep) /\ UNCHANGED whip
    ELSE /\ ui' = [u EXCEPT !.session = 0, !.phase = "stopping"]
         /\ whip' = [whip EXCEPT ![u.session].pc = "closed",
                                 ![u.session].stop = IF keep THEN "keep" ELSE "drop"]
         /\ UNCHANGED capture

\* ... and after it.
StopEnds(s) ==
  /\ whip[s].stop # "no"
  /\ whip' = [whip EXCEPT ![s].stop = "no"]
  /\ ui' = Settled(ui, whip[s].stop = "keep")
  /\ capture' = Released(ui, whip[s].stop = "keep")

-----------------------------------------------------------------------------
(* The user *)

\* WhipSession.start is called with the stream at hand.
Connect(u) ==
  \E s \in Starts :
    /\ whip[s].step = "none" /\ \A r \in 1..(s - 1) : whip[r].step # "none"
    /\ whip' = [whip EXCEPT ![s].step = "offer", ![s].pc = "new"]
    /\ ui' = [u EXCEPT !.phase = "connecting", !.cancelled = FALSE]

\* ensureMedia when there is no stream yet.
Ask(u, button) ==
  \E n \in Streams :
    /\ capture[n] = "none" /\ \A m \in 1..(n - 1) : capture[m] # "none"
    /\ capture' = [capture EXCEPT ![n] = button]
    /\ ui' = [u EXCEPT !.phase = "acquiring"]

Preview ==
  /\ ui.mounted /\ ui.phase = "idle"
  /\ IF ui.media # 0
       THEN ui' = [Races(ui) EXCEPT !.phase = "preview"] /\ UNCHANGED capture
       ELSE Ask(Races(ui), "preview")
  /\ UNCHANGED whip

Start ==
  LET u == [ui EXCEPT !.raced = @ \/ Opening \/ Stopping] IN
  /\ ui.mounted /\ ui.phase \in {"idle", "preview"}
  /\ IF ui.media # 0 THEN Connect(u) /\ UNCHANGED capture
     ELSE Ask(u, "start") /\ UNCHANGED whip

Cancel ==
  /\ ui.mounted /\ ui.phase = "connecting"
  /\ StopAll([ui EXCEPT !.cancelled = TRUE], TRUE)

\* The button of a live broadcast, and of a preview.
Stop ==
  /\ ui.mounted /\ ui.phase \in {"live", "preview"}
  /\ StopAll(IF ui.phase = "live" THEN Races(ui) ELSE ui, FALSE)

\* Another source, microphone or resolution makes the preview worthless.
ChangeSource ==
  /\ ui.mounted /\ ui.phase = "preview"
  /\ ui' = Settled(ui, FALSE) /\ capture' = Released(ui, FALSE)
  /\ UNCHANGED whip

\* The panel is left: what the refs hold now is ended.
Unmount ==
  /\ ui.mounted
  /\ ui' = [Races(ui) EXCEPT !.mounted = FALSE, !.session = 0, !.media = 0]
  /\ whip' = IF ui.session = 0 THEN whip ELSE [whip EXCEPT ![ui.session].pc = "closed"]
  /\ capture' = Released(ui, FALSE)

-----------------------------------------------------------------------------
(* The browser *)

\* ensureMedia goes on where the button was pressed, mounted or not.
Acquired(n) ==
  LET u == [ui EXCEPT !.media = n] IN
  /\ capture[n] \in {"preview", "start"}
  /\ capture' = [capture EXCEPT ![n] = "on"]
  /\ IF capture[n] = "start" THEN Connect(u)
     ELSE ui' = [u EXCEPT !.phase = "preview"] /\ UNCHANGED whip

AcquireFails(n) ==
  /\ capture[n] \in {"preview", "start"}
  /\ capture' = [capture EXCEPT ![n] = "off"]
  /\ ui' = [ui EXCEPT !.phase = "idle"]
  /\ UNCHANGED whip

\* "Browser's own 'stop sharing' button or unplugged camera ends the broadcast."
TrackEnds(n) ==
  /\ capture[n] = "on"
  /\ StopAll(Races(ui), FALSE)

Post(s) ==
  /\ whip[s].step = "offer"
  /\ whip' = [whip EXCEPT ![s].step = "posted"]
  /\ UNCHANGED <<ui, capture>>

Answer(s) ==
  /\ whip[s].step = "posted"
  /\ whip' = [whip EXCEPT ![s].step = "answered"]
  /\ UNCHANGED <<ui, capture>>

\* Any step of start() fails: the session is ended and onStart's catch runs.
StartFails(s) ==
  /\ Starting(s)
  /\ whip' = [whip EXCEPT ![s].step = "done", ![s].pc = "closed"]
  /\ ui' = [ui EXCEPT !.phase = IF ui.media # 0 THEN "preview" ELSE "idle"]
  /\ UNCHANGED capture

\* onConnectionState; it may come before start() has returned.
Connected(s) ==
  /\ whip[s].step \in {"answered", "done"} /\ whip[s].pc = "new"
  /\ whip' = [whip EXCEPT ![s].pc = "connected"]
  /\ ui' = [ui EXCEPT !.phase = "live", !.raced = @ \/ (ui.cancelled /\ Starting(s))]
  /\ UNCHANGED capture

\* Mutant: a cancelled start is handed over like any other.
ReturnAnyway(s) ==
  /\ whip[s].step = "answered"
  /\ whip' = [whip EXCEPT ![s].step = "done"]
  /\ ui' = [ui EXCEPT !.session = s, !.phase = IF whip[s].pc = "connected" THEN "live" ELSE @]
  /\ UNCHANGED capture

\* start() has returned; onStart goes on.
Return(s) ==
  /\ whip[s].step = "answered"
  /\ IF ui.cancelled
       THEN whip' = [whip EXCEPT ![s].step = "done", ![s].pc = "closed"] /\ UNCHANGED ui
       ELSE /\ whip' = [whip EXCEPT ![s].step = "done"]
            /\ ui' = [ui EXCEPT !.session = s,
                                !.phase = IF whip[s].pc = "connected" THEN "live" ELSE @]
  /\ UNCHANGED capture

\* The connection fails: setError, stopAll({ keepMedia }).
Failed(s) ==
  LET u == Races(ui) IN
  /\ whip[s].step \in {"answered", "done"} /\ Sending(s)
  /\ IF u.session = 0
       THEN /\ whip' = [whip EXCEPT ![s].pc = "failed"]
            /\ ui' = Settled(u, TRUE) /\ UNCHANGED capture
       ELSE /\ whip' = [r \in Starts |->
                 IF r = u.session THEN [whip[r] EXCEPT !.pc = "closed", !.stop = "keep"]
                 ELSE IF r = s THEN [whip[r] EXCEPT !.pc = "failed"] ELSE whip[r]]
            /\ ui' = [u EXCEPT !.session = 0, !.phase = "stopping"]
            /\ UNCHANGED capture

Next ==
  \/ Preview \/ Start \/ Cancel \/ Stop \/ ChangeSource \/ Unmount
  \/ \E n \in Streams : Acquired(n) \/ AcquireFails(n) \/ TrackEnds(n)
  \/ \E s \in Starts : Post(s) \/ Answer(s) \/ StartFails(s) \/ Connected(s) \/ Return(s)
                       \/ Failed(s) \/ StopEnds(s)

Spec == Init /\ [][Next]_vars

-----------------------------------------------------------------------------
(* Properties *)

TypeOK == ui \in Ui /\ capture \in [Streams -> Captures] /\ whip \in [Starts -> WhipSessions]

\* The refs hold everything there is to end (BrowserBroadcast.tsx:142-160, 216-219): a session
\* that may send and a stream that captures belong to the refs or to a call under way, unless
\* the broadcast was raced while it was opened.
NothingLeaks ==
  ui.raced \/
  /\ \A s \in Starts : Sending(s) => s = ui.session \/ Starting(s)
  /\ \A n \in Streams : capture[n] = "on" => n = ui.media

\* What the panel shows is what happens (same lines, and 207-221): live while a session sends
\* captured media, idle only with the camera off; with the same exception.
PhaseIsHonest ==
  ui.raced \/ ~ui.mounted \/
  /\ ui.phase = "live" =>
       ui.media # 0 /\ \E s \in Starts : Sending(s) /\ (s = ui.session \/ Starting(s))
  /\ ui.phase = "idle" => \A n \in Streams : capture[n] # "on"
  /\ ui.phase = "acquiring" => Acquiring

\* "Leaving the page ends the WHIP session cleanly" (BrowserBroadcast.tsx:260): what still sends
\* after the panel is gone is a call of start() that will end it.
LeavesCleanly ==
  ~ui.mounted => \A s \in Starts : Sending(s) => Starting(s)
=============================================================================
