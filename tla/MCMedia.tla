------------------------------ MODULE MCMedia ------------------------------
(***************************************************************************)
(* For TLC, what becomes of the media of a broadcast: the publisher of a   *)
(* job, the recording of a variant and the plan of the ladder.  They share *)
(* nothing here, and in a behaviour one of them is at work; the others     *)
(* rest where they begin.                                                  *)
(***************************************************************************)
EXTENDS MCJobOutput

CONSTANTS MaxRun, VodSeg, VodPuts, VodWindow, Troubles, Cameras, Rungs

VARIABLES
  at,                                                   \* which of them is at work
  phase, lines, dirty, puts, recorded, last, shown,     \* VodRecording
  stored, ended, reading, finalized, trouble,
  mode, planned, source                                 \* Ladder

vVars == <<phase, lines, dirty, puts, recorded, last, shown, stored, ended, reading, finalized,
           trouble>>
lVars == <<mode, planned, source>>

\* Faults alone, and what may come together.
EachFault == {{}, {"get"}, {"overtake"}, {"overlap"}, {"crash", "fence", "tail"}}

\* Cameras, screens, phones and multitrack encoders.
Track(c, w, h, f, t) == [codec |-> c, w |-> w, h |-> h, fps |-> f, track |-> t]

\* What the encoder sends next to the primary track.
Extras == {<<>>, <<Track("H264", 1280, 720, 60, 1)>>, <<Track("AV1", 1280, 720, 60, 1)>>,
           <<Track("H264", 854, 480, 30, 1), Track("H265", 854, 480, 30, 2)>>}

Sizes == {<<3840, 2160>>, <<1920, 1080>>, <<1280, 720>>, <<720, 1280>>}

Camera(c, s, f, a, e) ==
  [codec |-> c, w |-> s[1], h |-> s[2], fps |-> f, audio |-> a, extra |-> e, track |-> 0]

\* Multitrack encoders send wide H.264 or H.265; browsers and phones one track.
Multitrack(s) == s.codec # "VP8" /\ s.h < s.w

EveryCamera ==
  {s \in {Camera(c, z, f, a, e) : c \in {"H264", "H265", "VP8"}, z \in Sizes,
                                  f \in {30, 60}, a \in BOOLEAN, e \in Extras} :
     s.extra = <<>> \/ Multitrack(s)}

V == INSTANCE VodRecording WITH made <- recorded, faults <- trouble, MaxSeg <- VodSeg,
                                MaxPuts <- VodPuts, Window <- VodWindow, FaultSets <- Troubles
L == INSTANCE Ladder WITH Sources <- Cameras

ASSUME MediaAssumption == V!VodAssumption /\ L!LadderAssumption

OutputRests    == ~keep /\ faults = {} /\ length = CHOOSE l \in Lengths : TRUE
RecordingRests == trouble = {}
LadderRests    == mode = "abr" /\ source = CHOOSE s \in Cameras : TRUE

MediaInit ==
  /\ Init /\ V!Init /\ L!Init
  /\ \/ at = "output" /\ RecordingRests /\ LadderRests
     \/ at = "vod"    /\ OutputRests /\ LadderRests
     \/ at = "ladder" /\ OutputRests /\ RecordingRests

MediaNext ==
  \/ at = "output" /\ Next   /\ UNCHANGED <<at, vVars, lVars>>
  \/ at = "vod"    /\ V!Next /\ UNCHANGED <<at, vars, lVars>>
  \/ at = "ladder" /\ L!Next /\ UNCHANGED <<at, vars, vVars>>

\* No fair action of a part that rests is enabled.
MediaSpec == MediaInit /\ [][MediaNext]_<<at, vars, vVars, lVars>> /\ Fairness /\ V!Fairness

-----------------------------------------------------------------------------
(* The properties of the parts, as their modules state them *)

\* VodRecording: a finished recording has what viewers could play.
NothingMissing == V!NothingMissing

\* VodRecording: no run takes back what was recorded.
RecordingGrows == V!RecordingGrows

\* VodRecording: the very last segments are recorded.
TailRecorded == V!TailRecorded

\* VodRecording: every ended broadcast is finalized at last.
Finalizes == V!Finalizes

\* Ladder: players start with H.264, and a kept plan fits.  (The plan is computed anew in every state.)
EveryBrowserCanWatch == at = "ladder" => L!EveryBrowserCanWatch
=============================================================================
