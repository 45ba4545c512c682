---------------------------- MODULE MCJobOutput ----------------------------
(* Small jobs for TLC: up to two video variants and audio.                  *)
EXTENDS JobOutput

CONSTANTS v1, v2, audio

OneVideo  == {v1}
TwoVideos == {v1, v2}
WithAudio == {audio}
NoAudio   == {}

\* Either the first variant slides its window, or both race to be ready.
TwoOrOne ==
  { [v \in Variants |-> IF v = v1 THEN 2 ELSE IF v = v2 THEN 0 ELSE 1],
    [v \in Variants |-> 1] }
ThreeSegments == { [v \in Variants |-> 3] }

Media    == {"segment", "playlist", "delete"}
Anything == Media \cup {"master", "announce"}

NothingMediaAnything == {{}, Media, Anything}
OnlyAnything         == {Anything}
=============================================================================
