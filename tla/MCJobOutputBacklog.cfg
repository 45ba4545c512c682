SPECIFICATION Spec
CONSTANTS
  v1 = v1
  v2 = v2
  audio = audio
  Videos <- OneVideo
  Audio <- NoAudio
  MaxSeg = 3
  Lengths <- ThreeSegments
  Window = 1
  Threshold = 1
  FaultSets <- OnlyAnything
CHECK_DEADLOCK FALSE
PROPERTIES NeverPublishMissing
