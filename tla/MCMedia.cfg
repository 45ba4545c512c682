SPECIFICATION MediaSpec
CONSTANTS
  v1 = v1
  v2 = v2
  audio = audio
  Videos <- TwoVideos
  Audio <- WithAudio
  MaxSeg = 2
  Lengths <- TwoOrOne
  Window = 1
  Threshold = 0
  FaultSets <- NothingMediaAnything
  Troubles <- EachFault
  MaxRun = 3
  VodSeg = 4
  VodPuts = 2
  VodWindow = 2
  Cameras <- EveryCamera
  Rungs = {1080, 720, 480, 360, 160}
CHECK_DEADLOCK FALSE
INVARIANTS VisibleIsStored NothingMissing EveryBrowserCanWatch
PROPERTIES PendingMasterKept ReadyIsAnnounced RecordingGrows TailRecorded Finalizes
