CONSTANTS
  BlocksPerCluster = 10
  CueEvery = 15
  TimecodeMax = 512
  TimeMax = 524288
  Page = 4096
  Clips <- MCClips
SPECIFICATION Spec
INVARIANTS
  TypeOK
  LengthsRight
  CuesRight
  SeekNeverOvershoots
  FramesInOrder
  HeadInFirstPage
CHECK_DEADLOCK FALSE
