\* The whole life of the process, with two workers and a kernel that asks for any name.
SPECIFICATION Spec
CONSTANTS
  w1 = w1  w2 = w2
  Workers = {w1, w2}
  MainThread = w1
  CommandLines <- MCCommandLines
  Scripts <- MCScripts
  Names <- MCNames
INVARIANTS
  TypeOK ListedAreServed ReadReachesStream ServedFromLiveScript NoStaleMount MountpointIsNoScript
PROPERTIES UnmountEnds
CHECK_DEADLOCK FALSE
