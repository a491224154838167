CONSTANTS
  Page = 32
  MaxPages = 3
  VintLimits <- Limits
  SizeMax = 65536
  Files <- Unpadded
SPECIFICATION Spec

INVARIANT SliceRight
