CONSTANTS
  Page = 32
  MaxPages = 3
  VintLimits <- Limits
  SizeMax = 65536
  Files <- Padded
SPECIFICATION Spec

INVARIANT FrameBytesRight
