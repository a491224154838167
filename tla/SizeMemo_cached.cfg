\* What the comment on _size promises: three threads ask the root node, with its two children, for its size.
SPECIFICATION Spec
CONSTANTS
  t1 = t1  t2 = t2  t3 = t3
  Threads = {t1, t2, t3}
  ChildSizes <- HeadAndSegment
INVARIANTS CachedResult
SYMMETRY Anonymous
