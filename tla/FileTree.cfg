\* Two threads serve getattr and read of a file with the race on its size.
SPECIFICATION FileSpec
CONSTANTS
  t1 = t1  t2 = t2
  Threads = {t1, t2}
  ChildSizes <- HeadAndSegment
  Page = 4
  Offsets <- Pages
INVARIANTS TypeOK FileTypeOK NeverSettlesShort CountedOncePerThread AllOrNothing NoFalseEnd
PROPERTY SizeHeals
