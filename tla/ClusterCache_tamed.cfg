\* Two streams, each read by one thread at a time, share the lock.
SPECIFICATION Spec
CONSTANTS
  t1 = t1  t2 = t2  c1 = c1  c2 = c2  c3 = c3  c4 = c4  s1 = s1  s2 = s2
  Threads = {t1, t2}
  Streams = {s1, s2}
  Clusters = {c1, c2, c3, c4}
  BlocksPerCluster = 2
  NumClusters <- Lopsided
  TailBlocks <- OneMore
  ClusterBytes <- Lengths
  MaxRead = 8
  TamedClients = TRUE
  nullptr = nullptr
  NoRequest = NoRequest
INVARIANTS
  ReadCorrect FullRead AssertHolds FramesExist
SYMMETRY Anonymous
