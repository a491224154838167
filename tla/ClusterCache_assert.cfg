\* What the assertion in clusterlist::output says, when reads overlap.
SPECIFICATION Spec
CONSTANTS
  t1 = t1  t2 = t2  c1 = c1  c2 = c2  c3 = c3  c4 = c4  s1 = s1  s2 = s2
  Threads = {t1, t2}
  Streams = {s1}
  Clusters = {c1, c2, c3}
  BlocksPerCluster = 1
  NumClusters <- TwoFull
  TailBlocks <- NoTail
  ClusterBytes <- Lengths
  MaxRead = 4
  TamedClients = FALSE
  nullptr = nullptr
  NoRequest = NoRequest
INVARIANTS
  AssertHolds
SYMMETRY Anonymous
