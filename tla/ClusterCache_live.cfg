\* Two streams share the lock; every read ends, and is a read of a plain file.
SPECIFICATION FairSpec
CONSTANTS
  t1 = t1  t2 = t2  c1 = c1  c2 = c2  c3 = c3  c4 = c4  s1 = s1  s2 = s2
  Threads = {t1, t2}
  Streams = {s1, s2}
  Clusters = {c1, c2, c3, c4}
  BlocksPerCluster = 1
  NumClusters <- Mixed
  TailBlocks <- NoTail
  ClusterBytes <- Lengths
  MaxRead = 2
  TamedClients = TRUE
  nullptr = nullptr
  NoRequest = NoRequest
PROPERTIES
  ReadsEnd ServesVirtualFile
