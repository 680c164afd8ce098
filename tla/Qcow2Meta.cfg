SPECIFICATION Spec
CONSTANTS
  Guest = {g1, g2}
  g1 = g1
  g2 = g2
  Cluster = {k1, k2, k3}
  k1 = k1
  k2 = k2
  k3 = k3
  None = None
  CacheSize = 1
  Setups <- CrashOrFail
SYMMETRY Symmetry
CHECK_DEADLOCK FALSE
INVARIANTS TypeOK OrderIsKept NoSharedCluster NoDependencyCycle
PROPERTIES SyncIsDurable
