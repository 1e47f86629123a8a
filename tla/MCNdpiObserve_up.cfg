\* ndpid on one CPU: two flows through the kernel, the ring and the daemon.
CONSTANTS
  Key = {k1, k2}
  CPU = {c1}
  AppId = {unknown, a1}
  Countable = {unknown, a1}
  Unknown = unknown
  NoVerdict = NoVerdict
  NoKey = NoKey
  Capture = {"bytes", "none"}
  FLOW_MAX_CLASSIFY_PKTS = 3
  VerdictMapSize = 2
  FlowMapSize = 2
  RingSize = 2
  MaxPackets = 6
  MlEnabled = TRUE
  VerdictFd = TRUE
SPECIFICATION Spec
SYMMETRY Symmetric
INVARIANTS DaemonBelowThreshold KernelFollowsDaemon
PROPERTY FlowEndsOnce
CHECK_DEADLOCK FALSE
