\* ndpid on two CPUs, a flow_map and a verdict_map too small for the flows.
CONSTANTS
  Key = {k1, k2}
  CPU = {c1, c2}
  AppId = {unknown, a1}
  Countable = {unknown, a1}
  Unknown = unknown
  NoVerdict = NoVerdict
  NoKey = NoKey
  Capture = {"bytes", "none"}
  FLOW_MAX_CLASSIFY_PKTS = 2
  VerdictMapSize = 1
  FlowMapSize = 1
  RingSize = 1
  MaxPackets = 4
  MlEnabled = TRUE
  VerdictFd = TRUE
SPECIFICATION Spec
SYMMETRY Symmetric
INVARIANTS PacketsAccountedFor PacketsCredited
CHECK_DEADLOCK FALSE
