\* ndpid, one flow, one CPU.
CONSTANTS
  Key = {k1}
  CPU = {c1}
  AppId = {unknown, a1}
  Countable = {unknown, a1}
  Unknown = unknown
  NoVerdict = NoVerdict
  NoKey = NoKey
  Capture = {"bytes", "none"}
  FLOW_MAX_CLASSIFY_PKTS = 3
  VerdictMapSize = 2
  FlowMapSize = 2
  RingSize = 2
  MaxPackets = 6
  MlEnabled = TRUE
  VerdictFd = TRUE
SPECIFICATION Spec
INVARIANT GaveUpReported
CHECK_DEADLOCK FALSE
