\* Two CPUs end the same flow in different ways.
CONSTANTS
  Key = {k1}
  CPU = {c1, c2}
  AppId = {unknown, a1, big}
  Countable = {unknown, a1}
  Unknown = unknown
  VerdictApp = {a1}
  NoVerdict = NoVerdict
  NoKey = NoKey
  Capture = {"bytes"}
  FLOW_MAX_CLASSIFY_PKTS = 2
  VerdictMapSize = 1
  FlowMapSize = 2
  RingSize = 1
  MaxPackets = 6
SPECIFICATION Spec
INVARIANT ValidWhenClassified
