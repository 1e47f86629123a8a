\* Two CPUs race on the entries of two flows.
CONSTANTS
  Key = {k1, k2}
  CPU = {c1, c2}
  AppId = {unknown, a1, big}
  Countable = {unknown, a1}
  Unknown = unknown
  VerdictApp = {a1, big}
  NoVerdict = NoVerdict
  NoKey = NoKey
  Capture = {"bytes"}
  FLOW_MAX_CLASSIFY_PKTS = 3
  VerdictMapSize = 1
  FlowMapSize = 2
  RingSize = 1
  MaxPackets = 6
SPECIFICATION Spec
SYMMETRY Symmetric
INVARIANTS TypeOK CountedOncePerCpu PacketLedger PktCountBounded
PROPERTY NeverReopened
