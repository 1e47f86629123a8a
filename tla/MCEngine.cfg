\* ndpid: guess and ML model on, verdicts written, one id without a slot.
CONSTANTS
  Key = {k1, k2}
  AppId = {unknown, a1, a2, big}
  Countable = {unknown, a1, a2}
  Unknown = unknown
  NoVerdict = NoVerdict
  Capture = {"bytes", "none"}
  FLOW_MAX_CLASSIFY_PKTS = 2
  VerdictMapSize = 2
  MlEnabled = TRUE
  VerdictFd = TRUE
  MaxEvents = 4
SPECIFICATION Spec
SYMMETRY Symmetric
INVARIANTS TypeOK CreditConservation OutcomesPartition StatsAgree NoLeak VerdictPublished
PROPERTIES OutcomeStable CountersNeverFall
CHECK_DEADLOCK FALSE
