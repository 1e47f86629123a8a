\* Replies come whole or cut short.
CONSTANTS
  NAME_BUF = 8
  Ip <- MCIp
  Slot <- MCSlot
  Hash <- MCHash
  Message <- MCMessage
  Cut = {24}
  Sni <- MCSni
  Service <- MCService
  Native <- MCNative
  Local = {}
  LABELS = 2
  MAX_TTL = 2
  MaxTime = 1
SPECIFICATION Spec
INVARIANTS TypeOK CacheAnswered LabelsSound IdsMeanTheirNames
PROPERTY AnswersCached
CHECK_DEADLOCK FALSE
