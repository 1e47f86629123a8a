CONSTANTS
  CliClient = {c1}
  PromClient = {p1}
  NoClient = NoClient
  Programs = {"ndpid", "ndpid-simple"}
  AgeInterval = 2
  MaxInput = 2
SPECIFICATION LoopSpec
CHECK_DEADLOCK FALSE
INVARIANTS LoopTypeOK AcceptNeverBlocks
PROPERTIES SignalEndsLoop InputTaken ClientsServed SweepsRecur
