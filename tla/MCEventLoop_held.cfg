\* Clients that need neither send nor read.
CONSTANTS
  CliClient = {c1}
  PromClient = {p1}
  NoClient = NoClient
  Programs = {"ndpid", "ndpid-simple"}
  AgeInterval = 2
  MaxInput = 2
SPECIFICATION LoopSpec
CHECK_DEADLOCK FALSE
PROPERTY FlowsAged
