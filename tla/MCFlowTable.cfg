\* Chains of up to three entries, TCP and UDP timeouts, sweeps at any time.
CONSTANTS
  k1 = k1
  k2 = k2
  k3 = k3
  k4 = k4
  b1 = b1
  b2 = b2
  n1 = n1
  n2 = n2
  n3 = n3
  n4 = n4
  Key <- MCKey
  Bucket = {b1, b2}
  Node = {n1, n2, n3, n4}
  Hash <- MCHash
  Tcp <- MCTcp
  FLOW_TCP_IDLE_SEC = 2
  FLOW_UDP_IDLE_SEC = 1
  NULL = NULL
  Free = Free
  MaxTime = 3
  MaxCreated = 5
SPECIFICATION Spec
SYMMETRY Symmetric
INVARIANT ChainsSound
PROPERTY ImplementsFlowSet
CHECK_DEADLOCK FALSE
