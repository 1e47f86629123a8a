\* Two daemons on the same interface or on two, with crashes and restarts.
CONSTANTS
  Proc = {p1, p2}
  Iface = {i1, i2}
  NoProc = NoProc
  Orphan = Orphan
SPECIFICATION Spec
SYMMETRY Symmetric
INVARIANTS IngressKept EgressKept NothingLeft
