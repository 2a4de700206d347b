\* One leader and a link that may lose two messages: a gap is never appended over.
SPECIFICATION Spec
CONSTANTS
  n1 = n1
  n2 = n2
  n3 = n3
  None = None
  Node = {n1, n2}
  Peers <- StarPeers
  Value = {v1, v2}
  Electable = {n1}
  Faults = {"lose"}
  MaxTerm = 2
  MaxEntries = 3
  MaxInFlight = 2
  MaxPending = 9
  MaxFaults = 2
INVARIANTS
  MatchIsHeld
PROPERTIES
  ImplementsReplicatedLog
\* The bounds stop it: no term, entry or message is left to add.
CHECK_DEADLOCK FALSE
