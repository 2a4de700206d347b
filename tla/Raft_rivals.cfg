\* Three nodes of which two stand for election, and two messages parsed as one: what a node holds as committed stays.
SPECIFICATION Spec
CONSTANTS
  n1 = n1
  n2 = n2
  n3 = n3
  None = None
  Node = {n1, n2, n3}
  Peers <- StarPeers
  Value = {v1}
  Electable = {n1, n2}
  Faults = {"coalesce"}
  MaxTerm = 3
  MaxEntries = 1
  MaxInFlight = 2
  MaxPending = 2
  MaxFaults = 1
PROPERTIES
  CommittedStable
\* The bounds stop it: no term, entry or message is left to add.
CHECK_DEADLOCK FALSE
