\* Processes that die and start again from an empty log: what a restart cannot break.
SPECIFICATION Spec
CONSTANTS
  n1 = n1
  n2 = n2
  n3 = n3
  None = None
  Node = {n1, n2}
  Peers <- StarPeers
  Value = {v1}
  Electable = {n1, n2}
  Faults = {"restart"}
  MaxTerm = 3
  MaxEntries = 1
  MaxInFlight = 2
  MaxPending = 9
  MaxFaults = 1
INVARIANTS
  NoEmptyAppendAtZero
\* The bounds stop it: no term, entry or message is left to add.
CHECK_DEADLOCK FALSE
