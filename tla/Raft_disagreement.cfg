\* Two leaders in turn, no fault: two nodes take different entries for committed at one position.
SPECIFICATION Spec
CONSTANTS
  n1 = n1
  n2 = n2
  n3 = n3
  None = None
  Node = {n1, n2}
  Peers <- StarPeers
  Value = {v1}
  Electable = {n1, n2}
  Faults = {}
  MaxTerm = 4
  MaxEntries = 3
  MaxInFlight = 2
  MaxPending = 9
  MaxFaults = 0
INVARIANTS
  CommittedAgree
\* The bounds stop it: no term, entry or message is left to add.
CHECK_DEADLOCK FALSE
