\* One leader, one follower, fair threads: an entry that both hold is committed at both in the end.
SPECIFICATION FairSpec
CONSTANTS
  n1 = n1
  n2 = n2
  n3 = n3
  None = None
  Node = {n1, n2}
  Peers <- StarPeers
  Value = {v1}
  Electable = {n1}
  Faults = {}
  MaxTerm = 2
  MaxEntries = 2
  MaxInFlight = 4
  MaxPending = 2
  MaxFaults = 0
PROPERTIES
  ReplicatedIsLearned
\* The bounds stop it: no term, entry or message is left to add.
CHECK_DEADLOCK FALSE
