\* Three nodes of which one stands for election, followers joining at any time: replication keeps the logs together and implements ReplicatedLog.
SPECIFICATION Spec
CONSTANTS
  n1 = n1
  n2 = n2
  n3 = n3
  None = None
  Node = {n1, n2, n3}
  Peers <- StarPeers
  Value = {v1, v2}
  Electable = {n1}
  Faults = {}
  MaxTerm = 2
  MaxEntries = 2
  MaxInFlight = 2
  MaxPending = 2
  MaxFaults = 0
INVARIANTS
  CommitWithinLog
PROPERTIES
  LeaderCommitsWhatAllAcknowledged
  ImplementsReplicatedLog
\* The bounds stop it: no term, entry or message is left to add.
CHECK_DEADLOCK FALSE
