\* Two nodes that both stand for election, with every interleaving of their threads and messages: what holds however many leaders there are.
SPECIFICATION Spec
CONSTANTS
  n1 = n1
  n2 = n2
  n3 = n3
  None = None
  Node = {n1, n2}
  Peers <- StarPeers
  Value = {v1}
  Electable = {n1, n2}
  Faults = {}
  MaxTerm = 4
  MaxEntries = 2
  MaxInFlight = 2
  MaxPending = 9
  MaxFaults = 0
INVARIANTS
  TypeOK
  AppliedWithinCommit
  NobodyIsAskedToVote
  CommitHasAcknowledgement
PROPERTIES
  TermsOnlyGrow
  LeaderYieldsOnlyToHigherTerm
  LeaderAppendOnly
\* The bounds stop it: no term, entry or message is left to add.
CHECK_DEADLOCK FALSE
