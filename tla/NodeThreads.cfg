\* Two peers; five messages and proposals, or two connections, or one of each and
\* something to send.
SPECIFICATION FairSpec
CONSTANTS
  Peer = {1, 7}
  IdWidth = 16
  IntWidth = 4
  MaxCommit = 3
  Capacity = 2
  Loads <- Loads_Each
INVARIANTS
  AppliedWasStored
  DueIsApplied
  PairedRightly
PROPERTY
  QueuedIsSent
