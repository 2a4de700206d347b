\* Two workers, three clients, one task that never returns, and a destructor.
SPECIFICATION FairSpec
CONSTANTS
  Worker = {w1, w2}
  Task = {t1, t2, t3}
  Endless = {t3}
  None = None
INVARIANTS
  TypeOK
  NoLostWakeup
  JoinedIsDrained
PROPERTIES
  ImplementsTaskQueue
  QueuedIsBegun
  DestructorReturns
\* All clients have returned and the pool is destroyed, or never will be.
CHECK_DEADLOCK FALSE
