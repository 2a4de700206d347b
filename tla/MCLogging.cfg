\* Two clients, three messages and one flush through a queue of two cells, and
\* files of one message each; two threads, two loggers and three lines on the
\* console; one call of every format.
SPECIFICATION MCSpec
CONSTANTS
  Client = {c1, c2}
  Worker = w
  Thread = {c1, c2, w}
  Item = {1, 2, 3, 4, 5}
  Messages = 3
  Flushes = 1
  Nothing = 0
  Size = 2
  MaxSize = 1
  MaxFiles = 1
  MaxFailures = 1
  User = {u1, u2}
  Solo = u1
  Nobody = nobody
  Name = {"raft_console", "node_console"}
  MaxInt = 99
  Separator <- Comma
INVARIANTS
  WriterIsOpen
  NothingLostAtExit
  FormattedAsSpecified
  LinesAreWhole
PROPERTY
  ImplementsBoundedFifo
CHECK_DEADLOCK FALSE
