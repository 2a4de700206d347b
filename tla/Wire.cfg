\* Messages of up to three accessor calls, sent and parsed in pieces, up to three writes of the log file, and four runs of the sample programs.
SPECIFICATION Spec
CONSTANTS
  None = None
  Number = {5, 200}
  String <- MCString
  MaxSent = 2
  MaxBudget = 4
  BufferSize = 24
  Leftover <- MCLeftover
  Logs <- MCLogs
  Snaps <- MCSnaps
  MaxCalls = 3
  StreamSize = 2
  HelloName <- MCHelloName
  MaxRuns = 4
INVARIANTS
  ParsedIsMerged
  SizeIsLength
  NulIsInData
  EntriesReadBack
PROPERTIES
  ReaderTakesWhole
\* The bounds stop it.
CHECK_DEADLOCK FALSE
