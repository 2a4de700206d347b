\* Two peers, both backends, at most two connections, two messages, three units and
\* one departure, four of these in a behaviour.
SPECIFICATION FairSpec
CONSTANTS
  Messages = 2
  Oversize = {}
  Size = 2
  Width = 8
  Peer = {p1, p2}
  None = None
  Connections = 2
  Units = 3
  Departures = 1
  Budget = 4
  Nul = {3}
INVARIANTS
  WithinRecvbuf
  ReceivedInOrder
  SentWhole
  NothingUnreadForgotten
PROPERTY
  AnnouncedIsSent
CHECK_DEADLOCK FALSE
