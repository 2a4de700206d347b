-------------------------- MODULE SocketsProperties --------------------------
(***************************************************************************)
(* What the event loop and the threads around it guarantee, and which      *)
(* events each guarantee does not survive.                                 *)
(***************************************************************************)
EXTENDS Sockets

\* What is read has room in the receive buffer, and popData() takes nothing from
\* behind the end, although the length is tested, read again and raised in steps
\* between which popData() may reset it.  The stale units that the copy may
\* append are another matter: they go behind the end (ReadCopy).
WithinRecvbuf ==
  /\ recvlen <= Size /\ popper.len <= Size
  /\ LoopAt("copy") => loop.at + loop.n <= Size

\* While handleRead() and popData() do not overlap, popData() returns what was
\* stored, all of it, once and in order; NUL-free data only.
ReceivedInOrder ==
  "receive overlap" \notin overlap /\ (\A i \in DOMAIN stored : stored[i] \notin Nul) =>
    LET held == IF PopperAt("copy") THEN popper.len ELSE recvlen
        len == IF loop.pc \in {"count", "add"} THEN held + loop.n ELSE held
    IN stored = given \o SubSeq(recvbuf, 1, len)

\* The units written to a descriptor are whole messages meant for it, none
\* twice.  Short writes break this, and an overlap of pushData() or send() with
\* handleWrite().
IsBlock(f, k, m) == SubSeq(outbound[f], (k - 1) * Size + 1, k * Size) = Data(m)

SentWhole ==
  "send overlap" \notin overlap /\ "short write" \notin stall =>
    \A f \in Fd :
      /\ Len(outbound[f]) % Size = 0
      /\ \A k \in 1..(Len(outbound[f]) \div Size) :
           \E m \in Message :
             /\ <<m, f>> \in meant /\ IsBlock(f, k, m)
             /\ \A l \in 1..(k - 1) : ~IsBlock(f, l, m)

\* The ways in which a write event is known to be lost.
WriteLost == stall \cap {"in and out", "closed", "write error", "disarmed"} # {}

\* A registered descriptor with something to read is in the ready list or being
\* read, unless handleRead() returned early because the buffer was full.
NothingUnreadForgotten ==
  backend = "epoll" /\ running => \A f \in Fd :
    "in" \in interest[f] /\ Readable(f) =>
      f \in edge \/ (loop.fd = f /\ (Reading \/ LoopAt("read"))) \/ "full" \in stall

\* Nobody stops reading for ever.
PeersRead == \A f \in Socket : []<>Writable(f)

\* If nobody stops reading for ever, what was announced is written, or its event
\* was lost in a known way, or the process has ended.  A single peer that does
\* stop makes the loop try its write for ever (epoll.cc:115), for all the others.
AnnouncedIsSent ==
  PeersRead =>
  (sendlen > 0 /\ ~Pushing) ~> (sendlen = 0 \/ WriteLost \/ ~running)
=============================================================================
