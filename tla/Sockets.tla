------------------------------- MODULE Sockets -------------------------------
(***************************************************************************)
(* The event loop of a node (common/epoll.cc, and common/kqueue.cc, its    *)
(* twin on other systems) between the kernel and the buffers of Netcon.    *)
(* Three threads: the loop, the send thread (pushData(), then send()) and  *)
(* the receive thread (popData()).                                         *)
(*                                                                         *)
(* A descriptor is a connection: a descriptor is never closed nor used     *)
(* again while the node runs.  With epoll an item is reported once per     *)
(* edge, with all its events; with kqueue each filter is an item of its    *)
(* own and is reported as long as the condition holds.  The loop takes one *)
(* report at a time; kMaxEvents only takes several together.               *)
(*                                                                         *)
(* A write takes everything or a part, nothing while the peer does not     *)
(* read what was sent before, or fails when the peer is gone.              *)
(***************************************************************************)
EXTENDS Netcon, FiniteSets

CONSTANTS
  Connections,  \* how many connections there may be
  Units,        \* how many units peers send to this node
  Departures,   \* how many peers may leave
  Budget,       \* how many of all these may happen in one behaviour
  Nul           \* those units that are NUL characters

ASSUME SocketsAssumption ==
  /\ Connections \in Nat /\ Units \in Nat /\ Departures \in Nat /\ Budget \in Nat
  /\ Nul \subseteq 1..Units

Fd == 1..Connections

\* Descriptor 0 is what an absent map entry reads as.
Socket == 0..Connections

VARIABLES
  backend,    \* "epoll" or "kqueue"
  interest,   \* interest[f]: the events asked for
  edge,       \* epoll: descriptors in the ready list
  backlog,    \* connections not accepted yet, oldest first
  listening,  \* the edge of the listening descriptor
  inbound,    \* inbound[f]: received by the kernel and not read
  gone,       \* gone[f]: "no", "fin" (closed by the peer) or "rst"
  outbound,   \* outbound[f]: written so far
  full,       \* descriptors that take no more until the peer reads
  owner,      \* owner[f]: the peer at the other end
  peersfd,    \* id to descriptor
  accepted,   \* accepted descriptors that are not bound to an id yet
  loop,       \* the loop thread
  running,    \* FALSE after exit(1)
  \* History
  meant,      \* <<m, f>>: m was to be written to f
  stored,     \* everything handleRead() has put into recvbuf
  taken,      \* how many messages the send thread has been given
  come,       \* how many units have arrived
  overlap,    \* the overlaps that have happened
  stall       \* what else has gone wrong: events lost, data cut

netVars == <<interest, edge, backlog, listening, inbound, gone, outbound, full, owner>>
mapVars == <<peersfd, accepted>>

vars == <<sendVars, popVars, backend, netVars, mapVars, loop, running,
          meant, stored, taken, come, overlap, stall>>

history == <<meant, stored, taken, come, stall>>

LoopAt(pc) == loop.pc = pc
Goto(pc) == loop' = [loop EXCEPT !.pc = pc]

\* The loop is between the locks of handleWrite(), or stores in handleRead().
Writing == loop.pc \in {"take", "write", "load", "subtract", "test", "disarm"}
Reading == loop.pc \in {"fit", "place", "copy", "count", "add"}
Pushing == sender.pc \in {"lock", "store", "count", "send", "arm"}
Popping == popper.pc \in {"lock", "reset", "copy"}

\* The two overlaps that the locks do not prevent.
Overlapping == (IF Writing /\ Pushing THEN {"send overlap"} ELSE {})
     \cup (IF Reading /\ Popping THEN {"receive overlap"} ELSE {})

Waiting == [pc |-> "wait", fd |-> None, data |-> <<>>, at |-> 0, n |-> 0, reg |-> 0]

Init ==
  /\ NetconInit
  /\ backend \in {"epoll", "kqueue"}
  /\ interest = [f \in Socket |-> {}]
  /\ edge = {}
  /\ backlog = <<>>
  /\ listening = FALSE
  /\ inbound = [f \in Fd |-> <<>>]
  /\ gone = [f \in Fd |-> "no"]
  /\ outbound = [f \in Socket |-> <<>>]
  /\ full = {}
  /\ owner = [f \in Socket |-> None]
  /\ peersfd = [p \in {} |-> 0]
  /\ accepted = {}
  /\ loop = [Waiting EXCEPT !.pc = "starting"]
  /\ running = TRUE
  /\ meant = {} /\ stored = <<>> /\ taken = 0 /\ come = 0
  /\ overlap = {} /\ stall = {}
Readable(f) == f \in Fd /\ (inbound[f] # <<>> \/ gone[f] # "no")

\* A connection that was reset reports everything.
Writable(f) == f \notin full \/ (f \in Fd /\ gone[f] = "rst")

Possible(f) == (IF Writable(f) THEN {"out"} ELSE {}) \cup (IF Readable(f) THEN {"in"} ELSE {})

Events(f) == interest[f] \cap Possible(f)

\* epoll_ctl() looks at once whether there is something to report.
Ask(f, events) ==
  /\ interest' = [interest EXCEPT ![f] = events]
  /\ edge' = IF backend = "epoll" /\ events \cap Possible(f) # {}
             THEN edge \cup {f} ELSE edge \ {f}

\* What the handlers leave of the events asked for: when the stream has ended,
\* when a read did not fit, when a write is over, and when send() wants one.
EpollEnd(f) == {}
KqueueEnd(f) == interest[f] \ {"in"}
EpollFull(f) == interest[f]
KqueueFull(f) == interest[f] \ {"in"}
EpollWritten(f) == {"in"}
KqueueWritten(f) == interest[f] \ {"out"}
EpollArmed(f) == {"in", "out"}
KqueueArmed(f) == interest[f] \cup {"out"}

ByBackend(epoll, kqueue) == IF backend = "epoll" THEN epoll ELSE kqueue

\* Something happens at f.
Edge(f) == edge' = IF backend = "epoll" /\ interest[f] # {} THEN edge \cup {f} ELSE edge

\* On to the next peer of a broadcast.
NextPeer ==
  IF sender.todo = {}
  THEN sender' = IdleSender
  ELSE \E p \in sender.todo :
         sender' = [sender EXCEPT !.pc = "check", !.to = p, !.todo = @ \ {p}]

Known == {p \in DOMAIN peersfd : peersfd[p] # 0}

\* peersfd with descriptor f for peer p.
Bound(p, f) == [q \in DOMAIN peersfd \cup {p} |-> IF q = p THEN f ELSE peersfd[q]]

\* peersfd[id] makes an entry when there is none, for descriptor 0.
Target == IF sender.to \in DOMAIN peersfd THEN peersfd[sender.to] ELSE 0
-----------------------------------------------------------------------------
(* Slips that the properties must notice *)

\* What was read is stored whether it fits or not.
ReadFit_Unchecked ==
  /\ LoopAt("fit")
  /\ loop' = [loop EXCEPT !.pc = "place"]
  /\ UNCHANGED <<sendVars, popVars, backend, netVars, mapVars, running, history>>

\* handleRead() returns after the first read() although epoll reports edges.
ReadAdd_Once ==
  /\ LoopAt("add")
  /\ recvlen' = loop.reg + loop.n
  /\ loop' = Waiting
  /\ UNCHANGED <<sendVars, recvbuf, popper, given, backend, netVars, mapVars, running, history>>

\* Epoll::send() returns for an unknown peer and leaves the buffer full.
Send_Kept ==
  /\ SenderAt("send")
  /\ \/ (sendlen = 0 \/ sender.to \notin Known) /\ NextPeer
     \/ /\ sendlen > 0 /\ sender.to \in Known
        /\ sender' = [sender EXCEPT !.pc = "arm"]
  /\ UNCHANGED <<sendbuf, sendlen, popVars, backend, netVars, mapVars, loop, running, history>>

\* The event is changed, but not to include writing.
Arm_Silent ==
  /\ SenderAt("arm")
  /\ Ask(Target, {"in"})
  /\ meant' = meant \cup {<<sender.msg, Target>>}
  /\ NextPeer
  /\ UNCHANGED <<sendbuf, sendlen, popVars, backend, backlog, listening, inbound, gone,
                 outbound, full, owner, mapVars, loop, running, stored, taken, come, stall>>
-----------------------------------------------------------------------------
(* The kernel and the peers *)

Owned == {f \in Fd : owner[f] # None}
Left == {f \in Fd : gone[f] # "no"}
Spent == taken + come + Cardinality(Owned) + Cardinality(Left)

\* The lowest descriptor that is free.
Fresh(f) == owner[f] = None /\ \A g \in 1..(f - 1) : owner[g] # None

PeerConnects(p, f) ==
  /\ ~LoopAt("starting") /\ Fresh(f) /\ Spent < Budget
  /\ owner' = [owner EXCEPT ![f] = p]
  /\ backlog' = Append(backlog, f)
  /\ listening' = TRUE
  /\ UNCHANGED <<interest, edge, inbound, gone, outbound, full>>
  /\ UNCHANGED <<sendVars, popVars, backend, mapVars, loop, running, history>>

Arrives(f) ==
  /\ owner[f] # None /\ gone[f] = "no" /\ come < Units /\ Spent < Budget
  /\ come' = come + 1
  /\ inbound' = [inbound EXCEPT ![f] = Append(@, come')]
  /\ Edge(f)
  /\ UNCHANGED <<interest, backlog, listening, gone, outbound, full, owner>>
  /\ UNCHANGED <<sendVars, popVars, backend, mapVars, loop, running, meant, stored, taken, stall>>

PeerLeaves(f, how) ==
  /\ owner[f] # None /\ gone[f] = "no"
  /\ Cardinality(Left) < Departures /\ Spent < Budget
  /\ gone' = [gone EXCEPT ![f] = how]
  /\ Edge(f)
  /\ UNCHANGED <<interest, backlog, listening, inbound, outbound, full, owner>>
  /\ UNCHANGED <<sendVars, popVars, backend, mapVars, loop, running, history>>

\* The peer reads what was written, and the socket takes more again.
PeerDrains(f) ==
  /\ f \in full /\ (f \in Fd => gone[f] # "rst")
  /\ full' = full \ {f}
  /\ edge' = IF backend = "epoll" /\ "out" \in interest[f] THEN edge \cup {f} ELSE edge
  /\ UNCHANGED <<interest, backlog, listening, inbound, gone, outbound, owner>>
  /\ UNCHANGED <<sendVars, popVars, backend, mapVars, loop, running, history>>
-----------------------------------------------------------------------------
(* The main thread, before the loop starts: conn() for each peer of the    *)
(* configuration, listenp().                                               *)

connecttopeer(p, f) ==
  /\ LoopAt("starting") /\ Fresh(f) /\ p \notin DOMAIN peersfd
  /\ owner' = [owner EXCEPT ![f] = p]
  /\ peersfd' = Bound(p, f)
  /\ Ask(f, {"in"})
  /\ UNCHANGED <<backlog, listening, inbound, gone, outbound, full, accepted>>
  /\ UNCHANGED <<sendVars, popVars, backend, loop, running, history>>

listenp ==
  /\ LoopAt("starting")
  /\ loop' = Waiting
  /\ UNCHANGED <<sendVars, popVars, backend, netVars, mapVars, running, history>>

\* The thread that binds calls bindPeerfd(); a peer that comes back replaces
\* its old descriptor.  That ids and descriptors are paired rightly is assumed
\* here.
bindPeerfd(p, f) ==
  /\ f \in accepted /\ owner[f] = p
  /\ peersfd' = Bound(p, f)
  /\ accepted' = accepted \ {f}
  /\ UNCHANGED <<sendVars, popVars, backend, netVars, loop, running, history>>
-----------------------------------------------------------------------------
(* The loop: waiting and accepting *)

\* `if' before `else if': when both events are reported together, writing is
\* skipped, and the edge does not come again.
EpollReport(f) ==
  /\ backend = "epoll" /\ LoopAt("wait") /\ f \in edge
  /\ edge' = edge \ {f}
  /\ loop' = CASE "in" \in Events(f) -> [loop EXCEPT !.fd = f, !.pc = "read"]
               [] Events(f) = {"out"} -> [loop EXCEPT !.fd = f, !.pc = "take"]
               [] OTHER -> loop
  /\ stall' = IF Events(f) = {"in", "out"} /\ sendlen > 0
              THEN stall \cup {"in and out"} ELSE stall
  /\ UNCHANGED <<interest, backlog, listening, inbound, gone, outbound, full, owner>>
  /\ UNCHANGED <<sendVars, popVars, backend, mapVars, running, meant, stored, taken, come>>

KqueueReport(f, event) ==
  /\ backend = "kqueue" /\ LoopAt("wait") /\ event \in Events(f)
  /\ loop' = [loop EXCEPT !.fd = f, !.pc = IF event = "in" THEN "read" ELSE "take"]
  /\ UNCHANGED <<sendVars, popVars, backend, netVars, mapVars, running, history>>

\* One connection is accepted for each report.
handleAccept ==
  /\ LoopAt("wait") /\ backlog # <<>>
  /\ backend = "epoll" => listening
  /\ backlog' = Tail(backlog)
  /\ listening' = FALSE
  /\ accepted' = accepted \cup {Head(backlog)}
  /\ Ask(Head(backlog), {"in"})
  /\ stall' = IF Tail(backlog) # <<>> /\ backend = "epoll"
              THEN stall \cup {"backlog"} ELSE stall
  /\ UNCHANGED <<inbound, gone, outbound, full, owner, peersfd, loop>>
  /\ UNCHANGED <<sendVars, popVars, backend, running, meant, stored, taken, come>>
-----------------------------------------------------------------------------
(* The loop: handleRead() *)

\* One read() takes what is there, or the first part of it (4096 bytes).
ReadData(k) ==
  LET got == inbound[loop.fd] IN
  /\ LoopAt("read") /\ gone[loop.fd] # "rst" /\ k \in 1..Len(got)
  /\ loop' = [loop EXCEPT !.pc = "fit", !.data = SubSeq(got, 1, k), !.n = k]
  /\ inbound' = [inbound EXCEPT ![loop.fd] = SubSeq(got, k + 1, Len(got))]
  /\ UNCHANGED <<interest, edge, backlog, listening, gone, outbound, full, owner>>
  /\ UNCHANGED <<sendVars, popVars, backend, mapVars, running, history>>

\* EAGAIN: the descriptor is queued in readfd, which nothing of a node empties,
\* and the receive thread is notified.
ReadAgain ==
  /\ LoopAt("read") /\ gone[loop.fd] = "no" /\ inbound[loop.fd] = <<>>
  /\ loop' = Waiting
  /\ UNCHANGED <<sendVars, popVars, backend, netVars, mapVars, running, history>>

\* Closed by the peer: the read event goes (with epoll all events), and the
\* entry of peersfd; the descriptor stays open.
ReadEnd ==
  LET f == loop.fd IN
  /\ LoopAt("read") /\ gone[f] = "fin" /\ inbound[f] = <<>>
  /\ Ask(f, ByBackend(EpollEnd(f), KqueueEnd(f)))
  /\ peersfd' = [p \in {q \in DOMAIN peersfd : peersfd[q] # f} |-> peersfd[p]]
  /\ stall' = IF "out" \in interest[f] /\ backend = "epoll" /\ sendlen > 0
              THEN stall \cup {"closed"} ELSE stall
  /\ loop' = Waiting
  /\ UNCHANGED <<backlog, listening, inbound, gone, outbound, full, owner, accepted>>
  /\ UNCHANGED <<sendVars, popVars, backend, running, meant, stored, taken, come>>

\* Any other error ends the process.
ReadError ==
  /\ LoopAt("read") /\ gone[loop.fd] = "rst"
  /\ running' = FALSE
  /\ UNCHANGED <<sendVars, popVars, backend, netVars, mapVars, loop, history>>

\* What does not fit is thrown away and handleRead() returns.
ReadFit ==
  LET fits == loop.n + recvlen <= Size IN
  /\ LoopAt("fit")
  /\ loop' = IF fits THEN [loop EXCEPT !.pc = "place"] ELSE Waiting
  /\ interest' = IF fits THEN interest
                 ELSE [interest EXCEPT ![loop.fd] =
                         ByBackend(EpollFull(loop.fd), KqueueFull(loop.fd))]
  /\ stall' = IF fits THEN stall ELSE stall \cup {"full"}
  /\ UNCHANGED <<edge, backlog, listening, inbound, gone, outbound, full, owner>>
  /\ UNCHANGED <<sendVars, popVars, backend, mapVars, running, meant, stored, taken, come>>

\* The length is read again for the place.
ReadPlace ==
  /\ LoopAt("place")
  /\ loop' = [loop EXCEPT !.pc = "copy", !.at = recvlen]
  /\ UNCHANGED <<sendVars, popVars, backend, netVars, mapVars, running, history>>

\* How many units there are in front of the first NUL.
Plain(s) == IF \E i \in DOMAIN s : s[i] \in Nul
            THEN (CHOOSE i \in DOMAIN s : s[i] \in Nul /\ \A j \in 1..(i - 1) : s[j] \notin Nul) - 1
            ELSE Len(s)

\* The copy goes on to the first NUL of the local array, however many units were
\* read.  When there is none among them, whatever the array held before follows
\* until a NUL comes, past the end of recvbuf if it comes late.  What lies there
\* is not modelled: overwriting it kills the process here or does no harm.
ReadCopy(stale) ==
  LET plain == Plain(loop.data)
      end == loop.at + plain + stale
  IN
  /\ LoopAt("copy")
  /\ stale > 0 => plain = Len(loop.data)
  /\ recvbuf' = [i \in 1..Size |->
                   IF i \in (loop.at + 1)..(loop.at + plain) THEN loop.data[i - loop.at]
                   ELSE IF i \in (loop.at + plain + 1)..end THEN None ELSE recvbuf[i]]
  /\ running' \in IF end > Size THEN BOOLEAN ELSE {TRUE}
  /\ stored' = stored \o loop.data
  /\ Goto("count")
  /\ UNCHANGED <<sendVars, recvlen, popper, given, backend, netVars, mapVars,
                 meant, taken, come, stall>>

\* len += n, in two steps; then the next read().
ReadCount ==
  /\ LoopAt("count")
  /\ loop' = [loop EXCEPT !.pc = "add", !.reg = recvlen]
  /\ UNCHANGED <<sendVars, popVars, backend, netVars, mapVars, running, history>>

ReadAdd ==
  /\ LoopAt("add")
  /\ recvlen' = loop.reg + loop.n
  /\ loop' = [Waiting EXCEPT !.pc = "read", !.fd = loop.fd]
  /\ UNCHANGED <<sendVars, recvbuf, popper, given, backend, netVars, mapVars, running, history>>
-----------------------------------------------------------------------------
(* The loop: handleWrite() *)

\* The local copy of what the buffer holds.
WriteTake ==
  /\ LoopAt("take")
  /\ loop' = [loop EXCEPT !.pc = "write",
                !.data = SubSeq(sendbuf, 1, IF sendlen <= Size THEN sendlen ELSE Size)]
  /\ UNCHANGED <<sendVars, popVars, backend, netVars, mapVars, running, history>>

\* r units go out, from the start of the copy.  While the socket takes nothing
\* (EAGAIN) the loop tries again and again, and does nothing else.
WriteSome(r) ==
  /\ LoopAt("write") /\ sendlen <= Size
  /\ loop.fd \notin full /\ (loop.fd \in Fd => gone[loop.fd] # "rst")
  /\ r <= sendlen
  /\ stall' = IF r < sendlen THEN stall \cup {"short write"} ELSE stall
  /\ full' \in {full \cup {loop.fd}} \cup (IF r < sendlen THEN {} ELSE {full})
  /\ outbound' = [outbound EXCEPT ![loop.fd] =
       @ \o [i \in 1..r |-> IF i <= Len(loop.data) THEN loop.data[i] ELSE None]]
  /\ loop' = [loop EXCEPT !.pc = "load", !.n = r]
  /\ UNCHANGED <<interest, edge, backlog, listening, inbound, gone, owner>>
  /\ UNCHANGED <<sendVars, popVars, backend, mapVars, running, meant, stored, taken, come>>

\* The end of handleWrite(): the write event is taken back.
Disarm ==
  /\ Ask(loop.fd, ByBackend(EpollWritten(loop.fd), KqueueWritten(loop.fd)))
  /\ loop' = Waiting
  /\ UNCHANGED <<backlog, listening, inbound, gone, outbound, full, owner>>
  /\ UNCHANGED <<sendVars, popVars, backend, mapVars, running, meant, stored, taken, come>>

\* write() returns 0 because there is nothing to write, or fails because the
\* peer is gone or the length makes no sense.  What is in the buffer stays.
WriteNothing ==
  /\ LoopAt("write")
  /\ \/ sendlen = 0 /\ UNCHANGED stall
     \/ /\ sendlen > 0
        /\ sendlen > Size \/ (loop.fd \in Fd /\ gone[loop.fd] # "no")
        /\ stall' = stall \cup {"write error"}
  /\ Disarm

\* len -= r, in two steps.
WriteLoad ==
  /\ LoopAt("load")
  /\ loop' = [loop EXCEPT !.pc = "subtract", !.reg = sendlen]
  /\ UNCHANGED <<sendVars, popVars, backend, netVars, mapVars, running, history>>

\* The test may use the difference just computed, or read len again.
WriteSubtract ==
  LET rest == (loop.reg - loop.n) % Width IN
  /\ LoopAt("subtract")
  /\ sendlen' = rest
  /\ \E pc \in {"test", IF rest = 0 THEN "disarm" ELSE "write"} :
       loop' = [loop EXCEPT !.pc = pc, !.n = 0, !.reg = 0]
  /\ UNCHANGED <<sendbuf, sender, popVars, backend, netVars, mapVars, running, history>>

WriteTest ==
  /\ LoopAt("test")
  /\ Goto(IF sendlen = 0 THEN "disarm" ELSE "write")
  /\ UNCHANGED <<sendVars, popVars, backend, netVars, mapVars, running, history>>

\* By now the send thread may have stored the next message and armed the write
\* event for it.
WriteDisarm ==
  /\ LoopAt("disarm")
  /\ stall' = IF sendlen > 0 /\ ~Pushing THEN stall \cup {"disarmed"} ELSE stall
  /\ Disarm
-----------------------------------------------------------------------------
(* The send thread *)

PushData ==
  /\ PushStep
  /\ UNCHANGED <<popVars, backend, netVars, mapVars, loop, running, history>>

\* A message is taken from the queue, for one peer or (to = 0) for all that are
\* connected at this moment.
Take(to) ==
  /\ SenderAt("idle") /\ ~LoopAt("starting")
  /\ taken + Cardinality(to) <= Messages /\ Spent + Cardinality(to) <= Budget
  /\ taken' = taken + Cardinality(to)
  /\ \E p \in to :
       sender' = [IdleSender EXCEPT !.pc = "check", !.msg = taken', !.to = p, !.todo = to \ {p}]
  /\ UNCHANGED <<sendbuf, sendlen, popVars, backend, netVars, mapVars, loop, running,
                 meant, stored, come, stall>>

\* send(), up to the system call.  Epoll empties the buffer when it does not
\* know the peer; Kqueue does not look.
Send ==
  /\ SenderAt("send")
  /\ \/ sendlen = 0 /\ NextPeer /\ UNCHANGED sendlen
     \/ sendlen > 0 /\ backend = "epoll" /\ sender.to \notin Known /\ NextPeer /\ sendlen' = 0
     \/ /\ sendlen > 0 /\ (backend = "epoll" => sender.to \in Known)
        /\ sender' = [sender EXCEPT !.pc = "arm"] /\ UNCHANGED sendlen
  /\ UNCHANGED <<sendbuf, popVars, backend, netVars, mapVars, loop, running, history>>

Arm ==
  /\ SenderAt("arm")
  /\ backend = "epoll" => interest[Target] # {}
  /\ Ask(Target, ByBackend(EpollArmed(Target), KqueueArmed(Target)))
  /\ peersfd' = Bound(sender.to, Target)
  /\ meant' = meant \cup {<<sender.msg, Target>>}
  /\ NextPeer
  /\ UNCHANGED <<sendbuf, sendlen, popVars, backend, backlog, listening, inbound, gone,
                 outbound, full, owner, accepted, loop, running, stored, taken, come, stall>>

\* epoll_ctl() fails for what is not registered, kevent() may for descriptor 0.
ArmError ==
  /\ SenderAt("arm")
  /\ IF backend = "epoll" THEN interest[Target] = {} ELSE Target = 0
  /\ running' = FALSE
  /\ UNCHANGED <<sendVars, popVars, backend, netVars, mapVars, loop, history>>
-----------------------------------------------------------------------------
PopData ==
  /\ PopStep
  /\ UNCHANGED <<sendVars, backend, netVars, mapVars, loop, running, history>>

Report ==
  \/ \E f \in Socket : EpollReport(f) \/ \E e \in {"in", "out"} : KqueueReport(f, e)
  \/ handleAccept

handleRead == (\E k \in 1..Units : ReadData(k)) \/ ReadAgain \/ ReadEnd \/ ReadError \/ ReadFit
              \/ ReadPlace \/ (\E stale \in 0..(Size + 1) : ReadCopy(stale)) \/ ReadCount \/ ReadAdd

handleWrite == WriteTake \/ (\E r \in 1..Size : WriteSome(r)) \/ WriteNothing
               \/ WriteLoad \/ WriteSubtract \/ WriteTest \/ WriteDisarm

LoopStep == Report \/ handleRead \/ handleWrite

SendStep == PushData \/ Send \/ Arm \/ ArmError

Environment ==
  \/ \E p \in Peer, f \in Fd : PeerConnects(p, f) \/ connecttopeer(p, f) \/ bindPeerfd(p, f)
  \/ \E f \in Fd : Arrives(f) \/ \E how \in {"fin", "rst"} : PeerLeaves(f, how)
  \/ \E f \in Socket : PeerDrains(f)
  \/ listenp
  \/ Take(DOMAIN peersfd) \/ \E p \in Peer : Take({p})

Next ==
  /\ running
  /\ LoopStep \/ SendStep \/ PopData \/ Environment
  /\ overlap' = overlap \cup Overlapping'

\* The loop and the send thread run while there is something for them to do.
Fairness ==
  WF_vars(running /\ LoopStep /\ overlap' = overlap \cup Overlapping')
  /\ WF_vars(running /\ SendStep /\ overlap' = overlap \cup Overlapping')

Spec == Init /\ [][Next]_vars

FairSpec == Spec /\ Fairness
=============================================================================
