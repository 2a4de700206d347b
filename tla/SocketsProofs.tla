--------------------------- MODULE SocketsProofs ---------------------------
(***************************************************************************)
(* Proofs about the event loop and the buffers, for any number of          *)
(* connections and messages, any data and sizes, and both backends.        *)
(* Each property has an invariant of its own over the types: where the     *)
(* edge of a readable descriptor is, what handleRead() and popData() have  *)
(* between them, who is behind a descriptor, and what becomes of the       *)
(* message in the send buffer.                                             *)
(***************************************************************************)
EXTENDS SocketsProperties, FiniteSetTheorems, SequenceTheorems,
        WellFoundedInduction, TLAPS

LoopPlace == {"starting", "wait", "read", "fit", "place", "copy", "count", "add",
              "take", "write", "load", "subtract", "test", "disarm"}
SenderPlace == {"idle", "check", "lock", "store", "count", "send", "arm"}
PopperPlace == {"idle", "lock", "reset", "copy"}

\* What is in a buffer: a unit from a peer, a unit of a message, or nothing.
Unit == 1..Units
Piece == Unit \cup (Message \X Nat) \cup {None}

KernelType ==
  /\ backend \in {"epoll", "kqueue"}
  /\ interest \in [Socket -> SUBSET {"in", "out"}]
  /\ backlog \in Seq(Fd)
  /\ inbound \in [Fd -> Seq(Unit)]
  /\ gone \in [Fd -> {"no", "fin", "rst"}]
  /\ outbound \in [Socket -> Seq(Piece)]
  /\ full \subseteq Socket
  /\ owner \in [Socket -> Peer \cup {None}]
  /\ come \in 0..Units
  /\ running \in BOOLEAN

LoopType ==
  /\ loop \in [pc : LoopPlace, fd : Socket \cup {None}, data : Seq(Piece),
               at : Nat, n : Nat, reg : Nat]
  /\ Reading \/ LoopAt("read") => loop.fd \in Fd
  /\ Writing => loop.fd \in Socket
  /\ LoopAt("fit") \/ LoopAt("place") \/ LoopAt("copy") =>
       loop.data \in Seq(Unit) /\ Len(loop.data) = loop.n

SenderRecord == [pc : SenderPlace, msg : Message \cup {None}, to : Peer \cup {None},
                 todo : SUBSET Peer, at : Nat, done : Nat, reg : Nat]

SenderFits ==
  /\ sender \in SenderRecord
  /\ ~SenderAt("idle") => sender.msg \in Message /\ sender.to \in Peer
  /\ SenderAt("store") => sender.done < Len(Data(sender.msg))
  /\ SenderAt("count") => sender.done <= Len(Data(sender.msg))

SenderType ==
  /\ SenderFits
  /\ sendbuf \in [1..Size -> Piece] /\ sendlen \in Nat
  /\ IsFiniteSet(DOMAIN peersfd) /\ DOMAIN peersfd \subseteq Peer
  /\ \A p \in DOMAIN peersfd : peersfd[p] \in Socket
  /\ taken \in 0..Messages

PopperType ==
  /\ recvbuf \in [1..Size -> Piece] /\ recvlen \in Nat
  /\ popper \in [pc : PopperPlace, len : Nat]
  /\ given \in Seq(Piece) /\ stored \in Seq(Unit)

TypeOK == KernelType /\ LoopType /\ SenderType /\ PopperType
-----------------------------------------------------------------------------
\* There is room for what has been read, from the test on, and what the length
\* says is in the buffer.
RoomInv ==
  /\ recvlen <= Size /\ popper.len <= Size
  /\ LoopAt("place") => recvlen + loop.n <= Size
  /\ LoopAt("copy") => recvlen <= loop.at /\ loop.at + loop.n <= Size
  /\ LoopAt("count") \/ LoopAt("add") => recvlen + loop.n <= Size
  /\ LoopAt("add") => loop.reg + loop.n <= Size

\* The overlaps that have not happened.
ReceiveApart == "receive overlap" \notin overlap
SendApart == "send overlap" \notin overlap /\ "short write" \notin stall

\* An overlap is noted when it begins.
OverlapsNoted == Overlapping \subseteq overlap

\* What has been stored, where the characters of it end that are held, and what
\* the two threads know of the length while they do not overlap.
Stays == IF PopperAt("copy") THEN popper.len ELSE recvlen
Comes == IF LoopAt("count") \/ LoopAt("add") THEN loop.n ELSE 0
Held == Stays + Comes

OrderInv ==
  ReceiveApart =>
    /\ LoopAt("copy") => loop.at = recvlen
    /\ LoopAt("add") => loop.reg = recvlen
    /\ PopperAt("reset") => popper.len = recvlen
    /\ PopperAt("copy") => recvlen = 0
    /\ (\A i \in DOMAIN stored : stored[i] \notin Nul) =>
         stored = given \o SubSeq(recvbuf, 1, Held)
-----------------------------------------------------------------------------
\* A descriptor of Fd that nobody is behind has not been used.
FreeInv == \A f \in Fd : owner[f] = None => interest[f] = {} /\ outbound[f] = <<>>

\* Somebody is behind what waits to be accepted, and behind what a handler has.
Busy == Reading \/ LoopAt("read") \/ Writing
BacklogInv == \A i \in 1..Len(backlog) : owner[backlog[i]] # None
BusyInv == Busy /\ loop.fd \in Fd => owner[loop.fd] # None

\* A peer is behind the descriptor that is known for it.
PeersInv == \A p \in DOMAIN peersfd : peersfd[p] \in Fd => owner[peersfd[p]] = p

\* The send thread has the last message, for every peer once.
TurnInv == ~SenderAt("idle") => sender.msg = taken /\ sender.to \notin sender.todo

OwnedInv == FreeInv /\ BacklogInv /\ BusyInv /\ PeersInv /\ TurnInv

\* The descriptors whose write event is asked for.
Armed == {f \in Socket : "out" \in interest[f]}

Blocks(f) == Len(outbound[f]) \div Size
Written(m, f) == \E k \in 1..Blocks(f) : IsBlock(f, k, m)

\* The peers that the message of the send thread has not been announced for.
Ahead == IF SenderAt("idle") THEN {} ELSE {sender.to} \cup sender.todo

\* Message m, or its beginning, is in the send buffer.
Begun(m, n) ==
  /\ m \in Message \ Oversize /\ m <= taken
  /\ \A i \in 1..n : sendbuf[i] = Data(m)[i]

\* m is in the buffer and may be written to whom the write event is asked for.
Announced(m) ==
  /\ sendlen = Size /\ Begun(m, Size)
  /\ \A f \in Armed \cap Fd :
       /\ <<m, f>> \in meant /\ ~Written(m, f)
       /\ sender.msg = m => owner[f] \notin Ahead

\* The send thread between its two looks and the announcement.
PushInv ==
  Pushing =>
    /\ Armed = {} /\ sender.msg \notin Oversize
    /\ SenderAt("lock") => sendlen = 0
    /\ SenderAt("store") \/ SenderAt("count") =>
         sender.at = 0 /\ sender.done <= Size /\ Begun(sender.msg, sender.done)
    /\ SenderAt("store") => sendlen = sender.done
    /\ SenderAt("count") => sender.done > 0 /\ sender.reg = sender.done - 1
    /\ SenderAt("send") \/ SenderAt("arm") => sendlen = Size /\ Begun(sender.msg, Size)

\* The loop in handleWrite().
WriteInv ==
  /\ LoopAt("take") \/ LoopAt("write") =>
       /\ loop.fd \in Armed
       /\ LoopAt("write") => loop.data = sendbuf
  /\ loop.pc \in {"load", "subtract", "test", "disarm"} => Armed = {loop.fd}
  /\ loop.pc \in {"load", "subtract"} => loop.n = Size /\ sendlen = Size
  /\ LoopAt("subtract") => loop.reg = Size
  /\ loop.pc \in {"test", "disarm"} => sendlen = 0

\* The buffer between one announcement and the next message.
BufferInv ==
  /\ \A f, g \in Armed : f = g
  /\ ~Pushing /\ loop.pc \notin {"load", "subtract", "test", "disarm"} =>
       \/ sendlen = 0 /\ Armed = {}
       \/ \E m \in Message : Announced(m)

\* What has been written to f.
OutboundAt(f) ==
  /\ Len(outbound[f]) % Size = 0
  /\ \A k \in 1..Blocks(f) :
       \E m \in Message :
         /\ <<m, f>> \in meant /\ IsBlock(f, k, m)
         /\ m <= taken /\ (sender.msg = m => owner[f] \notin Ahead)
         /\ \A l \in 1..(k - 1) : ~IsBlock(f, l, m)

OutboundInv == \A f \in Fd : OutboundAt(f)

\* What is kept while nothing has overlapped and no write was short.
MessageInv == PushInv /\ WriteInv /\ BufferInv /\ OutboundInv

SentInv == SendApart => MessageInv
-----------------------------------------------------------------------------
(* What the operators give *)

\* The bounds are numbers.
LEMMA Bounded ==
  /\ Connections \in Nat /\ Units \in Nat /\ Messages \in Nat /\ Budget \in Nat
  /\ Size \in Nat \ {0} /\ Width \in Nat /\ Width > 2 * Size
  /\ Nul \subseteq Unit /\ Oversize \subseteq Message /\ None \notin Peer
  /\ Socket = 0..Connections /\ Fd \subseteq Socket /\ 0 \in Socket /\ 0 \notin Fd
BY SocketsAssumption, NetconAssumption DEF Socket, Fd, Unit

\* What a peer sends fits into the buffers.
LEMMA UnitsArePieces ==
  ASSUME NEW s \in Seq(Unit)
  PROVE  s \in Seq(Piece)
BY SeqMonotonic DEF Piece

\* Part of a sequence.
LEMMA PartOf ==
  ASSUME NEW S, NEW s \in Seq(S), NEW i \in Nat \ {0}, NEW k \in 0..Len(s)
  PROVE  /\ SubSeq(s, i, k) \in Seq(S)
         /\ Len(SubSeq(s, i, k)) = IF i <= k THEN k - i + 1 ELSE 0
<1>1. \A j \in i..k : s[j] \in S
  BY ElementOfSeq
<1>2. i \in Int /\ k \in Int
  OBVIOUS
<1> QED BY <1>1, <1>2, SubSeqProperties

\* A message is units of its own.
LEMMA DataType ==
  ASSUME NEW m \in Message
  PROVE  /\ Data(m) \in Seq(Piece)
         /\ Len(Data(m)) = IF m \in Oversize THEN Size + 1 ELSE Size
         /\ Len(Data(m)) \in Nat \ {0}
         /\ \A i \in 1..Len(Data(m)) : Data(m)[i] = <<m, i>> /\ Data(m)[i] \in Piece
<1> DEFINE n == IF m \in Oversize THEN Size + 1 ELSE Size
<1>1. n \in Nat \ {0}
  BY Bounded
<1>2. Data(m) = [i \in 1..n |-> <<m, i>>]
  BY DEF Data
<1> HIDE DEF n
<1>3. \A i \in 1..n : <<m, i>> \in Piece
  BY <1>1 DEF Piece
<1>4. Data(m) \in Seq(Piece) /\ Len(Data(m)) = n /\ \A i \in 1..n : Data(m)[i] = <<m, i>>
  BY <1>1, <1>2, <1>3
<1> QED BY <1>1, <1>3, <1>4 DEF n

\* A buffer is a sequence of its size.
LEMMA BufferIsSeq ==
  ASSUME NEW b \in [1..Size -> Piece]
  PROVE  b \in Seq(Piece) /\ Len(b) = Size
BY Bounded

\* Asking for events of a descriptor changes nothing for the others.
LEMMA AskOnly ==
  ASSUME interest \in [Socket -> SUBSET {"in", "out"}],
         NEW f \in Socket, NEW events \in SUBSET {"in", "out"}, Ask(f, events)
  PROVE  /\ interest' \in [Socket -> SUBSET {"in", "out"}]
         /\ interest'[f] = events
         /\ \A g \in Socket \ {f} : interest'[g] = interest[g] /\ (g \in edge' <=> g \in edge)
         /\ backend = "epoll" /\ "in" \in events /\ Readable(f) => f \in edge'
BY DEF Ask, Possible

\* The events that the handlers leave are events.
LEMMA LeftEvents ==
  ASSUME interest \in [Socket -> SUBSET {"in", "out"}], NEW f \in Socket
  PROVE  /\ ByBackend(EpollEnd(f), KqueueEnd(f)) \in SUBSET {"in", "out"}
         /\ ByBackend(EpollFull(f), KqueueFull(f)) \in SUBSET {"in", "out"}
         /\ ByBackend(EpollWritten(f), KqueueWritten(f)) \in SUBSET {"in", "out"}
         /\ ByBackend(EpollArmed(f), KqueueArmed(f)) \in SUBSET {"in", "out"}
BY DEF ByBackend, EpollEnd, KqueueEnd, EpollFull, KqueueFull, EpollWritten, KqueueWritten,
       EpollArmed, KqueueArmed

\* The message goes to a descriptor.
LEMMA TargetType ==
  ASSUME SenderType
  PROVE  Target \in Socket
BY Bounded DEF Target, SenderType

\* The handlers have no descriptor, or one of Fd, or 0.
LEMMA LoopFd ==
  ASSUME LoopType
  PROVE  Writing => loop.fd \in Socket /\ (loop.fd \in Fd \/ loop.fd = 0)
BY Bounded DEF LoopType, Fd, Socket
-----------------------------------------------------------------------------
(* Types *)

\* What leaves the kernel alone.
kernelVars == <<backend, interest, backlog, inbound, gone, outbound, full, owner, come, running>>

\* The kernel has its type while it is left alone.
LEMMA KernelSame ==
  ASSUME KernelType, UNCHANGED kernelVars
  PROVE  KernelType'
BY DEF KernelType, kernelVars

\* The peers.
LEMMA PeersKernel ==
  ASSUME TypeOK,
         \/ \E p \in Peer, f \in Fd : PeerConnects(p, f) \/ connecttopeer(p, f)
         \/ \E f \in Fd : Arrives(f) \/ \E how \in {"fin", "rst"} : PeerLeaves(f, how)
         \/ \E f \in Socket : PeerDrains(f)
  PROVE  KernelType'
<1> USE DEF TypeOK
<1>1. ASSUME NEW p \in Peer, NEW f \in Fd, PeerConnects(p, f)
      PROVE  KernelType'
  <2>1. /\ owner' = [owner EXCEPT ![f] = p] /\ backlog' = Append(backlog, f)
        /\ UNCHANGED <<backend, interest, inbound, gone, outbound, full, come, running>>
    BY <1>1 DEF PeerConnects, history
  <2>2. backlog' \in Seq(Fd)
    BY <2>1, AppendProperties DEF KernelType
  <2>3. owner' \in [Socket -> Peer \cup {None}]
    BY <2>1 DEF KernelType
  <2> QED BY <2>1, <2>2, <2>3 DEF KernelType
<1>2. ASSUME NEW p \in Peer, NEW f \in Fd, connecttopeer(p, f)
      PROVE  KernelType'
  <2>1. /\ owner' = [owner EXCEPT ![f] = p] /\ Ask(f, {"in"})
        /\ UNCHANGED <<backend, backlog, inbound, gone, outbound, full, come, running>>
    BY <1>2 DEF connecttopeer, history
  <2>2. interest' \in [Socket -> SUBSET {"in", "out"}]
    BY <2>1, AskOnly, Bounded DEF KernelType
  <2> QED BY <2>1, <2>2 DEF KernelType
<1>3. ASSUME NEW f \in Fd, Arrives(f)
      PROVE  KernelType'
  <2>1. /\ come' = come + 1 /\ come < Units
        /\ inbound' = [inbound EXCEPT ![f] = Append(@, come')]
        /\ UNCHANGED <<backend, interest, backlog, gone, outbound, full, owner, running>>
    BY <1>3 DEF Arrives
  <2>2. come' \in Unit /\ come' \in 0..Units
    BY <2>1, Bounded DEF KernelType, Unit
  <2>3. Append(inbound[f], come') \in Seq(Unit)
    BY <2>2, AppendProperties DEF KernelType
  <2>4. inbound' \in [Fd -> Seq(Unit)]
    BY <2>1, <2>3 DEF KernelType
  <2> QED BY <2>1, <2>2, <2>4 DEF KernelType
<1>4. ASSUME NEW f \in Fd, NEW how \in {"fin", "rst"}, PeerLeaves(f, how)
      PROVE  KernelType'
  <2>1. /\ gone' = [gone EXCEPT ![f] = how]
        /\ UNCHANGED <<backend, interest, backlog, inbound, outbound, full, owner, come, running>>
    BY <1>4 DEF PeerLeaves, history
  <2> QED BY <2>1 DEF KernelType
<1>5. ASSUME NEW f \in Socket, PeerDrains(f)
      PROVE  KernelType'
  <2>1. /\ full' = full \ {f}
        /\ UNCHANGED <<backend, interest, backlog, inbound, gone, outbound, owner, come, running>>
    BY <1>5 DEF PeerDrains, history
  <2> QED BY <2>1 DEF KernelType
<1> QED BY <1>1, <1>2, <1>3, <1>4, <1>5

\* handleAccept() and handleRead().
LEMMA ReadKernel ==
  ASSUME TypeOK, handleAccept \/ handleRead
  PROVE  KernelType'
<1> USE DEF TypeOK
<1>1. CASE handleAccept
  <2>1. /\ backlog # <<>> /\ backlog' = Tail(backlog) /\ Ask(Head(backlog), {"in"})
        /\ UNCHANGED <<backend, inbound, gone, outbound, full, owner, come, running>>
    BY <1>1 DEF handleAccept
  <2>2. Head(backlog) \in Fd /\ backlog' \in Seq(Fd)
    BY <2>1, HeadTailProperties DEF KernelType
  <2>3. interest' \in [Socket -> SUBSET {"in", "out"}]
    BY <2>1, <2>2, AskOnly, Bounded DEF KernelType
  <2> QED BY <2>1, <2>2, <2>3 DEF KernelType
<1>2. ASSUME NEW k \in 1..Units, ReadData(k)
      PROVE  KernelType'
  <2> DEFINE got == inbound[loop.fd]
  <2>1. /\ k \in 1..Len(got) /\ LoopAt("read")
        /\ inbound' = [inbound EXCEPT ![loop.fd] = SubSeq(got, k + 1, Len(got))]
        /\ UNCHANGED <<backend, interest, backlog, gone, outbound, full, owner, come, running>>
    BY <1>2 DEF ReadData, history
  <2>2. loop.fd \in Fd
    BY <2>1 DEF LoopType
  <2>3. got \in Seq(Unit) /\ Len(got) \in 0..Len(got) /\ k + 1 \in Nat \ {0}
    <3>1. got \in Seq(Unit)
      BY <2>2 DEF KernelType
    <3> HIDE DEF got
    <3>2. Len(got) \in Nat /\ k \in Nat
      BY <3>1, Bounded
    <3> QED BY <3>1, <3>2
  <2>4. SubSeq(got, k + 1, Len(got)) \in Seq(Unit)
    <3> HIDE DEF got
    <3> QED BY <2>3, PartOf
  <2>5. inbound' \in [Fd -> Seq(Unit)]
    BY <2>1, <2>4 DEF KernelType
  <2> QED BY <2>1, <2>5 DEF KernelType
<1>3. CASE ReadEnd
  <2>1. /\ LoopAt("read") /\ Ask(loop.fd, ByBackend(EpollEnd(loop.fd), KqueueEnd(loop.fd)))
        /\ UNCHANGED <<backend, backlog, inbound, gone, outbound, full, owner, come, running>>
    BY <1>3 DEF ReadEnd
  <2>2. loop.fd \in Socket
    BY <2>1, Bounded DEF LoopType
  <2>3. interest' \in [Socket -> SUBSET {"in", "out"}]
    BY <2>1, <2>2, AskOnly, LeftEvents DEF KernelType
  <2> QED BY <2>1, <2>3 DEF KernelType
<1>4. CASE ReadFit
  <2>1. /\ LoopAt("fit")
        /\ \/ interest' = interest
           \/ interest' = [interest EXCEPT ![loop.fd] =
                             ByBackend(EpollFull(loop.fd), KqueueFull(loop.fd))]
        /\ UNCHANGED <<backend, backlog, inbound, gone, outbound, full, owner, come, running>>
    BY <1>4 DEF ReadFit
  <2>2. loop.fd \in Socket
    BY <2>1, Bounded DEF LoopType, Reading, LoopAt
  <2>3. interest' \in [Socket -> SUBSET {"in", "out"}]
    <3>1. ByBackend(EpollFull(loop.fd), KqueueFull(loop.fd)) \in SUBSET {"in", "out"}
      BY <2>2, LeftEvents DEF KernelType
    <3> QED BY <2>1, <3>1 DEF KernelType
  <2> QED BY <2>1, <2>3 DEF KernelType
<1>5. CASE ReadError
  BY <1>5 DEF ReadError, KernelType, netVars, history
<1>6. CASE ReadAgain \/ ReadPlace \/ ReadCount \/ ReadAdd
  BY <1>6, KernelSame DEF ReadAgain, ReadPlace, ReadCount, ReadAdd, netVars, history, kernelVars
<1>7. ASSUME NEW stale \in 0..(Size + 1), ReadCopy(stale)
      PROVE  KernelType'
  <2>1. /\ running' \in BOOLEAN
        /\ UNCHANGED <<backend, interest, backlog, inbound, gone, outbound, full, owner, come>>
    BY <1>7 DEF ReadCopy, netVars
  <2> QED BY <2>1 DEF KernelType
<1> QED BY <1>1, <1>2, <1>3, <1>4, <1>5, <1>6, <1>7 DEF handleRead

\* The end of handleWrite().
LEMMA DisarmKernel ==
  ASSUME KernelType, LoopType, Writing, Disarm
  PROVE  KernelType'
<1>1. /\ Ask(loop.fd, ByBackend(EpollWritten(loop.fd), KqueueWritten(loop.fd)))
      /\ UNCHANGED <<backend, backlog, inbound, gone, outbound, full, owner, come, running>>
  BY DEF Disarm
<1>2. interest' \in [Socket -> SUBSET {"in", "out"}]
  BY <1>1, AskOnly, LeftEvents DEF KernelType, LoopType
<1> QED BY <1>1, <1>2 DEF KernelType

\* A part of the copy, filled up with whatever is behind its end.
LEMMA SentType ==
  ASSUME LoopType, NEW r \in 1..Size
  PROVE  [i \in 1..r |-> IF i <= Len(loop.data) THEN loop.data[i] ELSE None] \in Seq(Piece)
<1>1. loop.data \in Seq(Piece) /\ Len(loop.data) \in Nat
  BY DEF LoopType
<1>2. \A i \in 1..r : (IF i <= Len(loop.data) THEN loop.data[i] ELSE None) \in Piece
  <2> SUFFICES ASSUME NEW i \in 1..r, i <= Len(loop.data)
               PROVE  loop.data[i] \in Piece
    BY DEF Piece
  <2> QED BY <1>1, ElementOfSeq
<1>3. r \in Nat
  BY Bounded
<1> QED BY <1>2, <1>3, IsASeq

\* handleWrite().
LEMMA WriteKernel ==
  ASSUME TypeOK, handleWrite
  PROVE  KernelType'
<1> USE DEF TypeOK
<1>1. ASSUME NEW r \in 1..Size, WriteSome(r)
      PROVE  KernelType'
  <2> DEFINE out == [i \in 1..r |-> IF i <= Len(loop.data) THEN loop.data[i] ELSE None]
  <2>1. /\ LoopAt("write")
        /\ outbound' = [outbound EXCEPT ![loop.fd] = @ \o out]
        /\ full' = full \cup {loop.fd} \/ full' = full
        /\ UNCHANGED <<backend, interest, backlog, inbound, gone, owner, come, running>>
    BY <1>1 DEF WriteSome
  <2>2. out \in Seq(Piece)
    BY SentType
  <2> HIDE DEF out
  <2>3. loop.fd \in Socket => outbound[loop.fd] \o out \in Seq(Piece)
    BY <2>2, ConcatProperties DEF KernelType
  <2>4. outbound' \in [Socket -> Seq(Piece)]
    BY <2>1, <2>3 DEF KernelType
  <2>5. loop.fd \in Socket
    BY <2>1 DEF LoopType, Writing, LoopAt
  <2>6. full' \subseteq Socket
    BY <2>1, <2>5 DEF KernelType
  <2> QED BY <2>1, <2>4, <2>6 DEF KernelType
<1>2. CASE WriteNothing \/ WriteDisarm
  BY <1>2, DisarmKernel DEF WriteNothing, WriteDisarm, LoopAt, Writing
<1>3. CASE WriteTake \/ WriteLoad \/ WriteSubtract \/ WriteTest
  BY <1>3, KernelSame DEF WriteTake, WriteLoad, WriteSubtract, WriteTest, netVars, history, kernelVars
<1> QED BY <1>1, <1>2, <1>3 DEF handleWrite

\* The other threads, and what the loop does before and between.
LEMMA OthersKernel ==
  ASSUME TypeOK,
         \/ SendStep \/ PopData \/ listenp
         \/ \E f \in Socket : EpollReport(f) \/ \E e \in {"in", "out"} : KqueueReport(f, e)
         \/ \E p \in Peer, f \in Fd : bindPeerfd(p, f)
         \/ Take(DOMAIN peersfd) \/ \E p \in Peer : Take({p})
  PROVE  KernelType'
<1> USE DEF TypeOK
<1>1. CASE Arm
  <2>1. /\ Ask(Target, ByBackend(EpollArmed(Target), KqueueArmed(Target)))
        /\ UNCHANGED <<backend, backlog, inbound, gone, outbound, full, owner, come, running>>
    BY <1>1 DEF Arm
  <2>2. interest' \in [Socket -> SUBSET {"in", "out"}]
    BY <2>1, AskOnly, LeftEvents, TargetType DEF KernelType
  <2> QED BY <2>1, <2>2 DEF KernelType
<1>2. CASE ArmError
  BY <1>2 DEF ArmError, KernelType, netVars, history
<1>3. CASE PushData \/ Send \/ PopData \/ listenp
  BY <1>3, KernelSame DEF PushData, Send, PopData, listenp, netVars, history, kernelVars
<1>4. CASE \E f \in Socket : EpollReport(f) \/ \E e \in {"in", "out"} : KqueueReport(f, e)
  BY <1>4, KernelSame DEF EpollReport, KqueueReport, netVars, history, kernelVars
<1>5. CASE \/ \E p \in Peer, f \in Fd : bindPeerfd(p, f)
           \/ Take(DOMAIN peersfd) \/ \E p \in Peer : Take({p})
  BY <1>5, KernelSame DEF bindPeerfd, Take, netVars, history, kernelVars
<1> QED BY <1>1, <1>2, <1>3, <1>4, <1>5 DEF SendStep

\* The loop back at its wait.
LEMMA WaitingType ==
  /\ Waiting \in [pc : LoopPlace, fd : Socket \cup {None}, data : Seq(Piece),
                  at : Nat, n : Nat, reg : Nat]
  /\ Waiting.pc = "wait"
<1>1. <<>> \in Seq(Piece)
  BY EmptySeq
<1> QED BY <1>1 DEF Waiting, LoopPlace

\* The loop has its type when it waits.
LEMMA WaitingLoop ==
  ASSUME loop' = Waiting
  PROVE  LoopType'
BY WaitingType DEF LoopType, Reading, Writing, LoopAt

\* What a report of epoll makes of the loop: nothing when the events are gone.
LEMMA EpollLoop ==
  ASSUME NEW f \in Socket, EpollReport(f)
  PROVE  \/ "in" \in Events(f) /\ loop' = [loop EXCEPT !.fd = f, !.pc = "read"]
         \/ Events(f) = {"out"} /\ loop' = [loop EXCEPT !.fd = f, !.pc = "take"]
         \/ "in" \notin Events(f) /\ Events(f) # {"out"} /\ loop' = loop
<1>1. CASE "in" \in Events(f)
  <2>1. Events(f) # {"out"}
    BY <1>1
  <2> QED BY <1>1, <2>1, Zenon DEF EpollReport
<1>2. CASE "in" \notin Events(f)
  BY <1>2, Zenon DEF EpollReport
<1> QED BY <1>1, <1>2

\* The loop starts and takes a report.
LEMMA ReportLoop ==
  ASSUME TypeOK,
         \/ listenp \/ handleAccept
         \/ \E f \in Socket : EpollReport(f) \/ \E e \in {"in", "out"} : KqueueReport(f, e)
  PROVE  LoopType'
<1> USE DEF TypeOK
<1>1. CASE listenp
  BY <1>1, WaitingLoop DEF listenp
<1>2. CASE UNCHANGED loop
  BY <1>2 DEF LoopType, Reading, Writing, LoopAt
<1>3. ASSUME NEW f \in Socket, NEW pc \in {"read", "take"}, loop.pc = "wait",
             pc = "read" => "in" \in Events(f), loop' = [loop EXCEPT !.fd = f, !.pc = pc]
      PROVE  LoopType'
  <2>1. pc = "read" => f \in Fd
    BY <1>3 DEF Events, Possible, Readable, KernelType
  <2> QED BY <1>3, <2>1 DEF LoopType, Reading, Writing, LoopAt, LoopPlace
<1>4. ASSUME NEW f \in Socket, EpollReport(f)
      PROVE  LoopType'
  <2>1. LoopAt("wait")
    BY <1>4 DEF EpollReport
  <2>2. CASE "in" \in Events(f) /\ loop' = [loop EXCEPT !.fd = f, !.pc = "read"]
    BY <1>3, <2>1, <2>2 DEF LoopAt
  <2>3. CASE loop' = [loop EXCEPT !.fd = f, !.pc = "take"]
    BY <1>3, <2>1, <2>3 DEF LoopAt
  <2> QED BY <1>2, <1>4, <2>2, <2>3, EpollLoop
<1>5. ASSUME NEW f \in Socket, NEW e \in {"in", "out"}, KqueueReport(f, e)
      PROVE  LoopType'
  <2>1. LoopAt("wait") /\ e \in Events(f)
        /\ loop' = [loop EXCEPT !.fd = f, !.pc = IF e = "in" THEN "read" ELSE "take"]
    BY <1>5 DEF KqueueReport
  <2>2. CASE e = "in"
    BY <1>3, <2>1, <2>2 DEF LoopAt
  <2>3. CASE e = "out"
    BY <1>3, <2>1, <2>3 DEF LoopAt
  <2> QED BY <2>2, <2>3
<1>6. CASE handleAccept
  BY <1>2, <1>6 DEF handleAccept
<1> QED BY <1>1, <1>4, <1>5, <1>6

\* handleRead().
LEMMA ReadLoop ==
  ASSUME TypeOK, handleRead
  PROVE  LoopType'
<1> USE DEF TypeOK
<1>1. ASSUME NEW k \in 1..Units, ReadData(k)
      PROVE  LoopType'
  <2> DEFINE got == inbound[loop.fd]
             part == SubSeq(got, 1, k)
  <2>1. /\ k \in 1..Len(got) /\ LoopAt("read")
        /\ loop' = [loop EXCEPT !.pc = "fit", !.data = part, !.n = k]
    BY <1>1 DEF ReadData
  <2>2. loop.fd \in Fd /\ got \in Seq(Unit)
    BY <2>1 DEF LoopType, KernelType
  <2> HIDE DEF got
  <2>3. part \in Seq(Unit) /\ Len(part) = k /\ k \in Nat
    <3>1. Len(got) \in Nat
      BY <2>2
    <3>2. k \in 0..Len(got) /\ k \in Nat \ {0} /\ 1 \in Nat \ {0}
      BY <2>1, <3>1
    <3>3. part \in Seq(Unit) /\ Len(part) = (IF 1 <= k THEN k - 1 + 1 ELSE 0)
      BY <2>2, <3>2, PartOf
    <3> HIDE DEF part
    <3> QED BY <3>2, <3>3
  <2>4. part \in Seq(Piece)
    BY <2>3, UnitsArePieces
  <2> HIDE DEF part
  <2> QED BY <2>1, <2>2, <2>3, <2>4 DEF LoopType, Reading, Writing, LoopAt, LoopPlace
<1>2. CASE ReadAgain \/ ReadEnd
  BY <1>2, WaitingLoop DEF ReadAgain, ReadEnd
<1>3. CASE ReadFit
  <2>1. LoopAt("fit") /\ loop' \in {Waiting, [loop EXCEPT !.pc = "place"]}
    BY <1>3 DEF ReadFit
  <2>2. CASE loop' = [loop EXCEPT !.pc = "place"]
    BY <2>1, <2>2 DEF LoopType, Reading, Writing, LoopAt, LoopPlace
  <2> QED BY <2>1, <2>2, WaitingLoop
<1>4. ASSUME NEW stale \in 0..(Size + 1), ReadCopy(stale)
      PROVE  LoopType'
  <2>1. LoopAt("copy") /\ loop' = [loop EXCEPT !.pc = "count"]
    BY <1>4 DEF ReadCopy, Goto
  <2> QED BY <2>1 DEF LoopType, Reading, Writing, LoopAt, LoopPlace
<1>5. CASE ReadCount
  BY <1>5 DEF ReadCount, LoopType, PopperType, Reading, Writing, LoopAt, LoopPlace
<1>6. CASE ReadAdd
  <2>1. LoopAt("add") /\ loop' = [Waiting EXCEPT !.pc = "read", !.fd = loop.fd]
    BY <1>6 DEF ReadAdd
  <2>2. loop.fd \in Fd
    BY <2>1 DEF LoopType, Reading, LoopAt
  <2> QED BY <2>1, <2>2, WaitingType DEF LoopType, Reading, Writing, LoopAt, LoopPlace
<1>7. CASE ReadError
  BY <1>7 DEF ReadError, LoopType, Reading, Writing, LoopAt
<1>8. CASE ReadPlace
  <2>1. LoopAt("place") /\ loop' = [loop EXCEPT !.pc = "copy", !.at = recvlen]
    BY <1>8 DEF ReadPlace
  <2> QED BY <2>1 DEF LoopType, PopperType, Reading, Writing, LoopAt, LoopPlace
<1> QED BY <1>1, <1>2, <1>3, <1>4, <1>5, <1>6, <1>7, <1>8 DEF handleRead

\* handleWrite().
LEMMA WriteLoop ==
  ASSUME TypeOK, handleWrite
  PROVE  LoopType'
<1> USE DEF TypeOK
<1>1. CASE WriteTake
  <2> DEFINE part == SubSeq(sendbuf, 1, IF sendlen <= Size THEN sendlen ELSE Size)
  <2>1. LoopAt("take") /\ loop' = [loop EXCEPT !.pc = "write", !.data = part]
    BY <1>1 DEF WriteTake
  <2>2. part \in Seq(Piece)
    <3>1. sendbuf \in Seq(Piece) /\ Len(sendbuf) = Size
      BY BufferIsSeq DEF SenderType
    <3>2. (IF sendlen <= Size THEN sendlen ELSE Size) \in 0..Size
      BY Bounded DEF SenderType
    <3> QED BY <3>1, <3>2, PartOf
  <2> HIDE DEF part
  <2> QED BY <2>1, <2>2 DEF LoopType, Reading, Writing, LoopAt, LoopPlace
<1>2. ASSUME NEW r \in 1..Size, WriteSome(r)
      PROVE  LoopType'
  <2>1. LoopAt("write") /\ loop' = [loop EXCEPT !.pc = "load", !.n = r]
    BY <1>2 DEF WriteSome
  <2>2. r \in Nat
    BY Bounded
  <2> QED BY <2>1, <2>2 DEF LoopType, Reading, Writing, LoopAt, LoopPlace
<1>3. CASE WriteNothing \/ WriteDisarm
  BY <1>3, WaitingLoop DEF WriteNothing, WriteDisarm, Disarm
<1>4. CASE WriteLoad
  BY <1>4 DEF WriteLoad, LoopType, SenderType, Reading, Writing, LoopAt, LoopPlace
<1>5. CASE WriteSubtract
  <2>1. PICK pc \in {"test", "disarm", "write"} :
          LoopAt("subtract") /\ loop' = [loop EXCEPT !.pc = pc, !.n = 0, !.reg = 0]
    BY <1>5 DEF WriteSubtract
  <2> QED BY <2>1 DEF LoopType, Reading, Writing, LoopAt, LoopPlace
<1>6. CASE WriteTest
  <2>1. PICK pc \in {"disarm", "write"} : LoopAt("test") /\ loop' = [loop EXCEPT !.pc = pc]
    BY <1>6 DEF WriteTest, Goto
  <2> QED BY <2>1 DEF LoopType, Reading, Writing, LoopAt, LoopPlace
<1> QED BY <1>1, <1>2, <1>3, <1>4, <1>5, <1>6 DEF handleWrite

\* What the others do leaves the loop where it is.
Others ==
  \/ SendStep \/ PopData
  \/ \E p \in Peer, f \in Fd : PeerConnects(p, f) \/ connecttopeer(p, f) \/ bindPeerfd(p, f)
  \/ \E f \in Fd : Arrives(f) \/ \E how \in {"fin", "rst"} : PeerLeaves(f, how)
  \/ \E f \in Socket : PeerDrains(f)
  \/ Take(DOMAIN peersfd) \/ \E p \in Peer : Take({p})

\* The loop is not theirs.
LEMMA OthersLoop ==
  ASSUME Others
  PROVE  UNCHANGED loop
BY DEF Others, SendStep, PushData, Send, Arm, ArmError, PopData, PeerConnects, connecttopeer,
       bindPeerfd, Arrives, PeerLeaves, PeerDrains, Take

\* Every step is one of these.
LEMMA StepKinds ==
  ASSUME Next
  PROVE  \/ Others \/ listenp \/ handleAccept \/ handleRead \/ handleWrite
         \/ \E f \in Socket : EpollReport(f) \/ \E e \in {"in", "out"} : KqueueReport(f, e)
BY DEF Next, LoopStep, Report, Environment, Others

\* Every step leaves the kernel its type.
LEMMA KernelKept ==
  ASSUME TypeOK, Next
  PROVE  KernelType'
<1>1. CASE Others
  BY <1>1, PeersKernel, OthersKernel DEF Others
<1> QED BY <1>1, StepKinds, ReadKernel, WriteKernel, OthersKernel

\* Every step leaves the loop its type.
LEMMA LoopKept ==
  ASSUME TypeOK, Next
  PROVE  LoopType'
<1>1. CASE Others
  BY <1>1, OthersLoop DEF TypeOK, LoopType, Reading, Writing, LoopAt
<1> QED BY <1>1, StepKinds, ReportLoop, ReadLoop, WriteLoop

\* The send thread has its type while it is left alone.
LEMMA SenderSame ==
  ASSUME SenderType, UNCHANGED <<sendVars, peersfd, taken>>
  PROVE  SenderType'
BY DEF SenderType, SenderFits, sendVars, SenderAt

\* On to the next peer, or to rest.
LEMMA NextPeerFits ==
  ASSUME SenderFits, ~SenderAt("idle"), NextPeer
  PROVE  SenderFits'
<1>1. CASE sender.todo = {}
  BY <1>1 DEF NextPeer, IdleSender, SenderFits, SenderRecord, SenderPlace, SenderAt
<1>2. CASE sender.todo # {}
  <2>1. PICK p \in sender.todo :
          sender' = [sender EXCEPT !.pc = "check", !.to = p, !.todo = @ \ {p}]
    BY <1>2 DEF NextPeer
  <2>2. p \in Peer
    BY DEF SenderFits, SenderRecord
  <2> QED BY <2>1, <2>2 DEF SenderFits, SenderRecord, SenderPlace, SenderAt
<1> QED BY <1>1, <1>2

\* A descriptor for one more peer.
LEMMA BoundType ==
  ASSUME SenderType, NEW p \in Peer, NEW f \in Socket, peersfd' = Bound(p, f)
  PROVE  /\ IsFiniteSet(DOMAIN peersfd') /\ DOMAIN peersfd' \subseteq Peer
         /\ \A q \in DOMAIN peersfd' : peersfd'[q] \in Socket
<1>1. DOMAIN peersfd' = DOMAIN peersfd \cup {p}
  BY DEF Bound
<1>2. IsFiniteSet(DOMAIN peersfd')
  BY <1>1, FS_AddElement DEF SenderType
<1> QED BY <1>1, <1>2 DEF SenderType, Bound

\* pushData().
LEMMA PushSender ==
  ASSUME TypeOK, PushData
  PROVE  SenderType'
<1> DEFINE m == sender.msg
<1>1. SenderFits /\ UNCHANGED <<peersfd, taken>>
  BY DEF TypeOK, SenderType, PushData, mapVars, history
<1>2. sendbuf \in [1..Size -> Piece] /\ sendlen \in Nat /\ Width \in Nat \ {0}
  BY Bounded DEF TypeOK, SenderType
<1>3. ~SenderAt("idle") => m \in Message /\ Len(Data(m)) \in Nat \ {0}
  BY <1>1, DataType DEF SenderFits
<1>4. CASE PushCheck
  <2>1. SenderAt("check") /\ sender' = [sender EXCEPT !.pc = "lock"]
        /\ UNCHANGED <<sendbuf, sendlen>>
    BY <1>4 DEF PushCheck
  <2>2. SenderFits'
    BY <1>1, <2>1 DEF SenderFits, SenderRecord, SenderPlace, SenderAt
  <2> QED BY <1>1, <2>1, <2>2, Zenon DEF TypeOK, SenderType
<1>5. CASE PushLock
  <2>1. /\ SenderAt("lock") /\ UNCHANGED <<sendbuf, sendlen>>
        /\ sender' \in {[sender EXCEPT !.pc = "store", !.at = sendlen, !.done = 0],
                        [sender EXCEPT !.pc = "send"]}
    BY <1>5 DEF PushLock
  <2>2. m \in Message /\ 0 < Len(Data(m))
    BY <1>3, <2>1 DEF SenderAt
  <2>3. SenderFits'
    <3>1. /\ sender' \in SenderRecord /\ sender'.pc \in {"store", "send"}
          /\ sender'.msg = m /\ sender'.to = sender.to
          /\ sender'.pc = "store" => sender'.done = 0
      <4>1. CASE sender' = [sender EXCEPT !.pc = "store", !.at = sendlen, !.done = 0]
        <5>1. sender' \in SenderRecord
          BY <1>1, <1>2, <4>1 DEF SenderFits, SenderRecord, SenderPlace
        <5> QED BY <1>1, <4>1, <5>1 DEF SenderFits, SenderRecord
      <4>2. CASE sender' = [sender EXCEPT !.pc = "send"]
        <5>1. sender' \in SenderRecord
          BY <1>1, <4>2 DEF SenderFits, SenderRecord, SenderPlace
        <5> QED BY <1>1, <4>2, <5>1 DEF SenderFits, SenderRecord
      <4> QED BY <2>1, <4>1, <4>2
    <3> QED BY <1>1, <2>1, <2>2, <3>1 DEF SenderFits, SenderAt
  <2> QED BY <1>1, <2>1, <2>3, Zenon DEF TypeOK, SenderType
<1>6. CASE PushStore
  <2> DEFINE d == Data(m)[sender.done + 1]
             k == sender.at + sender.done + 1
  <2>1. /\ SenderAt("store") /\ sendbuf' = [sendbuf EXCEPT ![k] = d]
        /\ sender' = [sender EXCEPT !.pc = "count", !.done = @ + 1, !.reg = sendlen]
        /\ UNCHANGED sendlen
    BY <1>6 DEF PushStore
  <2>2. sender.done + 1 \in 1..Len(Data(m)) /\ m \in Message
    BY <1>1, <1>3, <2>1 DEF SenderFits, SenderRecord, SenderAt
  <2>3. d \in Piece
    BY <2>2, DataType
  <2>4. sendbuf' \in [1..Size -> Piece]
    <3> HIDE DEF d, k
    <3> QED BY <1>2, <2>1, <2>3
  <2>5. SenderFits'
    <3>1. sender' \in SenderRecord
      <4>1. sender' = [sender EXCEPT !.pc = "count", !.done = @ + 1, !.reg = sendlen]
        BY <2>1
      <4>2. sender \in SenderRecord /\ sendlen \in Nat
        BY <1>1, <1>2 DEF SenderFits
      <4>3. sender.done + 1 \in Nat
        BY <4>2 DEF SenderRecord
      <4> DEFINE done == sender.done + 1
      <4> HIDE DEF done
      <4>4. sender' = [sender EXCEPT !.pc = "count", !.done = done, !.reg = sendlen]
        BY <4>1 DEF done
      <4>5. done \in Nat
        BY <4>3 DEF done
      <4> QED BY <4>2, <4>4, <4>5 DEF SenderRecord, SenderPlace
    <3>0. /\ sender'.pc = "count" /\ sender'.msg = m /\ sender'.to = sender.to
          /\ sender'.done = sender.done + 1
      BY <1>1, <2>1 DEF SenderFits, SenderRecord
    <3>2. sender.done + 1 <= Len(Data(m))
      BY <1>3, <2>1, <2>2 DEF SenderAt
    <3>3. m \in Message /\ sender.to \in Peer
      BY <1>1, <2>1 DEF SenderFits, SenderAt
    <3> QED BY <3>0, <3>1, <3>2, <3>3, Zenon DEF SenderFits, SenderAt
  <2> QED BY <1>1, <2>1, <2>4, <2>5, Zenon DEF TypeOK, SenderType
<1>7. CASE PushCount
  <2>1. /\ SenderAt("count") /\ sendlen' = (sender.reg + 1) % Width /\ UNCHANGED sendbuf
        /\ sender' = IF sender.done = Len(Data(m))
                     THEN [sender EXCEPT !.pc = "send", !.at = 0, !.done = 0, !.reg = 0]
                     ELSE [sender EXCEPT !.pc = "store", !.reg = 0]
    BY <1>7 DEF PushCount
  <2>2. sendlen' \in Nat
    BY <1>1, <1>2, <2>1 DEF SenderFits, SenderRecord
  <2>3. SenderFits'
    <3>1. CASE sender.done = Len(Data(m))
      BY <1>1, <2>1, <3>1 DEF SenderFits, SenderRecord, SenderPlace, SenderAt
    <3>2. CASE sender.done # Len(Data(m))
      <4>1. sender.done < Len(Data(m))
        BY <1>1, <1>3, <2>1, <3>2 DEF SenderFits, SenderRecord, SenderAt
      <4> QED BY <1>1, <2>1, <3>2, <4>1 DEF SenderFits, SenderRecord, SenderPlace, SenderAt
    <3> QED BY <3>1, <3>2
  <2> QED BY <1>1, <2>1, <2>2, <2>3, Zenon DEF TypeOK, SenderType
<1> QED BY <1>4, <1>5, <1>6, <1>7 DEF PushData, PushStep

\* send() and the next message.
LEMMA SendSender ==
  ASSUME TypeOK, \/ Send \/ Arm \/ ArmError
                 \/ Take(DOMAIN peersfd) \/ \E p \in Peer : Take({p})
  PROVE  SenderType'
<1> USE DEF TypeOK, SenderType
<1>1. CASE Send
  <2>1. /\ SenderAt("send") /\ UNCHANGED <<sendbuf, peersfd, taken>>
        /\ sendlen' \in {sendlen, 0}
        /\ NextPeer \/ sender' = [sender EXCEPT !.pc = "arm"]
    BY <1>1 DEF Send, mapVars, history
  <2>2. SenderFits'
    <3>1. CASE sender' = [sender EXCEPT !.pc = "arm"]
      BY <2>1, <3>1 DEF SenderFits, SenderRecord, SenderPlace, SenderAt
    <3> QED BY <2>1, <3>1, NextPeerFits DEF SenderAt
  <2>3. sendlen' \in Nat
    BY <2>1
  <2> QED BY <2>1, <2>2, <2>3
<1>2. CASE Arm
  <2>1. /\ SenderAt("arm") /\ UNCHANGED <<sendbuf, sendlen, taken>>
        /\ peersfd' = Bound(sender.to, Target) /\ NextPeer
    BY <1>2 DEF Arm
  <2>2. SenderFits'
    BY <2>1, NextPeerFits DEF SenderAt
  <2>3. sender.to \in Peer
    BY <2>1 DEF SenderFits, SenderAt
  <2> QED BY <2>1, <2>2, <2>3, BoundType, TargetType
<1>3. CASE ArmError
  BY <1>3, SenderSame DEF ArmError, mapVars, history
<1>4. ASSUME NEW to \in SUBSET Peer, IsFiniteSet(to), Take(to)
      PROVE  SenderType'
  <2>1. /\ taken + Cardinality(to) <= Messages /\ taken' = taken + Cardinality(to)
        /\ UNCHANGED <<sendbuf, sendlen, peersfd>>
    BY <1>4 DEF Take, mapVars
  <2>2. PICK p \in to : sender' = [IdleSender EXCEPT !.pc = "check", !.msg = taken', !.to = p,
                                                     !.todo = to \ {p}]
    BY <1>4 DEF Take
  <2>3. Cardinality(to) \in Nat \ {0}
    BY <1>4, FS_CardinalityType, FS_EmptySet
  <2>4. taken' \in Message /\ taken' \in 0..Messages
    BY <2>1, <2>3, Bounded DEF Message
  <2>5. SenderFits'
    BY <2>2, <2>4 DEF SenderFits, SenderRecord, SenderPlace, SenderAt, IdleSender
  <2> QED BY <2>1, <2>4, <2>5
<1>5. CASE Take(DOMAIN peersfd)
  BY <1>4, <1>5
<1>6. CASE \E p \in Peer : Take({p})
  BY <1>4, <1>6, FS_Singleton
<1> QED BY <1>1, <1>2, <1>3, <1>5, <1>6

\* Every step leaves the send thread its type.
LEMMA SenderKept ==
  ASSUME TypeOK, Next
  PROVE  SenderType'
<1> USE DEF TypeOK, SenderType
<1>1. ASSUME NEW p \in Peer, NEW f \in Fd, connecttopeer(p, f) \/ bindPeerfd(p, f)
      PROVE  SenderType'
  <2>1. peersfd' = Bound(p, f) /\ UNCHANGED <<sendVars, taken>>
    BY <1>1 DEF connecttopeer, bindPeerfd, history
  <2>2. SenderFits'
    BY <2>1 DEF SenderFits, SenderAt, sendVars
  <2> QED BY <2>1, <2>2, BoundType, Bounded DEF sendVars
<1>2. CASE WriteSubtract
  <2>1. /\ sendlen' = (loop.reg - loop.n) % Width
        /\ UNCHANGED <<sendbuf, sender, peersfd, taken>>
    BY <1>2 DEF WriteSubtract, mapVars, history
  <2>2. sendlen' \in Nat
    <3>1. loop.reg - loop.n \in Int /\ Width \in Nat \ {0}
      BY Bounded DEF LoopType
    <3> QED BY <2>1, <3>1
  <2>3. SenderFits'
    BY <2>1 DEF SenderFits, SenderAt
  <2> QED BY <2>1, <2>2, <2>3
<1>3. CASE ReadEnd
  <2>1. /\ peersfd' = [p \in {q \in DOMAIN peersfd : peersfd[q] # loop.fd} |-> peersfd[p]]
        /\ UNCHANGED <<sendVars, taken>>
    BY <1>3 DEF ReadEnd
  <2>2. DOMAIN peersfd' \subseteq DOMAIN peersfd
        /\ \A p \in DOMAIN peersfd' : peersfd'[p] = peersfd[p]
    BY <2>1
  <2>3. IsFiniteSet(DOMAIN peersfd')
    BY <2>2, FS_Subset
  <2>4. SenderFits'
    BY <2>1 DEF SenderFits, SenderAt, sendVars
  <2> QED BY <2>1, <2>2, <2>3, <2>4 DEF sendVars
<1>4. CASE UNCHANGED <<sendVars, peersfd, taken>>
  BY <1>4, SenderSame
<1> USE <1>4
<1>5. CASE Others
  <2>1. CASE \E p \in Peer, f \in Fd : PeerConnects(p, f)
    BY <2>1 DEF PeerConnects, mapVars, history
  <2>2. CASE \/ \E f \in Fd : Arrives(f) \/ \E how \in {"fin", "rst"} : PeerLeaves(f, how)
             \/ \E f \in Socket : PeerDrains(f)
    BY <2>2 DEF Arrives, PeerLeaves, PeerDrains, mapVars, history
  <2>3. CASE PopData
    BY <2>3 DEF PopData, mapVars, history
  <2> QED BY <1>1, <1>5, <2>1, <2>2, <2>3, PushSender, SendSender DEF Others, SendStep
<1>6. CASE handleRead
  BY <1>3, <1>6 DEF handleRead, ReadData, ReadAgain, ReadError, ReadFit, ReadPlace, ReadCopy,
     ReadCount, ReadAdd, mapVars, history
<1>7. CASE handleWrite
  BY <1>2, <1>7 DEF handleWrite, WriteTake, WriteSome, WriteNothing, WriteLoad, WriteTest,
     WriteDisarm, Disarm, mapVars, history
<1>8. CASE \/ listenp \/ handleAccept
           \/ \E f \in Socket : EpollReport(f) \/ \E e \in {"in", "out"} : KqueueReport(f, e)
  BY <1>8 DEF listenp, handleAccept, EpollReport, KqueueReport, mapVars, history
<1> QED BY <1>5, <1>6, <1>7, <1>8, StepKinds

\* A set of numbers has a least one.
LEMMA LeastOf ==
  ASSUME NEW S \in SUBSET Nat, S # {}
  PROVE  \E i \in S : \A j \in S : i <= j
<1>1. PICK i \in S : \A j \in S : <<j, i>> \notin OpToRel(<, Nat)
  BY NatLessThanWellFounded, WFMin, Zenon
<1>2. \A j \in S : ~(j < i)
  BY <1>1, Zenon DEF OpToRel
<1> QED BY <1>2

\* What is copied of what was read: everything if there is no NUL in it.
LEMMA PlainType ==
  ASSUME NEW s \in Seq(Unit)
  PROVE  /\ Plain(s) \in 0..Len(s)
         /\ (\A i \in DOMAIN s : s[i] \notin Nul) => Plain(s) = Len(s)
<1> DEFINE nuls == {i \in DOMAIN s : s[i] \in Nul}
           First(i) == s[i] \in Nul /\ \A j \in 1..(i - 1) : s[j] \notin Nul
<1>1. DOMAIN s = 1..Len(s) /\ Len(s) \in Nat
  OBVIOUS
<1>2. CASE nuls = {}
  BY <1>1, <1>2 DEF Plain
<1>3. CASE nuls # {}
  <2>1. PICK i \in nuls : \A j \in nuls : i <= j
    <3>1. nuls \in SUBSET Nat
      BY <1>1
    <3> HIDE DEF nuls
    <3> QED BY <1>3, <3>1, LeastOf
  <2>2. i \in DOMAIN s /\ First(i)
    BY <1>1, <2>1
  <2>3. Plain(s) = (CHOOSE k \in DOMAIN s : First(k)) - 1
    BY <1>3 DEF Plain
  <2> HIDE DEF First
  <2>4. (CHOOSE k \in DOMAIN s : First(k)) \in DOMAIN s
    BY <2>2
  <2>5. Plain(s) \in 0..Len(s)
    BY <1>1, <2>3, <2>4
  <2> QED BY <2>5, <1>3
<1> QED BY <1>2, <1>3

\* What is held of the receive buffer is in it.
LEMMA HeldPart ==
  ASSUME PopperType, NEW k \in Nat, k <= Size
  PROVE  /\ SubSeq(recvbuf, 1, k) \in Seq(Piece)
         /\ Len(SubSeq(recvbuf, 1, k)) = k
         /\ \A i \in 1..k : SubSeq(recvbuf, 1, k)[i] = recvbuf[i]
<1>1. recvbuf \in Seq(Piece) /\ Len(recvbuf) = Size
  BY BufferIsSeq DEF PopperType
<1>2. k \in 0..Len(recvbuf) /\ 1 \in Nat \ {0}
  BY <1>1, Bounded
<1>3. SubSeq(recvbuf, 1, k) \in Seq(Piece) /\ Len(SubSeq(recvbuf, 1, k)) = IF 1 <= k THEN k - 1 + 1 ELSE 0
  BY <1>1, <1>2, PartOf
<1>4. Len(SubSeq(recvbuf, 1, k)) = k
  BY <1>3
<1>5. \A i \in 1..k : SubSeq(recvbuf, 1, k)[i] = recvbuf[i]
  BY <1>1, <1>2
<1> QED BY <1>3, <1>4, <1>5

\* What ReadCopy makes of the buffer, with so much that is stale behind the rest.
Filled(stale) ==
  [i \in 1..Size |->
     IF i \in (loop.at + 1)..(loop.at + Plain(loop.data)) THEN loop.data[i - loop.at]
     ELSE IF i \in (loop.at + Plain(loop.data) + 1)..(loop.at + Plain(loop.data) + stale)
          THEN None ELSE recvbuf[i]]

\* The copy, whatever is stale.
Copies == \E stale \in 0..(Size + 1) : ReadCopy(stale)

\* That is a buffer again.
LEMMA FilledType ==
  ASSUME LoopType, PopperType, LoopAt("copy"), NEW stale \in Nat
  PROVE  Filled(stale) \in [1..Size -> Piece]
<1>1. loop.data \in Seq(Unit) /\ loop.at \in Nat
  BY DEF LoopType
<1>2. Plain(loop.data) \in 0..Len(loop.data) /\ Len(loop.data) \in Nat
  BY <1>1, PlainType
<1>3. ASSUME NEW i \in 1..Size, i \in (loop.at + 1)..(loop.at + Plain(loop.data))
      PROVE  loop.data[i - loop.at] \in Piece
  <2>1. i - loop.at \in 1..Len(loop.data)
    BY <1>1, <1>2, <1>3, Bounded
  <2> QED BY <1>1, <2>1, ElementOfSeq DEF Piece
<1>4. \A i \in 1..Size : recvbuf[i] \in Piece
  BY DEF PopperType
<1>5. None \in Piece
  BY DEF Piece
<1> QED BY <1>3, <1>4, <1>5 DEF Filled

\* What a step can do to what the receive thread and handleRead() share.
Storing == {"copy", "count", "add"}

\* Every step as far as receiving goes.
LEMMA ReceiveStep ==
  ASSUME TypeOK, Next
  PROVE  \/ PopData \/ ReadPlace \/ Copies \/ ReadCount \/ ReadAdd
         \/ /\ ReadFit /\ loop.n + recvlen <= Size
            /\ loop' = [loop EXCEPT !.pc = "place"]
         \/ /\ UNCHANGED <<popVars, stored>>
            /\ \/ loop' = loop
               \/ loop.pc \notin Storing /\ loop'.pc \notin Storing \cup {"place"}
<1> USE DEF TypeOK
<1>1. CASE Others
  <2>1. loop' = loop
    BY <1>1, OthersLoop
  <2>2. CASE \E p \in Peer, f \in Fd : PeerConnects(p, f) \/ connecttopeer(p, f) \/ bindPeerfd(p, f)
    BY <2>1, <2>2 DEF PeerConnects, connecttopeer, bindPeerfd, history
  <2>3. CASE \/ \E f \in Fd : Arrives(f) \/ \E how \in {"fin", "rst"} : PeerLeaves(f, how)
             \/ \E f \in Socket : PeerDrains(f)
    BY <2>1, <2>3 DEF Arrives, PeerLeaves, PeerDrains, history
  <2>4. CASE SendStep \/ Take(DOMAIN peersfd) \/ \E p \in Peer : Take({p})
    BY <2>1, <2>4 DEF SendStep, PushData, Send, Arm, ArmError, Take, history
  <2> QED BY <1>1, <2>2, <2>3, <2>4 DEF Others
<1>2. CASE handleRead
  <2>1. CASE ReadError
    BY <2>1 DEF ReadError, history
  <2>2. CASE ReadAgain \/ ReadEnd
    <3>1. UNCHANGED <<popVars, stored>> /\ loop' = Waiting /\ LoopAt("read")
      BY <2>2 DEF ReadAgain, ReadEnd, history
    <3> QED BY <3>1, WaitingType DEF LoopAt, Storing
  <2>3. CASE \E k \in 1..Units : ReadData(k)
    <3>1. LoopAt("read") /\ loop'.pc = "fit" /\ UNCHANGED <<popVars, stored>>
      BY <2>3 DEF ReadData, LoopType, history
    <3> QED BY <3>1 DEF LoopAt, Storing
  <2>4. CASE ReadFit
    <3>1. CASE loop.n + recvlen <= Size
      BY <2>4, <3>1 DEF ReadFit
    <3>2. CASE ~(loop.n + recvlen <= Size)
      BY <2>4, <3>2, WaitingType DEF ReadFit, LoopAt, Storing
    <3> QED BY <3>1, <3>2
  <2> QED BY <1>2, <2>1, <2>2, <2>3, <2>4 DEF handleRead, Copies
<1>3. CASE handleWrite
  <2>1. UNCHANGED <<popVars, stored>> /\ Writing
    BY <1>3 DEF handleWrite, WriteTake, WriteSome, WriteNothing, WriteLoad, WriteSubtract,
       WriteTest, WriteDisarm, Disarm, history, LoopAt, Writing
  <2>2. loop'.pc \in {"wait", "write", "load", "subtract", "test", "disarm"}
    <3>1. CASE WriteNothing \/ WriteDisarm
      BY <3>1, WaitingType DEF WriteNothing, WriteDisarm, Disarm
    <3>2. CASE WriteTake \/ WriteLoad \/ WriteTest
      BY <3>2 DEF WriteTake, WriteLoad, WriteTest, Goto, LoopType
    <3>3. CASE \E r \in 1..Size : WriteSome(r)
      BY <3>3 DEF WriteSome, LoopType
    <3>4. CASE WriteSubtract
      BY <3>4 DEF WriteSubtract, LoopType
    <3> QED BY <1>3, <3>1, <3>2, <3>3, <3>4 DEF handleWrite
  <2> QED BY <2>1, <2>2 DEF Writing, Storing
<1>4. CASE \/ listenp \/ handleAccept
           \/ \E f \in Socket : EpollReport(f) \/ \E e \in {"in", "out"} : KqueueReport(f, e)
  <2>1. UNCHANGED <<popVars, stored>>
    BY <1>4 DEF listenp, handleAccept, EpollReport, KqueueReport, history
  <2>2. loop' = loop \/ loop.pc \in {"starting", "wait"}
    BY <1>4 DEF listenp, handleAccept, EpollReport, KqueueReport, LoopAt
  <2>3. loop' = loop \/ loop'.pc \in {"wait", "read", "take"}
    <3>1. ASSUME NEW f \in Socket, EpollReport(f)
          PROVE  loop' = loop \/ loop'.pc \in {"wait", "read", "take"}
      BY <3>1, EpollLoop DEF LoopType
    <3>2. ASSUME NEW f \in Socket, NEW e \in {"in", "out"}, KqueueReport(f, e)
          PROVE  loop'.pc \in {"read", "take"}
      BY <3>2 DEF KqueueReport, LoopType
    <3> QED BY <1>4, <3>1, <3>2, WaitingType DEF listenp, handleAccept
  <2> QED BY <2>1, <2>2, <2>3 DEF Storing
<1> QED BY <1>1, <1>2, <1>3, <1>4, StepKinds

\* The receive thread, and handleRead() as far as the buffer goes.
LEMMA PopperKept ==
  ASSUME TypeOK, RoomInv, Next
  PROVE  PopperType'
<1> USE DEF TypeOK
<1>1. CASE UNCHANGED <<popVars, stored>>
  BY <1>1 DEF PopperType, popVars
<1>2. CASE PopData
  <2>1. recvbuf' = recvbuf /\ stored' = stored
    BY <1>2 DEF PopData, PopStep, PopCall, PopLock, PopReset, PopCopy, history
  <2>2. recvlen' \in Nat
    BY <1>2 DEF PopData, PopStep, PopCall, PopLock, PopReset, PopCopy, PopperType
  <2>3. popper' \in [pc : PopperPlace, len : Nat]
    BY <1>2 DEF PopData, PopStep, PopCall, PopLock, PopReset, PopCopy, PopperType, PopperPlace
  <2>4. given' \in Seq(Piece)
    <3>1. CASE UNCHANGED given
      BY <3>1 DEF PopperType
    <3>2. CASE PopCopy
      <4>1. given' = given \o SubSeq(recvbuf, 1, popper.len)
        BY <3>2 DEF PopCopy
      <4>2. SubSeq(recvbuf, 1, popper.len) \in Seq(Piece)
        BY HeldPart DEF RoomInv, PopperType
      <4> QED BY <4>1, <4>2, ConcatProperties DEF PopperType
    <3> QED BY <1>2, <3>1, <3>2 DEF PopData, PopStep, PopCall, PopLock, PopReset
  <2> QED BY <2>1, <2>2, <2>3, <2>4 DEF PopperType
<1>3. CASE Copies
  <2>1. PICK stale \in 0..(Size + 1) : ReadCopy(stale)
    BY <1>3 DEF Copies
  <2>2. /\ LoopAt("copy") /\ recvbuf' = Filled(stale) /\ stored' = stored \o loop.data
        /\ UNCHANGED <<recvlen, popper, given>>
    BY <2>1, Zenon DEF ReadCopy, Filled
  <2>3. stale \in Nat
    BY <2>1, Bounded
  <2>4. stored' \in Seq(Unit)
    BY <2>2, ConcatProperties DEF LoopType, PopperType
  <2>5. recvbuf' \in [1..Size -> Piece]
    BY <2>2, <2>3, FilledType
  <2> QED BY <2>4, <2>2, <2>5 DEF PopperType
<1>4. CASE ReadAdd
  <2>1. recvlen' = loop.reg + loop.n /\ UNCHANGED <<recvbuf, popper, given, stored>>
    BY <1>4 DEF ReadAdd, history
  <2>2. recvlen' \in Nat
    BY <2>1 DEF LoopType
  <2> QED BY <2>1, <2>2 DEF PopperType
<1>5. CASE ReadCount \/ ReadFit \/ ReadPlace
  BY <1>1, <1>5 DEF ReadCount, ReadFit, ReadPlace, history
<1> QED BY <1>1, <1>2, <1>3, <1>4, <1>5, ReceiveStep
-----------------------------------------------------------------------------
(* Room in the receive buffer *)

\* popData() only makes room: what the loop has tested stays true.
LEMMA RoomKept ==
  ASSUME TypeOK, RoomInv, Next
  PROVE  RoomInv'
<1> USE DEF TypeOK
<1>1. /\ recvlen \in Nat /\ popper.len \in Nat /\ Size \in Nat
      /\ loop.at \in Nat /\ loop.n \in Nat /\ loop.reg \in Nat
  BY Bounded DEF PopperType, LoopType
<1>2. CASE UNCHANGED popVars /\ (loop' = loop \/ loop'.pc \notin Storing \cup {"place"})
  BY <1>2 DEF RoomInv, LoopAt, popVars, Storing
<1>3. CASE PopData
  <2>1. loop' = loop /\ recvlen' \in {recvlen, 0} /\ popper'.len \in {popper.len, recvlen, 0}
    BY <1>3 DEF PopData, PopStep, PopCall, PopLock, PopReset, PopCopy, PopperType
  <2> QED BY <1>1, <2>1 DEF RoomInv, LoopAt
<1>4. CASE ReadFit /\ loop.n + recvlen <= Size /\ loop' = [loop EXCEPT !.pc = "place"]
  <2>1. UNCHANGED <<recvlen, popper>> /\ loop'.pc = "place" /\ loop'.n = loop.n
    BY <1>4 DEF ReadFit, popVars, LoopType
  <2> QED BY <1>1, <1>4, <2>1 DEF RoomInv, LoopAt
<1>5. CASE ReadPlace
  <2>1. /\ UNCHANGED <<recvlen, popper>> /\ LoopAt("place")
        /\ loop'.pc = "copy" /\ loop'.at = recvlen /\ loop'.n = loop.n
    BY <1>5 DEF ReadPlace, popVars, LoopType
  <2> QED BY <1>1, <2>1 DEF RoomInv, LoopAt
<1>6. CASE Copies
  <2>1. /\ UNCHANGED <<recvlen, popper>> /\ LoopAt("copy")
        /\ loop'.pc = "count" /\ loop'.n = loop.n
    BY <1>6 DEF Copies, ReadCopy, Goto, LoopType
  <2> QED BY <1>1, <2>1 DEF RoomInv, LoopAt
<1>7. CASE ReadCount
  <2>1. /\ UNCHANGED <<recvlen, popper>> /\ LoopAt("count")
        /\ loop'.pc = "add" /\ loop'.n = loop.n /\ loop'.reg = recvlen
    BY <1>7 DEF ReadCount, LoopType, popVars
  <2> QED BY <1>1, <2>1 DEF RoomInv, LoopAt
<1>8. CASE ReadAdd
  <2>1. /\ recvlen' = loop.reg + loop.n /\ popper' = popper /\ LoopAt("add")
        /\ loop'.pc = "read"
    BY <1>8 DEF ReadAdd, Waiting
  <2> QED BY <1>1, <2>1 DEF RoomInv, LoopAt
<1> QED BY <1>2, <1>3, <1>4, <1>6, <1>7, <1>8, <1>5, ReceiveStep
-----------------------------------------------------------------------------
(* What the receive thread gets *)

\* What a step notes of the overlaps.
LEMMA OverlapStep ==
  ASSUME Next
  PROVE  /\ overlap \subseteq overlap' /\ OverlapsNoted'
         /\ ReceiveApart' => ReceiveApart /\ ~(Reading' /\ Popping')
         /\ "send overlap" \notin overlap' => "send overlap" \notin overlap /\ ~(Writing' /\ Pushing')
<1>1. overlap' = overlap \cup Overlapping'
  BY DEF Next
<1>2. overlap \subseteq overlap'
  BY <1>1
<1>3. OverlapsNoted'
  BY <1>1 DEF OverlapsNoted
<1>4. OverlapsNoted' => ("receive overlap" \notin overlap' => ~(Reading' /\ Popping'))
  BY Zenon DEF OverlapsNoted, Overlapping
<1>5. OverlapsNoted' => ("send overlap" \notin overlap' => ~(Writing' /\ Pushing'))
  BY Zenon DEF OverlapsNoted, Overlapping
<1> QED BY <1>2, <1>3, <1>4, <1>5, Zenon DEF ReceiveApart

\* What is copied behind what is held makes both one.
LEMMA FilledPart ==
  ASSUME TypeOK, RoomInv, LoopAt("copy"), loop.at = recvlen, NEW stale \in Nat,
         \A i \in DOMAIN loop.data : loop.data[i] \notin Nul
  PROVE  SubSeq(Filled(stale), 1, recvlen + loop.n) = SubSeq(recvbuf, 1, recvlen) \o loop.data
<1> DEFINE a == SubSeq(recvbuf, 1, recvlen)
           k == recvlen + loop.n
           full_ == Filled(stale)
           b == SubSeq(full_, 1, k)
<1>1. /\ loop.data \in Seq(Unit) /\ Len(loop.data) = loop.n /\ loop.n \in Nat
      /\ recvlen \in Nat /\ k \in Nat /\ k <= Size /\ recvlen <= Size
  BY Bounded DEF TypeOK, LoopType, PopperType, RoomInv
<1>2. Plain(loop.data) = loop.n
  BY <1>1, PlainType
<1>3. a \in Seq(Piece) /\ Len(a) = recvlen /\ \A i \in 1..recvlen : a[i] = recvbuf[i]
  BY <1>1, HeldPart DEF TypeOK
<1>4. b \in Seq(Piece) /\ Len(b) = k /\ \A i \in 1..k : b[i] = full_[i]
  <2>1. full_ \in Seq(Piece) /\ Len(full_) = Size
    BY FilledType, BufferIsSeq DEF TypeOK
  <2> HIDE DEF full_
  <2>2. k \in 0..Len(full_) /\ 1 \in Nat \ {0}
    BY <1>1, <2>1, Bounded
  <2> HIDE DEF k
  <2>3. b \in Seq(Piece) /\ Len(b) = IF 1 <= k THEN k - 1 + 1 ELSE 0
    BY <2>1, <2>2, PartOf
  <2>4. \A i \in 1..k : b[i] = full_[i]
    BY <2>1, <2>2
  <2> QED BY <1>1, <2>3, <2>4
<1>5. ASSUME NEW i \in 1..k
      PROVE  full_[i] = IF i <= recvlen THEN recvbuf[i] ELSE loop.data[i - recvlen]
  <2>1. i \in 1..Size /\ (i \in (recvlen + 1)..(recvlen + loop.n) <=> ~(i <= recvlen))
    BY <1>1, <1>5, Bounded
  <2>2. i \notin (recvlen + loop.n + 1)..(recvlen + loop.n + stale)
    BY <1>1, <1>5
  <2> QED BY <1>2, <2>1, <2>2 DEF Filled
<1> DEFINE c == a \o loop.data
<1>6. c \in Seq(Piece) /\ Len(c) = k
      /\ \A i \in 1..k : c[i] = IF i <= recvlen THEN a[i] ELSE loop.data[i - recvlen]
  <2>1. loop.data \in Seq(Piece)
    BY <1>1, UnitsArePieces
  <2> HIDE DEF a
  <2>2. /\ c \in Seq(Piece) /\ Len(c) = Len(a) + Len(loop.data)
        /\ \A i \in 1..(Len(a) + Len(loop.data)) :
             c[i] = IF i <= Len(a) THEN a[i] ELSE loop.data[i - Len(a)]
    BY <1>3, <2>1, ConcatProperties
  <2>3. Len(a) + Len(loop.data) = k
    BY <1>1, <1>3
  <2> HIDE DEF c, k
  <2> QED BY <1>3, <2>2, <2>3
<1>7. \A i \in 1..k : b[i] = c[i]
  <2> HIDE DEF a, b, c, k, full_
  <2>1. ASSUME NEW i \in 1..k
        PROVE  b[i] = c[i]
    <3>1. CASE i <= recvlen
      <4>1. i \in 1..recvlen
        BY <1>1, <3>1
      <4> QED BY <1>3, <1>4, <1>5, <1>6, <3>1, <4>1
    <3>2. CASE ~(i <= recvlen)
      BY <1>4, <1>5, <1>6, <3>2
    <3> QED BY <3>1, <3>2
  <2> QED BY <2>1
<1> HIDE DEF b, c, k, full_
<1>8. b = c
  BY <1>4, <1>6, <1>7, SeqEqual
<1> QED BY <1>8 DEF b, c, k, full_

\* Three parts in a row.
LEMMA InRow ==
  ASSUME NEW s \in Seq(Piece), NEW t \in Seq(Piece), NEW u \in Seq(Piece)
  PROVE  (s \o t) \o u = s \o (t \o u)
BY ConcatAssociative

\* There is no NUL in a part when there is none in the whole.
LEMMA WholeParts ==
  ASSUME NEW s \in Seq(Piece), NEW d \in Seq(Piece),
         \A i \in DOMAIN (s \o d) : (s \o d)[i] \notin Nul
  PROVE  /\ \A i \in DOMAIN s : s[i] \notin Nul
         /\ \A i \in DOMAIN d : d[i] \notin Nul
<1> DEFINE c == s \o d
<1>1. /\ c \in Seq(Piece) /\ Len(c) = Len(s) + Len(d)
      /\ \A i \in 1..(Len(s) + Len(d)) : c[i] = IF i <= Len(s) THEN s[i] ELSE d[i - Len(s)]
  BY ConcatProperties
<1>2. Len(s) \in Nat /\ Len(d) \in Nat /\ DOMAIN s = 1..Len(s) /\ DOMAIN d = 1..Len(d)
  OBVIOUS
<1>3. DOMAIN c = 1..(Len(s) + Len(d))
  BY <1>1
<1>4. \A i \in DOMAIN c : c[i] \notin Nul
  OBVIOUS
<1> HIDE DEF c
<1>5. ASSUME NEW i \in 1..Len(s)
      PROVE  s[i] \notin Nul
  <2>1. i \in 1..(Len(s) + Len(d)) /\ i <= Len(s)
    BY <1>2
  <2> QED BY <1>1, <1>3, <1>4, <2>1
<1>6. ASSUME NEW i \in 1..Len(d)
      PROVE  d[i] \notin Nul
  <2> DEFINE k == Len(s) + i
  <2>1. k \in 1..(Len(s) + Len(d)) /\ ~(k <= Len(s)) /\ k - Len(s) = i
    BY <1>2
  <2> HIDE DEF k
  <2>2. c[k] = d[i]
    BY <1>1, <2>1
  <2> QED BY <1>3, <1>4, <2>1, <2>2
<1> QED BY <1>2, <1>5, <1>6

\* While the two threads do not overlap, what each of them knows of the length
\* is so, and everything that was stored is held or given, in order.
LEMMA OrderKept ==
  ASSUME TypeOK, RoomInv, OverlapsNoted, OrderInv, Next, TypeOK', RoomInv'
  PROVE  OrderInv'
<1> DEFINE Whole(s) == \A i \in DOMAIN s : s[i] \notin Nul
<1> SUFFICES ASSUME ReceiveApart'
             PROVE  /\ LoopAt("copy")' => (loop.at = recvlen)'
                    /\ LoopAt("add")' => (loop.reg = recvlen)'
                    /\ PopperAt("reset")' => (popper.len = recvlen)'
                    /\ PopperAt("copy")' => recvlen' = 0
                    /\ Whole(stored)' => stored' = given' \o SubSeq(recvbuf', 1, Held')
  BY DEF OrderInv
<1>0. ReceiveApart /\ ~(Reading' /\ Popping')
  BY OverlapStep
<1>1. ~(Reading /\ Popping) /\ ~(Reading' /\ Popping')
  BY <1>0, Zenon DEF ReceiveApart, OverlapsNoted, Overlapping
<1>2. /\ LoopAt("copy") => loop.at = recvlen
      /\ LoopAt("add") => loop.reg = recvlen
      /\ PopperAt("reset") => popper.len = recvlen
      /\ PopperAt("copy") => recvlen = 0
      /\ Whole(stored) => stored = given \o SubSeq(recvbuf, 1, Held)
  BY <1>0 DEF OrderInv
<1>3. /\ recvlen \in Nat /\ popper.len \in Nat /\ Size \in Nat /\ recvlen <= Size /\ popper.len <= Size
      /\ loop.at \in Nat /\ loop.n \in Nat /\ loop.reg \in Nat
      /\ stored \in Seq(Piece) /\ given \in Seq(Piece)
  BY Bounded, UnitsArePieces DEF TypeOK, PopperType, LoopType, RoomInv
<1>4. CASE UNCHANGED <<popVars, stored, loop>>
  <2>1. Held' = Held
    BY <1>4 DEF Held, Stays, Comes, PopperAt, LoopAt, popVars
  <2> QED BY <1>2, <1>4, <2>1 DEF PopperAt, LoopAt, popVars
<1>5. CASE UNCHANGED <<popVars, stored>> /\ loop.pc \notin Storing /\ loop'.pc \notin Storing
  <2>1. Held' = Held
    BY <1>5 DEF Held, Stays, Comes, PopperAt, LoopAt, popVars, Storing
  <2> QED BY <1>2, <1>5, <2>1 DEF PopperAt, LoopAt, popVars, Storing
<1>6. CASE ReadFit /\ loop' = [loop EXCEPT !.pc = "place"]
  <2>1. UNCHANGED <<popVars, stored>> /\ loop.pc = "fit" /\ loop'.pc = "place"
    BY <1>6 DEF ReadFit, history, LoopAt, TypeOK, LoopType
  <2> QED BY <1>5, <2>1 DEF Storing
<1>7. CASE ReadPlace
  <2>1. /\ UNCHANGED <<popVars, stored>> /\ loop.pc = "place"
        /\ loop'.pc = "copy" /\ loop'.at = recvlen
    BY <1>7 DEF ReadPlace, history, LoopAt, TypeOK, LoopType
  <2>2. Held' = Held
    BY <2>1 DEF Held, Stays, Comes, PopperAt, LoopAt, popVars
  <2> QED BY <1>2, <2>1, <2>2 DEF PopperAt, LoopAt, popVars
<1>8. CASE Copies
  <2>1. PICK stale \in 0..(Size + 1) : ReadCopy(stale)
    BY <1>8 DEF Copies
  <2>2. /\ LoopAt("copy") /\ recvbuf' = Filled(stale) /\ stored' = stored \o loop.data
        /\ UNCHANGED <<recvlen, popper, given>>
    BY <2>1, Zenon DEF ReadCopy, Filled
  <2>3. stale \in Nat
    BY <2>1, Bounded
  <2>4. /\ LoopAt("copy") /\ recvbuf' = Filled(stale) /\ stored' = stored \o loop.data
        /\ UNCHANGED <<recvlen, popper, given>> /\ loop'.pc = "count" /\ loop'.n = loop.n
    <3>1. Goto("count")
      BY <2>1, Zenon DEF ReadCopy
    <3>2. loop'.pc = "count" /\ loop'.n = loop.n
      BY <3>1 DEF Goto, TypeOK, LoopType
    <3> QED BY <2>2, <3>2, Zenon
  <2>5. ~Popping /\ ~Popping' /\ loop.at = recvlen
    BY <1>1, <1>2, <2>4 DEF Reading, Popping, LoopAt
  <2>6. Held = recvlen /\ Held' = recvlen + loop.n
    <3>1. Stays = recvlen /\ Stays' = recvlen
      BY <2>4, <2>5 DEF Stays, PopperAt, Popping
    <3>2. Comes = 0 /\ Comes' = loop.n
      BY <2>4 DEF Comes, LoopAt
    <3> QED BY <1>3, <3>1, <3>2 DEF Held
  <2>7. ASSUME Whole(stored')
        PROVE  stored' = given' \o SubSeq(recvbuf', 1, Held')
    <3>1. loop.data \in Seq(Piece)
      BY <2>4, UnitsArePieces DEF TypeOK, LoopType
    <3>2. Whole(stored) /\ Whole(loop.data)
      BY <1>3, <2>4, <2>7, <3>1, WholeParts
    <3>3. SubSeq(recvbuf', 1, Held') = SubSeq(recvbuf, 1, recvlen) \o loop.data
      BY <2>4, <2>5, <2>6, <2>3, <3>2, FilledPart
    <3>4. SubSeq(recvbuf, 1, recvlen) \in Seq(Piece)
      BY <1>3, HeldPart DEF TypeOK
    <3>5. stored = given \o SubSeq(recvbuf, 1, recvlen)
      BY <1>2, <2>6, <3>2
    <3> DEFINE a == SubSeq(recvbuf, 1, recvlen)
    <3> HIDE DEF a
    <3>6. a \in Seq(Piece) /\ stored' = (given \o a) \o loop.data
      BY <2>4, <3>4, <3>5 DEF a
    <3>7. (given \o a) \o loop.data = given \o (a \o loop.data)
      <4>1. given \in Seq(Piece) /\ a \in Seq(Piece) /\ loop.data \in Seq(Piece)
        BY <1>3, <3>1, <3>6
      <4> QED BY <4>1, InRow
    <3> QED BY <2>4, <3>3, <3>6, <3>7 DEF a
  <2> QED BY <2>4, <2>5, <2>7 DEF LoopAt, PopperAt, Popping
<1>9. CASE ReadCount
  <2>1. /\ UNCHANGED <<popVars, stored>> /\ loop.pc = "count"
        /\ loop'.pc = "add" /\ loop'.reg = recvlen /\ loop'.n = loop.n
    BY <1>9 DEF ReadCount, history, LoopAt, TypeOK, LoopType
  <2>2. Held' = Held
    BY <2>1 DEF Held, Stays, Comes, PopperAt, LoopAt, popVars
  <2> QED BY <1>2, <2>1, <2>2 DEF PopperAt, LoopAt, popVars
<1>10. CASE ReadAdd
  <2>1. /\ UNCHANGED <<recvbuf, popper, given, stored>> /\ LoopAt("add")
        /\ recvlen' = loop.reg + loop.n /\ loop'.pc = "read"
    BY <1>10 DEF ReadAdd, history, Waiting
  <2>2. ~Popping /\ ~Popping' /\ loop.reg = recvlen
    BY <1>1, <1>2, <2>1 DEF Reading, Popping, LoopAt
  <2>3. Held' = Held
    <3>1. Stays = recvlen /\ Stays' = recvlen + loop.n
      BY <2>1, <2>2 DEF Stays, PopperAt, Popping
    <3>2. Comes = loop.n /\ Comes' = 0
      BY <2>1 DEF Comes, LoopAt
    <3> QED BY <1>3, <3>1, <3>2 DEF Held
  <2> QED BY <1>2, <2>1, <2>2, <2>3 DEF LoopAt, PopperAt, Popping
<1>11. CASE PopData
  <2>1. UNCHANGED <<loop, stored, recvbuf>> /\ PopStep
    BY <1>11 DEF PopData, history, PopStep, PopCall, PopLock, PopReset, PopCopy
  <2>2. popper.pc # "idle" => ~Reading /\ ~Reading'
    BY <1>1, <2>1 DEF Popping, Reading, TypeOK, PopperType, PopperPlace
  <2>3. CASE PopCall
    <3>1. UNCHANGED <<recvlen, given>> /\ popper.pc = "idle" /\ popper'.pc = "lock"
      BY <2>3 DEF PopCall, PopperAt, TypeOK, PopperType
    <3>2. Held' = Held
      BY <2>1, <3>1 DEF Held, Stays, Comes, PopperAt, LoopAt
    <3> QED BY <1>2, <2>1, <3>1, <3>2 DEF PopperAt, LoopAt
  <2>4. CASE PopLock
    <3>1. /\ UNCHANGED <<recvlen, given>> /\ popper.pc = "lock" /\ popper'.pc \in {"reset", "idle"}
          /\ popper'.pc = "reset" => popper'.len = recvlen
      BY <2>4 DEF PopLock, PopperAt, TypeOK, PopperType
    <3>2. Held' = Held
      BY <2>1, <3>1 DEF Held, Stays, Comes, PopperAt, LoopAt
    <3> QED BY <1>2, <2>1, <3>1, <3>2 DEF PopperAt, LoopAt
  <2>5. CASE PopReset
    <3>1. /\ recvlen' = 0 /\ given' = given /\ popper.pc = "reset"
          /\ popper'.pc = "copy" /\ popper'.len = popper.len
      BY <2>5 DEF PopReset, PopperAt, TypeOK, PopperType
    <3>2. Held' = Held
      BY <1>2, <1>3, <2>1, <2>2, <3>1 DEF Held, Stays, Comes, PopperAt, LoopAt, Reading
    <3> QED BY <1>2, <2>1, <2>2, <3>1, <3>2 DEF PopperAt, LoopAt, Reading
  <2>6. CASE PopCopy
    <3>1. /\ given' = given \o SubSeq(recvbuf, 1, popper.len) /\ recvlen' = recvlen
          /\ popper.pc = "copy" /\ popper'.pc = "idle"
      BY <2>6 DEF PopCopy, PopperAt
    <3>2. Held = popper.len /\ Held' = 0
      <4>1. recvlen = 0 /\ Stays = popper.len /\ Stays' = 0
        BY <1>2, <3>1 DEF Stays, PopperAt
      <4>2. Comes = 0 /\ Comes' = 0
        BY <2>1, <2>2, <3>1 DEF Comes, LoopAt, Reading
      <4> QED BY <1>3, <4>1, <4>2 DEF Held
    <3>3. SubSeq(recvbuf', 1, Held') = <<>>
      <4>1. SubSeq(recvbuf', 1, 0) = <<>>
        BY SubSeqEmpty
      <4> QED BY <3>2, <4>1
    <3>4. given' \in Seq(Piece)
      BY DEF TypeOK, PopperType
    <3>5. given' \o SubSeq(recvbuf', 1, Held') = given'
      BY <3>3, <3>4, ConcatEmptySeq
    <3>6. Whole(stored') => stored' = given' \o SubSeq(recvbuf', 1, Held')
      BY <1>2, <2>1, <3>1, <3>2, <3>5
    <3> QED BY <1>2, <2>1, <2>2, <3>1, <3>6 DEF PopperAt, LoopAt, Reading
  <2> QED BY <2>1, <2>3, <2>4, <2>5, <2>6 DEF PopStep
<1> QED BY <1>4, <1>5, <1>7, <1>8, <1>9, <1>10, <1>11, <1>6, ReceiveStep
-----------------------------------------------------------------------------
(* What is there to read *)

\* The backend stays, and what has gone wrong is not forgotten.
LEMMA StallGrows ==
  ASSUME Next
  PROVE  backend' = backend /\ stall \subseteq stall'
<1>1. CASE Others
  <2>1. CASE \E p \in Peer, f \in Fd : PeerConnects(p, f) \/ connecttopeer(p, f) \/ bindPeerfd(p, f)
    BY <2>1 DEF PeerConnects, connecttopeer, bindPeerfd, history
  <2>2. CASE \/ \E f \in Fd : Arrives(f) \/ \E how \in {"fin", "rst"} : PeerLeaves(f, how)
             \/ \E f \in Socket : PeerDrains(f)
    BY <2>2 DEF Arrives, PeerLeaves, PeerDrains, history
  <2>3. CASE SendStep \/ PopData \/ Take(DOMAIN peersfd) \/ \E p \in Peer : Take({p})
    BY <2>3 DEF SendStep, PushData, Send, Arm, ArmError, Take, PopData, history
  <2> QED BY <1>1, <2>1, <2>2, <2>3 DEF Others
<1>2. CASE handleRead
  <2>1. CASE ReadEnd
    <3>1. backend' = backend /\ stall' \in {stall, stall \cup {"closed"}}
      BY <2>1 DEF ReadEnd
    <3> QED BY <3>1
  <2>2. CASE ReadFit
    <3>1. backend' = backend /\ stall' \in {stall, stall \cup {"full"}}
      BY <2>2 DEF ReadFit
    <3> QED BY <3>1
  <2> QED BY <1>2, <2>1, <2>2 DEF handleRead, ReadData, ReadAgain, ReadError, ReadPlace, ReadCopy,
             ReadCount, ReadAdd, history
<1>3. CASE handleWrite
  <2>1. CASE \E r \in 1..Size : WriteSome(r)
    BY <2>1, Zenon DEF WriteSome
  <2>2. CASE WriteNothing
    BY <2>2, Zenon DEF WriteNothing, Disarm
  <2>3. CASE WriteDisarm
    BY <2>3, Zenon DEF WriteDisarm, Disarm
  <2> QED BY <1>3, <2>1, <2>2, <2>3 DEF handleWrite, WriteTake, WriteLoad, WriteSubtract, WriteTest,
             history
<1>4. CASE listenp \/ handleAccept
  BY <1>4 DEF listenp, handleAccept, history
<1>5. CASE \E f \in Socket : EpollReport(f) \/ \E e \in {"in", "out"} : KqueueReport(f, e)
  <2>1. ASSUME NEW f \in Socket, EpollReport(f)
        PROVE  backend' = backend /\ stall \subseteq stall'
    BY <2>1, Zenon DEF EpollReport
  <2>2. ASSUME NEW f \in Socket, NEW e \in {"in", "out"}, KqueueReport(f, e)
        PROVE  backend' = backend /\ stall \subseteq stall'
    BY <2>2 DEF KqueueReport, history
  <2> QED BY <1>5, <2>1, <2>2
<1> QED BY <1>1, <1>2, <1>3, <1>4, <1>5, StepKinds

\* handleRead() is at f.
Handled(f) == loop.fd = f /\ (Reading \/ LoopAt("read"))

\* An edge is used up by a handleRead() that reads until there is nothing more,
\* and whoever asks for events again gets a new one.
LEMMA UnreadKept ==
  ASSUME TypeOK, NothingUnreadForgotten, Next
  PROVE  NothingUnreadForgotten'
<1> SUFFICES ASSUME backend' = "epoll", running', NEW f \in Fd,
                    "in" \in interest'[f], Readable(f)', "full" \notin stall'
             PROVE  f \in edge' \/ Handled(f)'
  BY DEF NothingUnreadForgotten, Handled
<1> USE DEF TypeOK
<1>1. backend = "epoll" /\ running /\ "full" \notin stall
  BY StallGrows DEF Next
<1>2. "in" \in interest[f] /\ Readable(f) => f \in edge \/ Handled(f)
  BY <1>1 DEF NothingUnreadForgotten, Handled
<1>3. f \in Socket /\ interest \in [Socket -> SUBSET {"in", "out"}]
  BY Bounded DEF KernelType
<1>4. ASSUME UNCHANGED <<interest, edge, inbound, gone>>, Handled(f) => Handled(f)'
      PROVE  f \in edge' \/ Handled(f)'
  BY <1>2, <1>4 DEF Readable
<1>5. ASSUME NEW g \in Socket, NEW events \in SUBSET {"in", "out"}, Ask(g, events),
             UNCHANGED <<inbound, gone>>, g # f /\ Handled(f) => Handled(f)'
      PROVE  f \in edge' \/ Handled(f)'
  <2>1. Readable(f)
    BY <1>5 DEF Readable
  <2>2. CASE g = f
    <3>1. events = interest'[f]
      BY <1>3, <1>5, <2>2, AskOnly
    <3> QED BY <1>1, <1>3, <1>5, <2>1, <2>2, <3>1, AskOnly
  <2>3. CASE g # f
    <3>1. interest'[f] = interest[f] /\ (f \in edge' <=> f \in edge)
      BY <1>3, <1>5, <2>3, AskOnly
    <3> QED BY <1>2, <1>5, <2>1, <2>3, <3>1
  <2> QED BY <2>2, <2>3
<1>6. loop' = loop => (Handled(f) => Handled(f)')
  BY DEF Handled, Reading, LoopAt
<1>7. CASE Others
  <2>1. loop' = loop
    BY <1>7, OthersLoop
  <2>2. ASSUME NEW p \in Peer, NEW g \in Fd, connecttopeer(p, g)
        PROVE  f \in edge' \/ Handled(f)'
    BY <1>5, <1>6, <2>1, <2>2, Bounded DEF connecttopeer
  <2>3. ASSUME NEW p \in Peer, NEW g \in Fd, PeerConnects(p, g) \/ bindPeerfd(p, g)
        PROVE  f \in edge' \/ Handled(f)'
    BY <1>4, <1>6, <2>1, <2>3 DEF PeerConnects, bindPeerfd, netVars
  <2>4. ASSUME NEW g \in Fd, Edge(g), UNCHANGED interest,
               \A h \in Fd \ {g} : inbound'[h] = inbound[h] /\ gone'[h] = gone[h]
        PROVE  f \in edge' \/ Handled(f)'
    <3>1. CASE g = f
      BY <1>1, <1>3, <2>4, <3>1 DEF Edge
    <3>2. CASE g # f
      BY <1>2, <1>6, <2>1, <2>4, <3>2 DEF Edge, Readable
    <3> QED BY <3>1, <3>2
  <2>5. ASSUME NEW g \in Fd, Arrives(g)
        PROVE  f \in edge' \/ Handled(f)'
    BY <2>4, <2>5 DEF Arrives, KernelType
  <2>6. ASSUME NEW g \in Fd, NEW how \in {"fin", "rst"}, PeerLeaves(g, how)
        PROVE  f \in edge' \/ Handled(f)'
    BY <2>4, <2>6 DEF PeerLeaves, KernelType
  <2>7. ASSUME NEW g \in Socket, PeerDrains(g)
        PROVE  f \in edge' \/ Handled(f)'
    <3>1. UNCHANGED <<interest, inbound, gone>> /\ (f \in edge => f \in edge')
      BY <2>7 DEF PeerDrains
    <3> QED BY <1>2, <1>6, <2>1, <3>1 DEF Readable
  <2>8. CASE Arm
    <3>1. /\ Ask(Target, ByBackend(EpollArmed(Target), KqueueArmed(Target)))
          /\ UNCHANGED <<inbound, gone>>
      BY <2>8 DEF Arm
    <3>2. Target \in Socket
      BY TargetType
    <3>3. ByBackend(EpollArmed(Target), KqueueArmed(Target)) \in SUBSET {"in", "out"}
      BY <1>3, <3>2, LeftEvents
    <3> QED BY <1>5, <1>6, <2>1, <3>1, <3>2, <3>3
  <2>9. CASE PushData \/ Send \/ ArmError \/ PopData \/ Take(DOMAIN peersfd) \/ \E p \in Peer : Take({p})
    BY <1>4, <1>6, <2>1, <2>9 DEF PushData, Send, ArmError, PopData, Take, netVars
  <2> QED BY <1>7, <2>2, <2>3, <2>5, <2>6, <2>8, <2>9, <2>7 DEF Others, SendStep
<1>8. CASE handleRead
  <2>1. loop.fd \in Fd
    BY <1>8 DEF LoopType, Reading, handleRead, ReadData, ReadAgain, ReadEnd, ReadError, ReadFit,
         ReadPlace, ReadCopy, ReadCount, ReadAdd, LoopAt
  <2>2. ASSUME NEW k \in 1..Units, ReadData(k)
        PROVE  f \in edge' \/ Handled(f)'
    <3>1. /\ loop'.fd = loop.fd /\ loop'.pc = "fit" /\ UNCHANGED <<interest, edge, gone>>
          /\ \A h \in Fd \ {loop.fd} : inbound'[h] = inbound[h]
      BY <2>2 DEF ReadData, LoopType, KernelType
    <3>2. loop.fd = f => Handled(f)'
      BY <3>1 DEF Handled, Reading
    <3>3. loop.fd # f => ~Handled(f)
      BY DEF Handled
    <3> QED BY <1>2, <3>1, <3>2, <3>3 DEF Readable
  <2>3. CASE ReadAgain
    <3>1. /\ UNCHANGED <<interest, edge, inbound, gone>>
          /\ gone[loop.fd] = "no" /\ inbound[loop.fd] = <<>>
      BY <2>3 DEF ReadAgain, netVars
    <3> QED BY <1>4, <3>1 DEF Readable, Handled
  <2>4. CASE ReadEnd
    <3>1. /\ Ask(loop.fd, ByBackend(EpollEnd(loop.fd), KqueueEnd(loop.fd)))
          /\ UNCHANGED <<inbound, gone>>
      BY <2>4 DEF ReadEnd
    <3>2. loop.fd \in Socket
      BY <2>1, Bounded
    <3>3. ByBackend(EpollEnd(loop.fd), KqueueEnd(loop.fd)) \in SUBSET {"in", "out"}
      BY <1>3, <3>2, LeftEvents
    <3> QED BY <1>5, <3>1, <3>2, <3>3 DEF Handled
  <2>5. CASE ReadError
    BY <2>5 DEF ReadError
  <2>6. CASE ReadFit
    <3>1. CASE loop.n + recvlen <= Size
      <4>1. /\ loop' = [loop EXCEPT !.pc = "place"]
            /\ UNCHANGED <<interest, edge, inbound, gone>>
        BY <2>6, <3>1 DEF ReadFit
      <4>2. loop'.fd = loop.fd /\ loop'.pc = "place"
        BY <4>1 DEF LoopType
      <4> QED BY <1>4, <4>1, <4>2 DEF Handled, Reading
    <3>2. CASE ~(loop.n + recvlen <= Size)
      BY <2>6, <3>2 DEF ReadFit
    <3> QED BY <3>1, <3>2
  <2>7. CASE ReadPlace \/ Copies \/ ReadCount \/ ReadAdd
    <3>1. loop'.fd = loop.fd /\ loop'.pc \in {"copy", "count", "add", "read"}
          /\ UNCHANGED <<interest, edge, inbound, gone>>
      BY <2>7 DEF ReadPlace, Copies, ReadCopy, ReadCount, ReadAdd, Goto, Waiting, LoopType, netVars
    <3> QED BY <1>4, <3>1 DEF Handled, Reading, LoopAt
  <2> QED BY <1>8, <2>2, <2>3, <2>4, <2>5, <2>6, <2>7 DEF handleRead, Copies
<1>9. CASE handleWrite
  <2>1. Writing /\ ~Handled(f)
    BY <1>9 DEF handleWrite, WriteTake, WriteSome, WriteNothing, WriteLoad, WriteSubtract, WriteTest,
       WriteDisarm, LoopAt, Writing, Reading, Handled
  <2>2. CASE WriteNothing \/ WriteDisarm
    <3>1. /\ Ask(loop.fd, ByBackend(EpollWritten(loop.fd), KqueueWritten(loop.fd)))
          /\ UNCHANGED <<inbound, gone>>
      BY <2>2, Zenon DEF WriteNothing, WriteDisarm, Disarm
    <3>2. loop.fd \in Socket
      BY <2>1, LoopFd
    <3>3. ByBackend(EpollWritten(loop.fd), KqueueWritten(loop.fd)) \in SUBSET {"in", "out"}
      BY <1>3, <3>2, LeftEvents
    <3> QED BY <1>5, <2>1, <3>1, <3>2, <3>3
  <2>3. CASE WriteTake \/ WriteLoad \/ WriteSubtract \/ WriteTest
    BY <1>4, <2>1, <2>3 DEF WriteTake, WriteLoad, WriteSubtract, WriteTest, netVars
  <2>4. CASE \E r \in 1..Size : WriteSome(r)
    <3>1. UNCHANGED <<interest, edge, inbound, gone>>
      BY <2>4, Zenon DEF WriteSome
    <3> QED BY <1>4, <2>1, <3>1
  <2> QED BY <1>9, <2>2, <2>3, <2>4 DEF handleWrite
<1>10. CASE listenp
  BY <1>4, <1>10 DEF listenp, netVars, Handled, Reading, LoopAt
<1>11. CASE handleAccept
  <2>1. /\ Ask(Head(backlog), {"in"}) /\ UNCHANGED <<inbound, gone, loop>> /\ backlog # <<>>
    BY <1>11, Zenon DEF handleAccept
  <2>2. Head(backlog) \in Socket
    <3>1. Head(backlog) \in Fd
      BY <2>1 DEF KernelType
    <3> QED BY <3>1, Bounded
  <2> QED BY <1>5, <1>6, <2>1, <2>2
<1>12. ASSUME NEW g \in Socket, EpollReport(g)
       PROVE  f \in edge' \/ Handled(f)'
  <2>1. LoopAt("wait") /\ edge' = edge \ {g} /\ UNCHANGED <<interest, inbound, gone>>
    BY <1>12, Zenon DEF EpollReport
  <2>2. f \in edge
    BY <1>2, <2>1 DEF Readable, Handled, Reading, LoopAt
  <2>3. CASE g # f
    BY <2>1, <2>2, <2>3
  <2>4. CASE g = f
    <3>1. "in" \in Events(f)
      BY <2>1 DEF Events, Possible, Readable
    <3>2. loop' = [loop EXCEPT !.fd = f, !.pc = "read"]
      <4>1. f \in Socket /\ EpollReport(f) /\ Events(f) # {"out"}
        BY <1>12, <2>4, <3>1
      <4> QED BY <3>1, <4>1, EpollLoop
    <3>3. loop'.fd = f /\ loop'.pc = "read"
      BY <3>2 DEF LoopType
    <3> QED BY <3>3 DEF Handled, LoopAt
  <2> QED BY <2>3, <2>4
<1>13. ASSUME NEW g \in Socket, NEW e \in {"in", "out"}, KqueueReport(g, e)
       PROVE  f \in edge' \/ Handled(f)'
  BY <1>1, <1>13 DEF KqueueReport
<1> QED BY <1>7, <1>8, <1>9, <1>10, <1>11, <1>12, <1>13, StepKinds
-----------------------------------------------------------------------------
(* What is received and what is left to read *)

\* What holds at the start.
LEMMA SocketsStart ==
  ASSUME Init
  PROVE  TypeOK /\ RoomInv /\ OverlapsNoted /\ OrderInv /\ NothingUnreadForgotten
<1>1. /\ loop = [Waiting EXCEPT !.pc = "starting"] /\ sender = IdleSender
      /\ popper = [pc |-> "idle", len |-> 0]
      /\ loop.pc = "starting" /\ sender.pc = "idle" /\ popper.pc = "idle"
  BY DEF Init, NetconInit, Waiting, IdleSender
<1>2. KernelType
  BY EmptySeq, Bounded DEF Init, KernelType
<1>3. LoopType
  BY <1>1, WaitingType DEF LoopType, LoopPlace, Reading, Writing, LoopAt
<1>4. SenderType
  <2>1. SenderFits
    BY <1>1 DEF SenderFits, SenderRecord, SenderPlace, IdleSender, SenderAt
  <2>2. IsFiniteSet(DOMAIN peersfd) /\ DOMAIN peersfd = {}
    BY FS_EmptySet DEF Init
  <2>3. sendbuf \in [1..Size -> Piece] /\ sendlen \in Nat /\ taken \in 0..Messages
    BY Bounded DEF Init, NetconInit, Piece
  <2> QED BY <2>1, <2>2, <2>3 DEF SenderType
<1>5. PopperType
  BY <1>1, EmptySeq DEF Init, NetconInit, PopperType, PopperPlace, Piece
<1>6. RoomInv
  BY <1>1, Bounded DEF Init, NetconInit, RoomInv, LoopAt
<1>7. OverlapsNoted
  BY <1>1, Zenon DEF OverlapsNoted, Overlapping, Reading, Writing
<1>8. OrderInv
  <2>1. recvlen = 0 /\ given = <<>> /\ stored = <<>>
    BY DEF Init, NetconInit
  <2>2. Stays = 0 /\ Comes = 0
    BY <1>1, <2>1 DEF Stays, Comes, PopperAt, LoopAt
  <2>3. Held = 0
    BY <2>2 DEF Held
  <2>4. SubSeq(recvbuf, 1, 0) = <<>>
    BY SubSeqEmpty
  <2>5. stored = given \o SubSeq(recvbuf, 1, Held)
    BY <2>1, <2>3, <2>4
  <2> QED BY <1>1, <2>5 DEF OrderInv, LoopAt, PopperAt
<1>9. NothingUnreadForgotten
  BY Bounded DEF Init, NothingUnreadForgotten
<1> QED BY <1>2, <1>3, <1>4, <1>5, <1>6, <1>7, <1>8, <1>9 DEF TypeOK

\* A step that changes nothing.
LEMMA SocketsSame ==
  ASSUME UNCHANGED vars
  PROVE  /\ TypeOK => TypeOK'
         /\ RoomInv => RoomInv'
         /\ OverlapsNoted => OverlapsNoted'
         /\ OrderInv => OrderInv'
         /\ NothingUnreadForgotten => NothingUnreadForgotten'
<1>1. UNCHANGED <<sendVars, popVars, backend, interest, edge, backlog, inbound, gone, outbound, full,
                  owner, peersfd, loop, running, meant, stored, taken, come, overlap, stall>>
  BY DEF vars, netVars, mapVars
<1> HIDE DEF vars
<1>2. TypeOK => TypeOK'
  <2>1. KernelType => KernelType'
    BY <1>1, KernelSame DEF kernelVars
  <2>2. LoopType => LoopType'
    BY <1>1 DEF LoopType, Reading, Writing, LoopAt
  <2>3. SenderType => SenderType'
    BY <1>1, SenderSame
  <2>4. PopperType => PopperType'
    BY <1>1 DEF PopperType, popVars
  <2> QED BY <2>1, <2>2, <2>3, <2>4 DEF TypeOK
<1>3. RoomInv => RoomInv'
  BY <1>1 DEF RoomInv, LoopAt, popVars
<1>4. OverlapsNoted => OverlapsNoted'
  <2>1. /\ loop' = loop /\ sender' = sender /\ popper' = popper /\ overlap' = overlap
    BY <1>1 DEF sendVars, popVars
  <2>2. Reading' = Reading /\ Writing' = Writing /\ Pushing' = Pushing /\ Popping' = Popping
    BY <2>1 DEF Reading, Writing, Pushing, Popping
  <2> QED BY <2>1, <2>2, Zenon DEF OverlapsNoted, Overlapping
<1>5. OrderInv => OrderInv'
  <2>1. /\ UNCHANGED <<recvbuf, recvlen, popper, given>>
        /\ loop' = loop /\ stored' = stored /\ overlap' = overlap
    BY <1>1 DEF popVars
  <2>2. ReceiveApart' = ReceiveApart
    BY <2>1, Zenon DEF ReceiveApart
  <2>3. Held' = Held
    BY <2>1 DEF Held, Stays, Comes, LoopAt, PopperAt
  <2> QED BY <2>1, <2>2, <2>3 DEF OrderInv, LoopAt, PopperAt
<1>6. NothingUnreadForgotten => NothingUnreadForgotten'
  BY <1>1 DEF NothingUnreadForgotten, Readable, Reading, LoopAt
<1> QED BY <1>2, <1>3, <1>4, <1>5, <1>6

\* Types are kept.
LEMMA TypesNext ==
  ASSUME TypeOK, RoomInv, [Next]_vars
  PROVE  TypeOK' /\ RoomInv'
<1>1. CASE Next
  BY <1>1, KernelKept, LoopKept, SenderKept, PopperKept, RoomKept DEF TypeOK
<1> QED BY <1>1, SocketsSame

\* Every variable of the event loop and of the buffers has its type, and the
\* loop has a descriptor while it is in a handler (epoll.cc, netcon.cc).
THEOREM SocketsTyped == Spec => [](TypeOK /\ RoomInv)
<1>1. Init => TypeOK /\ RoomInv
  BY SocketsStart
<1>2. TypeOK /\ RoomInv /\ [Next]_vars => (TypeOK /\ RoomInv)'
  BY TypesNext
<1> QED BY <1>1, <1>2, PTL DEF Spec

\* What handleRead() read has room behind what is in the receive buffer, and the
\* length never passes its end, whatever popData() does between the test, the
\* second reading of the length and the addition to it (epoll.cc, handleRead();
\* netcon.cc, popData()).  What the copy takes beyond what was read is no part of
\* it: that may lie behind the end.
THEOREM WhatWasReadHasRoom == Spec => []WithinRecvbuf
<1>1. TypeOK /\ RoomInv => WithinRecvbuf
  BY DEF RoomInv, WithinRecvbuf
<1> QED BY <1>1, SocketsTyped, PTL

\* While handleRead() and popData() do not overlap, popData() hands out what was
\* stored, once and in order (epoll.cc, handleRead(); netcon.cc, popData()).
THEOREM StoredIsHandedOut == Spec => []ReceivedInOrder
<1> DEFINE Inv == TypeOK /\ RoomInv /\ OverlapsNoted /\ OrderInv
<1>1. Init => Inv
  BY SocketsStart
<1>2. Inv /\ [Next]_vars => Inv'
  <2> SUFFICES ASSUME Inv, [Next]_vars
               PROVE  Inv'
    OBVIOUS
  <2>1. TypeOK' /\ RoomInv'
    BY TypesNext
  <2>2. OverlapsNoted' /\ OrderInv'
    BY <2>1, OverlapStep, OrderKept, SocketsSame
  <2> QED BY <2>1, <2>2
<1>3. Inv => ReceivedInOrder
  <2> SUFFICES ASSUME Inv, ReceiveApart, \A i \in DOMAIN stored : stored[i] \notin Nul
               PROVE  LET held == IF PopperAt("copy") THEN popper.len ELSE recvlen
                          len == IF loop.pc \in {"count", "add"} THEN held + loop.n ELSE held
                      IN stored = given \o SubSeq(recvbuf, 1, len)
    BY Zenon DEF ReceivedInOrder, ReceiveApart
  <2>1. stored = given \o SubSeq(recvbuf, 1, Stays + Comes)
    BY DEF OrderInv, Held
  <2>2. Stays \in Nat
    BY DEF TypeOK, PopperType, Stays
  <2>3. Stays + Comes = IF loop.pc \in {"count", "add"} THEN Stays + loop.n ELSE Stays
    <3>1. CASE loop.pc \in {"count", "add"}
      BY <3>1 DEF Comes, LoopAt
    <3>2. CASE loop.pc \notin {"count", "add"}
      <4>1. Comes = 0
        BY <3>2 DEF Comes, LoopAt
      <4> QED BY <2>2, <3>2, <4>1
    <3> QED BY <3>1, <3>2
  <2> QED BY <2>1, <2>3 DEF Stays
<1> QED BY <1>1, <1>2, <1>3, PTL DEF Spec

\* With epoll no descriptor with something to read is forgotten, except by the
\* early return of handleRead() when the buffer is full (epoll.cc, handleRead()).
THEOREM UnreadIsKnown == Spec => []NothingUnreadForgotten
<1>1. Init => NothingUnreadForgotten
  BY SocketsStart
<1>2. TypeOK /\ RoomInv /\ NothingUnreadForgotten /\ [Next]_vars => NothingUnreadForgotten'
  BY UnreadKept, SocketsSame
<1> QED BY <1>1, <1>2, SocketsTyped, PTL DEF Spec
-----------------------------------------------------------------------------
(* Who is behind a descriptor *)

\* A descriptor keeps the peer that is behind it.
LEMMA OwnerStays ==
  ASSUME TypeOK, Next, NEW f \in Socket
  PROVE  owner'[f] = owner[f] \/ (f \in Fd /\ owner[f] = None /\ owner'[f] \in Peer)
<1>1. CASE \E p \in Peer, g \in Fd : PeerConnects(p, g) \/ connecttopeer(p, g)
  <2>1. PICK p \in Peer, g \in Fd : owner[g] = None /\ owner' = [owner EXCEPT ![g] = p]
    BY <1>1 DEF PeerConnects, connecttopeer, Fresh
  <2> QED BY <2>1 DEF TypeOK, KernelType
<1>2. CASE owner' = owner
  BY <1>2
<1>3. CASE Others
  <2>1. CASE \E p \in Peer, g \in Fd : bindPeerfd(p, g)
    BY <1>2, <2>1 DEF bindPeerfd, netVars
  <2>2. CASE \/ \E g \in Fd : Arrives(g) \/ \E how \in {"fin", "rst"} : PeerLeaves(g, how)
             \/ \E g \in Socket : PeerDrains(g)
    BY <1>2, <2>2 DEF Arrives, PeerLeaves, PeerDrains
  <2>3. CASE SendStep \/ PopData \/ Take(DOMAIN peersfd) \/ \E p \in Peer : Take({p})
    BY <1>2, <2>3 DEF SendStep, PushData, Send, Arm, ArmError, Take, PopData, netVars
  <2> QED BY <1>1, <1>3, <2>1, <2>2, <2>3 DEF Others
<1>4. CASE handleRead
  BY <1>2, <1>4 DEF handleRead, ReadData, ReadAgain, ReadEnd, ReadError, ReadFit, ReadPlace, ReadCopy,
     ReadCount, ReadAdd, netVars
<1>5. CASE handleWrite
  BY <1>2, <1>5, Zenon DEF handleWrite, WriteTake, WriteSome, WriteNothing, WriteLoad, WriteSubtract,
     WriteTest, WriteDisarm, Disarm, netVars
<1>6. CASE listenp \/ handleAccept
  BY <1>2, <1>6 DEF listenp, handleAccept, netVars
<1>7. CASE \E g \in Socket : EpollReport(g) \/ \E e \in {"in", "out"} : KqueueReport(g, e)
  BY <1>2, <1>7, Zenon DEF EpollReport, KqueueReport, netVars
<1> QED BY <1>3, <1>4, <1>5, <1>6, <1>7, StepKinds

\* What a step can do to the loop as far as its descriptor goes.
LEMMA LoopMoves ==
  ASSUME TypeOK, Next
  PROVE  \/ loop' = loop \/ ~Busy' \/ (Busy /\ loop'.fd = loop.fd)
         \/ \E f \in Socket : Events(f) # {} /\ loop'.fd = f
<1> USE DEF TypeOK
<1>1. CASE Others
  BY <1>1, OthersLoop
<1>2. loop' = Waiting => ~Busy'
  BY WaitingType DEF Busy, Reading, Writing, LoopAt
<1>3. CASE handleRead
  <2>1. Busy
    BY <1>3 DEF handleRead, ReadData, ReadAgain, ReadEnd, ReadError, ReadFit, ReadPlace, ReadCopy,
       ReadCount, ReadAdd, LoopAt, Busy, Reading
  <2>2. loop' = Waiting \/ loop'.fd = loop.fd
    BY <1>3 DEF handleRead, ReadData, ReadAgain, ReadEnd, ReadError, ReadFit, ReadPlace, ReadCopy,
       ReadCount, ReadAdd, Goto, Waiting, LoopType
  <2> QED BY <1>2, <2>1, <2>2
<1>4. CASE handleWrite
  <2>1. Busy
    BY <1>4 DEF handleWrite, WriteTake, WriteSome, WriteNothing, WriteLoad, WriteSubtract, WriteTest,
       WriteDisarm, LoopAt, Busy, Writing
  <2>2. loop' = Waiting \/ loop'.fd = loop.fd
    <3>1. CASE WriteNothing \/ WriteDisarm
      BY <3>1 DEF WriteNothing, WriteDisarm, Disarm
    <3>2. CASE WriteTake \/ WriteLoad \/ WriteTest
      BY <3>2 DEF WriteTake, WriteLoad, WriteTest, Goto, LoopType
    <3>3. CASE \E r \in 1..Size : WriteSome(r)
      <4>1. PICK r \in 1..Size : loop' = [loop EXCEPT !.pc = "load", !.n = r]
        BY <3>3, Zenon DEF WriteSome
      <4> QED BY <4>1 DEF LoopType
    <3>4. CASE WriteSubtract
      BY <3>4 DEF WriteSubtract, LoopType
    <3> QED BY <1>4, <3>1, <3>2, <3>3, <3>4 DEF handleWrite
  <2> QED BY <1>2, <2>1, <2>2
<1>5. CASE listenp \/ handleAccept
  BY <1>2, <1>5 DEF listenp, handleAccept
<1>6. ASSUME NEW f \in Socket, EpollReport(f)
      PROVE  loop' = loop \/ (Events(f) # {} /\ loop'.fd = f)
  BY <1>6, EpollLoop DEF LoopType
<1>7. ASSUME NEW f \in Socket, NEW e \in {"in", "out"}, KqueueReport(f, e)
      PROVE  Events(f) # {} /\ loop'.fd = f
  BY <1>7 DEF KqueueReport, LoopType
<1> QED BY <1>1, <1>3, <1>4, <1>5, <1>6, <1>7, StepKinds

\* What a step asks for at a descriptor is asked where somebody is, or at 0.
LEMMA AsksOwned ==
  ASSUME TypeOK, OwnedInv, Next, NEW f \in Fd, owner'[f] = None
  PROVE  interest'[f] = interest[f] /\ outbound'[f] = outbound[f]
<1> USE DEF TypeOK
<1>1. f \in Socket /\ f # 0 /\ interest \in [Socket -> SUBSET {"in", "out"}]
      /\ None \notin Peer
  BY Bounded DEF KernelType
<1>2. owner[f] = None
  BY <1>1, OwnerStays
<1>3. ASSUME NEW g \in Socket, NEW events \in SUBSET {"in", "out"}, Ask(g, events), g # f
      PROVE  interest'[f] = interest[f]
  BY <1>1, <1>3, AskOnly
<1>4. CASE UNCHANGED <<interest, outbound>>
  BY <1>4
<1>5. loop.fd \in Socket /\ Busy => loop.fd # f
  BY <1>2 DEF OwnedInv, BusyInv
<1>6. CASE Others
  <2>1. ASSUME NEW p \in Peer, NEW g \in Fd, connecttopeer(p, g)
        PROVE  interest'[f] = interest[f] /\ outbound'[f] = outbound[f]
    <3>1. /\ owner' = [owner EXCEPT ![g] = p] /\ Ask(g, {"in"}) /\ outbound' = outbound
      BY <2>1 DEF connecttopeer
    <3>2. g # f /\ g \in Socket
      BY <1>1, <3>1, Bounded DEF KernelType
    <3> QED BY <1>3, <3>1, <3>2
  <2>2. CASE \E p \in Peer, g \in Fd : PeerConnects(p, g) \/ bindPeerfd(p, g)
    BY <1>4, <2>2 DEF PeerConnects, bindPeerfd, netVars
  <2>3. CASE \/ \E g \in Fd : Arrives(g) \/ \E how \in {"fin", "rst"} : PeerLeaves(g, how)
             \/ \E g \in Socket : PeerDrains(g)
    BY <1>4, <2>3 DEF Arrives, PeerLeaves, PeerDrains
  <2>4. CASE Arm
    <3>1. /\ Ask(Target, ByBackend(EpollArmed(Target), KqueueArmed(Target)))
          /\ outbound' = outbound
      BY <2>4 DEF Arm
    <3>2. Target \in Socket /\ Target # f
      <4>1. Target \in Socket
        BY TargetType
      <4>2. sender.to \in DOMAIN peersfd /\ peersfd[sender.to] = f => owner[f] = sender.to /\ sender.to \in Peer
        BY DEF OwnedInv, PeersInv, SenderType
      <4> QED BY <1>1, <1>2, <4>1, <4>2 DEF Target
    <3>3. ByBackend(EpollArmed(Target), KqueueArmed(Target)) \in SUBSET {"in", "out"}
      BY <1>1, <3>2, LeftEvents
    <3> QED BY <1>3, <3>1, <3>2, <3>3
  <2>5. CASE PushData \/ Send \/ ArmError \/ PopData \/ Take(DOMAIN peersfd) \/ \E p \in Peer : Take({p})
    BY <1>4, <2>5 DEF PushData, Send, ArmError, PopData, Take, netVars
  <2> QED BY <1>6, <2>1, <2>2, <2>3, <2>4, <2>5 DEF Others, SendStep
<1>7. CASE handleRead
  <2>1. Reading \/ LoopAt("read")
    BY <1>7 DEF handleRead, ReadData, ReadAgain, ReadEnd, ReadError, ReadFit, ReadPlace, ReadCopy,
       ReadCount, ReadAdd, LoopAt, Reading
  <2>2. loop.fd \in Socket /\ loop.fd # f
    BY <1>5, <2>1, Bounded DEF LoopType, Busy
  <2>3. CASE ReadEnd
    <3>1. /\ Ask(loop.fd, ByBackend(EpollEnd(loop.fd), KqueueEnd(loop.fd))) /\ outbound' = outbound
      BY <2>3 DEF ReadEnd
    <3>2. ByBackend(EpollEnd(loop.fd), KqueueEnd(loop.fd)) \in SUBSET {"in", "out"}
      BY <1>1, <2>2, LeftEvents
    <3> QED BY <1>3, <2>2, <3>1, <3>2
  <2>4. CASE ReadFit
    BY <1>1, <2>2, <2>4 DEF ReadFit
  <2> QED BY <1>4, <1>7, <2>3, <2>4 DEF handleRead, ReadData, ReadAgain, ReadError, ReadPlace, ReadCopy,
             ReadCount, ReadAdd, netVars
<1>8. CASE handleWrite
  <2>1. Writing
    BY <1>8 DEF handleWrite, WriteTake, WriteSome, WriteNothing, WriteLoad, WriteSubtract, WriteTest,
       WriteDisarm, LoopAt, Writing
  <2>2. loop.fd \in Socket /\ loop.fd # f
    BY <1>5, <2>1 DEF LoopType, Busy
  <2>3. CASE WriteNothing \/ WriteDisarm
    <3>1. /\ Ask(loop.fd, ByBackend(EpollWritten(loop.fd), KqueueWritten(loop.fd)))
          /\ outbound' = outbound
      BY <2>3, Zenon DEF WriteNothing, WriteDisarm, Disarm
    <3>2. ByBackend(EpollWritten(loop.fd), KqueueWritten(loop.fd)) \in SUBSET {"in", "out"}
      BY <1>1, <2>2, LeftEvents
    <3> QED BY <1>3, <2>2, <3>1, <3>2
  <2>4. CASE WriteTake \/ WriteLoad \/ WriteSubtract \/ WriteTest
    BY <1>4, <2>4 DEF WriteTake, WriteLoad, WriteSubtract, WriteTest, netVars
  <2>5. ASSUME NEW r \in 1..Size, WriteSome(r)
        PROVE  interest'[f] = interest[f] /\ outbound'[f] = outbound[f]
    <3>1. PICK more : interest' = interest /\ outbound' = [outbound EXCEPT ![loop.fd] = more]
      BY <2>5, Zenon DEF WriteSome
    <3> QED BY <1>1, <2>2, <3>1 DEF KernelType
  <2> QED BY <1>8, <2>3, <2>4, <2>5 DEF handleWrite
<1>9. CASE listenp
  BY <1>4, <1>9 DEF listenp, netVars
<1>10. CASE handleAccept
  <2>1. Ask(Head(backlog), {"in"}) /\ outbound' = outbound /\ backlog # <<>>
    BY <1>10, Zenon DEF handleAccept
  <2>2. Head(backlog) \in Socket /\ Head(backlog) # f
    <3>1. Head(backlog) \in Fd /\ Head(backlog) = backlog[1] /\ 1 \in 1..Len(backlog)
      BY <2>1 DEF KernelType
    <3> QED BY <1>2, <3>1, Bounded DEF OwnedInv, BacklogInv
  <2> QED BY <1>3, <2>1, <2>2
<1>11. CASE \E g \in Socket : EpollReport(g) \/ \E e \in {"in", "out"} : KqueueReport(g, e)
  BY <1>4, <1>11, Zenon DEF EpollReport, KqueueReport, netVars
<1> QED BY <1>6, <1>7, <1>8, <1>9, <1>10, <1>11, StepKinds

\* A descriptor that waits to be accepted has its peer.
LEMMA BacklogKept ==
  ASSUME TypeOK, BacklogInv, Next
  PROVE  BacklogInv'
<1> USE DEF TypeOK
<1>1. backlog \in Seq(Fd) /\ None \notin Peer /\ Fd \subseteq Socket
  BY Bounded DEF KernelType
<1>2. \A f \in Fd : owner[f] # None => owner'[f] # None
  BY <1>1, OwnerStays
<1>3. CASE backlog' = backlog
  BY <1>1, <1>2, <1>3, ElementOfSeq DEF BacklogInv
<1>4. ASSUME NEW p \in Peer, NEW f \in Fd, PeerConnects(p, f)
      PROVE  BacklogInv'
  <2>1. backlog' = Append(backlog, f) /\ owner'[f] = p
    BY <1>1, <1>4 DEF PeerConnects, KernelType
  <2>2. ASSUME NEW i \in 1..Len(backlog')
        PROVE  owner'[backlog'[i]] # None
    <3>1. CASE i = Len(backlog) + 1
      BY <1>1, <2>1, <3>1, AppendProperties
    <3>2. CASE i # Len(backlog) + 1
      <4>1. i \in 1..Len(backlog) /\ backlog'[i] = backlog[i] /\ backlog[i] \in Fd
        BY <1>1, <2>1, <3>2, AppendProperties, ElementOfSeq
      <4> QED BY <1>2, <4>1 DEF BacklogInv
    <3> QED BY <3>1, <3>2
  <2> QED BY <2>2 DEF BacklogInv
<1>5. CASE handleAccept
  <2>1. backlog' = Tail(backlog) /\ backlog # <<>>
    BY <1>5, Zenon DEF handleAccept
  <2>2. ASSUME NEW i \in 1..Len(backlog')
        PROVE  owner'[backlog'[i]] # None
    <3>1. i + 1 \in 1..Len(backlog) /\ backlog'[i] = backlog[i + 1]
      BY <1>1, <2>1, HeadTailProperties
    <3> QED BY <1>1, <1>2, <3>1, ElementOfSeq DEF BacklogInv
  <2> QED BY <2>2 DEF BacklogInv
<1>6. CASE Others
  <2>1. CASE \E p \in Peer, g \in Fd : connecttopeer(p, g) \/ bindPeerfd(p, g)
    BY <1>3, <2>1 DEF connecttopeer, bindPeerfd, netVars
  <2>2. CASE \/ \E g \in Fd : Arrives(g) \/ \E how \in {"fin", "rst"} : PeerLeaves(g, how)
             \/ \E g \in Socket : PeerDrains(g)
    BY <1>3, <2>2 DEF Arrives, PeerLeaves, PeerDrains
  <2>3. CASE SendStep \/ PopData \/ Take(DOMAIN peersfd) \/ \E p \in Peer : Take({p})
    BY <1>3, <2>3 DEF SendStep, PushData, Send, Arm, ArmError, Take, PopData, netVars
  <2> QED BY <1>4, <1>6, <2>1, <2>2, <2>3 DEF Others
<1>7. CASE handleRead
  BY <1>3, <1>7 DEF handleRead, ReadData, ReadAgain, ReadEnd, ReadError, ReadFit, ReadPlace, ReadCopy,
     ReadCount, ReadAdd, netVars
<1>8. CASE handleWrite
  BY <1>3, <1>8, Zenon DEF handleWrite, WriteTake, WriteSome, WriteNothing, WriteLoad, WriteSubtract,
     WriteTest, WriteDisarm, Disarm, netVars
<1>9. CASE listenp
  BY <1>3, <1>9 DEF listenp, netVars
<1>10. CASE \E g \in Socket : EpollReport(g) \/ \E e \in {"in", "out"} : KqueueReport(g, e)
  BY <1>3, <1>10, Zenon DEF EpollReport, KqueueReport, netVars
<1> QED BY <1>5, <1>6, <1>7, <1>8, <1>9, <1>10, StepKinds

\* A descriptor is bound to the peer that is behind it.
LEMMA PeersKept ==
  ASSUME TypeOK, PeersInv, Next
  PROVE  PeersInv'
<1> USE DEF TypeOK
<1>1. /\ None \notin Peer /\ Fd \subseteq Socket /\ 0 \notin Fd
      /\ DOMAIN peersfd \subseteq Peer
  BY Bounded DEF SenderType
<1>2. \A f \in Fd, p \in Peer : owner[f] = p => owner'[f] = p
  BY <1>1, OwnerStays
<1>3. CASE peersfd' = peersfd
  BY <1>1, <1>2, <1>3 DEF PeersInv
<1>4. ASSUME NEW p \in Peer, NEW f \in Socket, peersfd' = Bound(p, f), f \in Fd => owner'[f] = p
      PROVE  PeersInv'
  BY <1>1, <1>2, <1>4 DEF PeersInv, Bound
<1>5. CASE Others
  <2>1. ASSUME NEW p \in Peer, NEW f \in Fd, connecttopeer(p, f)
        PROVE  PeersInv'
    <3>1. peersfd' = Bound(p, f) /\ owner'[f] = p
      BY <1>1, <2>1 DEF connecttopeer, KernelType
    <3> QED BY <1>1, <1>4, <3>1
  <2>2. ASSUME NEW p \in Peer, NEW f \in Fd, bindPeerfd(p, f)
        PROVE  PeersInv'
    <3>1. peersfd' = Bound(p, f) /\ owner'[f] = p
      BY <2>2 DEF bindPeerfd, netVars
    <3> QED BY <1>1, <1>4, <3>1
  <2>3. CASE \E p \in Peer, g \in Fd : PeerConnects(p, g)
    BY <1>3, <2>3 DEF PeerConnects, mapVars
  <2>4. CASE \/ \E g \in Fd : Arrives(g) \/ \E how \in {"fin", "rst"} : PeerLeaves(g, how)
             \/ \E g \in Socket : PeerDrains(g)
    BY <1>3, <2>4 DEF Arrives, PeerLeaves, PeerDrains, mapVars
  <2>5. CASE Arm
    <3>1. peersfd' = Bound(sender.to, Target) /\ owner' = owner /\ SenderAt("arm")
      BY <2>5 DEF Arm
    <3>2. sender.to \in Peer /\ Target \in Socket
      BY <3>1, TargetType DEF SenderType, SenderFits, SenderAt
    <3>3. Target \in Fd => owner[Target] = sender.to
      BY <1>1 DEF Target, PeersInv
    <3> QED BY <1>4, <3>1, <3>2, <3>3
  <2>6. CASE PushData \/ Send \/ ArmError \/ PopData \/ Take(DOMAIN peersfd) \/ \E p \in Peer : Take({p})
    BY <1>3, <2>6 DEF PushData, Send, ArmError, PopData, Take, mapVars
  <2> QED BY <1>5, <2>1, <2>2, <2>3, <2>4, <2>5, <2>6 DEF Others, SendStep
<1>6. CASE handleRead
  <2>1. CASE ReadEnd
    <3>1. /\ peersfd' = [p \in {q \in DOMAIN peersfd : peersfd[q] # loop.fd} |-> peersfd[p]]
          /\ owner' = owner
      BY <2>1 DEF ReadEnd
    <3> QED BY <3>1 DEF PeersInv
  <2> QED BY <1>3, <1>6, <2>1 DEF handleRead, ReadData, ReadAgain, ReadError, ReadFit, ReadPlace, ReadCopy,
             ReadCount, ReadAdd, mapVars
<1>7. CASE handleWrite
  BY <1>3, <1>7, Zenon DEF handleWrite, WriteTake, WriteSome, WriteNothing, WriteLoad, WriteSubtract,
     WriteTest, WriteDisarm, Disarm, mapVars
<1>8. CASE listenp \/ handleAccept
  BY <1>3, <1>8 DEF listenp, handleAccept, mapVars
<1>9. CASE \E g \in Socket : EpollReport(g) \/ \E e \in {"in", "out"} : KqueueReport(g, e)
  BY <1>3, <1>9, Zenon DEF EpollReport, KqueueReport, mapVars
<1> QED BY <1>5, <1>6, <1>7, <1>8, <1>9, StepKinds

\* Only these change the send thread, its buffer and what it has been given.
LEMMA SenderMoves ==
  ASSUME Next
  PROVE  \/ PushData \/ Send \/ Arm \/ Take(DOMAIN peersfd) \/ \E p \in Peer : Take({p})
         \/ handleWrite /\ UNCHANGED <<sender, sendbuf, taken, meant>>
         \/ UNCHANGED <<sendVars, taken, meant>>
<1>1. CASE Others
  <2>1. CASE \E p \in Peer, g \in Fd : PeerConnects(p, g) \/ connecttopeer(p, g) \/ bindPeerfd(p, g)
    BY <2>1 DEF PeerConnects, connecttopeer, bindPeerfd, history
  <2>2. CASE \/ \E g \in Fd : Arrives(g) \/ \E how \in {"fin", "rst"} : PeerLeaves(g, how)
             \/ \E g \in Socket : PeerDrains(g)
    BY <2>2 DEF Arrives, PeerLeaves, PeerDrains, history
  <2>3. CASE ArmError \/ PopData
    BY <2>3 DEF ArmError, PopData, history
  <2> QED BY <1>1, <2>1, <2>2, <2>3 DEF Others, SendStep
<1>2. CASE handleRead
  BY <1>2 DEF handleRead, ReadData, ReadAgain, ReadEnd, ReadError, ReadFit, ReadPlace, ReadCopy,
     ReadCount, ReadAdd, history
<1>3. CASE handleWrite
  BY <1>3, Zenon DEF handleWrite, WriteTake, WriteSome, WriteNothing, WriteLoad, WriteSubtract,
     WriteTest, WriteDisarm, Disarm, history, sendVars
<1>4. CASE listenp \/ handleAccept
  BY <1>4 DEF listenp, handleAccept, history
<1>5. CASE \E g \in Socket : EpollReport(g) \/ \E e \in {"in", "out"} : KqueueReport(g, e)
  BY <1>5, Zenon DEF EpollReport, KqueueReport, history
<1> QED BY <1>1, <1>2, <1>3, <1>4, <1>5, StepKinds

\* The next peer of a broadcast is one of those still to do.
LEMMA NextPeerTurn ==
  ASSUME SenderFits, NextPeer, ~SenderAt("idle"), sender.to \notin sender.todo
  PROVE  /\ sender'.pc \in {"idle", "check"} /\ Ahead' = Ahead \ {sender.to}
         /\ sender'.pc = "check" => sender'.msg = sender.msg /\ sender'.to \notin sender'.todo
         /\ sender'.pc = "idle" => sender'.msg = None
<1>1. CASE sender.todo = {}
  <2>1. sender' = IdleSender
    BY <1>1 DEF NextPeer
  <2>2. sender'.pc = "idle" /\ sender'.msg = None
    BY <2>1 DEF IdleSender
  <2> QED BY <1>1, <2>2 DEF Ahead, SenderAt
<1>2. CASE sender.todo # {}
  <2>1. PICK p \in sender.todo :
          sender' = [sender EXCEPT !.pc = "check", !.to = p, !.todo = @ \ {p}]
    BY <1>2 DEF NextPeer
  <2>2. /\ sender'.pc = "check" /\ sender'.to = p /\ sender'.todo = sender.todo \ {p}
        /\ sender'.msg = sender.msg
    BY <2>1 DEF SenderFits, SenderRecord
  <2>3. Ahead' = sender.todo /\ Ahead = {sender.to} \cup sender.todo
    BY <2>2 DEF Ahead, SenderAt
  <2> QED BY <2>2, <2>3
<1> QED BY <1>1, <1>2

\* A message that is taken is a new one.
LEMMA TakeTurn ==
  ASSUME TypeOK, Take(DOMAIN peersfd) \/ \E p \in Peer : Take({p})
  PROVE  /\ SenderAt("idle") /\ sender'.pc = "check" /\ sender'.msg = taken'
         /\ sender'.to \notin sender'.todo /\ taken < taken'
         /\ UNCHANGED <<sendbuf, sendlen, netVars, peersfd, loop, meant, stall>>
<1> USE DEF TypeOK
<1>1. PICK to : IsFiniteSet(to) /\ Take(to)
  BY FS_Singleton DEF SenderType
<1>2. PICK p \in to :
        sender' = [IdleSender EXCEPT !.pc = "check", !.msg = taken', !.to = p, !.todo = to \ {p}]
  BY <1>1 DEF Take
<1>3. /\ sender'.pc = "check" /\ sender'.msg = taken' /\ sender'.to = p /\ sender'.todo = to \ {p}
  BY <1>2 DEF IdleSender
<1>4. Cardinality(to) \in Nat /\ Cardinality(to) # 0
  BY <1>1, FS_CardinalityType, FS_EmptySet
<1>5. taken' = taken + Cardinality(to) /\ taken \in Nat
  <2>1. taken' = taken + Cardinality(to)
    BY <1>1, Zenon DEF Take
  <2>2. taken \in Nat
    BY Bounded DEF SenderType
  <2> QED BY <2>1, <2>2
<1>6. /\ SenderAt("idle")
      /\ UNCHANGED <<sendbuf, sendlen, netVars, peersfd, loop, meant, stall>>
  BY <1>1 DEF Take, mapVars
<1> QED BY <1>3, <1>4, <1>5, <1>6

\* pushData() works on the message that the send thread has.
LEMMA PushTurn ==
  ASSUME TypeOK, PushData
  PROVE  /\ sender.pc \in {"check", "lock", "store", "count"}
         /\ sender'.pc \in {"lock", "store", "count", "send"}
         /\ sender'.msg = sender.msg /\ sender'.to = sender.to /\ sender'.todo = sender.todo
         /\ UNCHANGED <<netVars, peersfd, loop, meant, taken, stall>>
<1>1. sender \in SenderRecord
  BY DEF TypeOK, SenderType, SenderFits
<1>2. UNCHANGED <<netVars, peersfd, loop, meant, taken, stall>>
  BY DEF PushData, history, mapVars
<1>3. CASE PushCheck
  BY <1>1, <1>2, <1>3 DEF PushCheck, SenderAt, SenderRecord
<1>4. CASE PushLock
  BY <1>1, <1>2, <1>4 DEF PushLock, SenderAt, SenderRecord
<1>5. CASE PushStore
  BY <1>1, <1>2, <1>5 DEF PushStore, SenderAt, SenderRecord
<1>6. CASE PushCount
  BY <1>1, <1>2, <1>6 DEF PushCount, SenderAt, SenderRecord
<1> QED BY <1>3, <1>4, <1>5, <1>6 DEF PushData, PushStep

\* send() goes on to the system call, or to the next peer.
LEMMA SendTurn ==
  ASSUME TypeOK, Send
  PROVE  /\ SenderAt("send") /\ UNCHANGED <<sendbuf, netVars, peersfd, loop, meant, taken, stall>>
         /\ \/ NextPeer /\ (sendlen = 0 \/ sendlen' = 0)
            \/ /\ sender'.pc = "arm" /\ sendlen' = sendlen
               /\ sender'.msg = sender.msg /\ sender'.to = sender.to /\ sender'.todo = sender.todo
<1>1. sender \in SenderRecord
  BY DEF TypeOK, SenderType, SenderFits
<1>2. UNCHANGED <<sendbuf, netVars, peersfd, loop, meant, taken, stall>>
  BY DEF Send, history, mapVars
<1> QED BY <1>1, <1>2 DEF Send, SenderRecord

\* The send thread keeps the last message.
LEMMA TurnKept ==
  ASSUME TypeOK, TurnInv, Next
  PROVE  TurnInv'
<1>1. SenderFits
  BY DEF TypeOK, SenderType
<1>2. CASE UNCHANGED <<sender, taken>>
  BY <1>2 DEF TurnInv, SenderAt
<1>3. ASSUME NextPeer, ~SenderAt("idle"), taken' = taken
      PROVE  TurnInv'
  BY <1>1, <1>3, NextPeerTurn DEF TurnInv, SenderAt
<1>4. CASE PushData
  BY <1>4, PushTurn DEF TurnInv, SenderAt
<1>5. CASE Send
  BY <1>3, <1>5, SendTurn DEF TurnInv, SenderAt
<1>6. CASE Arm
  BY <1>3, <1>6 DEF Arm, SenderAt
<1>7. CASE Take(DOMAIN peersfd) \/ \E p \in Peer : Take({p})
  BY <1>7, TakeTurn DEF TurnInv, SenderAt
<1> QED BY <1>2, <1>4, <1>5, <1>6, <1>7, SenderMoves DEF sendVars

\* All of it.
LEMMA OwnedKept ==
  ASSUME TypeOK, OwnedInv, Next
  PROVE  OwnedInv'
<1>1. /\ None \notin Peer /\ Fd \subseteq Socket /\ interest \in [Socket -> SUBSET {"in", "out"}]
  BY Bounded DEF TypeOK, KernelType
<1>2. FreeInv'
  <2>1. ASSUME NEW f \in Fd, owner'[f] = None
        PROVE  interest'[f] = {} /\ outbound'[f] = <<>>
    BY <1>1, <2>1, AsksOwned, OwnerStays DEF OwnedInv, FreeInv
  <2> QED BY <2>1 DEF FreeInv
<1>3. BusyInv'
  <2> SUFFICES ASSUME Busy', loop'.fd \in Fd
               PROVE  owner'[loop'.fd] # None
    BY DEF BusyInv
  <2>1. owner[loop'.fd] # None
    <3>1. loop' = loop => Busy
      BY DEF Busy, Reading, Writing, LoopAt
    <3>2. ASSUME NEW f \in Socket, Events(f) # {}, loop'.fd = f
          PROVE  owner[loop'.fd] # None
      BY <3>2 DEF Events, OwnedInv, FreeInv
    <3> QED BY <3>1, <3>2, LoopMoves DEF OwnedInv, BusyInv
  <2> QED BY <1>1, <2>1, OwnerStays
<1> QED BY <1>2, <1>3, BacklogKept, PeersKept, TurnKept DEF OwnedInv
-----------------------------------------------------------------------------
(* What is sent *)

\* A message is recognised by its units.
LEMMA DataOfOne ==
  ASSUME NEW m \in Message, NEW n \in Message, Data(m) = Data(n)
  PROVE  m = n
<1>1. 1 \in 1..Len(Data(m)) /\ 1 \in 1..Len(Data(n))
  BY DataType
<1>2. Data(m)[1] = <<m, 1>> /\ Data(n)[1] = <<n, 1>>
  BY <1>1, DataType
<1> QED BY <1>2

\* Division into blocks.
LEMMA WholeBlocks ==
  ASSUME NEW n \in Nat, NEW S \in Nat \ {0}, n % S = 0
  PROVE  n = (n \div S) * S /\ n \div S \in Nat
OBVIOUS

\* So many of them make so many.
LEMMA BlocksOf ==
  ASSUME NEW q \in Nat, NEW S \in Nat \ {0}
  PROVE  (q * S) \div S = q /\ (q * S) % S = 0
OBVIOUS

\* Where one of them is.
LEMMA BlockBounds ==
  ASSUME NEW q \in Nat, NEW k \in 1..q, NEW S \in Nat \ {0}
  PROVE  /\ (k - 1) * S \in Nat /\ k * S \in Nat /\ k * S <= q * S
         /\ k * S = (k - 1) * S + S
OBVIOUS

\* Parts are the same when their elements are.
LEMMA SameParts ==
  ASSUME NEW s, NEW t, NEW i \in Int, NEW k \in Int,
         \A j \in i..k : t[j] = s[j] /\ s[j] \in Piece
  PROVE  SubSeq(t, i, k) = SubSeq(s, i, k)
<1> DEFINE a == SubSeq(t, i, k)
           b == SubSeq(s, i, k)
<1>1. /\ a \in Seq(Piece) /\ Len(a) = (IF i <= k THEN k - i + 1 ELSE 0)
      /\ \A j \in 1..(k - i + 1) : a[j] = t[i + j - 1]
  BY SubSeqProperties
<1>2. /\ b \in Seq(Piece) /\ Len(b) = (IF i <= k THEN k - i + 1 ELSE 0)
      /\ \A j \in 1..(k - i + 1) : b[j] = s[i + j - 1]
  BY SubSeqProperties
<1> HIDE DEF a, b
<1>3. ASSUME NEW j \in 1..Len(a)
      PROVE  a[j] = b[j]
  <2>1. j \in 1..(k - i + 1) /\ i + j - 1 \in i..k
    BY <1>1
  <2> QED BY <1>1, <1>2, <2>1
<1>4. a = b
  BY <1>1, <1>2, <1>3, SeqEqual
<1> QED BY <1>4 DEF a, b

\* A part whose elements are those of a sequence is that sequence.
LEMMA PartIs ==
  ASSUME NEW t, NEW n \in Nat, NEW b \in Seq(Piece), Len(b) = Size,
         \A i \in 1..Size : t[n + i] = b[i]
  PROVE  SubSeq(t, n + 1, n + Size) = b
<1> DEFINE a == SubSeq(t, n + 1, n + Size)
<1>1. Size \in Nat \ {0} /\ \A i \in 1..Size : b[i] \in Piece
  BY Bounded, ElementOfSeq
<1>2. ASSUME NEW j \in (n + 1)..(n + Size)
      PROVE  t[j] \in Piece
  <2>1. j - n \in 1..Size /\ n + (j - n) = j
    BY <1>1
  <2> QED BY <1>1, <2>1
<1>3. n + 1 \in Int /\ n + Size \in Int
  BY <1>1
<1>4. /\ a \in Seq(Piece)
      /\ Len(a) = (IF n + 1 <= n + Size THEN n + Size - (n + 1) + 1 ELSE 0)
      /\ \A j \in 1..(n + Size - (n + 1) + 1) : a[j] = t[n + 1 + j - 1]
  BY <1>2, <1>3, SubSeqProperties
<1> HIDE DEF a
<1>5. Len(a) = Size
  BY <1>1, <1>4
<1>6. ASSUME NEW j \in 1..Len(a)
      PROVE  a[j] = b[j]
  <2>1. j \in 1..(n + Size - (n + 1) + 1) /\ n + 1 + j - 1 = n + j /\ j \in 1..Size
    BY <1>1, <1>5
  <2> QED BY <1>4, <2>1
<1>7. a = b
  BY <1>4, <1>5, <1>6, SeqEqual
<1> QED BY <1>7 DEF a

\* Block k of a sequence.
Block(s, k) == SubSeq(s, (k - 1) * Size + 1, k * Size)

\* One block more at the end leaves the others.
LEMMA OneMore ==
  ASSUME NEW s \in Seq(Piece), NEW b \in Seq(Piece), Len(s) % Size = 0, Len(b) = Size
  PROVE  LET t == s \o b
             q == Len(s) \div Size
         IN  /\ t \in Seq(Piece) /\ Len(t) % Size = 0 /\ q \in Nat /\ Len(t) \div Size = q + 1
             /\ \A k \in 1..q : Block(t, k) = Block(s, k)
             /\ Block(t, q + 1) = b
<1> DEFINE t == s \o b
           q == Len(s) \div Size
<1>1. Size \in Nat \ {0} /\ Len(s) \in Nat
  BY Bounded
<1>2. Len(s) = q * Size /\ q \in Nat
  BY <1>1, WholeBlocks
<1>3. /\ t \in Seq(Piece) /\ Len(t) = Len(s) + Len(b)
      /\ \A i \in 1..(Len(s) + Len(b)) : t[i] = IF i <= Len(s) THEN s[i] ELSE b[i - Len(s)]
  BY ConcatProperties
<1> HIDE DEF t, q
<1>4. Len(t) = (q + 1) * Size
  BY <1>1, <1>2, <1>3
<1>5. Len(t) % Size = 0 /\ Len(t) \div Size = q + 1
  BY <1>1, <1>2, <1>4, BlocksOf
<1>6. ASSUME NEW k \in 1..q
      PROVE  Block(t, k) = Block(s, k)
  <2> DEFINE from == (k - 1) * Size
             upto == k * Size
  <2>1. from \in Nat /\ upto \in Nat /\ upto <= Len(s) /\ upto = from + Size
    BY <1>1, <1>2, BlockBounds
  <2> HIDE DEF from, upto
  <2>2. \A i \in (from + 1)..upto : t[i] = s[i] /\ s[i] \in Piece
    BY <1>1, <1>3, <2>1, ElementOfSeq
  <2>3. from + 1 \in Int /\ upto \in Int
    BY <2>1
  <2>4. SubSeq(t, from + 1, upto) = SubSeq(s, from + 1, upto)
    BY <2>2, <2>3, SameParts
  <2> QED BY <2>4 DEF Block, from, upto
<1>7. Block(t, q + 1) = b
  <2> DEFINE upto == (q + 1) * Size
  <2>1. Block(t, q + 1) = SubSeq(t, Len(s) + 1, upto)
    BY <1>2 DEF Block
  <2>2. upto = Len(s) + Size
    BY <1>1, <1>2
  <2> HIDE DEF upto
  <2>3. \A i \in 1..Size : t[Len(s) + i] = b[i]
    <3>1. ASSUME NEW i \in 1..Size
          PROVE  t[Len(s) + i] = b[i]
      <4> DEFINE j == Len(s) + i
      <4>1. j \in 1..(Len(s) + Len(b)) /\ ~(j <= Len(s)) /\ j - Len(s) = i /\ i \in 1..Len(b)
        BY <1>1
      <4> HIDE DEF j
      <4>2. t[j] = b[i]
        BY <1>3, <4>1
      <4> QED BY <4>2 DEF j
    <3> QED BY <3>1
  <2>4. SubSeq(t, Len(s) + 1, Len(s) + Size) = b
    <3> DEFINE n == Len(s)
    <3>1. n \in Nat /\ \A i \in 1..Size : t[n + i] = b[i]
      BY <1>1, <2>3
    <3> HIDE DEF n
    <3>2. SubSeq(t, n + 1, n + Size) = b
      BY <3>1, PartIs, Zenon
    <3> QED BY <3>2 DEF n
  <2> QED BY <2>1, <2>2, <2>4
<1> QED BY <1>2, <1>3, <1>5, <1>6, <1>7 DEF t, q

\* What has been meant and taken stays so, and no message that has been taken
\* is ahead of a peer again.
LEMMA AheadShrinks ==
  ASSUME TypeOK, TurnInv, Next
  PROVE  /\ meant \subseteq meant' /\ taken <= taken' /\ taken \in Nat
         /\ \A p \in Peer, m \in Message :
              m <= taken /\ sender'.msg = m /\ p \in Ahead' => sender.msg = m /\ p \in Ahead
<1> DEFINE Goal == /\ meant \subseteq meant' /\ taken <= taken' /\ taken \in Nat
                   /\ \A p \in Peer, m \in Message :
                        m <= taken /\ sender'.msg = m /\ p \in Ahead' => sender.msg = m /\ p \in Ahead
<1>1. SenderFits /\ taken \in Nat
  BY Bounded DEF TypeOK, SenderType
<1>2. CASE UNCHANGED <<sender, taken, meant>>
  <2>1. Ahead' = Ahead
    BY <1>2 DEF Ahead, SenderAt
  <2> QED BY <1>1, <1>2, <2>1
<1>3. ASSUME NextPeer, ~SenderAt("idle"), taken' = taken, meant \subseteq meant'
      PROVE  Goal
  <2>1. sender.to \notin sender.todo
    BY <1>3 DEF TurnInv
  <2>2. /\ sender'.pc \in {"idle", "check"} /\ Ahead' = Ahead \ {sender.to}
        /\ sender'.pc = "check" => sender'.msg = sender.msg
    BY <1>1, <1>3, <2>1, NextPeerTurn
  <2>3. sender'.pc = "idle" => Ahead' = {}
    BY DEF Ahead, SenderAt
  <2> QED BY <1>1, <1>3, <2>2, <2>3
<1>4. ASSUME sender'.pc # "idle", sender.pc # "idle", sender'.msg = sender.msg,
             sender'.to = sender.to, sender'.todo = sender.todo, taken' = taken, meant' = meant
      PROVE  Goal
  <2>1. Ahead' = Ahead
    BY <1>4 DEF Ahead, SenderAt
  <2> QED BY <1>1, <1>4, <2>1
<1>5. CASE PushData
  BY <1>4, <1>5, PushTurn
<1>6. CASE Send
  <2>1. sender.pc = "send"
    BY <1>6, SendTurn DEF SenderAt
  <2> QED BY <1>3, <1>4, <1>6, <2>1, SendTurn DEF SenderAt
<1>7. CASE Arm
  <2>1. NextPeer /\ SenderAt("arm") /\ taken' = taken /\ meant \subseteq meant'
    BY <1>7 DEF Arm
  <2> QED BY <1>3, <2>1 DEF SenderAt
<1>8. CASE Take(DOMAIN peersfd) \/ \E p \in Peer : Take({p})
  <2>1. sender'.msg = taken' /\ taken < taken' /\ meant' = meant
    BY <1>8, TakeTurn
  <2>2. taken' \in Nat
    <3>1. PICK to : IsFiniteSet(to) /\ Take(to)
      BY <1>8, FS_Singleton DEF TypeOK, SenderType
    <3>2. taken' = taken + Cardinality(to)
      BY <3>1, Zenon DEF Take
    <3> QED BY <1>1, <3>1, <3>2, FS_CardinalityType
  <2> QED BY <1>1, <2>1, <2>2
<1> QED BY <1>2, <1>5, <1>6, <1>7, <1>8, SenderMoves DEF sendVars

\* Asking changes what is armed at one descriptor.
LEMMA AskArms ==
  ASSUME interest \in [Socket -> SUBSET {"in", "out"}],
         NEW f \in Socket, NEW events \in SUBSET {"in", "out"}, Ask(f, events)
  PROVE  Armed' = IF "out" \in events THEN Armed \cup {f} ELSE Armed \ {f}
<1>1. /\ interest'[f] = events
      /\ \A g \in Socket \ {f} : interest'[g] = interest[g]
  BY AskOnly
<1> QED BY <1>1 DEF Armed

\* What a step leaves of the send buffer and of what has been sent.
Quiet == UNCHANGED <<sendVars, outbound, meant, taken>>

\* Every step as far as sending goes.
LEMMA SentStep ==
  ASSUME TypeOK, OwnedInv, Next
  PROVE  \/ PushData \/ Send \/ Arm \/ Take(DOMAIN peersfd) \/ \E p \in Peer : Take({p})
         \/ handleWrite
         \/ /\ Quiet /\ Armed' = Armed /\ LoopAt("wait")
            /\ loop'.pc = "take" /\ loop'.fd \in Armed
         \/ Quiet /\ Armed' = Armed /\ loop' = loop
         \/ Quiet /\ Armed' \subseteq Armed /\ ~Writing /\ ~Writing'
<1> USE DEF TypeOK
<1>1. interest \in [Socket -> SUBSET {"in", "out"}]
  BY DEF KernelType
<1>2. interest' = interest => Armed' = Armed
  BY DEF Armed
<1>3. CASE Others
  <2>1. loop' = loop
    BY <1>3, OthersLoop
  <2>2. ASSUME NEW p \in Peer, NEW f \in Fd, connecttopeer(p, f)
        PROVE  Quiet /\ Armed' = Armed
    <3>1. Quiet /\ Ask(f, {"in"}) /\ owner[f] = None
      BY <2>2 DEF connecttopeer, Fresh, Quiet, history
    <3>2. f \in Socket /\ f \notin Armed
      BY <3>1, Bounded DEF OwnedInv, FreeInv, Armed
    <3>3. Armed' = IF "out" \in {"in"} THEN Armed \cup {f} ELSE Armed \ {f}
      BY <1>1, <3>1, <3>2, AskArms
    <3> QED BY <3>1, <3>2, <3>3
  <2>3. CASE \E p \in Peer, g \in Fd : PeerConnects(p, g) \/ bindPeerfd(p, g)
    BY <1>2, <2>3 DEF PeerConnects, bindPeerfd, netVars, Quiet, history
  <2>4. CASE \/ \E g \in Fd : Arrives(g) \/ \E how \in {"fin", "rst"} : PeerLeaves(g, how)
             \/ \E g \in Socket : PeerDrains(g)
    BY <1>2, <2>4 DEF Arrives, PeerLeaves, PeerDrains, Quiet, history
  <2>5. CASE ArmError \/ PopData
    BY <1>2, <2>5 DEF ArmError, PopData, netVars, Quiet, history
  <2> QED BY <1>3, <2>1, <2>2, <2>3, <2>4, <2>5 DEF Others, SendStep
<1>4. loop' = Waiting => ~Writing'
  BY WaitingType DEF Writing
<1>5. CASE handleRead
  <2>1. (Reading \/ LoopAt("read")) /\ ~Writing /\ loop.fd \in Fd
    <3>1. Reading \/ LoopAt("read")
      BY <1>5 DEF handleRead, ReadData, ReadAgain, ReadEnd, ReadError, ReadFit, ReadPlace, ReadCopy,
         ReadCount, ReadAdd, LoopAt, Reading
    <3> QED BY <3>1 DEF LoopType, LoopAt, Reading, Writing
  <2>2. Quiet
    BY <1>5 DEF handleRead, ReadData, ReadAgain, ReadEnd, ReadError, ReadFit, ReadPlace, ReadCopy,
       ReadCount, ReadAdd, Quiet, history, netVars
  <2>3. loop.fd \in Socket
    BY <2>1, Bounded
  <2>4. CASE ReadEnd
    <3> DEFINE events == ByBackend(EpollEnd(loop.fd), KqueueEnd(loop.fd))
    <3>1. Ask(loop.fd, events) /\ loop' = Waiting
      BY <2>4 DEF ReadEnd
    <3>2. events \in SUBSET {"in", "out"}
      BY <1>1, <2>3, LeftEvents
    <3>3. "out" \in events => loop.fd \in Armed
      BY <2>3 DEF Armed, ByBackend, EpollEnd, KqueueEnd
    <3> HIDE DEF events
    <3>4. Armed' \subseteq Armed
      BY <1>1, <2>3, <3>1, <3>2, <3>3, AskArms
    <3> QED BY <1>4, <2>1, <2>2, <3>1, <3>4
  <2>5. CASE ReadFit
    <3>1. \A g \in Socket : "out" \in interest'[g] => "out" \in interest[g]
      BY <1>1, <2>5 DEF ReadFit, ByBackend, EpollFull, KqueueFull
    <3>2. loop' = Waiting \/ loop'.pc = "place"
      BY <2>5 DEF ReadFit, LoopType
    <3> QED BY <1>4, <2>1, <2>2, <3>1, <3>2 DEF Armed, Writing
  <2>6. CASE ReadError
    BY <1>2, <2>1, <2>2, <2>6 DEF ReadError, netVars, Writing
  <2>7. CASE \/ \E k \in 1..Units : ReadData(k)
             \/ ReadAgain \/ ReadPlace \/ Copies \/ ReadCount \/ ReadAdd
    <3>1. interest' = interest
      BY <2>7 DEF ReadData, ReadAgain, ReadPlace, Copies, ReadCopy, ReadCount, ReadAdd, netVars
    <3>2. loop' = Waiting \/ loop'.pc \in {"fit", "copy", "count", "add", "read"}
      BY <2>7 DEF ReadData, ReadAgain, ReadPlace, Copies, ReadCopy, ReadCount, ReadAdd, LoopType, Goto, Waiting
    <3> QED BY <1>2, <1>4, <2>1, <2>2, <3>1, <3>2 DEF Writing
  <2> QED BY <1>5, <2>4, <2>5, <2>6, <2>7 DEF handleRead, Copies
<1>6. CASE listenp
  BY <1>2, <1>4, <1>6 DEF listenp, netVars, Quiet, history, Writing, LoopAt
<1>7. CASE handleAccept
  <2>1. Ask(Head(backlog), {"in"}) /\ Quiet /\ loop' = loop /\ backlog # <<>> /\ LoopAt("wait")
    BY <1>7, Zenon DEF handleAccept, Quiet
  <2>2. Head(backlog) \in Socket
    <3>1. Head(backlog) \in Fd
      BY <2>1 DEF KernelType
    <3> QED BY <3>1, Bounded
  <2>3. Armed' = IF "out" \in {"in"} THEN Armed \cup {Head(backlog)} ELSE Armed \ {Head(backlog)}
    BY <1>1, <2>1, <2>2, AskArms
  <2> QED BY <2>1, <2>3 DEF Writing, LoopAt
<1>8. ASSUME NEW f \in Socket, EpollReport(f)
      PROVE  \/ /\ Quiet /\ Armed' = Armed /\ LoopAt("wait")
                /\ loop'.pc = "take" /\ loop'.fd \in Armed
             \/ Quiet /\ Armed' = Armed /\ loop' = loop
             \/ Quiet /\ Armed' \subseteq Armed /\ ~Writing /\ ~Writing'
  <2>1. Quiet /\ interest' = interest /\ LoopAt("wait")
    BY <1>8, Zenon DEF EpollReport, Quiet
  <2>2. CASE loop' = [loop EXCEPT !.fd = f, !.pc = "read"]
    BY <1>2, <2>1, <2>2 DEF Writing, LoopAt, LoopType
  <2>3. CASE Events(f) = {"out"} /\ loop' = [loop EXCEPT !.fd = f, !.pc = "take"]
    <3>1. f \in Armed
      BY <2>3 DEF Events, Armed
    <3> QED BY <1>2, <2>1, <2>3, <3>1 DEF LoopType
  <2>4. CASE loop' = loop
    BY <1>2, <2>1, <2>4
  <2> QED BY <1>8, <2>2, <2>3, <2>4, EpollLoop
<1>9. ASSUME NEW f \in Socket, NEW e \in {"in", "out"}, KqueueReport(f, e)
      PROVE  \/ /\ Quiet /\ Armed' = Armed /\ LoopAt("wait")
                /\ loop'.pc = "take" /\ loop'.fd \in Armed
             \/ Quiet /\ Armed' \subseteq Armed /\ ~Writing /\ ~Writing'
  <2>1. Quiet /\ interest' = interest /\ LoopAt("wait") /\ e \in Events(f)
        /\ loop' = [loop EXCEPT !.fd = f, !.pc = IF e = "in" THEN "read" ELSE "take"]
    BY <1>9 DEF KqueueReport, Quiet, netVars, history
  <2>2. CASE e = "in"
    BY <1>2, <2>1, <2>2 DEF Writing, LoopAt, LoopType
  <2>3. CASE e = "out"
    <3>1. f \in Armed
      BY <2>1, <2>3 DEF Events, Armed
    <3> QED BY <1>2, <2>1, <2>3, <3>1 DEF LoopType
  <2> QED BY <2>2, <2>3
<1> QED BY <1>3, <1>5, <1>6, <1>7, <1>8, <1>9, StepKinds

\* An overlap or a short write is remembered.
LEMMA ApartStep ==
  ASSUME OverlapsNoted, Next, SendApart'
  PROVE  SendApart /\ ~(Writing /\ Pushing) /\ ~(Writing' /\ Pushing')
<1>1. stall \subseteq stall'
  BY StallGrows
<1>2. "send overlap" \notin overlap'
  BY Zenon DEF SendApart
<1>3. "short write" \notin stall'
  BY Zenon DEF SendApart
<1>4. "send overlap" \notin overlap /\ ~(Writing' /\ Pushing')
  BY <1>2, OverlapStep, Zenon
<1>5. "short write" \notin stall
  BY <1>1, <1>3, Zenon
<1>6. ~(Writing /\ Pushing)
  BY <1>4, Zenon DEF OverlapsNoted, Overlapping
<1> QED BY <1>4, <1>5, <1>6, Zenon DEF SendApart

\* A descriptor that is written to keeps its peer.
LEMMA UsedStays ==
  ASSUME TypeOK, OwnedInv, Next, NEW f \in Fd, interest[f] # {} \/ outbound[f] # <<>>
  PROVE  owner[f] \in Peer /\ owner'[f] = owner[f]
<1>1. f \in Socket /\ owner[f] \in Peer \cup {None}
  BY Bounded DEF TypeOK, KernelType
<1>2. owner[f] # None
  BY DEF OwnedInv, FreeInv
<1> QED BY <1>1, <1>2, OwnerStays

\* A message that has been taken has been.
LEMMA TakenStays ==
  ASSUME TypeOK, RoomInv, OwnedInv, Next, NEW m \in Message, m <= taken
  PROVE  m <= taken'
<1>1. taken \in Nat /\ taken' \in Nat
  BY TypesNext, Bounded DEF TypeOK, SenderType
<1>2. taken <= taken'
  BY AheadShrinks DEF OwnedInv
<1>3. m \in Int
  BY Bounded DEF Message
<1> HIDE DEF OwnedInv
<1> QED BY <1>1, <1>2, <1>3

\* What has been written to a descriptor stays right.
LEMMA OutSame ==
  ASSUME TypeOK, RoomInv, OwnedInv, Next, NEW f \in Fd, OutboundAt(f),
         outbound'[f] = outbound[f]
  PROVE  OutboundAt(f)'
<1>1. /\ Blocks(f)' = Blocks(f)
      /\ \A k \in Nat, m \in Message : IsBlock(f, k, m)' <=> IsBlock(f, k, m)
  BY DEF Blocks, IsBlock
<1>2. outbound[f] \in Seq(Piece)
  BY Bounded DEF TypeOK, KernelType
<1>3. Blocks(f) \in Nat
  <2>1. Len(outbound[f]) \in Nat /\ Len(outbound[f]) % Size = 0
    BY <1>2 DEF OutboundAt
  <2>2. Size \in Nat \ {0}
    BY Bounded
  <2> QED BY <2>1, <2>2, WholeBlocks DEF Blocks
<1>4. outbound[f] = <<>> => Blocks(f) = 0
  BY Bounded DEF Blocks
<1>5. ASSUME NEW k \in 1..Blocks(f)
      PROVE  \E m \in Message :
               /\ <<m, f>> \in meant' /\ IsBlock(f, k, m)'
               /\ m <= taken' /\ (sender'.msg = m => owner'[f] \notin Ahead')
               /\ \A l \in 1..(k - 1) : ~IsBlock(f, l, m)'
  <2>1. PICK m \in Message :
               /\ <<m, f>> \in meant /\ IsBlock(f, k, m)
               /\ m <= taken /\ (sender.msg = m => owner[f] \notin Ahead)
               /\ \A l \in 1..(k - 1) : ~IsBlock(f, l, m)
    BY <1>3 DEF OutboundAt
  <2>2. owner[f] \in Peer /\ owner'[f] = owner[f]
    BY <1>3, <1>4, UsedStays
  <2>3. <<m, f>> \in meant' /\ m <= taken'
    BY <2>1, TakenStays, AheadShrinks DEF OwnedInv
  <2>4. sender'.msg = m => owner'[f] \notin Ahead'
    BY <2>1, <2>2, AheadShrinks DEF OwnedInv
  <2>5. k \in Nat /\ \A l \in 1..(k - 1) : l \in Nat
    BY <1>3
  <2> QED BY <1>1, <2>1, <2>3, <2>4, <2>5
<1> QED BY <1>1, <1>5 DEF OutboundAt

\* The message that is announced stays so while nothing is written.
LEMMA AnnouncedSame ==
  ASSUME TypeOK, RoomInv, OwnedInv, Next, NEW m \in Message, Announced(m), Armed' \subseteq Armed,
         UNCHANGED <<outbound, sendbuf, sendlen>>
  PROVE  Announced(m)'
<1>1. \A f \in Fd : Written(m, f)' <=> Written(m, f)
  BY DEF Written, IsBlock, Blocks
<1>2. m <= taken'
  BY TakenStays DEF Announced, Begun
<1>3. ASSUME NEW f \in Armed' \cap Fd
      PROVE  <<m, f>> \in meant' /\ ~Written(m, f)' /\ (sender'.msg = m => owner'[f] \notin Ahead')
  <2>1. f \in Armed \cap Fd /\ interest[f] # {}
    BY DEF Armed
  <2>2. <<m, f>> \in meant /\ ~Written(m, f) /\ (sender.msg = m => owner[f] \notin Ahead)
    BY <2>1 DEF Announced
  <2>3. owner[f] \in Peer /\ owner'[f] = owner[f]
    BY <2>1, UsedStays
  <2>4. sender'.msg = m => owner'[f] \notin Ahead'
    BY <2>2, <2>3, AheadShrinks DEF OwnedInv, Announced, Begun
  <2> QED BY <1>1, <2>2, <2>4, AheadShrinks DEF OwnedInv
<1> QED BY <1>2, <1>3 DEF Announced, Begun

\* handleWrite() is where it was.
LEMMA WriteSame ==
  ASSUME WriteInv, Armed' = Armed, UNCHANGED <<loop, sendbuf, sendlen>>
  PROVE  WriteInv'
BY DEF WriteInv, LoopAt

\* What has been written stays right when nothing is written.
LEMMA OutboundSame ==
  ASSUME TypeOK, RoomInv, OwnedInv, OutboundInv, Next, outbound' = outbound
  PROVE  OutboundInv'
BY OutSame DEF OutboundInv

\* What is in the buffer stays what it is while nothing is written.
LEMMA BufferSame ==
  ASSUME TypeOK, RoomInv, OwnedInv, BufferInv, Next, Armed' \subseteq Armed,
         UNCHANGED <<outbound, sendbuf, sendlen>>,
         ~Pushing /\ loop.pc \notin {"load", "subtract", "test", "disarm"}
  PROVE  BufferInv'
<1>1. CASE sendlen = 0 /\ Armed = {}
  BY <1>1 DEF BufferInv
<1>2. CASE \E m \in Message : Announced(m)
  BY <1>2, AnnouncedSame DEF BufferInv
<1> QED BY <1>1, <1>2 DEF BufferInv

\* Steps that have nothing to do with sending.
LEMMA QuietKept ==
  ASSUME TypeOK, RoomInv, OwnedInv, MessageInv, Next, Quiet,
         \/ /\ Armed' = Armed /\ LoopAt("wait") /\ loop'.pc = "take" /\ loop'.fd \in Armed
         \/ Armed' = Armed /\ loop' = loop
         \/ Armed' \subseteq Armed /\ ~Writing /\ ~Writing'
  PROVE  MessageInv'
<1>1. UNCHANGED <<sendbuf, sendlen, sender, outbound, taken>> /\ Armed' \subseteq Armed
  BY DEF Quiet, sendVars
<1>2. OutboundInv'
  BY <1>1, OutboundSame DEF MessageInv
<1>3. PushInv'
  BY <1>1 DEF MessageInv, PushInv, Pushing, SenderAt, Begun
<1>4. WriteInv'
  <2>1. CASE LoopAt("wait") /\ loop'.pc = "take" /\ loop'.fd \in Armed /\ Armed' = Armed
    BY <2>1 DEF WriteInv, LoopAt
  <2>2. CASE Armed' = Armed /\ loop' = loop
    BY <1>1, <2>2, WriteSame DEF MessageInv
  <2>3. CASE ~Writing'
    BY <2>3 DEF WriteInv, Writing, LoopAt
  <2> QED BY <2>1, <2>2, <2>3
<1>5. BufferInv'
  <2>1. CASE Pushing \/ loop.pc \in {"load", "subtract", "test", "disarm"}
    <3>1. Pushing' = Pushing /\ \A f, g \in Armed' : f = g
      BY <1>1 DEF Pushing, MessageInv, BufferInv
    <3>2. CASE Pushing
      BY <3>1, <3>2 DEF BufferInv
    <3>3. CASE loop.pc \in {"load", "subtract", "test", "disarm"}
      <4>1. loop' = loop
        BY <3>3 DEF LoopAt, Writing
      <4> QED BY <3>1, <3>3, <4>1 DEF BufferInv
    <3> QED BY <2>1, <3>2, <3>3
  <2>2. CASE ~Pushing /\ loop.pc \notin {"load", "subtract", "test", "disarm"}
    BY <1>1, <2>2, BufferSame DEF MessageInv
  <2> QED BY <2>1, <2>2
<1> QED BY <1>2, <1>3, <1>4, <1>5 DEF MessageInv

\* pushData() stores its message into an empty buffer that nobody may write.
LEMMA PushKept ==
  ASSUME TypeOK, RoomInv, OwnedInv, MessageInv, Next, PushData, ~(Writing' /\ Pushing')
  PROVE  MessageInv'
<1> DEFINE m == sender.msg
<1>1. /\ SenderFits /\ sendbuf \in [1..Size -> Piece] /\ sendlen \in Nat
      /\ Size \in Nat \ {0} /\ Width \in Nat /\ Width > 2 * Size
  BY Bounded DEF TypeOK, SenderType
<1>2. /\ sender'.msg = m /\ Pushing' /\ sender.pc \in {"check", "lock", "store", "count"}
      /\ UNCHANGED <<netVars, loop, taken>>
  BY PushTurn DEF Pushing
<1>3. outbound' = outbound /\ Armed' = Armed /\ ~Writing' /\ ~Writing
  BY <1>2 DEF netVars, Armed, Writing
<1>4. m \in Message /\ m <= taken /\ Len(Data(m)) = IF m \in Oversize THEN Size + 1 ELSE Size
  <2>1. m \in Message
    BY <1>1, <1>2 DEF SenderFits, SenderAt
  <2>2. m = taken
    BY <1>2 DEF OwnedInv, TurnInv, SenderAt
  <2>3. m <= taken
    BY <2>1, <2>2, Bounded DEF Message
  <2> QED BY <2>1, <2>3, DataType
<1>5. sender.at \in Nat /\ sender.done \in Nat /\ sender.reg \in Nat
  BY <1>1 DEF SenderFits, SenderRecord
<1>6. Armed = {}
  <2>1. CASE SenderAt("check")
    <3>1. ~Pushing /\ loop.pc \notin {"load", "subtract", "test", "disarm"} /\ sendlen = 0
      BY <1>3, <2>1 DEF Pushing, Writing, SenderAt, PushData, PushStep, PushCheck, PushLock,
         PushStore, PushCount
    <3>2. ~(sendlen = Size)
      BY <1>1, <3>1
    <3> QED BY <3>1, <3>2 DEF MessageInv, BufferInv, Announced
  <2>2. CASE ~SenderAt("check")
    BY <1>2, <2>2 DEF MessageInv, PushInv, Pushing, SenderAt
  <2> QED BY <2>1, <2>2
<1>7. OutboundInv'
  BY <1>3, OutboundSame DEF MessageInv
<1>8. WriteInv'
  BY <1>3 DEF WriteInv, Writing, LoopAt
<1>9. BufferInv'
  BY <1>2, <1>3, <1>6 DEF BufferInv
<1>10. PushInv'
  <2>1. CASE PushCheck
    <3>1. /\ SenderAt("check") /\ sendlen = 0 /\ sendlen' = 0 /\ sendlen + Len(Data(m)) <= Size
          /\ sender' = [sender EXCEPT !.pc = "lock"]
      BY <2>1 DEF PushCheck
    <3>2. m \notin Oversize
      BY <1>1, <1>4, <3>1
    <3>3. sender'.pc = "lock"
      BY <1>1, <3>1 DEF SenderFits, SenderRecord
    <3> QED BY <1>2, <1>3, <1>6, <3>1, <3>2, <3>3 DEF PushInv, SenderAt
  <2>2. CASE PushLock
    <3>1. /\ SenderAt("lock") /\ sendlen = 0 /\ m \notin Oversize /\ sendlen' = sendlen
      BY <2>2 DEF PushLock, MessageInv, PushInv, Pushing, SenderAt
    <3>2. sendlen + Len(Data(m)) <= Size
      BY <1>1, <1>4, <3>1
    <3>3. sender' = [sender EXCEPT !.pc = "store", !.at = sendlen, !.done = 0]
      BY <2>2, <3>2 DEF PushLock
    <3>4. sender'.pc = "store" /\ sender'.at = 0 /\ sender'.done = 0
      BY <1>1, <3>1, <3>3 DEF SenderFits, SenderRecord
    <3>5. Begun(sender.msg, sender.done)'
      BY <1>2, <1>4, <3>1, <3>4 DEF Begun
    <3> QED BY <1>1, <1>2, <1>3, <1>6, <3>1, <3>4, <3>5 DEF PushInv, SenderAt
  <2>3. CASE PushStore
    <3> DEFINE n == sender.done
    <3>1. /\ SenderAt("store") /\ sendlen' = sendlen /\ sendlen = n /\ sender.at = 0
          /\ m \notin Oversize /\ Begun(m, n)
      BY <2>3 DEF PushStore, MessageInv, PushInv, Pushing, SenderAt
    <3>2. n < Size
      BY <1>1, <1>4, <3>1 DEF SenderFits
    <3>3. /\ sendbuf' = [sendbuf EXCEPT ![n + 1] = Data(m)[n + 1]]
          /\ sender' = [sender EXCEPT !.pc = "count", !.done = @ + 1, !.reg = sendlen]
      <4>1. /\ sendbuf' = [sendbuf EXCEPT ![sender.at + n + 1] = Data(m)[n + 1]]
            /\ sender' = [sender EXCEPT !.pc = "count", !.done = @ + 1, !.reg = sendlen]
        BY <2>3 DEF PushStore
      <4>2. sender.at + n + 1 = n + 1
        BY <1>5, <3>1
      <4> QED BY <4>1, <4>2
    <3>4. /\ sender'.pc = "count" /\ sender'.at = 0 /\ sender'.done = n + 1 /\ sender'.reg = n
      BY <1>1, <3>1, <3>3 DEF SenderFits, SenderRecord
    <3>5. ASSUME NEW i \in 1..(n + 1)
          PROVE  sendbuf'[i] = Data(m)[i]
      <4>1. CASE i = n + 1
        BY <1>1, <1>5, <3>2, <3>3, <4>1
      <4>2. CASE i # n + 1
        <5>1. i \in 1..n /\ i \in 1..Size
          BY <1>1, <1>5, <3>2, <4>2
        <5>2. sendbuf'[i] = sendbuf[i]
          BY <1>1, <3>3, <4>2, <5>1
        <5> QED BY <3>1, <5>1, <5>2 DEF Begun
      <4> QED BY <4>1, <4>2
    <3>6. Begun(sender.msg, sender.done)'
      BY <1>2, <1>4, <3>1, <3>4, <3>5 DEF Begun
    <3>7. sender'.done <= Size /\ sender'.done > 0 /\ sender'.reg = sender'.done - 1
      BY <1>1, <1>5, <3>2, <3>4
    <3>8. sender'.pc = "count" /\ sender'.at = 0 /\ sender'.msg \notin Oversize
      BY <1>2, <3>1, <3>4
    <3> QED BY <1>3, <1>6, <3>6, <3>7, <3>8 DEF PushInv, SenderAt
  <2>4. CASE PushCount
    <3> DEFINE n == sender.done
    <3>1. /\ SenderAt("count") /\ sender.at = 0 /\ n <= Size /\ Begun(m, n)
          /\ n > 0 /\ sender.reg = n - 1 /\ m \notin Oversize
      BY <2>4 DEF PushCount, MessageInv, PushInv, Pushing, SenderAt
    <3>2. /\ sendlen' = (sender.reg + 1) % Width /\ sendbuf' = sendbuf
          /\ sender' = IF n = Len(Data(m))
                       THEN [sender EXCEPT !.pc = "send", !.at = 0, !.done = 0, !.reg = 0]
                       ELSE [sender EXCEPT !.pc = "store", !.reg = 0]
      BY <2>4 DEF PushCount
    <3>3. sendlen' = n
      <4>1. sender.reg + 1 = n
        BY <1>5, <3>1
      <4>2. n \in Nat /\ n < Width
        BY <1>1, <1>5, <3>1
      <4> HIDE DEF n
      <4>3. n % Width = n
        BY <1>1, <4>2
      <4> QED BY <3>2, <4>1, <4>3
    <3>4. \A i \in 1..n : sendbuf'[i] = Data(m)[i]
      BY <3>1, <3>2 DEF Begun
    <3>5. Len(Data(m)) = Size
      BY <1>4, <3>1
    <3>6. CASE n = Size
      <4>1. sender'.pc = "send" /\ sender'.msg = m
        BY <1>1, <3>2, <3>5, <3>6 DEF SenderFits, SenderRecord
      <4>2. Begun(sender.msg, Size)'
        BY <1>2, <1>4, <3>1, <3>4, <3>6, <4>1 DEF Begun
      <4> QED BY <1>3, <1>6, <3>1, <3>3, <3>6, <4>1, <4>2 DEF PushInv, SenderAt
    <3>7. CASE n # Size
      <4>1. sender'.pc = "store" /\ sender'.msg = m /\ sender'.at = 0 /\ sender'.done = n
        BY <1>1, <3>1, <3>2, <3>5, <3>7 DEF SenderFits, SenderRecord
      <4>2. Begun(sender.msg, sender.done)'
        BY <1>2, <1>4, <3>1, <3>4, <4>1 DEF Begun
      <4> QED BY <1>3, <1>6, <3>1, <3>3, <4>1, <4>2 DEF PushInv, SenderAt
    <3> QED BY <3>6, <3>7
  <2> QED BY <2>1, <2>2, <2>3, <2>4 DEF PushData, PushStep
<1> QED BY <1>7, <1>8, <1>9, <1>10 DEF MessageInv

\* send() goes on to the system call with the message in the buffer, or empties
\* the buffer.
LEMMA SendKept ==
  ASSUME TypeOK, RoomInv, OwnedInv, MessageInv, Next, Send, ~(Writing /\ Pushing)
  PROVE  MessageInv'
<1>1. SenderFits /\ sendlen \in Nat /\ Size \in Nat \ {0}
  BY Bounded DEF TypeOK, SenderType
<1>2. SenderAt("send") /\ UNCHANGED <<sendbuf, netVars, loop, taken>>
  BY SendTurn
<1>3. Pushing /\ ~SenderAt("idle")
  BY <1>2 DEF Pushing, SenderAt
<1>4. /\ Armed = {} /\ sendlen = Size /\ sender.msg \notin Oversize
      /\ Begun(sender.msg, Size)
  BY <1>2, <1>3 DEF MessageInv, PushInv
<1>5. outbound' = outbound /\ Armed' = {} /\ ~Writing'
  BY <1>2, <1>3, <1>4 DEF netVars, Armed, Writing
<1>6. OutboundInv'
  BY <1>5, OutboundSame DEF MessageInv
<1>7. WriteInv'
  BY <1>5 DEF WriteInv, Writing, LoopAt
<1>8. CASE NextPeer /\ (sendlen = 0 \/ sendlen' = 0)
  <2>1. sender.to \notin sender.todo
    BY <1>3 DEF OwnedInv, TurnInv
  <2>2. ~Pushing'
    BY <1>1, <1>3, <1>8, <2>1, NextPeerTurn DEF Pushing
  <2>3. sendlen' = 0
    BY <1>1, <1>4, <1>8
  <2> QED BY <1>5, <1>6, <1>7, <2>2, <2>3 DEF MessageInv, PushInv, BufferInv
<1>9. CASE /\ sender'.pc = "arm" /\ sendlen' = sendlen
           /\ sender'.msg = sender.msg /\ sender'.to = sender.to /\ sender'.todo = sender.todo
  <2>1. Begun(sender.msg, Size)'
    BY <1>2, <1>4, <1>9 DEF Begun
  <2>2. PushInv'
    BY <1>4, <1>5, <1>9, <2>1 DEF PushInv, SenderAt
  <2>3. BufferInv'
    BY <1>5, <1>9 DEF BufferInv, Pushing
  <2> QED BY <1>6, <1>7, <2>2, <2>3 DEF MessageInv
<1> QED BY <1>8, <1>9, SendTurn

\* A peer whose turn it still is has not been written the message.
LEMMA NotWritten ==
  ASSUME TypeOK, OwnedInv, OutboundInv, ~SenderAt("idle"), Target \in Fd
  PROVE  /\ owner[Target] = sender.to
         /\ ~Written(sender.msg, Target)
<1>1. sender.to \in DOMAIN peersfd /\ peersfd[sender.to] = Target
  BY Bounded DEF Target
<1>2. owner[Target] = sender.to
  BY <1>1 DEF OwnedInv, PeersInv
<1>3. owner[Target] \in Ahead
  BY <1>2 DEF Ahead
<1>4. sender.msg \in Message
  BY DEF TypeOK, SenderType, SenderFits
<1>5. ASSUME NEW k \in 1..Blocks(Target), IsBlock(Target, k, sender.msg)
      PROVE  FALSE
  <2>1. PICK m \in Message :
          IsBlock(Target, k, m) /\ (sender.msg = m => owner[Target] \notin Ahead)
    BY DEF OutboundInv, OutboundAt
  <2>2. Data(m) = Data(sender.msg)
    BY <1>5, <2>1 DEF IsBlock
  <2>3. m = sender.msg
    BY <1>4, <2>2, DataOfOne
  <2> QED BY <1>3, <2>1, <2>3
<1> QED BY <1>2, <1>5 DEF Written

\* The system call announces the message to one descriptor.
LEMMA ArmKept ==
  ASSUME TypeOK, RoomInv, OwnedInv, MessageInv, Next, Arm, ~(Writing /\ Pushing)
  PROVE  MessageInv'
<1> DEFINE m == sender.msg
           f == Target
           events == ByBackend(EpollArmed(f), KqueueArmed(f))
<1>1. /\ SenderFits /\ interest \in [Socket -> SUBSET {"in", "out"}] /\ f \in Socket
  BY TargetType DEF TypeOK, SenderType, KernelType
<1>2. /\ SenderAt("arm") /\ Ask(f, events) /\ meant' = meant \cup {<<m, f>>} /\ NextPeer
      /\ UNCHANGED <<sendbuf, sendlen, outbound, owner, loop, taken>>
  BY DEF Arm
<1>3. Pushing /\ ~SenderAt("idle")
  BY <1>2 DEF Pushing, SenderAt
<1>4. Armed = {} /\ sendlen = Size /\ Begun(m, Size)
  BY <1>2, <1>3 DEF MessageInv, PushInv
<1>5. Armed' = {f}
  <2>1. events \in SUBSET {"in", "out"}
    BY <1>1, LeftEvents
  <2>2. "out" \in events
    BY DEF ByBackend, EpollArmed, KqueueArmed
  <2>3. Armed' = IF "out" \in events THEN Armed \cup {f} ELSE Armed \ {f}
    <3> HIDE DEF events, f
    <3> QED BY <1>1, <1>2, <2>1, AskArms
  <2> HIDE DEF events
  <2> QED BY <1>4, <2>2, <2>3
<1>6. ~Writing'
  BY <1>2, <1>3 DEF Writing
<1>7. sender.to \notin sender.todo
  BY <1>3 DEF OwnedInv, TurnInv
<1>8. /\ sender'.pc \in {"idle", "check"} /\ Ahead' = Ahead \ {sender.to}
      /\ sender'.pc = "check" => sender'.msg = m
  BY <1>1, <1>2, <1>3, <1>7, NextPeerTurn
<1>9. m \in Message /\ m <= taken
  BY <1>4 DEF Begun
<1>10. ASSUME NEW g \in {f} \cap Fd
       PROVE  /\ <<m, g>> \in meant' /\ ~Written(m, g) /\ owner'[g] \notin Ahead'
  <2>1. owner[f] = sender.to /\ ~Written(m, f) /\ g = f
    BY <1>3, NotWritten DEF MessageInv
  <2> QED BY <1>2, <1>8, <2>1
<1>11. \E x \in Message : Announced(x)'
  <2>1. PICK x \in Message : x = m
    BY <1>9
  <2>2. Begun(x, Size)'
    BY <1>2, <1>4, <2>1 DEF Begun
  <2>3. ASSUME NEW g \in Armed' \cap Fd
        PROVE  <<x, g>> \in meant' /\ ~Written(x, g)' /\ owner'[g] \notin Ahead'
    <3>1. ~Written(x, g)' <=> ~Written(x, g)
      BY <1>2 DEF Written, IsBlock, Blocks
    <3> QED BY <1>5, <1>10, <2>1, <3>1
  <2>4. sendlen' = Size
    BY <1>2, <1>4
  <2>5. Announced(x)'
    BY <2>2, <2>3, <2>4 DEF Announced
  <2> QED BY <2>5
<1>12. OutboundInv'
  BY <1>2, OutboundSame DEF MessageInv
<1>13. WriteInv'
  BY <1>6 DEF WriteInv, Writing, LoopAt
<1>14. PushInv'
  BY <1>8 DEF PushInv, Pushing
<1>15. BufferInv'
  BY <1>5, <1>11 DEF BufferInv
<1> QED BY <1>12, <1>13, <1>14, <1>15 DEF MessageInv

\* A new message is not in the buffer yet.
LEMMA TakeKept ==
  ASSUME TypeOK, RoomInv, OwnedInv, MessageInv, Next,
         Take(DOMAIN peersfd) \/ \E p \in Peer : Take({p})
  PROVE  MessageInv'
<1>1. /\ SenderAt("idle") /\ sender'.pc = "check"
      /\ UNCHANGED <<sendbuf, sendlen, netVars, loop>>
  BY TakeTurn
<1>2. outbound' = outbound /\ Armed' = Armed /\ ~Pushing /\ ~Pushing'
  BY <1>1 DEF netVars, Armed, Pushing, SenderAt
<1>3. OutboundInv'
  BY <1>2, OutboundSame DEF MessageInv
<1>4. WriteInv'
  BY <1>1, <1>2, WriteSame DEF MessageInv
<1>5. PushInv'
  BY <1>2 DEF PushInv
<1>6. BufferInv'
  <2>1. CASE loop.pc \in {"load", "subtract", "test", "disarm"}
    BY <1>1, <1>2, <2>1 DEF BufferInv, MessageInv
  <2>2. CASE loop.pc \notin {"load", "subtract", "test", "disarm"}
    BY <1>1, <1>2, <2>2, BufferSame DEF MessageInv
  <2> QED BY <2>1, <2>2
<1> QED BY <1>3, <1>4, <1>5, <1>6 DEF MessageInv

\* handleWrite() leaves what the send thread has.
LEMMA WriteLeaves ==
  ASSUME Next, handleWrite
  PROVE  UNCHANGED <<sender, sendbuf, taken, meant>> /\ Writing
<1>1. UNCHANGED <<sender, sendbuf, taken, meant>>
  BY Zenon DEF handleWrite, WriteTake, WriteSome, WriteNothing, WriteLoad, WriteSubtract,
     WriteTest, WriteDisarm, Disarm, history, sendVars
<1>2. Writing
  BY DEF handleWrite, WriteTake, WriteSome, WriteNothing, WriteLoad, WriteSubtract, WriteTest,
     WriteDisarm, LoopAt, Writing
<1> QED BY <1>1, <1>2

\* At the descriptor that handleWrite() is about to write to, the message of the
\* buffer is whole.
LEMMA AboutToWrite ==
  ASSUME TypeOK, MessageInv, ~Pushing, LoopAt("take") \/ LoopAt("write")
  PROVE  /\ loop.fd \in Armed /\ Armed = {loop.fd} /\ sendlen = Size
         /\ LoopAt("write") => loop.data = sendbuf
         /\ \E m \in Message : Announced(m)
<1>1. loop.fd \in Armed /\ (LoopAt("write") => loop.data = sendbuf)
  BY DEF MessageInv, WriteInv
<1>2. loop.pc \notin {"load", "subtract", "test", "disarm"}
  BY DEF LoopAt
<1>3. \E m \in Message : Announced(m)
  BY <1>1, <1>2 DEF MessageInv, BufferInv
<1>4. sendlen = Size
  BY <1>3 DEF Announced
<1>5. Armed = {loop.fd}
  BY <1>1 DEF MessageInv, BufferInv
<1> QED BY <1>1, <1>3, <1>4, <1>5

\* The end of handleWrite().
LEMMA Disarmed ==
  ASSUME TypeOK, Armed = {loop.fd}, Writing, Disarm
  PROVE  Armed' = {} /\ ~Writing' /\ UNCHANGED <<sendbuf, sendlen, sender, outbound>>
<1> DEFINE events == ByBackend(EpollWritten(loop.fd), KqueueWritten(loop.fd))
<1>1. interest \in [Socket -> SUBSET {"in", "out"}] /\ loop.fd \in Socket
  BY DEF TypeOK, KernelType, LoopType
<1>2. Ask(loop.fd, events) /\ loop' = Waiting /\ UNCHANGED <<sendbuf, sendlen, sender, outbound>>
  BY DEF Disarm, sendVars
<1>3. events \in SUBSET {"in", "out"}
  BY <1>1, LeftEvents
<1>4. "out" \notin events
  BY DEF ByBackend, EpollWritten, KqueueWritten
<1> HIDE DEF events
<1>5. Armed' = Armed \ {loop.fd}
  BY <1>1, <1>2, <1>3, <1>4, AskArms
<1>6. ~Writing'
  BY <1>2, WaitingType DEF Writing
<1> QED BY <1>2, <1>5, <1>6

\* A write that is not short takes everything.
LEMMA WholeWrite ==
  ASSUME TypeOK, SendApart', NEW r \in 1..Size, WriteSome(r)
  PROVE  r = sendlen
<1>1. /\ r <= sendlen
      /\ stall' = IF r < sendlen THEN stall \cup {"short write"} ELSE stall
  BY Zenon DEF WriteSome
<1>2. "short write" \notin stall'
  BY Zenon DEF SendApart
<1>3. ~(r < sendlen)
  BY <1>1, <1>2, Zenon
<1>4. r <= sendlen
  BY <1>1, Zenon
<1>5. r \in Int /\ sendlen \in Int
  BY Bounded DEF TypeOK, SenderType
<1> QED BY <1>3, <1>4, <1>5

\* The message of the buffer goes out after what has been written, whole and for
\* the first time.
LEMMA WriteGoesOut ==
  ASSUME TypeOK, RoomInv, OwnedInv, MessageInv, Next, ~Pushing, SendApart',
         NEW r \in 1..Size, WriteSome(r)
  PROVE  OutboundInv'
<1>0. PICK f \in Socket : f = loop.fd
  <2>1. LoopAt("write")
    BY Zenon DEF WriteSome
  <2> QED BY <2>1 DEF TypeOK, LoopType, Writing, LoopAt
<1> DEFINE block == [i \in 1..r |-> IF i <= Len(loop.data) THEN loop.data[i] ELSE None]
<1>1. /\ LoopAt("write") /\ outbound' = [outbound EXCEPT ![f] = @ \o block]
      /\ UNCHANGED <<sender, taken, meant>>
  BY <1>0, Zenon DEF WriteSome, sendVars
<1>2. f \in Armed /\ sendlen = Size /\ loop.data = sendbuf /\ \E m \in Message : Announced(m)
  BY <1>0, <1>1, AboutToWrite
<1>3. /\ sendbuf \in [1..Size -> Piece] /\ Size \in Nat \ {0} /\ Fd \subseteq Socket
      /\ outbound \in [Socket -> Seq(Piece)]
  BY Bounded DEF TypeOK, SenderType, KernelType
<1>4. PICK m \in Message : Announced(m)
  BY <1>2
<1>5. r = Size
  BY <1>2, WholeWrite
<1>6. block = Data(m)
  <2>1. Len(sendbuf) = Size
    BY <1>3, BufferIsSeq
  <2>2. \A i \in 1..Size : sendbuf[i] = Data(m)[i]
    BY <1>4 DEF Announced, Begun
  <2>3. m \notin Oversize
    BY <1>4 DEF Announced, Begun
  <2>4. Data(m) = [i \in 1..Size |-> <<m, i>>]
    BY <2>3 DEF Data
  <2>5. block = [i \in 1..Size |-> sendbuf[i]]
    BY <1>2, <1>3, <1>5, <2>1
  <2> QED BY <2>2, <2>4, <2>5
<1> HIDE DEF block
<1>7. \A g \in Fd \ {f} : outbound'[g] = outbound[g]
  BY <1>1, <1>3
<1>8. ASSUME f \in Fd
      PROVE  OutboundAt(f)'
  <2>0. PICK s, q, t : s = outbound[f] /\ q = Len(s) \div Size /\ t = s \o Data(m)
    OBVIOUS
  <2>1. /\ s \in Seq(Piece) /\ Data(m) \in Seq(Piece) /\ Len(Data(m)) = Size
        /\ Len(s) % Size = 0
    <3>1. m \notin Oversize
      BY <1>4 DEF Announced, Begun
    <3>2. Len(s) % Size = 0
      BY <1>8, <2>0 DEF MessageInv, OutboundInv, OutboundAt
    <3> QED BY <1>3, <2>0, <3>1, <3>2, DataType
  <2>2. outbound'[f] = s \o Data(m)
    BY <1>1, <1>3, <1>6, <2>0
  <2>3. /\ Len(t) % Size = 0 /\ q \in Nat /\ Len(t) \div Size = q + 1
        /\ \A k \in 1..q : Block(t, k) = Block(s, k)
        /\ Block(t, q + 1) = Data(m)
    BY <2>0, <2>1, OneMore
  <2>4. /\ <<m, f>> \in meant /\ ~Written(m, f) /\ (sender.msg = m => owner[f] \notin Ahead)
        /\ m <= taken
    BY <1>2, <1>4, <1>8 DEF Announced, Begun
  <2>5. owner'[f] = owner[f] /\ Ahead' = Ahead /\ taken' = taken /\ meant' = meant
        /\ sender' = sender
    <3>1. interest[f] # {}
      BY <1>2 DEF Armed
    <3> QED BY <1>1, <1>8, <3>1, UsedStays DEF Ahead, SenderAt
  <2>6. \A k \in 1..q :
          \E x \in Message :
            /\ <<x, f>> \in meant /\ Block(s, k) = Data(x)
            /\ x <= taken /\ (sender.msg = x => owner[f] \notin Ahead)
            /\ \A l \in 1..(k - 1) : Block(s, l) # Data(x)
    <3>1. OutboundAt(f)
      BY <1>8 DEF MessageInv, OutboundInv
    <3>2. Blocks(f) = q
      BY <2>0 DEF Blocks
    <3>3. ASSUME NEW k, NEW x
          PROVE  IsBlock(f, k, x) <=> Block(s, k) = Data(x)
      BY <2>0 DEF IsBlock, Block
    <3> QED BY <3>1, <3>2, <3>3 DEF OutboundAt
  <2>7. \A k \in 1..q : Block(s, k) # Data(m)
    BY <2>0, <2>4 DEF Written, Blocks, IsBlock, Block
  <2>8. \A k \in 1..(q + 1) :
          \E x \in Message :
            /\ <<x, f>> \in meant /\ Block(t, k) = Data(x)
            /\ x <= taken /\ (sender.msg = x => owner[f] \notin Ahead)
            /\ \A l \in 1..(k - 1) : Block(t, l) # Data(x)
    <3>1. ASSUME NEW k \in 1..(q + 1)
          PROVE  \E x \in Message :
                   /\ <<x, f>> \in meant /\ Block(t, k) = Data(x)
                   /\ x <= taken /\ (sender.msg = x => owner[f] \notin Ahead)
                   /\ \A l \in 1..(k - 1) : Block(t, l) # Data(x)
      <4>1. CASE k = q + 1
        <5>1. \A l \in 1..(k - 1) : l \in 1..q
          BY <2>3, <4>1
        <5> QED BY <2>3, <2>4, <2>7, <4>1, <5>1
      <4>2. CASE k # q + 1
        <5>1. k \in 1..q /\ \A l \in 1..(k - 1) : l \in 1..q
          BY <2>3, <4>2
        <5>2. PICK x \in Message :
                /\ <<x, f>> \in meant /\ Block(s, k) = Data(x)
                /\ x <= taken /\ (sender.msg = x => owner[f] \notin Ahead)
                /\ \A l \in 1..(k - 1) : Block(s, l) # Data(x)
          BY <2>6, <5>1
        <5>3. Block(t, k) = Data(x)
          BY <2>3, <5>1, <5>2
        <5>4. \A l \in 1..(k - 1) : Block(t, l) # Data(x)
          BY <2>3, <5>1, <5>2
        <5> QED BY <5>2, <5>3, <5>4
      <4> QED BY <4>1, <4>2
    <3> QED BY <3>1
  <2>9. outbound'[f] = t
    BY <2>0, <2>2
  <2>10. Len(outbound'[f]) % Size = 0 /\ Blocks(f)' = q + 1
    BY <2>3, <2>9 DEF Blocks
  <2>11. ASSUME NEW k, NEW x
         PROVE  IsBlock(f, k, x)' <=> Block(t, k) = Data(x)
    BY <2>9 DEF IsBlock, Block
  <2>12. ASSUME NEW k \in 1..(q + 1)
         PROVE  \E x \in Message :
                  /\ <<x, f>> \in meant' /\ IsBlock(f, k, x)'
                  /\ x <= taken' /\ (sender'.msg = x => owner'[f] \notin Ahead')
                  /\ \A l \in 1..(k - 1) : ~IsBlock(f, l, x)'
    BY <2>5, <2>8, <2>11
  <2> QED BY <2>10, <2>12 DEF OutboundAt
<1>9. ASSUME NEW g \in Fd
      PROVE  OutboundAt(g)'
  <2>1. OutboundAt(g)
    BY DEF MessageInv, OutboundInv
  <2> QED BY <1>7, <1>8, <2>1, OutSame
<1> QED BY <1>9 DEF OutboundInv

\* handleWrite() writes the message of the buffer once, and disarms.
LEMMA WriteKept ==
  ASSUME TypeOK, RoomInv, OwnedInv, MessageInv, Next, handleWrite, SendApart',
         ~(Writing /\ Pushing), ~(Writing' /\ Pushing')
  PROVE  MessageInv'
<1>1. /\ UNCHANGED <<sender, sendbuf, taken, meant>> /\ ~Pushing /\ ~Pushing'
  BY WriteLeaves DEF Pushing
<1>2. /\ loop \in [pc : LoopPlace, fd : Socket \cup {None}, data : Seq(Piece),
                   at : Nat, n : Nat, reg : Nat]
      /\ sendlen \in Nat /\ Size \in Nat \ {0} /\ Width \in Nat \ {0}
      /\ sendbuf \in [1..Size -> Piece]
  BY Bounded DEF TypeOK, LoopType, SenderType
<1>3. PushInv'
  BY <1>1 DEF PushInv
<1>4. interest' = interest => Armed' = Armed
  BY DEF Armed
<1>5. outbound' = outbound => OutboundInv'
  BY OutboundSame DEF MessageInv
<1>6. CASE WriteTake
  <2>1. /\ LoopAt("take") /\ UNCHANGED <<sendbuf, sendlen, interest, outbound>>
        /\ loop' = [loop EXCEPT !.pc = "write",
                      !.data = SubSeq(sendbuf, 1, IF sendlen <= Size THEN sendlen ELSE Size)]
    BY <1>6 DEF WriteTake, sendVars, netVars
  <2>2. loop.fd \in Armed /\ sendlen = Size
    BY <1>1, <2>1, AboutToWrite
  <2>3. SubSeq(sendbuf, 1, Size) = sendbuf
    <3>1. sendbuf \in Seq(Piece) /\ Len(sendbuf) = Size
      BY <1>2, BufferIsSeq
    <3> QED BY <3>1
  <2>4. loop'.pc = "write" /\ loop'.fd = loop.fd /\ loop'.data = sendbuf
    BY <1>2, <2>1, <2>2, <2>3
  <2>5. WriteInv'
    BY <1>4, <2>1, <2>2, <2>4 DEF WriteInv, LoopAt
  <2>6. BufferInv'
    BY <1>1, <1>4, <2>1, BufferSame DEF MessageInv, LoopAt
  <2> QED BY <1>3, <1>5, <2>1, <2>5, <2>6 DEF MessageInv
<1>7. ASSUME NEW r \in 1..Size, WriteSome(r)
      PROVE  MessageInv'
  <2>1. /\ LoopAt("write") /\ UNCHANGED <<sendbuf, sendlen, interest>>
        /\ loop' = [loop EXCEPT !.pc = "load", !.n = r]
    BY <1>7, Zenon DEF WriteSome, sendVars
  <2>2. Armed = {loop.fd} /\ sendlen = Size
    BY <1>1, <2>1, AboutToWrite
  <2>3. r = Size
    BY <1>7, <2>2, WholeWrite
  <2>4. loop'.pc = "load" /\ loop'.fd = loop.fd /\ loop'.n = Size
    BY <1>2, <2>1, <2>3
  <2>5. WriteInv'
    BY <1>4, <2>1, <2>2, <2>4 DEF WriteInv, LoopAt
  <2>6. BufferInv'
    BY <1>4, <2>1, <2>2, <2>4 DEF BufferInv
  <2>7. OutboundInv'
    BY <1>1, <1>7, WriteGoesOut
  <2> QED BY <1>3, <2>5, <2>6, <2>7 DEF MessageInv
<1>8. CASE WriteNothing
  <2>1. LoopAt("write") /\ Disarm
    BY <1>8, Zenon DEF WriteNothing
  <2>2. Armed = {loop.fd} /\ \E m \in Message : Announced(m)
    BY <1>1, <2>1, AboutToWrite
  <2>3. Armed' = {} /\ ~Writing' /\ UNCHANGED <<sendbuf, sendlen, outbound>>
    BY <2>1, <2>2, Disarmed DEF Writing, LoopAt
  <2>4. WriteInv'
    BY <2>3 DEF WriteInv, Writing, LoopAt
  <2>5. BufferInv'
    BY <1>1, <2>1, <2>3, BufferSame DEF MessageInv, LoopAt
  <2> QED BY <1>3, <1>5, <2>3, <2>4, <2>5 DEF MessageInv
<1>9. CASE WriteLoad
  <2>1. /\ LoopAt("load") /\ UNCHANGED <<sendbuf, sendlen, interest, outbound>>
        /\ loop' = [loop EXCEPT !.pc = "subtract", !.reg = sendlen]
    BY <1>9 DEF WriteLoad, sendVars, netVars
  <2>2. Armed = {loop.fd} /\ loop.n = Size /\ sendlen = Size
    BY <2>1 DEF MessageInv, WriteInv, LoopAt
  <2>3. loop'.pc = "subtract" /\ loop'.fd = loop.fd /\ loop'.n = Size /\ loop'.reg = Size
    BY <1>2, <2>1, <2>2
  <2>4. WriteInv'
    BY <1>4, <2>1, <2>2, <2>3 DEF WriteInv, LoopAt
  <2>5. BufferInv'
    BY <1>4, <2>1, <2>2, <2>3 DEF BufferInv
  <2> QED BY <1>3, <1>5, <2>1, <2>4, <2>5 DEF MessageInv
<1>10. CASE WriteSubtract
  <2> DEFINE rest == (loop.reg - loop.n) % Width
  <2>1. /\ LoopAt("subtract") /\ UNCHANGED <<sendbuf, interest, outbound>> /\ sendlen' = rest
        /\ \E pc \in {"test", IF rest = 0 THEN "disarm" ELSE "write"} :
             loop' = [loop EXCEPT !.pc = pc, !.n = 0, !.reg = 0]
    BY <1>10 DEF WriteSubtract, netVars
  <2>2. Armed = {loop.fd} /\ loop.n = Size /\ loop.reg = Size
    BY <2>1 DEF MessageInv, WriteInv, LoopAt
  <2>3. rest = 0
    <3>1. loop.reg - loop.n = 0
      BY <1>2, <2>2
    <3> QED BY <1>2, <3>1
  <2> HIDE DEF rest
  <2>4. loop'.pc \in {"test", "disarm"} /\ loop'.fd = loop.fd
    BY <1>2, <2>1, <2>3
  <2>5. WriteInv'
    BY <1>4, <2>1, <2>2, <2>3, <2>4 DEF WriteInv, LoopAt
  <2>6. BufferInv'
    BY <1>4, <2>1, <2>2, <2>4 DEF BufferInv
  <2> QED BY <1>3, <1>5, <2>1, <2>5, <2>6 DEF MessageInv
<1>11. CASE WriteTest
  <2>1. /\ LoopAt("test") /\ UNCHANGED <<sendbuf, sendlen, interest, outbound>>
        /\ loop' = [loop EXCEPT !.pc = IF sendlen = 0 THEN "disarm" ELSE "write"]
    BY <1>11 DEF WriteTest, Goto, sendVars, netVars
  <2>2. Armed = {loop.fd} /\ sendlen = 0
    BY <2>1 DEF MessageInv, WriteInv, LoopAt
  <2>3. loop'.pc = "disarm" /\ loop'.fd = loop.fd
    BY <1>2, <2>1, <2>2
  <2>4. WriteInv'
    BY <1>4, <2>1, <2>2, <2>3 DEF WriteInv, LoopAt
  <2>5. BufferInv'
    BY <1>4, <2>1, <2>2, <2>3 DEF BufferInv
  <2> QED BY <1>3, <1>5, <2>1, <2>4, <2>5 DEF MessageInv
<1>12. CASE WriteDisarm
  <2>1. LoopAt("disarm") /\ Disarm
    BY <1>12, Zenon DEF WriteDisarm
  <2>2. Armed = {loop.fd} /\ sendlen = 0
    BY <2>1 DEF MessageInv, WriteInv, LoopAt
  <2>3. Armed' = {} /\ ~Writing' /\ UNCHANGED <<sendlen, outbound>>
    BY <2>1, <2>2, Disarmed DEF Writing, LoopAt
  <2>4. WriteInv'
    BY <2>3 DEF WriteInv, Writing, LoopAt
  <2>5. BufferInv'
    BY <2>2, <2>3 DEF BufferInv
  <2> QED BY <1>3, <1>5, <2>3, <2>4, <2>5 DEF MessageInv
<1>13. \/ WriteTake \/ \E r \in 1..Size : WriteSome(r)
       \/ WriteNothing \/ WriteLoad \/ WriteSubtract \/ WriteTest \/ WriteDisarm
  BY DEF handleWrite
<1> QED BY <1>6, <1>7, <1>8, <1>9, <1>10, <1>11, <1>12, <1>13

\* Every step keeps what is sent in order, until something overlaps or a write
\* is short.
LEMMA SentKept ==
  ASSUME TypeOK, RoomInv, OverlapsNoted, OwnedInv, SentInv, Next
  PROVE  SentInv'
<1> SUFFICES ASSUME SendApart'
             PROVE  MessageInv'
  BY DEF SentInv
<1>1. MessageInv /\ ~(Writing /\ Pushing) /\ ~(Writing' /\ Pushing')
  BY ApartStep DEF SentInv
<1> QED BY <1>1, SentStep, PushKept, SendKept, ArmKept, TakeKept, WriteKept, QuietKept

\* What holds of the descriptors and of what is sent at the start.
LEMMA SendingStart ==
  ASSUME Init
  PROVE  OwnedInv /\ SentInv
<1>1. /\ loop.pc = "starting" /\ sender.pc = "idle" /\ backlog = <<>> /\ sendlen = 0
      /\ DOMAIN peersfd = {}
  BY DEF Init, NetconInit, Waiting, IdleSender
<1>2. \A f \in Socket : interest[f] = {} /\ outbound[f] = <<>>
  BY DEF Init
<1>3. Armed = {}
  BY <1>2 DEF Armed
<1>4. OwnedInv
  <2>1. FreeInv
    BY <1>2, Bounded DEF FreeInv
  <2>2. BacklogInv /\ BusyInv /\ PeersInv /\ TurnInv
    BY <1>1 DEF BacklogInv, BusyInv, PeersInv, TurnInv, Busy, Reading, Writing, LoopAt, SenderAt
  <2> QED BY <2>1, <2>2 DEF OwnedInv
<1>5. PushInv /\ WriteInv /\ BufferInv
  BY <1>1, <1>3 DEF PushInv, WriteInv, BufferInv, Pushing, LoopAt
<1>6. OutboundInv
  <2>1. ASSUME NEW f \in Fd
        PROVE  OutboundAt(f)
    <3>1. Len(outbound[f]) = 0
      BY <1>2, Bounded
    <3>2. Size \in Nat \ {0}
      BY Bounded
    <3>3. 0 % Size = 0 /\ 0 \div Size = 0
      BY <3>2
    <3> QED BY <3>1, <3>3 DEF OutboundAt, Blocks
  <2> QED BY <2>1 DEF OutboundInv
<1> QED BY <1>4, <1>5, <1>6 DEF SentInv, MessageInv

\* A step that changes nothing leaves them.
LEMMA SendingSame ==
  ASSUME UNCHANGED vars
  PROVE  /\ OwnedInv => OwnedInv'
         /\ SentInv => SentInv'
<1>1. UNCHANGED <<sendbuf, sendlen, sender, interest, backlog, outbound, owner, peersfd, loop,
                  meant, taken, overlap, stall>>
  BY DEF vars, sendVars, netVars, mapVars
<1> HIDE DEF vars
<1>2. OwnedInv => OwnedInv'
  BY <1>1 DEF OwnedInv, FreeInv, BacklogInv, BusyInv, PeersInv, TurnInv, Busy, Reading, Writing,
     LoopAt, SenderAt
<1>3. SendApart' = SendApart
  BY <1>1, Zenon DEF SendApart
<1>4. MessageInv => MessageInv'
  <2>1. PushInv => PushInv'
    BY <1>1 DEF PushInv, Pushing, Armed, Begun, SenderAt
  <2>2. WriteInv => WriteInv'
    BY <1>1 DEF WriteInv, Armed, LoopAt
  <2>3. BufferInv => BufferInv'
    BY <1>1 DEF BufferInv, Pushing, Armed, Announced, Begun, Written, Blocks, IsBlock, Ahead,
       SenderAt
  <2>4. OutboundInv => OutboundInv'
    <3>1. Ahead' = Ahead
      BY <1>1 DEF Ahead, SenderAt
    <3>2. \A f, k, m : (IsBlock(f, k, m)' <=> IsBlock(f, k, m)) /\ Blocks(f)' = Blocks(f)
      BY <1>1 DEF IsBlock, Blocks
    <3> QED BY <1>1, <3>1, <3>2 DEF OutboundInv, OutboundAt
  <2> QED BY <2>1, <2>2, <2>3, <2>4 DEF MessageInv
<1> QED BY <1>2, <1>3, <1>4 DEF SentInv

\* As long as the send thread and handleWrite() do not overlap and no write is
\* short, what has been written to a descriptor is whole messages meant for it,
\* none of them twice (epoll.cc, handleWrite() and send(); netcon.cc,
\* pushData()).
THEOREM SentIsWhole == Spec => []SentWhole
<1> DEFINE Inv == TypeOK /\ RoomInv /\ OverlapsNoted /\ OwnedInv /\ SentInv
<1>1. Init => Inv
  BY SocketsStart, SendingStart
<1>2. Inv /\ [Next]_vars => Inv'
  <2> SUFFICES ASSUME Inv, [Next]_vars
               PROVE  Inv'
    OBVIOUS
  <2>1. TypeOK' /\ RoomInv'
    BY TypesNext
  <2>2. OverlapsNoted' /\ OwnedInv' /\ SentInv'
    BY OverlapStep, OwnedKept, SentKept, SocketsSame, SendingSame
  <2> QED BY <2>1, <2>2
<1>3. Inv => SentWhole
  <2> SUFFICES ASSUME OutboundInv
               PROVE  \A f \in Fd :
                        /\ Len(outbound[f]) % Size = 0
                        /\ \A k \in 1..(Len(outbound[f]) \div Size) :
                             \E m \in Message :
                               /\ <<m, f>> \in meant /\ IsBlock(f, k, m)
                               /\ \A l \in 1..(k - 1) : ~IsBlock(f, l, m)
    BY Zenon DEF SentWhole, SentInv, SendApart, MessageInv
  <2> QED BY DEF OutboundInv, OutboundAt, Blocks
<1> QED BY <1>1, <1>2, <1>3, PTL DEF Spec
=============================================================================
