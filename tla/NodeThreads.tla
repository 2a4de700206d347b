---------------------------- MODULE NodeThreads ----------------------------
(***************************************************************************)
(* The threads of one node (Node::init() and Node::run() in raft/node.cc)  *)
(* and what passes between them: the queues of class Raft, the two queues  *)
(* of what is still to be bound, the Ready flag and the log indexes that   *)
(* storageLog() reads while another thread changes them.                   *)
(*                                                                         *)
(* Five threads wait on a condition variable each, under a mutex that only *)
(* the waiting thread ever locks.  So between a thread's look at its       *)
(* predicate and its falling asleep a notification may come and be lost.   *)
(* The waits of the send thread and of the persist thread are modelled     *)
(* step by step.  The receive, step and bind threads sleep and lose        *)
(* notifications in the same way; but what wakes them is the next message  *)
(* or connection, which no run promises, so nothing here depends on it,    *)
(* and such a thread takes a step at any time at which its predicate holds.*)
(* The event loop, the tick thread and the client never wait.              *)
(*                                                                         *)
(* Of a message only its kind counts here; what the Raft object makes of   *)
(* it is in module Raft, what a socket makes of it in module Sockets.  A   *)
(* leader is taken to know a follower, without which a proposal kills it   *)
(* (module Raft).  One access to the vector _entries is one step: what a   *)
(* copy and an insertion at the same instant do to it is left out.         *)
(***************************************************************************)
EXTENDS Naturals, Sequences, FiniteSets

CONSTANTS
  Peer,         \* the ids of the nodes that connect
  IdWidth,      \* how many values a uint64_t has
  IntWidth,     \* how many values an int32_t has
  MaxCommit,    \* the highest commit index in a message or among the matches
  Capacity,     \* how many messages the receive buffer holds
  Loads         \* the bounds on what comes to the node, one for each behaviour

\* connections: how many peers make, messages: how many messages and proposals
\* follow, queue: how many messages wait to be sent before no more are added.
ASSUME ThreadsAssumption ==
  /\ Loads \subseteq [connections : Nat, messages : Nat, queue : Nat]
  /\ MaxCommit \in Nat /\ Capacity \in Nat \ {0}
  /\ IntWidth \in Nat \ {0, 1} /\ IdWidth \in Nat /\ IntWidth < IdWidth
  /\ Peer \subseteq 1..(IdWidth - 1)

Waiter == {"send", "persist"}

VARIABLES
  pc,          \* pc[t]: where thread t is
  recvbuf,     \* messages in the receive buffer
  handed,      \* what popData() has given to the receive thread
  recvmsgs,    \* _recvmsgs
  sendmsgs,    \* how many messages are in _sendmsgs
  outgoing,    \* how often the send thread still has to push its message
  sendbuf,     \* what becomes of the message in the send buffer
  owner,       \* owner[f]: the peer behind the accepted descriptor f
  unknownfd,
  unknownid,
  peersfd,
  entries,     \* the index fields of _entries
  commitIndex,
  lastApplied,
  Ready,
  storing,     \* what storageLog() has computed so far
  arrived,     \* how many messages and proposals have come
  load,        \* the bounds of this behaviour
  leads,       \* the node is the leader
  running,     \* the process has not died
  \* History
  announced,   \* the descriptors in the order in which their peers' ids were queued
  stored,      \* the places in the log that have been written to the file
  missed,      \* the places that a commit gave storageLog() no chance to write
  due,         \* commitIndex when Ready was last set
  wiped        \* Ready was cleared after it had been set again

sending == <<sendmsgs, outgoing, sendbuf>>
binding == <<owner, unknownfd, unknownid, peersfd, announced>>
logs == <<entries, commitIndex, lastApplied, Ready, storing, stored, missed, due, wiped>>
given == <<load, leads>>
vars == <<pc, recvbuf, handed, recvmsgs, sending, binding, logs, arrived, given, running>>

\* Of storageLog(): where it found _lastApplied, whether it copies from the front.
\* History: Ready was set again; the log changed length in between.
NotStoring == [at |-> 0, front |-> FALSE, again |-> FALSE, astray |-> FALSE]

Init ==
  /\ pc = [t \in Waiter \cup {"step"} |-> "check"]
  /\ recvbuf = <<>> /\ handed = <<>> /\ recvmsgs = <<>>
  /\ sendmsgs = 0 /\ outgoing = 0 /\ sendbuf = "empty"
  /\ owner = <<>> /\ unknownfd = <<>> /\ unknownid = <<>>
  /\ peersfd = [p \in {} |-> 0]
  /\ entries = <<>> /\ commitIndex = 0 /\ lastApplied = 0 /\ Ready = FALSE
  /\ storing = NotStoring
  /\ arrived = 0 /\ load \in Loads
  /\ leads \in BOOLEAN /\ running = TRUE
  /\ announced = <<>>
  /\ stored = {} /\ missed = {} /\ due = 0 /\ wiped = FALSE

At(t, where) == pc[t] = where

\* notify_all(): who sleeps looks again; who is not asleep yet misses it.
Notified(pcs, t) == IF pcs[t] = "asleep" THEN [pcs EXCEPT ![t] = "check"] ELSE pcs
Notify(t) == pc' = Notified(pc, t)
Goto(t, where) == pc' = [pc EXCEPT ![t] = where]
GotoAndNotify(t, where, u) == pc' = Notified([pc EXCEPT ![t] = where], u)

\* recvbuf_mutex is held through all of generalStep().
RecvbufLocked == pc["step"] \in {"ready", "reply"}

\* storageLog() is under way.
Storing == pc["persist"] \in {"guard", "copy", "apply", "clear"}

\* Index fields are places, as they are unless two proposals meet between two
\* runs of storageLog() (module Raft).
Numbered == \A i \in DOMAIN entries : entries[i] = i

\* peersfd with descriptor f for peer p.
Bound(p, f) == [q \in DOMAIN peersfd \cup {p} |-> IF q = p THEN f ELSE peersfd[q]]

\* A uint64_t that passes through the int32_t of popUnknownid(): the low half,
\* extended by its sign.
Narrow(id) ==
  LET low == id % IntWidth
  IN  IF low < IntWidth \div 2 THEN low ELSE low + (IdWidth - IntWidth)
-----------------------------------------------------------------------------
(* Slips that the properties must notice *)

\* The tick thread does not notify.
Tick_Silent ==
  /\ sendmsgs' = IF sendmsgs < load.queue THEN sendmsgs + 1 ELSE sendmsgs
  /\ UNCHANGED <<pc, recvbuf, handed, recvmsgs, outgoing, sendbuf, binding, logs, arrived,
                 given, running>>

\* The newest descriptor is taken.
Bind_Newest ==
  /\ unknownfd # <<>> /\ unknownid # <<>>
  /\ peersfd' = Bound(Narrow(Head(unknownid)), unknownfd[Len(unknownfd)])
  /\ unknownid' = Tail(unknownid)
  /\ unknownfd' = SubSeq(unknownfd, 1, Len(unknownfd) - 1)
  /\ UNCHANGED <<pc, recvbuf, handed, recvmsgs, sending, owner, announced, logs, arrived,
                 given, running>>

\* begin()+maxi instead of begin()+maxi+1.
StorageCopy_OffByOne ==
  /\ At("persist", "copy")
  /\ stored' = stored \cup (storing.at..(storing.at + commitIndex - lastApplied - 1))
  /\ Goto("persist", "apply")
  /\ UNCHANGED <<recvbuf, handed, recvmsgs, sending, binding, entries, commitIndex, lastApplied,
                 Ready, storing, missed, due, wiped, arrived, given, running>>

\* Ready is not set when nothing new is committed.
SetReady_Lazy ==
  /\ At("step", "ready")
  /\ Ready' = (Ready \/ commitIndex > lastApplied + 1)
  /\ due' = commitIndex
  /\ storing' = [storing EXCEPT !.again = Storing]
  /\ GotoAndNotify("step", "reply", "persist")
  /\ UNCHANGED <<recvbuf, handed, recvmsgs, sending, binding, entries, commitIndex, lastApplied,
                 stored, missed, wiped, arrived, given, running>>
-----------------------------------------------------------------------------
(* Waiting: condition.wait(lock, predicate).                               *)
(* While a predicate is true only the thread itself can make it false, so   *)
(* its first step is taken together with the look at it.                   *)

There(t) ==
  IF t = "send" THEN sendmsgs > 0 ELSE Ready

Begins(t) == At(t, "check") /\ There(t)

\* A step that is only about where a thread is.
Stays == UNCHANGED <<recvbuf, handed, recvmsgs, sending, binding, logs, arrived, given, running>>

Check(t) == At(t, "check") /\ ~There(t) /\ Goto(t, "block") /\ Stays

FallAsleep(t) == At(t, "block") /\ Goto(t, "asleep") /\ Stays

\* A wait may also end by itself.
WakeUp(t) == At(t, "asleep") /\ Goto(t, "check") /\ Stays
-----------------------------------------------------------------------------
(* The event loop and the peers *)

\* handleAccept()
Accept(p) ==
  LET f == Len(owner) + 1 IN
  /\ Len(owner) < load.connections
  /\ owner' = Append(owner, p)
  /\ unknownfd' = Append(unknownfd, f)
  /\ UNCHANGED <<pc, unknownid, peersfd, announced>>
  /\ UNCHANGED <<recvbuf, handed, recvmsgs, sending, logs, arrived, given, running>>

\* handleRead(): what does not fit is dropped, and then nobody is notified.
Arrives(m) ==
  /\ IF Len(recvbuf) < Capacity
     THEN recvbuf' = Append(recvbuf, m) ELSE UNCHANGED recvbuf
  /\ UNCHANGED <<pc, handed, recvmsgs, sending, binding, logs, given, running>>

\* The first message over a connection is the MsgNode of the peer: it comes
\* once for each descriptor.  The others bring a follower entries, or let the
\* node commit some.
ArrivesNode ==
  \E f \in DOMAIN owner :
    LET m == [kind |-> "node", from |-> f] IN
    /\ \A j \in DOMAIN announced : announced[j] # f
    /\ \A j \in DOMAIN recvbuf : recvbuf[j] # m
    /\ \A j \in DOMAIN handed : handed[j] # m
    /\ \A j \in DOMAIN recvmsgs : recvmsgs[j] # m
    /\ Arrives(m)
    /\ UNCHANGED arrived

ArrivesOther ==
  /\ arrived < load.messages
  /\ arrived' = arrived + 1
  /\ \E k \in {"append", "commit"} :
       /\ leads => k = "commit"
       /\ Arrives([kind |-> k, from |-> 0])

\* handleWrite() empties the send buffer (module Sockets).
Written ==
  /\ sendbuf = "full"
  /\ sendbuf' = "empty"
  /\ UNCHANGED <<pc, recvbuf, handed, recvmsgs, sendmsgs, outgoing, binding, logs, arrived,
                 given, running>>

\* Or it does not: its event is lost, the write fails, or the peer stops reading
\* and every write() ends with EAGAIN (epoll.cc:114-126).
Sticks ==
  /\ sendbuf = "full"
  /\ sendbuf' = "stuck"
  /\ UNCHANGED <<pc, recvbuf, handed, recvmsgs, sendmsgs, outgoing, binding, logs, arrived,
                 given, running>>

\* The peer reads on.
Recovers ==
  /\ sendbuf = "stuck"
  /\ sendbuf' = "empty"
  /\ UNCHANGED <<pc, recvbuf, handed, recvmsgs, sendmsgs, outgoing, binding, logs, arrived,
                 given, running>>
-----------------------------------------------------------------------------
(* The receive thread *)

\* popData() takes everything there is.
PopData ==
  /\ recvbuf # <<>> /\ handed = <<>>
  /\ handed' = recvbuf
  /\ recvbuf' = <<>>
  /\ UNCHANGED <<pc, recvmsgs, sending, binding, logs, arrived, given, running>>

\* tryPushRecvbuf(), and notify_one() for the send thread.  Messages that were
\* read together are parsed as one, of the last one's kind (module Wire).
TryPushRecvbuf ==
  /\ handed # <<>> /\ ~RecvbufLocked
  /\ recvmsgs' = Append(recvmsgs, handed[Len(handed)])
  /\ handed' = <<>>
  /\ Notify("send")
  /\ UNCHANGED <<recvbuf, sending, binding, logs, arrived, given, running>>

\* propose(), in a thread of the client.
Propose ==
  /\ leads /\ arrived < load.messages /\ ~RecvbufLocked
  /\ arrived' = arrived + 1
  /\ recvmsgs' = Append(recvmsgs, [kind |-> "prop", from |-> 0])
  /\ UNCHANGED <<pc, recvbuf, handed, sending, binding, logs, given, running>>
-----------------------------------------------------------------------------
(* The step thread: stepNode() *)

\* What an append makes of a follower's log: it starts at a place that is not
\* below the commit index nor behind the log, drops what is there, and brings an
\* entry or none (handleAppend, maybeAppend()).
Appended ==
  {SubSeq(entries, 1, i) : i \in (commitIndex..Len(entries)) \ {0}}
    \cup {Append(SubSeq(entries, 1, i), i + 1) : i \in commitIndex..Len(entries)}

\* A leader numbers a proposal by _lastApplied (appendEntry()).
NewEntries(m) ==
  IF m.kind = "append" /\ ~leads THEN Appended
  ELSE IF m.kind = "prop" /\ leads THEN {Append(entries, lastApplied + 1)}
  ELSE {}

\* commitTo(): the index of a heartbeat, or what the matches give after a
\* proposal or an answer.  It may pass the end of the log, which is only
\* reported.
NewCommit(m) ==
  IF m.kind \in {"commit", "prop"} THEN commitIndex..MaxCommit \cup {commitIndex}
  ELSE {commitIndex}

\* History: what storageLog() will take for applied without having written it.
\* A commit comes between its copy and appliedTo(), or it passes the end of the
\* log.
Missed ==
  (IF At("persist", "apply") THEN (commitIndex + 1)..commitIndex' ELSE {})
  \cup (IF commitIndex' > commitIndex /\ commitIndex' > Len(entries')
        THEN (lastApplied + 1)..commitIndex' ELSE {})

\* History: storageLog() has found nothing, and the log changes its length before
\* that is compared with the size of the log.
Astray ==
  /\ At("persist", "guard") /\ storing.at = Len(entries) + 1
  /\ Len(entries') # Len(entries)

\* MsgNode: pushUnknownid().
StepNode ==
  /\ At("step", "check") /\ recvmsgs # <<>>
  /\ LET m == Head(recvmsgs) IN
     /\ recvmsgs' = Tail(recvmsgs)
     /\ \/ entries' \in NewEntries(m) /\ Goto("step", "ready")
        \/ m.kind # "prop" /\ UNCHANGED entries /\ Goto("step", "reply")
     /\ commitIndex' \in NewCommit(m)
     /\ IF m.kind = "node"
        THEN /\ unknownid' = Append(unknownid, owner[m.from])
             /\ announced' = Append(announced, m.from)
        ELSE UNCHANGED <<unknownid, announced>>
  /\ missed' = missed \cup Missed
  /\ storing' = [storing EXCEPT !.astray = @ \/ Astray]
  /\ UNCHANGED <<recvbuf, handed, sending, owner, unknownfd, peersfd,
                 lastApplied, Ready, stored, due, wiped, arrived, given, running>>

SetReady ==
  /\ At("step", "ready")
  /\ Ready' = TRUE
  /\ due' = commitIndex
  /\ storing' = [storing EXCEPT !.again = Storing]
  /\ GotoAndNotify("step", "reply", "persist")
  /\ UNCHANGED <<recvbuf, handed, recvmsgs, sending, binding, entries, commitIndex, lastApplied,
                 stored, missed, wiped, arrived, given, running>>

\* send() pushes onto _sendmsgs without sendbuf_mutex, and the tick thread does
\* so too: of two pushes at a time one may overwrite the other.
Pushed(alone) ==
  \/ sendmsgs < load.queue /\ sendmsgs' = sendmsgs + 1
  \/ (sendmsgs = load.queue \/ ~alone) /\ UNCHANGED sendmsgs

StepPushed ==
  /\ At("step", "reply")
  /\ Pushed(TRUE)
  /\ GotoAndNotify("step", "check", "send")
  /\ UNCHANGED <<recvbuf, handed, recvmsgs, outgoing, sendbuf, binding, logs, arrived,
                 given, running>>
-----------------------------------------------------------------------------
(* The tick thread: a leader sends heartbeats, others may start elections. *)
(* (The bound on the queue leaves a message out, never the notification.)      *)

Tick ==
  /\ Pushed(~At("step", "reply"))
  /\ Notify("send")
  /\ UNCHANGED <<recvbuf, handed, recvmsgs, outgoing, sendbuf, binding, logs, arrived,
                 given, running>>
-----------------------------------------------------------------------------
(* The send thread: one message, for one peer or for each of them, is pushed *)
(* into the send buffer again and again until the buffer takes it.          *)

\* tryPopSendbuf().  A message longer than the buffer is never taken.
TryPopSendbuf ==
  /\ Begins("send")
  /\ sendmsgs' = sendmsgs - 1
  /\ outgoing' \in {1, Cardinality(DOMAIN peersfd)}
  /\ IF outgoing' = 0 THEN UNCHANGED pc ELSE \E to \in {"push", "spin"} : Goto("send", to)
  /\ UNCHANGED <<recvbuf, handed, recvmsgs, sendbuf, binding, logs, arrived, given, running>>

\* pushData() and send(): what is for a peer without a descriptor is dropped.
PushData ==
  /\ At("send", "push") /\ sendbuf = "empty"
  /\ sendbuf' \in {"full", "empty"}
  /\ outgoing' = outgoing - 1
  /\ IF outgoing = 1 THEN Goto("send", "check") ELSE UNCHANGED pc
  /\ UNCHANGED <<recvbuf, handed, recvmsgs, sendmsgs, binding, logs, arrived, given, running>>

\* The send thread spins, and nothing that it does itself can end that.
Spins == At("send", "spin") \/ (At("send", "push") /\ sendbuf = "stuck")
-----------------------------------------------------------------------------
\* The bind thread: the oldest id gets the oldest descriptor.
Bind ==
  /\ unknownfd # <<>> /\ unknownid # <<>>
  /\ peersfd' = Bound(Narrow(Head(unknownid)), Head(unknownfd))
  /\ unknownid' = Tail(unknownid)
  /\ unknownfd' = Tail(unknownfd)
  /\ UNCHANGED <<pc, recvbuf, handed, recvmsgs, sending, owner, announced, logs, arrived,
                 given, running>>
-----------------------------------------------------------------------------
(* The persist thread: storageLog() reads _commitIndex for the condition,  *)
(* for the end of the copy and for appliedTo(), and the size of the log    *)
(* for the search and for the condition.                                   *)

\* With no entry numbered _lastApplied the search ends behind the log.
StorageLocate ==
  LET there == {i \in DOMAIN entries : entries[i] = lastApplied} IN
  /\ Begins("persist")
  /\ storing' = [storing EXCEPT !.again = FALSE, !.astray = FALSE,
       !.at = IF there = {} THEN Len(entries) + 1
              ELSE CHOOSE i \in there : \A j \in there : i <= j]
  /\ Goto("persist", "guard")
  /\ UNCHANGED <<recvbuf, handed, recvmsgs, sending, binding, entries, commitIndex, lastApplied,
                 Ready, stored, missed, due, wiped, arrived, given, running>>

StorageGuard ==
  /\ At("persist", "guard")
  /\ storing' = [storing EXCEPT !.front = storing.at = Len(entries) + 1]
  /\ Goto("persist", IF /\ lastApplied < commitIndex
                        /\ commitIndex - lastApplied <= Len(entries)
                     THEN "copy" ELSE "apply")
  /\ UNCHANGED <<recvbuf, handed, recvmsgs, sending, binding, entries, commitIndex, lastApplied,
                 Ready, stored, missed, due, wiped, arrived, given, running>>

\* The places from the front to _commitIndex, or as many behind the one found as
\* are not applied.
Batch ==
  IF storing.front THEN 1..commitIndex
  ELSE (storing.at + 1)..(storing.at + (commitIndex - lastApplied))

\* A copy that ends behind the log takes what is there, or the process dies.
StorageCopy ==
  /\ At("persist", "copy")
  /\ \/ /\ stored' = stored \cup (Batch \cap DOMAIN entries)
        /\ Goto("persist", "apply")
        /\ UNCHANGED running
     \/ /\ ~ Batch \subseteq DOMAIN entries
        /\ running' = FALSE
        /\ UNCHANGED <<pc, stored>>
  /\ UNCHANGED <<recvbuf, handed, recvmsgs, sending, binding, entries, commitIndex, lastApplied,
                 Ready, storing, missed, due, wiped, arrived, given>>

AppliedTo ==
  /\ At("persist", "apply")
  /\ lastApplied' = IF commitIndex = 0 THEN lastApplied ELSE commitIndex
  /\ missed' = missed \cup (IF storing.astray THEN (lastApplied + 1)..commitIndex ELSE {})
  /\ Goto("persist", "clear")
  /\ UNCHANGED <<recvbuf, handed, recvmsgs, sending, binding, entries, commitIndex, Ready,
                 storing, stored, due, wiped, arrived, given, running>>

\* Ready = false
ClearReady ==
  /\ At("persist", "clear")
  /\ Ready' = FALSE
  /\ wiped' = (wiped \/ storing.again)
  /\ storing' = NotStoring
  /\ Goto("persist", "check")
  /\ UNCHANGED <<recvbuf, handed, recvmsgs, sending, binding, entries, commitIndex, lastApplied,
                 stored, missed, due, arrived, given, running>>
-----------------------------------------------------------------------------
Waits(t) == Check(t) \/ FallAsleep(t)

Receives == PopData \/ TryPushRecvbuf
Sends == Waits("send") \/ TryPopSendbuf \/ PushData
Steps == StepNode \/ SetReady \/ StepPushed
Binds == Bind
Persists == Waits("persist") \/ StorageLocate \/ StorageGuard \/ StorageCopy
            \/ AppliedTo \/ ClearReady

Environment ==
  \/ ArrivesNode \/ ArrivesOther \/ Propose \/ Sticks \/ Recovers
  \/ \E p \in Peer : Accept(p)
  \/ \E t \in Waiter : WakeUp(t)

Ended == ~running /\ UNCHANGED vars

Next ==
  \/ running /\ (Environment \/ Receives \/ Sends \/ Steps \/ Binds \/ Persists \/ Tick
                 \/ Written)
  \/ Ended

Spec == Init /\ [][Next]_vars

\* Threads are scheduled; ticks only do something for sure at a leader, and what
\* is in the send buffer goes out unless it sticks.
Fairness ==
  /\ WF_vars(running /\ Receives) /\ WF_vars(running /\ Sends) /\ WF_vars(running /\ Steps)
  /\ WF_vars(running /\ Binds) /\ WF_vars(running /\ Persists)
  /\ WF_vars(running /\ Written)
  /\ WF_vars(running /\ leads /\ Tick)

FairSpec == Spec /\ Fairness
-----------------------------------------------------------------------------
\* Everything that counts as applied has been written to the file, although the
\* step thread appends, truncates and commits at every step of storageLog(), save
\* for what a commit gave it no chance to write: one that comes after the copy and
\* before appliedTo(), one that passes the end of the log, or any when the log
\* changes its length right after a search that found nothing (Node::run(),
\* storageLog(), commitTo()).
AppliedWasStored ==
  Numbered => \A k \in 1..lastApplied : k \in stored \cup missed

\* What was committed when entries were last added is applied once the persist
\* thread waits again, unless Ready was wiped (node.cc:253).
DueIsApplied ==
  /\ pc["persist"] \in {"check", "block", "asleep"}
  /\ ~Ready /\ ~wiped /\ ~At("step", "ready")
  => lastApplied >= due

\* Ids and descriptors come in two queues, and an id through an int32_t: the f-th
\* descriptor is bound to the f-th id that was announced, as an int32_t has it.
\* So a peer is found at its own descriptor exactly when it announces itself in
\* the place in which it was accepted, with an id that an int32_t can hold.
PairedRightly ==
  \A p \in DOMAIN peersfd :
    LET f == peersfd[p] IN
    /\ f \in DOMAIN announced /\ announced[f] \in DOMAIN owner
    /\ p = Narrow(owner[announced[f]])

\* A lost notification is made good by the ticks of a leader: what is queued for
\* sending gets the send thread to work, unless the process dies or the thread
\* spins for ever on a message that the send buffer never takes.
QueuedIsSent ==
  \/ <>[]Spins
  \/ (leads /\ sendmsgs > 0) ~> (Begins("send") \/ ~running)
=============================================================================
