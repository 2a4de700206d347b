# A verification of SapphireDB

SapphireDB is a C++ library for replicating a log of operations in the style of
Raft.  This directory holds TLA+ models of it, the TLC runs that check them, and
theorems that TLAPS proves about them.  Paths like `raft.cc:777` are below
`src/sapphiredb/`: `raft/` for the consistency library, `common/` for the rest.

    tlc -workers 2 -config Raft_stable.cfg MCRaft.tla     # any Raft_*.cfg
    tlc -workers 2 -config Sockets.cfg SocketsProperties.tla
    tlapm RaftProofs.tla                                  # or any other *Proofs.tla

## 1. Inventory

| Part | Source | State | Operations |
|---|---|---|---|
| Raft object | `raft/raft.{h,cc}` | term, vote, leader, role, `_commitIndex`, `_lastApplied`, `_entries`, `_offset`, `_prs`, `_votes`, three queues, `Ready` | `generalStep` and the `step*` handlers, `tickElection`, `tickHeartbeat`, `propose`, `storageLog` |
| Progress | `raft/progress.{h,cc}` | state, match, next, pendingSnapshot of one follower | `becomeProbe`, `becomeReplicate`, `optimisticUpdate`, `maybeUpdate` |
| Storage | `raft/storage.{h,cc}` | one file holding a protobuf `Storage` | `Append`, `Term`, `FirstIndex`, `LastIndex`; the rest has no caller |
| Node | `raft/node.{h,cc}` | mutexes and conditions | `init` (connect, announce, start threads), `run`, `propose` |
| Epoll / Kqueue | `common/epoll.*`, `common/kqueue.*` | `peersfd`, `bcastfd`, unbound descriptors | `handleAccept`, `handleRead`, `handleWrite`, `send`, `bindPeerfd` |
| Netcon | `common/net.*` | one send and one receive buffer for all connections | `pushData`, `popData` |
| Thread pool | `common/thread_pool.h` | queue of tasks, `stop` | `enqueue`, destructor, worker loop |
| Messages | `raft/raftpb/raftpb.proto` | - | protobuf encoding; the `.pb.*` files are generated |
| Timer, Uniqueid | `common/timer.*`, `common/uniqueid.*` | none that evolves | no caller in the program |
| spdlog | `common/spdlog/` | registry, one sink per logger; queue and worker of an asynchronous logger | `log`, `create`, `drop_all`, `enqueue`, `dequeue`, `_sink_it`, `_rotate`, format and pattern parsing |
| Protobuf samples | `google/protobuf/` | one file | `write`, `reader` |
| wrk, webdocs | vendored or examples | - | - |
| kv engine | named in `README.md:19` | - | no source in the repository |

**How they interact.**  `Node::init()` dials every configured peer, adds it to
`_prs` and queues a `MsgNode` for it; the node that is dialled learns of the
dialler only from that `MsgNode`.  Seven threads share one Raft object: an event
loop (sockets to and from the two buffers), a receive thread (buffer to
`_recvmsgs`), a send thread (`_sendmsgs` to buffer to `EPOLLOUT`), a bind thread
(ids to descriptors), a step thread (`_recvmsgs` to `generalStep`), a persist
thread (`storageLog` when `Ready`) and the tick thread of `run()`.  Only the
queues are under locks; the fields of the Raft object are not.

**What is hard.**  Every node elects itself (the quorum is 1), so leaders
compete all the time; messages of old leaders arrive late; the step, tick and
persist threads interleave; messages are discarded before a connection is
bound, dropped when a buffer is full, and merged when two are read before
`popData()`; a restarted process has lost its term and its log.  `PROJECT.json`
lists these hazards line by line, each with the properties aimed at it.

**What makes each part correct.**
*Raft object*: terms only grow, a leader does not lose its own entries, what a
node holds as committed stays, a commit index is backed by an acknowledgement,
what the leader believes of a follower is so, and nothing is applied before it
is committed.  *Progress*: `next` is never 0, `match` is what the follower
holds.  *Storage*: the last batch can be read back.  *Channel*: a message is
delivered once, in order, to the node it is for; a parsed message holds what was
sent.  *Thread pool*: every accepted task is run once, none after the stop.
*Logging*: no message is lost or doubled on its way to the file, a line of the
console is whole, the text is what the format says.

## 2. Modules

| Module | What it is |
|---|---|
| `Progress` | `class Progress`: a record and operators on it |
| `Raft` | the Raft object of every node, the threads that drive it, the channels, the faults |
| `RaftProperties` | type invariant, safety, action and liveness properties, refinement mapping |
| `ReplicatedLog` | the abstract specification: one growing log and growing committed prefixes |
| `MCRaft` | the topology of the test programs, for TLC |
| `NodeThreads` | the threads of one node, its queues and its Ready flag, with lost wake-ups and the loop of the send thread |
| `MCThreads` | peers and loads for TLC |
| `Netcon` | `pushData()` and `popData()`, access by access |
| `Sockets` | the event loop over epoll and kqueue, around `Netcon` |
| `SocketsProperties` | what of it holds, and up to which event |
| `Protobuf`, `RaftPb` | the wire format; the generated classes of `raftpb.proto` on it |
| `Wire` | messages on a stream that is read in pieces of any length |
| `LogFile` | `class Storage` on the bytes of the file |
| `Helloworld` | the two sample programs and their message class |
| `MCWire` | strings, entries and snapshots for TLC |
| `ThreadPool` | the pool: workers, clients, destructor, mutex and condition variable |
| `TaskQueue` | the abstract specification of the pool |
| `MpmcQueue` | spdlog's lock-free queue, access by access |
| `BoundedFifo` | the abstract specification of that queue |
| `RotatingFile` | the rotating file sink, with operations that fail |
| `AsyncLog` | clients, queue, worker and file of an asynchronous logger |
| `Format` | fmt's parser of a format string and its writers of integers, characters and strings |
| `FormatReference` | what a format means, read off its parts; the definition `Format` is compared with |
| `Pattern` | `pattern_formatter`: flags, padding-free pieces and the end of the line |
| `Loggers` | the registry and synchronous loggers with a console sink, several threads |
| `MCLogging` | the cases of the run `logging` |
| `RaftProofs`, `RaftReplicationProofs` | theorems about `Raft`: what each call may do and what nodes tell each other; one leader |
| `NodeThreadsProofs`, `SocketsProofs`, `ThreadPoolProofs` | theorems about `NodeThreads`, `Sockets` with `Netcon`, and `ThreadPool` |
| `LoggingProofs` | theorems about `MpmcQueue`, about `AsyncLog` with `RotatingFile`, about `Pattern`, `Format` and `Loggers` |
| `WireProofs` | theorems about `RaftPb`, `Wire`, `LogFile` and `Helloworld` |
| `RecursionLemmas` | induction and recursive functions, for the two modules above |

### How `Raft` corresponds to the code

The C++ object of node n is the record `raft[n]`.  A member function is an
operator from the record before a call to the record after it, named after the
function (`stepDown` is `StepDown`, `maybeAppend` is `MaybeAppend`, whose result is
`AppendResult`).  An action is one call made by one thread:

| Action | Thread | Code |
|---|---|---|
| `TickElection`, `Elect` | tick | `tickElection` with an expired timer; the MsgHup handler up to and after `becomeCandidate()`, because the step thread may run between the two |
| `TickHeartbeat` | tick | `tickHeartbeat` with an expired timer, MsgBeat, `bcastHeartbeat` |
| `StepNode` | step | `stepNode`, `generalStep` and everything it calls |
| `Propose` | step | `propose` and the MsgProp handler |
| `Persist` | persist | `storageLog` and the reset of `Ready` |
| `Bind` | bind | one round of the bind thread |
| `Discard` | send | `Epoll::send` to an id that has no connection |
| `Crash` | any | the process dies of a read behind `_entries` |
| `Lose`, `Coalesce`, `Restart` | - | faults, off unless a run names them in `Faults` |

Decisions a reader should know:

* The three queues between two nodes (`_sendmsgs`, the socket, `_recvmsgs`) are
  one: `raft[n].sendmsgs[d]`.  Messages of one sender to one receiver keep their
  order; those of different senders interleave freely.
* A timer may expire whenever its thread runs: the counters are left out.
* `_snap` is taken as null although the constructor leaves it uninitialised, and
  `_checkQuorum` is false, as the constructor sets it.  The handlers of MsgSnap
  and MsgTransferLeader are not modelled: nothing sends either message.
* Where the code reads past the end of `_entries` the model sets `corrupt`, lets
  the read yield an entry without data where it is copied, and from then on
  allows the process to die (`Crash`).
* `Propose` on a leader that knows no follower kills the process: `maybeCommit`
  indexes an empty vector (raft.cc:1013).
* `Bind` pairs an id with its own connection.  The code takes the heads of two
  queues, which `NodeThreads` has: `PairedRightly` says when that is the same.
* A node has no connection to itself (`NodeAssumption`: it is not its own peer).
* `Restart` keeps the log file, and lets any prefix of what the node had sent
  still arrive.  The others lose their connection to it and nobody dials again:
  it comes back by dialling its own peers.  So a node that lists no peer (node 1
  of the tests) stays alone after a restart; that is what the code does.
* The file is parsed as exactly the entries written; `LogFile` has its bytes and
  the unterminated array of storage.cc:58, and `EntriesReadBack` says when the
  two agree.

### The threads of a node (`NodeThreads`)

`Raft` lets a thread with work run.  `NodeThreads` takes one node apart at the
places where two of its threads can meet.  The send and persist threads look at
their predicate, fall asleep and are woken in steps of their own, because
notifications are sent without the mutex under which the predicate is tested.
`storageLog()` is five steps (find the entry, compare, copy, `appliedTo`, clear
`Ready`), because the step thread moves `_commitIndex` and changes the log
meanwhile.  `commitTo()` takes any index: one beyond the log is only reported
(raft.cc:353).  The send thread pushes a message into the send buffer again and
again until the buffer takes it (node.cc:135, 140); the buffer is emptied, or
not: the event is lost, the write fails or the peer stops reading (`Sticks`), and
a message longer than the buffer is never taken (`Spins`).  An id goes through the
`int32_t` of `popUnknownid()` (`Narrow`), with integers of 4 and of 16 values in
place of 2^32 and 2^64.  Messages are kinds, entries are their index.

Some guarantees end with an event that the code does not exclude.  History
variables record it, and the property says that nothing else ends them:

* `missed` holds the positions that count as applied and that `storageLog()` had
  no chance to write: committed between its copy and `appliedTo()`; committed
  beyond the log; or everything up to a commit, when the log changes its length
  right after a search that found nothing (`astray`).
* `wiped` says that `Ready` was set again while `storageLog()` ran and then
  cleared.
* `announced` is the order in which ids were announced.  `PairedRightly` has no
  exemption: it says which id each descriptor gets in whatever order they come.

### Sockets and buffers (`Netcon`, `Sockets`)

The loop locks `Epoll::buf_mutex` and the other threads lock `Netcon::buf_mutex`:
two objects, so no lock protects a buffer from both sides.  Each access to a
length is therefore a step, `++len` is two, and lengths wrap at `Width`.  An
epoll report is taken off the ready list with all its events, a kqueue report is a
filter that stays; the initial state chooses the backend.  `overlap` and `stall`
are history: the two overlaps the locks allow, and the ways in which an event or
a message is known to be lost (input and output reported together, a stream that
ended, a write error, an event switched off too late, a short write, a full
buffer).  The properties say that nothing else goes wrong.

A socket takes what is written until its buffer is `full`, and then nothing until
the peer reads (`PeerDrains`): meanwhile it is not reported as writable, and a
`write()` that was already begun is repeated by the loop, which does nothing else
(epoll.cc:115).  The copy of handleRead() runs to the first NUL of its local array
(`ReadCopy`): what the array held before is copied as well when the data has no
NUL, and may go on behind the end of the buffer, after which the process is dead
or unharmed.  `WithinRecvbuf` is therefore about what was read, not about that
copy.

### Messages and the file (`Protobuf` to `Helloworld`)

A message is a record, its encoding a sequence of bytes.  Serializing, sizes,
parsing, merging and unknown fields follow the generated code; libprotobuf's
streams are external and modelled from how the generated code calls them.  `Wire`
joins messages to one stream and parses pieces of it cut anywhere.  `LogFile`
reads through an array that is not initialised: `Leftover` is what the stack may
hold behind the data.  The array has 24 bytes instead of 1024.  The accessors of
`ConfState` take a member 0, which is packed as a byte 0; a packed field with a
broken number ends the parse and keeps the numbers before it.  In `Helloworld`
both programs work in pieces: `write.cc` empties the file and writes what its
stream holds, `reader.cc` goes on where it was in the file, however it has changed
since.  What is parsed in pieces is parsed at the end, as the parser does not see
where one `read()` ends.

### Logging

`MpmcQueue` has each atomic access as a step, with a compare-and-exchange that may
fail for no reason; accesses are sequentially consistent, which the acquire and
release pairs on `sequence_` give for the data they guard.  Positions do not wrap
(2^64 messages).  `AsyncLog` puts clients and the worker around it under both
overflow policies, and the rotating file behind it, whose operations may fail.
`Format` scans a format character by character, as the code does, and writes
fields into places reserved before; `FormatReference` describes the same text
without scanning anything.  `Loggers` is what the program itself uses: three
loggers that write to one standard output under a mutex each.

Definitions named after another one with a suffix (`Arm_Silent`), or whose comment
begins with "Mutation", are deliberate errors: each is
a plausible bug of the definition it is named after, used to see that a property
notices.  They are not part of the specification.

## 3. Runs

The Raft runs use the star of `test/node1_test.cc` to `node3_test.cc`: node 1 lists
no peer, the others list node 1.  `Electable` names the nodes whose election timer
may expire.

| Run | Instance | Properties | Shows |
|---|---|---|---|
| `contended` | 2 nodes, both electable, 4 terms | `TypeOK`, `AppliedWithinCommit`, `NobodyIsAskedToVote`, `CommitHasAcknowledgement`, `TermsOnlyGrow`, `LeaderYieldsOnlyToHigherTerm`, `LeaderAppendOnly` | what holds however many leaders there are |
| `stable` | 3 nodes, 1 electable, 2 values | `CommitWithinLog`, `LeaderCommitsWhatAllAcknowledged`, `ImplementsReplicatedLog` | one leader: replication is right, also for followers that join late |
| `lossy` | 2 nodes, 1 electable, 3 entries, 2 losses | `MatchIsHeld`, `ImplementsReplicatedLog` | losses leave gaps in the traffic, never in a log |
| `rivals` | 3 nodes, 2 electable, 1 merge | `CommittedStable` | node 3 follows node 1, which is leader, follower and rival of node 2 in turn, and two messages may be parsed as one: no commit is undone |
| `restarting` | 2 nodes, 1 restart | `NoEmptyAppendAtZero` | what survives a lost log |
| `learned` | 2 nodes, 1 electable, fair | `ReplicatedIsLearned` | an entry that all replicas hold is committed at all of them in the end |
| `threads` | 5 messages and proposals; or 2 connections; or one of each and a message to send; fair | `AppliedWasStored`, `DueIsApplied`, `PairedRightly`, `QueuedIsSent` | what the threads of a node guarantee between its queues, and that a leader's ticks make good a lost wake-up of the send thread unless it spins |
| `sockets` | both backends, 2 peers, 2 messages, 4 events, fair | `WithinRecvbuf`, `ReceivedInOrder`, `SentWhole`, `NothingUnreadForgotten`, `AnnouncedIsSent` | bytes are lost, doubled or stuck only in the ways listed in section 2 |
| `wire` | messages of up to 3 accessor calls, 2 sent, 3 writes of the file, 4 runs of the samples | `ParsedIsMerged`, `SizeIsLength`, `NulIsInData`, `EntriesReadBack`, `ReaderTakesWhole` | what is parsed is what was sent, merged; sizes are exact; a NUL comes from the data only; the last batch is read back; a reader takes no message that is cut off or mixed |
| `pool` | 2 workers, 3 tasks, 1 of them endless, fair | `TypeOK`, `NoLostWakeup`, `JoinedIsDrained`, `ImplementsTaskQueue`, `QueuedIsBegun`, `DestructorReturns` | no wake-up is lost, tasks are begun once and in order, the destructor drains |
| `logging` | 2 clients, 3 messages, queue of 2; 2 threads, 3 lines; some 13 000 formats and patterns | `WriterIsOpen`, `NothingLostAtExit`, `ImplementsBoundedFifo`, `FormattedAsSpecified`, `LinesAreWhole` | the lock-free queue is a bounded queue, nothing is lost at exit, lines are whole, text is as the format says |
| `disagreement` | 2 nodes, both electable | `CommittedAgree` (violated) | two leaders in turn: different entries committed at one position |

**The finding.**  `disagreement` finds what the README's "consistency library"
would exclude.  Because of it `CommitWithinLog`, `MatchIsHeld` and the refinement
are checked under one electable node: with the quorum of 1 they are false
otherwise (a follower takes a commit index beyond its log, which raft.cc:354 only
reports).  `MatchIsHeld` also fails when a follower restarts: `addNode` on a known
id only logs (raft.cc:992), so the leader keeps the progress of a log that is
gone.  Under one leader without restarts all of it holds, for any number of nodes
(`RaftReplicationProofs`).  What is left in general is weaker, and is what `contended`
and `rivals` check; section 5 proves it too.

Other statements one might expect are false for reasons that are plain in the
code, and no run repeats them: a leader has no majority of votes (`quorum()`
counts `prs`, which nothing fills), a second batch replaces the first in the file,
two proposals between two runs of the persist thread get one index and
`storageLog()` then copies from behind the log, a rejected append is logged and
not sent again, a restarted node is back in term 1.

**Bounds.**  `MaxTerm` and `MaxEntries` bound terms and logs, `MaxInFlight` the
messages queued from one node to another (an action that would exceed it does
not happen), `MaxPending` the traffic on a link above which a leader starts no
further heartbeat or proposal, `MaxFaults` the faults.  Two terms beyond the
first are enough for a leader to be replaced and to return; two entries are
enough for a gap, an overwritten tail and a shared index (three where a batch
has to follow a batch); two messages in flight are enough for a late message to
be overtaken by a heartbeat of another link.  `rivals` and `restarting` make do with
one entry, so that three terms of two leaders fit: in `rivals` the entries of two
merged appends are therefore never both taken, and the theorem
`CommittedIsStable`, which has no bound, covers that case.  Because the bounds can leave a
behaviour with nothing to do, the configurations turn the deadlock check off.
No symmetry is used: nodes differ by topology.

In `sockets` a message fills the buffer (2 units), as one message at a time does
in the program, because `pushData()` refuses while another is in it; two messages
for two peers are enough for one to be armed while the other is written, three
units for a read that does not fit behind an unread one, one departure for each
way to end.  `Budget` limits how many of these happen together, not which.  In
`threads` a behaviour is about one thing (`Loads_Each`), since the queues of the bind
thread and the log do not touch: two connections are enough for ids that cross, one
of them with an id that no `int32_t` holds; five messages are enough for a log of
which a part is applied to be cut or lengthened at any step of `storageLog()`, with
commits up to 3 that may pass its end.  The send thread is checked with one peer
and none, where a broadcast sends nothing.  In
`wire` the numbers are a one-byte and a two-byte varint, strings are empty, with
and without a NUL; two messages and every cut show each way in which an end can be
missed.  In `pool` one task never returns, so one worker is left: with a
second endless task nothing need be begun.  In `logging` a queue of two cells
goes round twice with five items; the formats are all combinations of fill,
alignment, sign, `#`, `0`, width, precision and type on one field, and up to three
parts of a smaller set.  `MaxInt` is 99 so that a width can overflow.  Deadlock is
checked in `threads`, whose threads never end (a process that has died stays so).

**Fairness.**  `FairSpec` adds weak fairness of the step, persist, bind and tick
threads of every node: each is an endless loop over a condition variable or a
1 ms sleep (node.cc:219-261).  The tick thread's heartbeat is strongly fair: in the
program it is always enabled at a leader, and only the bound `MaxPending` takes
that away now and then.  Nothing is assumed of clients, faults, or discarded
messages.  Lost wake-ups of the condition variables are left to `NodeThreads`.

There and in `Sockets` and `ThreadPool` the same holds for the other threads: weak
fairness of each thread as a whole, nothing of clients, peers, messages, ends of
streams or spurious wake-ups.  In `NodeThreads` the tick thread sends something for
sure only at a leader (its heartbeat), hence `WF(leads /\ Tick)`.  The receive, step
and bind threads are fair only while their predicate holds.  A send buffer is emptied
in the end unless it sticks, which it may at any time and for ever: `QueuedIsSent`
holds of the behaviours in which the send thread does not spin for ever.  In
`Sockets` the loop and the send thread are fair.  Nothing is assumed of peers there
but what `AnnouncedIsSent` says as its hypothesis (`PeersRead`): no descriptor stays
full for ever.  Without it the property is false, and for all peers, because one
that stops reading keeps the loop in handleWrite().  In `ThreadPool` a worker is not fair in a task that
never returns.

## 4. Abstract specification

`ReplicatedLog` has a `log` to which `Accept` appends and, for each node, a
`committed` prefix of it that `Learn` extends.  With one electable node,
`ImplementsReplicatedLog` maps `log` to the values in that node's log and
`committed[n]` to the values of n's log up to its commit index.  Each step of
`Raft` is then a step of `ReplicatedLog` or changes neither, in `stable` with
followers that join at any time and in `lossy` with messages lost.  Terms, indexes,
acknowledgements and the logs of followers beyond their commit index do not show.

`TaskQueue` is the pool seen from outside: tasks are queued, begun in order by
somebody, finished, refused after the close, and the close ends when all is done.
`BoundedFifo` is a queue of bounded length: `Put`, `Get`, `Release`.  In
`ImplementsBoundedFifo` winning a position is the moment at which an item goes in
or comes out: the abstract queue holds, for each position between the two
counters, what its writer still brings or what is already in the cell.
`FormatReference` is a reference definition of another kind: the text a format
means, defined on its parts.

## 5. Theorems

`RaftProofs` proves, for every set of nodes, topology, choice of electable nodes
and all bounds:

| Theorem | Assumes | States |
|---|---|---|
| `TypeCorrect` | any faults | `Spec => []TypeOK` |
| `AppliedCorrect` | any faults | `Spec => []AppliedWithinCommit` |
| `TermsCorrect` | no restart | `Spec => TermsOnlyGrow` |
| `LeaderYields` | no restart | `Spec => LeaderYieldsOnlyToHigherTerm` |
| `LeaderAppends` | no restart | `Spec => LeaderAppendOnly` |
| `CommittedIsStable` | no restart | `Spec => CommittedStable` |

"No restart" is `"restart" \notin Faults`; losses and merged messages are allowed.
It cannot be dropped: a restarted node is back in term 1.  Otherwise the
proofs use only `NodeAssumption` and `BoundAssumption` of `Raft`.

**The argument.**  The invariant is `TypeOK /\ AppliedWithinCommit`.  The types are
needed beyond bookkeeping: a heartbeat has a positive term, so a follower that
takes the term of a new leader by assignment (raft.cc:478) never falls to 0;
and `next` is positive, so `getNext()-1` is a position.

The proof follows the structure of the model, not of the properties.  Each
operator that stands for a function has one lemma about its type and one about
what it may do to the object, and a lemma about a caller cites those of its
callees.  What an operation may do is a relation between the object before and
after:

* `OnlyCommits`: role, term, log and applied index are the same, and the commit
  index does not fall (sending, acknowledging, committing);
* `KeepsPrefix`: of a log, everything below a given position is unchanged;
* `Safe`: the term does not fall, a leader that stays leader keeps its log, one
  that stops has moved to a higher term, entries at or below the commit index
  stay, the commit index does not fall, and the applied index stays within it.

`GeneralStepSafe` gives `Safe` for a message of any type in any role: the case that
matters is `HandleAppend`, where the guard `msg.index() < _commitIndex` is exactly
what keeps `maybeAppend` from popping committed entries.  `NextSound` lifts this to
the actions: one object changes by a `Safe` step (`OneChanges`), and where two do
(`StepNode` also shortens the sender's queue), the other keeps everything but its
queues (`TwoChange`).  The four action properties then follow from `NextSound` and the
invariant, with `PTL` for the temporal step.

The second part of `RaftProofs` is about what the nodes tell each other:

| Theorem | Assumes | States |
|---|---|---|
| `NobodyVotes` | any faults | `Spec => []NobodyIsAskedToVote` |
| `LeaderCommitsWithAll` | any faults, finitely many nodes | `Spec => LeaderCommitsWhatAllAcknowledged` |
| `CommitIsAcknowledged` | no restart | `Spec => []CommitHasAcknowledgement` |
| `AppendsSaySomething` | any faults, finitely many nodes | `Spec => []NoEmptyAppendAtZero` |

The first three come from one fact about the code: `prs`, which `quorum()` counts, stays
empty while the followers are in `_prs`, so the quorum is 1 (`QuorumIsOne`).  The
place `mis[quorum()-1]` is then the lowest match, of a finite set
(`CommittableIsLeast`): the leader waits for every follower it knows, not for a
majority; and its own vote elects a node.  The two invariants are one predicate with
two readings.  `Quiet(K)` says of an object that it has no vote but its own, that its
commit index and those of the messages it has queued are in the set `K`, that no vote
message is queued, and that what followers have acknowledged to it is in `K`.  `Tells`
says of a call that the object it leaves is quiet for `K` and its own new
acknowledgements, and that peers and matches have only grown; each function has a
lemma about it.  With `K == Nat` the invariant is about votes.  With `K == Reached`,
all that has been acknowledged to anyone, it is about commit indexes; there the step
also needs that `Reached` never shrinks, which is what a restart breaks, as the new
process has forgotten what was acknowledged to the old one.

`AppendsSaySomething` has an invariant of its own, `Solid`: nothing without entries is
on its way at index 0, and `next` is 1 only for a follower whose match is 0.  A leader
sends from the start of its log in two places: a proposal, which has just been appended,
and a heartbeat's answer of a follower behind `_lastApplied`.  In the second the log may
be empty, but then `_lastApplied` is 0 and no match is below it.  This is the one
invariant of the log that survives every fault the model has.

`RaftReplicationProofs` proves what `stable` and `lossy` check, for any finite number
of nodes and any peers:

| Theorem | Assumes | States |
|---|---|---|
| `OneLeads` | `Faults` at most losses, one electable node | `Spec => []Led` |
| `CommitsAreHeld` | the same | `Spec => []CommitWithinLog` |
| `MatchesAreHeld` | the same | `Spec => []MatchIsHeld` |
| `CommitsAgree` | the same | `Spec => []CommittedAgree` |
| `LogIsReplicated` | the same | `Spec => ImplementsReplicatedLog` |

The assumptions are the ones under which the statements are true: with a second
electable node `disagreement` refutes `CommittedAgree`; with a restart or a merged
message in place of the losses of `lossy`, TLC finds `MatchIsHeld` violated (two appends
parsed as one are the entries of both at the index of the later).  The invariant `Led`
is about the leader, one follower and the two queues between them, because no other pair
of nodes has to do with the log.  The follower's log is the start of the leader's
(`StartOf`).  Every append on its way is a part of the leader's log (`PartOf`) and ends
no earlier than the follower's log does: so `maybeAppend` never shortens that log,
although it pops whatever lies behind the end of the message.  The appends of one queue
end later and later (`InOrder`), which is what keeps this true when one of them is
delivered, and is where the order of a channel enters the proof.  No match, no
acknowledgement and no commit index on its way exceeds what the follower holds; a
heartbeat carries at most `match` (raft.cc sends the lower of the two).  A loss takes a
message away from the middle of a queue and leaves all of this as it is.  Each function
again has a lemma, once for a follower (`...Follows`) and once for the leader
(`...Leads`), and `NextReplicates` composes them.  For the refinement the leader's log
maps to the abstract log, and the abstract `Learn` of a node is the raise of its commit
index: since the commit index stays within a log that is the start of the leader's, what
is committed is a prefix of it.

`NodeThreadsProofs` proves, for any peers, loads, widths and bounds:

| Theorem | States |
|---|---|
| `AppliedIsStored` | `Spec => []AppliedWasStored` |
| `DueGetsApplied` | `Spec => []DueIsApplied` |
| `PairingIsRight` | `Spec => []PairedRightly` |

`StoredInv` says what the persist thread has found and written at each step of
`storageLog()`: that the search has found the last applied entry, or nothing because
nothing is applied or the log does not reach that far (`Found`); where the copy will
begin (`Start`); and that what lies behind the end of the log and is committed is
missed (`PastEnd`).  The step thread may move under each of these; what keeps them is
that a follower's log is never cut below its commit index and that a log whose
indexes are positions only grows at the end (`LogGrows`).  `DueInv` says that where
`Ready` is clear, and where it is about to be cleared and was not set again, all that
is due has been applied.  The other threads touch the persist thread only by waking
it (`PersistStays`).  For `PairingIsRight` the two queues of the bind thread are
aligned (`IdsInOrder`): as many descriptors have been bound as ids, so the ids that
wait are the last ones announced, and each bound id stands, narrowed, at the
descriptor that was accepted in the place in which it was announced.

`SocketsProofs` proves, for any number of connections and messages, any data, any
sizes within `NetconAssumption`, and both backends:

| Theorem | States |
|---|---|
| `SocketsTyped` | `Spec => [](TypeOK /\ RoomInv)` |
| `WhatWasReadHasRoom` | `Spec => []WithinRecvbuf` |
| `StoredIsHandedOut` | `Spec => []ReceivedInOrder` |
| `UnreadIsKnown` | `Spec => []NothingUnreadForgotten` |
| `SentIsWhole` | `Spec => []SentWhole` |

`RoomInv` carries the room that `handleRead()` has tested from the test to the last
increment, through the second reading of the length and the two halves of the
addition.  The copy may add stale units behind what was read (`Copies`); they change
nothing that the reader is given.  `OverlapsNoted` connects
the history with the present: who is inside a buffer together is noted.  `OrderInv`
then says what lies in the receive buffer: what has been stored is what was handed
out and the part of the buffer still held, where "held" is the length, or the length
that `popData()` has taken with it, and the units of a read that is being counted.
`NothingUnreadForgotten` is inductive over the types: a report is handed from the edge to
the loop, and the only return of `handleRead()` that drops it is recorded as `"full"` in
`stall`.  `SentWhole` needs most
(`OwnedInv` and `SentInv`): who is behind a descriptor; that at most one descriptor is
armed; that the buffer holds one message from its announcement until it is written,
and that the message was meant for whom it is armed; that a peer the send thread has
still ahead of it has not got its message; and that what a peer has got is a row of
whole blocks, none twice.  Where the code searches (for the first NUL here, for an entry in
`storageLog()` above), the place it finds comes from the well-foundedness of `<` on the
naturals (`LeastOf`, by `WFMin`), as the induction theorems are out of reach.

`ThreadPoolProofs` proves, for every number of workers and tasks and any set of
endless tasks:

| Theorem | States |
|---|---|
| `PoolTypeCorrect` | `Spec => []TypeOK` |
| `PoolDrains` | `Spec => []JoinedIsDrained` |
| `PoolWakes` | `Spec => []NoLostWakeup` |
| `PoolRefines` | `Spec => ImplementsTaskQueue` |

The invariant adds to the types what a step needs of the others: a worker returns
only when the pool is stopped and the queue empty, nothing is queued after a
join, and a queued task belongs to a client past its push.  `NoLostWakeup` counts:
an enqueue adds a task and a notifying client; a notification that wakes a worker
trades one for the other; taking a task takes an awake worker and a task away.

`LoggingProofs` proves of the lock-free queue, for every number of threads, any items and
any size from 2 (the code also wants a power of two, which the proof does not need):

| Theorem | States |
|---|---|
| `QueueAlone` | `QSpec => []AloneInCell` |
| `QueueIsFifo` | `QSpec => ImplementsBoundedFifo` |

`QSpec` is the queue with threads that call `enqueue()`, `dequeue()` and `is_empty()`
in any order, repeat a failed enqueue or give up; the run `logging` checks the same
actions with the callers of `AsyncLog`, which are some of these.  The invariant `QInv`
is about the positions from `dequeuePos` up to `dequeuePos + Size`: no two of them
share a cell (`OwnCell`, from the uniqueness of quotient and remainder), and the
stamp of each cell says what it can be used for.  A position below `enqueuePos` is
waited for by its writer or published; one from `enqueuePos` on is handed over or
still has the reader of the round before.  Who claims a position therefore finds
room (`HandedOver`) or an item, and whoever is inside writes a stamp that nobody else in
the window can be waiting for (`OneCell`).  The compare-and-exchange enters the proof
only through `Aimed`: a thread that is about to claim and is up to date still has the
cell as it saw it, since only the one who wins that position changes it.  The
refinement then maps the two claims to `Put` and `Get` and shows that writing and
reading leave the mapped queue as it is.

It proves of the asynchronous logger, for any number of clients, messages and flushes, a
queue of any size, any rotation and any number of failing file operations:

| Theorem | States |
|---|---|
| `LoggerQueueIsFifo` | `Spec => ImplementsBoundedFifo` |
| `WriterStaysOpen` | `Spec => []WriterIsOpen` |
| `NothingIsLost` | `Spec => []NothingLostAtExit` |

`CallsInv` says which call each client and the worker are in and what they bring to it;
with it every step of the logger is a step of `QNext` or leaves the queue alone
(`UsesQueue`), so `QInv` and the refinement of `BoundedFifo` carry over.
`WriterStaysOpen` is `SizesInv`: `_sink_it()` counts a message before a rotation can
fail, so a file that could not be opened is one that is over its size, and is rotated
again before anything is written to it.

`NothingIsLost` has five invariants.  `KeptInv`: of the messages logged, all but as many
as are counted in `discarded` are with a client that brings them, in the queue, in the
worker's hands or consumed; "in the queue" is the contents of the mapped `BoundedFifo`,
so a step of the lock-free queue is a put, a get or nothing (`QueueMoves`).  `LastInv`:
who has dropped the last reference is alone.  `EndInv`: from the moment "terminate" is in the
queue nobody brings anything, "terminate" is its last element, and once it is in the
worker's hands or handled the queue is empty.  So at the exit everything that is not
discarded is consumed, and counting the sets gives the inequality.  `LeavesInv`:
"terminate" asks for a flush too, so the worker leaves with nothing in the buffer of the
file.  `FilesInv`, with `failures = 0`: the files are consecutive parts of what was
consumed, with file 0 at the end; the cuts between them are `MaxSize` apart as long as
there is enough, which is more than the property says and is what a rotation needs: it
shifts every cut by one file.

Of the loggers of the program it proves, for any number of threads, loggers and lines, any
pattern and with or without colours:

| Theorem | States |
|---|---|
| `PatternShowsParts` | compiling a pattern and showing a message with it gives what its parts show |
| `CallsFormatAsSpecified` | `menu \subseteq ProgramCalls /\ LoggersSpec => []FormattedAsSpecified` |
| `LinesStayWhole` | `menu \subseteq ProgramCalls /\ LoggersSpec => []LinesAreWhole` |

`PatternShowsParts` is an induction over the parts: the compiler has made of the parts
so far formatters that show what they mean, with the characters since the last flag still
in its hands (`LaidOut`).

`ProgramCalls` are the calls with a format of the program: texts of any characters, braces
included, and any number of fields `{}`, `{:d}` and `{:s}` in any order, with any arguments
that are integers of up to 64 bits, strings, C strings or null ones (the program has 120
`{:d}` and 13 `{:s}`, and no other field).  For them the writer is
followed part by part (`PartsWritten`): after the first parts of the format it has read
what they spell, taken as many arguments as there are fields among them and written
what they mean, or it has thrown (`Through`).  A text is read one character or pair of
braces at a time; a field takes one step, whose parser is shown to stop behind the closing
brace with the type in its hands (`ParseFieldIs`).  What a field writes is `VisitIs`, and
for a number it rests on three facts: the guess `(bits * 1233) >> 12` with the table that
begins with 0 counts the digits of every number of up to 64 bits (`CountDigitsIs`); the
pairs of digits stored from the back are the numeral from the front (`StoredBack`,
`FormatDecimalIs`); and the places reserved are all filled (`WriteIntIs`).  The hypothesis
is about the parts, not about the characters: nothing is assumed of what the parser meets.

`LinesStayWhole` needs the invariant that who writes holds the mutex of the sink and that
the last pieces its logger has written are the first pieces of its line.  What a line says
is what the format means, by `CallsFormatAsSpecified`.

`WireProofs` proves, for any numbers and strings the classes can hold, any stream, any
file and any stack:

| Theorem | States |
|---|---|
| `NulOnlyForData` | `Spec => []NulIsInData` |
| `SizesAreLengths` | `Spec => []SizeIsLength` |
| `WholeOrCut` | `Spec => [](Len(stream) \in Word => ParsedIsMerged)` |
| `BatchReadBack` | `Spec => [](file # None /\ file = AppendBytes(appended) => EntriesReadBack)` |
| `GreetingIsTakenWhole` | `Spec => ReaderTakesWhole` |

These are about recursive functions over data, and the induction theorems of the library
take a predicate, which the provers cannot instantiate.  `RecursionLemmas` therefore
states induction with a set in place of the predicate (`AllNumbers`, `ByAppending`, `UpTo`,
all from the well-foundedness of `<`), and shows that a recursive definition has the
function it describes when its argument descends (`RecursionExists`); each recursive
function of `Protobuf` then has its equation as a lemma.

`SizesAreLengths` and `NulOnlyForData` follow the serializers class by class, from the
lengths of varints, fields and sub-messages up to the nine fields of a message, for what
the accessors make of a message (`MsgIsPlain`) and for whatever a reader of the file gets
out of it (`Typed`).  Nothing but the type of a parsed object is needed for the latter,
and that is proved for any bytes.

`WholeOrCut` is about the parser.  `Takes(read, x, y)` says that a reader given these
bytes in front of any others turns the object x into y and goes on behind them;
`CutsTo` says what is left of x when the bytes end inside of a field.  Each kind of
field has a lemma of each sort, and each class composes them, so that the bytes of an
object *take* any object to the merge of the two, and a beginning of them *cuts* it to
an object that has each field as it was or as it was meant.  `OnTheWire` is the
invariant of the stream: it is the bytes of the messages sent, one behind the other.
The condition that the length of the stream is a 64-bit number is the code's own:
otherwise the length of a sub-message could not be written as a varint.  The theorem
says what the object looks like after a cut, not whether the parser reports it: the
code does not look, and queues the partial message (raft.cc:953).

`BatchReadBack` is about the array that is not initialised.  The file ends at a NUL that
is not there, so the parser goes on into the stack.  `Behind` says what it makes of that:
reading the same bytes as an object of their own and reading them behind the entries go
in step (`Lifted`, `ReadBehind`), the first result merged into the entries being the
second.  `BatchIsShort` is the invariant that what was appended is made of entries that
can be written.  It holds right after an `Append()`, which is the only writer the
program calls.

`GreetingIsTakenWhole` needs `HelloOnItsWay`: the file, and what the reader has of it, are
beginnings of the bytes of the one message that `write.cc` writes.  That holds although
the file is emptied under the reader, because every run writes the same bytes and the
reader goes on at its own place (`ReadsOn`); with two different messages it would be
false.  A beginning that is not all of it is refused, because the last field is
required.

The constants of these models carry assumptions that the code justifies: numbers and
lengths of strings fit the 64-bit varints in which they are written
(`RaftPbAssumption`, `LogFileAssumption`), what the stack adds ends before its first NUL,
the buffer of a file stream has a size (`StreamAssumption`), and a pointer that is null is
no object (`NoneAssumption`).

**Only model-checked.**  Liveness (`ReplicatedIsLearned`, `QueuedIsSent`,
`AnnouncedIsSent`, `QueuedIsBegun`, `DestructorReturns`) is out of reach of this prover
and stays with TLC.  So does `FormattedAsSpecified` for the fields the program does not have:
other types, widths, precisions, fills, signs, fields that name their argument, and
mistakes; the run compares the parser and the writer with the reference on some 13 000
combinations of them.  `EntriesReadBack` after `ApplySnapshot()` or
`SetHardState()`, which nothing calls, is checked for the stacks of the run only: it is
false where the stack happens to end in a field of a known number that is cut off, as
storing that again puts it in front of the entries' own end.  Every other property of
every run is stated by a theorem; those of `contended`, `rivals` and `restarting` too,
which are checked on two or three nodes.

## 6. Not modelled

* Raft: the counters of the timers; the role changes field by field on two threads
  (raft.cc:84 reports what they can produce); `restore`, `stableTo`, `stableSnapTo`,
  `truncateAndAppend`, `append`, `deleteNode`, MsgSnap and MsgTransferLeader, which
  nothing calls or sends.
* Node: the second `init()` (no program uses it) and the destructor (`run()` never
  returns).
* Epoll and Kqueue: `doSomething()`, `recv()`, `clearSendbuf()` and `clearRecvbuf()`,
  which only the demonstration programs call.
* Generated code: descriptors, reflection, arenas, `CopyFrom`.
* spdlog: date and time flags of a pattern, floating-point, pointer, custom and named
  arguments and the printf half of fmt, the calls that set the level, pattern or
  error handler of all loggers, the sinks the repository does not use.
* Timer (an empty class), Uniqueid (no caller but a test that prints it), the
  configuration header, wrk, webdocs, the demonstration programs, and the kv engine,
  of which there is no source.
* Memory that is accessed outside its bounds: the models let the process die or go on
  unharmed (`corrupt` in `Raft`, `ReadCopy` in `Sockets`, `StorageCopy` in
  `NodeThreads`), and do not say what else it may overwrite.
* One access to `_entries` or to `_sendmsgs` at the same instant as another: each is a
  step of its own.  Of two pushes at once one may be lost (`Pushed`).

What could follow: the role changes of `Raft` split by field, and the tick counters.
