-------------------------------- MODULE Raft --------------------------------
(***************************************************************************)
(* The replication core of sapphiredb: class Raft (raft/raft.h,            *)
(* raft/raft.cc), as the threads of Node::run() (raft/node.cc) drive it,   *)
(* with the log file of class Storage (raft/storage.cc).                   *)
(*                                                                         *)
(* The C++ object of a node is a record, raft[n], and a member function is *)
(* an operator from the record before the call to the record after it.     *)
(* An action is one call made by one thread:                               *)
(*   tick thread     TickElection, Elect, TickHeartbeat                    *)
(*   step thread     StepNode (a received message), Propose (a client's)   *)
(*   persist thread  Persist                                               *)
(*   bind thread     Bind                                                  *)
(*   send thread     Discard (a message to a node with no connection)      *)
(* and Lose, Coalesce and Restart are the faults a run may switch on.      *)
(*                                                                         *)
(* A message travels through _sendmsgs, a socket and the receiver's        *)
(* _recvmsgs, each in order: the three are one queue, sendmsgs[d].         *)
(***************************************************************************)
EXTENDS Naturals, Sequences, FiniteSets, Progress

CONSTANTS
  Node,        \* the processes of the cluster
  None,        \* the id 0, which the code calls "invalid representation"
  Peers,       \* Peers[n]: the nodes that the Config of n lists
  Value,       \* what clients propose
  Electable,   \* the nodes whose election timer may expire
  Faults,      \* the faults a run considers
  MaxTerm,     \* bound: no election starts in this term or above
  MaxEntries,  \* bound on the length of a log
  MaxInFlight, \* bound on the messages queued from one node to another
  MaxPending,  \* bound: no heartbeat and no proposal starts while this many
               \* messages are queued between the leader and a node
  MaxFaults    \* bound on the faults of one behaviour

ASSUME NodeAssumption ==
  /\ None \notin Node
  /\ Peers \in [Node -> SUBSET Node]
  /\ \A n \in Node : n \notin Peers[n]
  /\ Electable \subseteq Node
ASSUME BoundAssumption ==
  /\ MaxTerm \in Nat
  /\ MaxEntries \in Nat
  /\ MaxInFlight \in Nat
  /\ MaxPending \in Nat
  /\ MaxFaults \in Nat
  /\ Faults \subseteq {"lose", "coalesce", "restart"}

VARIABLES
  raft,   \* raft[n]: the Raft object of node n
  up,     \* the nodes whose process is alive
  hup,    \* the nodes whose tick thread is between becomeCandidate() and the
          \* count of votes that follows it
  faults  \* the number of faults so far (a bound, not a state of the program)

vars == <<raft, up, hup, faults>>

NodeId == Node \cup {None}

MessageType == {"MsgHeartbeat", "MsgHeartbeatResp", "MsgVote", "MsgVoteResp",
                "MsgApp", "MsgAppResp", "MsgNode", "MsgNodeResp"}

Entry == [term : Nat, index : Nat, data : Value \cup {None}]

\* raftpb::Message.  The receiver is the queue the message is in.  A heartbeat
\* names a term and a MsgNode names its sender.
Message == {m \in [type : MessageType, from : NodeId, term : Nat,
                   logterm : Nat, index : Nat, entries : Seq(Entry),
                   commit : Nat, reject : BOOLEAN] :
              /\ m.type = "MsgHeartbeat" => m.term > 0
              /\ m.type = "MsgNode" => m.from \in Node}

\* A protobuf message of a type, with every other field at its default.
NewMessage(type) ==
  [type |-> type, from |-> None, term |-> 0, logterm |-> 0, index |-> 0,
   entries |-> <<>>, commit |-> 0, reject |-> FALSE]

RaftObject ==
  [id : Node, currentTerm : Nat \ {0}, vote : NodeId, leader : NodeId,
   state : {"FOLLOWER", "CANDIDATE", "LEADER"},
   commitIndex : Nat, lastApplied : Nat,
   entries : Seq(Entry),            \* _entries; entries[i] is _entries[i-1]
   offset : Nat \ {0},
   peers : SUBSET Node,             \* the keys of _prs ...
   prs : [Node -> Progress],        \* ... and its values
   votes : SUBSET (NodeId \X BOOLEAN),
   ready : BOOLEAN,
   storage : Seq(Entry),            \* what the log file holds
   sendmsgs : [Node -> Seq(Message)],
   peersfd : SUBSET Node,           \* the nodes with a connection
   unknownid : Seq(Node),           \* ids still to be bound to a connection
   corrupt : BOOLEAN]               \* memory past _entries has been read
-----------------------------------------------------------------------------
(* Roles and terms *)

Reset(s, term) ==
  [s EXCEPT !.currentTerm = term,
            !.vote = IF s.currentTerm # term THEN None ELSE @,
            !.leader = None]

StepDown(s, term, leader) ==
  [Reset(s, term) EXCEPT !.leader = leader, !.state = "FOLLOWER"]

BecomeCandidate(s) ==
  IF s.state = "LEADER" THEN s
  ELSE [Reset(s, s.currentTerm + 1)
          EXCEPT !.vote = s.id, !.state = "CANDIDATE"]

BecomeLeader(s) ==
  IF s.state = "FOLLOWER" THEN s
  ELSE [Reset(s, s.currentTerm) EXCEPT !.leader = s.id, !.state = "LEADER"]

\* The keys of the member prs (not _prs): no statement of the program ever
\* adds one.
Members(s) == {}

\* Mutation: the quorum counts the nodes of _prs and the node itself.
Quorum_OfPeers(s) == Cardinality(s.peers \cup {s.id}) \div 2 + 1
Quorum(s) == Cardinality(Members(s)) \div 2 + 1

RecordVote(s, id, v) ==
  IF \E b \in BOOLEAN : <<id, b>> \in s.votes THEN s
  ELSE [s EXCEPT !.votes = @ \cup {<<id, v>>}]

Granted(s) == Cardinality({v \in s.votes : v[2]})
-----------------------------------------------------------------------------
(* The log *)

\* The first k entries of a log, or all of it when it is shorter.
Truncate(log, k) == SubSeq(log, 1, IF k < Len(log) THEN k ELSE Len(log))

LastIndex(s) ==
  IF s.entries = <<>> THEN 0 ELSE s.offset + Len(s.entries) - 1

CommitTo(s, commit) ==
  IF s.commitIndex < commit THEN [s EXCEPT !.commitIndex = commit] ELSE s

\* Storage::Term(): the file has offset 0 and no snapshot, so its last index
\* is one less than the number of its entries, and 0 means none.
StorageTerm(file, index) ==
  IF Len(file) > 1 /\ index < Len(file) THEN file[index + 1].term ELSE 0

MaybeTerm(s, index) ==
  IF s.offset <= index /\ index <= LastIndex(s)
    THEN s.entries[index - s.offset + 1].term
    ELSE 0

Term(s, index) ==
  IF MaybeTerm(s, index) > 0 THEN MaybeTerm(s, index)
  ELSE StorageTerm(s.storage, index)

\* maybeTerm() logs _entries[index-_offset] before it compares index with the
\* last index: with no such entry the read is past the end of the vector.
ReadsPastEnd(s, index) ==
  s.offset <= index /\ index - s.offset >= Len(s.entries)
-----------------------------------------------------------------------------
(* Sending *)

\* send(), to a node or, with to = 0, to every connection the node has.
Send(s, to, m) ==
  IF to = None
    THEN [s EXCEPT !.sendmsgs =
            [d \in Node |-> IF d \in s.peersfd THEN Append(@[d], m) ELSE @[d]]]
    ELSE [s EXCEPT !.sendmsgs[to] = Append(@, m)]

\* Mutation: no term is set, as in bcastHeartbeat_fast().
Heartbeat_NoTerm(s, to) ==
  [NewMessage("MsgHeartbeat") EXCEPT
     !.from = s.id,
     !.commit = IF s.prs[to].match < s.commitIndex THEN s.prs[to].match
                ELSE s.commitIndex]

\* Mutation: the commit index is not capped by what the follower holds.
Heartbeat_Uncapped(s, to) ==
  [NewMessage("MsgHeartbeat") EXCEPT
     !.from = s.id, !.term = s.currentTerm, !.commit = s.commitIndex]

Heartbeat(s, to) ==
  LET match == s.prs[to].match
  IN  [NewMessage("MsgHeartbeat") EXCEPT
         !.from = s.id, !.term = s.currentTerm,
         !.commit = IF match < s.commitIndex THEN match ELSE s.commitIndex]

BcastHeartbeat(s) ==
  [s EXCEPT !.sendmsgs =
     [d \in Node |-> IF d \in s.peers \ {s.id} THEN Append(@[d], Heartbeat(s, d))
                     ELSE @[d]]]

AppendMessage(s, to) ==
  LET prev == s.prs[to].next - 1
  IN  [NewMessage("MsgApp") EXCEPT
         !.from = s.id, !.index = prev,
         !.logterm = IF prev = 0 THEN s.currentTerm ELSE Term(s, prev),
         !.commit = s.commitIndex,
         !.entries = SubSeq(s.entries, prev + 1, Len(s.entries))]

\* The follower's progress after an append is sent: the position comes from
\* the index field of the last entry, whatever its place in _entries.
ProgressAfterAppend(s, to) ==
  LET sent == AppendMessage(s, to).entries
  IN  IF sent # <<>> /\ s.prs[to].state = "Replicate"
        THEN OptimisticUpdate(s.prs[to], sent[Len(sent)].index)
        ELSE s.prs[to]

\* sendAppend() to every node of a set.  The calls do not disturb each other.
SendAppend(s, to) ==
  [s EXCEPT
     !.sendmsgs = [d \in Node |-> IF d \in to THEN Append(@[d], AppendMessage(s, d))
                                  ELSE @[d]],
     !.prs = [d \in Node |-> IF d \in to THEN ProgressAfterAppend(s, d) ELSE @[d]],
     !.corrupt = @ \/ \E d \in to : /\ s.prs[d].next > 1
                                    /\ ReadsPastEnd(s, s.prs[d].next - 1)]

BcastAppend(s) == SendAppend(s, s.peers \ {s.id})
-----------------------------------------------------------------------------
(* The leader's side of replication *)

\* Mutation: mis[quorum()], one place too far in the sorted matches.
Committable_OffByOne(s) ==
  {c \in {s.prs[p].match : p \in s.peers} :
     /\ c > s.commitIndex
     /\ Cardinality({p \in s.peers : s.prs[p].match < c}) <= Quorum(s)
     /\ Quorum(s) < Cardinality({p \in s.peers : s.prs[p].match <= c})}

\* Mutation: the leader's own log counts instead of the followers' matches.
Committable_OwnLog(s) == {c \in {Len(s.entries)} : c > s.commitIndex}

\* mis[quorum()-1] of the sorted matches, if it is past the commit index.
Committable(s) ==
  {c \in {s.prs[p].match : p \in s.peers} :
     /\ c > s.commitIndex
     /\ Cardinality({p \in s.peers : s.prs[p].match < c}) < Quorum(s)
     /\ Quorum(s) <= Cardinality({p \in s.peers : s.prs[p].match <= c})}

MaybeCommit(s) ==
  IF Committable(s) = {} THEN s
  ELSE CommitTo(s, CHOOSE c \in Committable(s) : TRUE)

\* Mutation: the entry goes where its index field says.
AppendEntry_AtIndex(s, v) ==
  LET e == [term |-> s.currentTerm, index |-> s.lastApplied + 1, data |-> v]
  IN  [MaybeCommit([s EXCEPT !.entries =
         Append(SubSeq(@, 1, s.lastApplied), e)]) EXCEPT !.ready = TRUE]

AppendEntry(s, v) ==
  LET e == [term |-> s.currentTerm, index |-> s.lastApplied + 1, data |-> v]
  IN  [MaybeCommit([s EXCEPT !.entries = Append(@, e)]) EXCEPT !.ready = TRUE]

StepProp(s, v) == BcastAppend(AppendEntry(s, v))

\* A follower's acknowledgement of everything up to m.index.
Acknowledge(s, m) ==
  LET p == MaybeUpdate(s.prs[m.from], m.index)
      q == IF p.state = "Probe" THEN BecomeReplicate(p)
           ELSE IF p.state = "Snapshot" THEN BecomeProbe(p)
           ELSE p
      t == [s EXCEPT !.prs[m.from] = q]
  IN  IF ~ IsNews(s.prs[m.from], m.index)
        THEN [s EXCEPT !.prs[m.from] = p]
      ELSE IF Committable(t) # {} THEN BcastAppend(MaybeCommit(t))
      ELSE t

\* Mutation: a follower that has caught up is sent an append as well.
CatchUp_Always(s, from) ==
  IF s.prs[from].match <= s.lastApplied THEN SendAppend(s, {from}) ELSE s

\* The second half of the switch, which MsgAppResp falls through to.
CatchUp(s, from) ==
  IF s.prs[from].match < s.lastApplied THEN SendAppend(s, {from}) ELSE s

StepLeader(s, m) ==
  IF m.from \notin s.peers THEN s
  ELSE CASE m.type = "MsgAppResp" ->
              CatchUp(IF m.reject THEN s ELSE Acknowledge(s, m), m.from)
         [] m.type = "MsgHeartbeatResp" -> CatchUp(s, m.from)
         [] OTHER -> s
-----------------------------------------------------------------------------
(* The follower's side of replication *)

HeartbeatResp(s) == [NewMessage("MsgHeartbeatResp") EXCEPT !.from = s.id]

AppResp(s, index, reject) ==
  [NewMessage("MsgAppResp") EXCEPT
     !.from = s.id, !.index = index, !.reject = reject]

\* maybeAppend() compares the message's log term with the node's own term.
Accepts_AnyLength(s, m) == s.currentTerm = m.logterm   \* mutation: gaps pass
Accepts(s, m) == Len(s.entries) >= m.index /\ s.currentTerm = m.logterm

\* Mutation: nothing is popped before the new entries are added.
MaybeAppend_NoTruncate(s, m) ==
  IF Accepts(s, m) THEN [s EXCEPT !.entries = @ \o m.entries] ELSE s

MaybeAppend(s, m) ==
  IF Accepts(s, m)
    THEN [s EXCEPT !.entries = Truncate(@, m.index) \o m.entries]
    ELSE s

\* Mutation: the index of the next entry, not of the last.
AppendResult_OffByOne(s, m) ==
  IF Accepts(s, m) THEN m.index + Len(m.entries) + 1 ELSE 0

\* Its result, where 0 means a failure.
AppendResult(s, m) == IF Accepts(s, m) THEN m.index + Len(m.entries) ELSE 0

\* Mutation: an append below the commit index is not turned away.
HandleAppend_Unguarded(s, m) ==
  IF AppendResult(s, m) > 0
    THEN Send([MaybeAppend(s, m) EXCEPT !.ready = TRUE], m.from,
              AppResp(s, AppendResult(s, m), FALSE))
  ELSE Send(MaybeAppend(s, m), m.from, AppResp(s, m.index, TRUE))

HandleAppend(s, m) ==
  IF m.index < s.commitIndex
    THEN Send(s, m.from, AppResp(s, s.commitIndex, FALSE))
  ELSE IF AppendResult(s, m) > 0
    THEN Send([MaybeAppend(s, m) EXCEPT !.ready = TRUE], m.from,
              AppResp(s, AppendResult(s, m), FALSE))
  ELSE Send(MaybeAppend(s, m), m.from, AppResp(s, m.index, TRUE))

\* Mutation: commitTo() is not called.
HandleHeartbeat_NoCommit(s, m) == Send(s, m.from, HeartbeatResp(s))

HandleHeartbeat(s, m) ==
  Send(CommitTo(s, m.commit), m.from, HeartbeatResp(s))

StepFollower(s, m) ==
  CASE m.type = "MsgHeartbeat" ->
         HandleHeartbeat([s EXCEPT
           !.leader = m.from,
           !.currentTerm = IF s.leader # m.from THEN m.term ELSE @], m)
    [] m.type = "MsgApp" -> HandleAppend([s EXCEPT !.leader = m.from], m)
    [] OTHER -> s
-----------------------------------------------------------------------------
(* Elections, and the dispatch of a message *)

CountVote(s, m) ==
  LET t == RecordVote(s, m.from, ~ m.reject)
  IN  IF Quorum(t) = Granted(t) THEN BcastAppend(BecomeLeader(t))
      ELSE IF Quorum(t) = Cardinality(t.votes) - Granted(t)
        THEN StepDown(t, t.currentTerm, None)
      ELSE t

StepCandidate(s, m) ==
  CASE m.type = "MsgHeartbeat" ->
         HandleHeartbeat(StepDown(s, s.currentTerm, m.from), m)
    [] m.type = "MsgApp" ->
         HandleAppend(StepDown(s, s.currentTerm, m.from), m)
    [] m.type = "MsgVoteResp" -> CountVote(s, m)
    [] OTHER -> s

VoteRequest(s) ==
  [NewMessage("MsgVote") EXCEPT
     !.term = s.currentTerm, !.index = s.lastApplied, !.logterm = s.commitIndex]

\* The condition's second test is the assignment _vote = msg.from().
HandleVote(s, m) ==
  LET grants == /\ s.vote = None \/ m.from # None
                /\ \/ m.logterm > s.commitIndex
                   \/ m.logterm = s.commitIndex /\ m.index >= s.lastApplied
  IN  [Send(s, m.from, [NewMessage("MsgVoteResp") EXCEPT
                          !.term = m.term, !.reject = ~ grants])
         EXCEPT !.vote = m.from]

AddNode(s, id) ==
  IF id \in s.peers THEN s
  ELSE [s EXCEPT !.peers = @ \cup {id},
                 !.prs[id] = NewProgress(s.lastApplied + 1)]

HandleNode(s, m) ==
  Send([AddNode(s, m.from) EXCEPT !.unknownid = Append(@, m.from)],
       m.from, [NewMessage("MsgNodeResp") EXCEPT !.term = m.term])

Step(s, m) ==
  CASE s.state = "LEADER" -> StepLeader(s, m)
    [] s.state = "CANDIDATE" -> StepCandidate(s, m)
    [] OTHER -> StepFollower(s, m)

Dispatch(s, m) ==
  CASE m.type = "MsgVote" -> HandleVote(s, m)
    [] m.type = "MsgNode" -> HandleNode(s, m)
    [] OTHER -> Step(s, m)

\* Mutation: a message of the same term makes a leader step down.
GeneralStep_SameTerm(s, m) ==
  IF m.term # 0 /\ m.term < s.currentTerm THEN s
  ELSE IF m.term # 0 THEN Dispatch(StepDown(s, m.term, m.from), m)
  ELSE Dispatch(s, m)

\* A message with term 0 skips the comparison of terms.
GeneralStep(s, m) ==
  IF m.term # 0 /\ m.term < s.currentTerm THEN s
  ELSE IF m.term > s.currentTerm
    THEN Dispatch(StepDown(s, m.term, m.from), m)
  ELSE Dispatch(s, m)
-----------------------------------------------------------------------------
(* The log file *)

\* n entries of _entries from position i on; an iterator past the end yields
\* memory that holds no entry.
Slice(entries, i, n) ==
  [k \in 1..n |-> IF i + k - 1 \in DOMAIN entries THEN entries[i + k - 1]
                  ELSE [term |-> 0, index |-> 0, data |-> None]]

\* Where storageLog() starts to copy: after the first entry whose index field
\* is _lastApplied, at the front when there is none.
AppliedAt(s) == {i \in 1..Len(s.entries) : s.entries[i].index = s.lastApplied}

StorageBatch(s) ==
  IF AppliedAt(s) = {} THEN Slice(s.entries, 1, s.commitIndex)
  ELSE LET first == CHOOSE i \in AppliedAt(s) : \A j \in AppliedAt(s) : i <= j
       IN  Slice(s.entries, first + 1, s.commitIndex - s.lastApplied)

AppliedTo(s, index) ==
  IF index = 0 THEN s ELSE [s EXCEPT !.lastApplied = index]

\* Mutation: the whole log counts as applied.
StorageLog_All(s) == AppliedTo(s, Len(s.entries))

\* Storage::Append() opens the file in a mode that empties it.
StorageLog(s) ==
  IF /\ s.lastApplied < s.commitIndex
     /\ s.commitIndex - s.lastApplied <= Len(s.entries)
    THEN AppliedTo([s EXCEPT !.storage = StorageBatch(s),
                             !.corrupt = @ \/ \E i \in DOMAIN StorageBatch(s) :
                                               StorageBatch(s)[i].data = None],
                   s.commitIndex)
    ELSE AppliedTo(s, s.commitIndex)

\* A node as Raft() and Node::init() leave it: in term 1, with a MsgNode on
\* its way to every peer it is configured with.
Boot(n, file) ==
  [id |-> n, currentTerm |-> 1, vote |-> None, leader |-> None,
   state |-> "FOLLOWER", commitIndex |-> 0, lastApplied |-> 0,
   entries |-> <<>>, offset |-> IF Len(file) > 1 THEN Len(file) ELSE 1,
   peers |-> Peers[n], prs |-> [d \in Node |-> NewProgress(1)], votes |-> {},
   ready |-> FALSE, storage |-> file,
   sendmsgs |-> [d \in Node |->
      IF d \in Peers[n] THEN <<[NewMessage("MsgNode") EXCEPT !.from = n]>>
      ELSE <<>>],
   peersfd |-> Peers[n], unknownid |-> <<>>, corrupt |-> FALSE]
-----------------------------------------------------------------------------
(* The threads *)

Fits(s) == /\ Len(s.entries) <= MaxEntries
           /\ \A d \in Node : Len(s.sendmsgs[d]) <= MaxInFlight

Room(n) ==
  \A d \in Node :
    Len(raft[n].sendmsgs[d]) + Len(raft[d].sendmsgs[n]) < MaxPending

\* Node n is left with the object s, within the bounds.
Becomes(n, s) ==
  /\ Fits(s)
  /\ raft' = [raft EXCEPT ![n] = s]

\* tickElection(): the timer expired, and MsgHup makes the node a candidate.
TickElection(n) ==
  /\ n \in (up \cap Electable) \ hup
  /\ raft[n].state # "LEADER"
  /\ raft[n].currentTerm < MaxTerm
  /\ Becomes(n, BecomeCandidate(raft[n]))
  /\ hup' = hup \cup {n}
  /\ UNCHANGED <<up, faults>>

\* The rest of MsgHup: the node counts its own vote.
Elect(n) ==
  /\ n \in up \cap hup
  /\ LET s == RecordVote(raft[n], n, TRUE)
     IN  Becomes(n,
           IF Quorum(s) = Granted(s) THEN BecomeLeader(s)
           ELSE [s EXCEPT !.sendmsgs =
                   [d \in Node |-> IF d \in s.peers \ {n}
                                     THEN Append(@[d], VoteRequest(s)) ELSE @[d]]])
  /\ hup' = hup \ {n}
  /\ UNCHANGED <<up, faults>>

TickHeartbeat(n) ==
  /\ n \in up \ hup
  /\ raft[n].state = "LEADER"
  /\ Room(n)
  /\ Becomes(n, BcastHeartbeat(raft[n]))
  /\ UNCHANGED <<up, hup, faults>>

Deliverable(src, dst) ==
  /\ raft[src].sendmsgs[dst] # <<>>
  /\ dst \in raft[src].peersfd

\* Node n takes the head of the queue from src and is left with the object s.
Takes(n, src, s) ==
  /\ Fits(s)
  /\ raft' = [raft EXCEPT ![n] = s, ![src].sendmsgs[n] = Tail(@)]

StepNode(n, src) ==
  /\ n \in up
  /\ Deliverable(src, n)
  /\ Takes(n, src, GeneralStep(raft[n], Head(raft[src].sendmsgs[n])))
  /\ UNCHANGED <<up, hup, faults>>

\* A client's operation reaches stepLeader.  With no follower known,
\* maybeCommit() indexes an empty vector and the process dies.
Propose(n, v) ==
  /\ n \in up
  /\ raft[n].state = "LEADER"
  /\ Room(n)
  /\ IF raft[n].peers = {}
       THEN up' = up \ {n} /\ UNCHANGED raft
       ELSE Becomes(n, StepProp(raft[n], v)) /\ UNCHANGED up
  /\ UNCHANGED <<hup, faults>>

Persist(n) ==
  /\ n \in up
  /\ raft[n].ready
  /\ Becomes(n, [StorageLog(raft[n]) EXCEPT !.ready = FALSE])
  /\ UNCHANGED <<up, hup, faults>>

Bind(n) ==
  /\ n \in up
  /\ raft[n].unknownid # <<>>
  /\ Becomes(n, [raft[n] EXCEPT !.peersfd = @ \cup {Head(raft[n].unknownid)},
                                !.unknownid = Tail(@)])
  /\ UNCHANGED <<up, hup, faults>>

Discard(n, dst) ==
  /\ n \in up
  /\ raft[n].sendmsgs[dst] # <<>>
  /\ dst \notin raft[n].peersfd
  /\ raft' = [raft EXCEPT ![n].sendmsgs[dst] = Tail(@)]
  /\ UNCHANGED <<up, hup, faults>>

\* Memory past the end of _entries was touched: the process may die of it.
Crash(n) ==
  /\ n \in up
  /\ raft[n].corrupt
  /\ up' = up \ {n}
  /\ UNCHANGED <<raft, hup, faults>>
-----------------------------------------------------------------------------
(* Faults *)

Fault(kind) ==
  /\ kind \in Faults
  /\ faults < MaxFaults
  /\ faults' = faults + 1

\* A full buffer or a failed write drops a message.
Lose(src, dst) ==
  /\ Fault("lose")
  /\ Deliverable(src, dst)
  /\ raft' = [raft EXCEPT ![src].sendmsgs[dst] = Tail(@)]
  /\ UNCHANGED <<up, hup>>

\* Two messages read into the receive buffer before popData() are parsed as
\* one: a scalar keeps the last value that is not the default, and repeated
\* fields are joined.
Merge(a, b) ==
  [type |-> b.type,
   from |-> IF b.from # None THEN b.from ELSE a.from,
   term |-> IF b.term # 0 THEN b.term ELSE a.term,
   logterm |-> IF b.logterm # 0 THEN b.logterm ELSE a.logterm,
   index |-> IF b.index # 0 THEN b.index ELSE a.index,
   entries |-> a.entries \o b.entries,
   commit |-> IF b.commit # 0 THEN b.commit ELSE a.commit,
   reject |-> a.reject \/ b.reject]

\* The messages come from one link or, as all links share the buffer, from two.
Coalesce(src, src2, dst) ==
  /\ Fault("coalesce")
  /\ Deliverable(src, dst)
  /\ LET queue == raft[src].sendmsgs[dst]
     IN  \/ /\ src = src2
            /\ Len(queue) > 1
            /\ raft' = [raft EXCEPT ![src].sendmsgs[dst] =
                 <<Merge(queue[1], queue[2])>> \o SubSeq(queue, 3, Len(queue))]
         \/ /\ src # src2
            /\ Deliverable(src2, dst)
            /\ raft' = [raft EXCEPT
                 ![src].sendmsgs[dst] = Tail(@),
                 ![src2].sendmsgs[dst] = <<Merge(Head(queue), Head(@))>> \o Tail(@)]
  /\ UNCHANGED <<up, hup>>

\* The process of n dies and is started again.  What it had sent may still
\* arrive, up to some message, before the MsgNode of the new process; the
\* others have lost their connection to it.
Restart(n) ==
  /\ Fault("restart")
  /\ \E kept \in [Node -> 0..MaxInFlight] :
       LET boot == Boot(n, raft[n].storage)
           old == raft[n].sendmsgs
       IN  /\ \A d \in Node : kept[d] <= Len(old[d])
           /\ raft' = [x \in Node |->
                IF x = n THEN [boot EXCEPT !.sendmsgs =
                                [d \in Node |-> SubSeq(old[d], 1, kept[d]) \o @[d]]]
                ELSE [raft[x] EXCEPT !.peersfd = @ \ {n}]]
  /\ up' = up \cup {n}
  /\ hup' = hup \ {n}
-----------------------------------------------------------------------------
Init ==
  /\ raft = [n \in Node |-> Boot(n, <<>>)]
  /\ up = Node
  /\ hup = {}
  /\ faults = 0

Next ==
  \/ \E n \in Node :
       \/ TickElection(n) \/ Elect(n) \/ TickHeartbeat(n)
       \/ Persist(n) \/ Bind(n) \/ Crash(n) \/ Restart(n)
       \/ \E v \in Value : Propose(n, v)
  \/ \E n \in Node : \E m \in Node \ {n} :
       \/ StepNode(n, m) \/ Discard(n, m) \/ Lose(n, m)
       \/ \E m2 \in Node : Coalesce(m, m2, n)

Spec == Init /\ [][Next]_vars

\* Every thread of a process is scheduled again and again.  The tick thread is
\* never really held up by the bound in Room, so its fairness is strong: it
\* ticks again and again even if the bound keeps coming in its way.
Fairness ==
  \A n \in Node :
    /\ WF_vars(TickElection(n) \/ Elect(n)) /\ SF_vars(TickHeartbeat(n))
    /\ WF_vars(\E m \in Node \ {n} : StepNode(n, m))
    /\ WF_vars(Persist(n)) /\ WF_vars(Bind(n))

FairSpec == Spec /\ Fairness
=============================================================================
