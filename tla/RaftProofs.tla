----------------------------- MODULE RaftProofs -----------------------------
(***************************************************************************)
(* Proofs about the replication core, for any number of nodes, any peers   *)
(* and any bounds.                                                         *)
(*                                                                         *)
(* First, every member function takes a Raft object to a Raft object (the  *)
(* lemmas named ...Type); then, that a call loses nothing a node has       *)
(* decided (...Safe); then the first theorems, one step per action.        *)
(*                                                                         *)
(* Then, what the nodes tell each other.  A leader commits with all the    *)
(* followers it knows (...WithAll).  What a call sends and what it makes   *)
(* of a message keep within a set of commit indexes (...Quiet): with every *)
(* number in the set, no vote is ever asked for; with the acknowledged     *)
(* ones, no other commit index gets about.  Last, an append without        *)
(* entries never starts at the beginning of the log, because a leader      *)
(* sends from there only to who has acknowledged nothing (Solid).          *)
(***************************************************************************)
EXTENDS RaftProperties, SequenceTheorems, FiniteSetTheorems, TLAPS

-----------------------------------------------------------------------------
(* Types: messages and progress *)

\* The messages the program builds are messages: each names its own sender.
LEMMA MessagesType ==
  /\ \A n \in Node : [NewMessage("MsgNode") EXCEPT !.from = n] \in Message
  /\ \A t \in Nat : [NewMessage("MsgNodeResp") EXCEPT !.term = t] \in Message
  /\ \A n \in Node, t \in Nat \ {0}, c \in Nat :
       [NewMessage("MsgHeartbeat") EXCEPT !.from = n, !.term = t, !.commit = c]
         \in Message
  /\ \A n \in Node : [NewMessage("MsgHeartbeatResp") EXCEPT !.from = n] \in Message
  /\ \A n \in Node, i, k, c \in Nat, log \in Seq(Entry) :
       [NewMessage("MsgApp") EXCEPT !.from = n, !.index = i, !.logterm = k,
                                    !.commit = c, !.entries = log] \in Message
  /\ \A n \in Node, i \in Nat, b \in BOOLEAN :
       [NewMessage("MsgAppResp") EXCEPT !.from = n, !.index = i, !.reject = b]
         \in Message
  /\ \A t, i, k \in Nat :
       [NewMessage("MsgVote") EXCEPT !.term = t, !.index = i, !.logterm = k]
         \in Message
  /\ \A t \in Nat, b \in BOOLEAN :
       [NewMessage("MsgVoteResp") EXCEPT !.term = t, !.reject = b] \in Message
<1> USE EmptySeq DEF NewMessage, Message, MessageType, NodeId
<1>1. \A n \in Node : [NewMessage("MsgNode") EXCEPT !.from = n] \in Message
  OBVIOUS
<1>2. \A t \in Nat : [NewMessage("MsgNodeResp") EXCEPT !.term = t] \in Message
  OBVIOUS
<1>3. \A n \in Node, t \in Nat \ {0}, c \in Nat :
       [NewMessage("MsgHeartbeat") EXCEPT !.from = n, !.term = t, !.commit = c]
       \in Message
  <2>1. TAKE n \in Node, t \in Nat \ {0}, c \in Nat
  <2>2. t \in Nat /\ t > 0
    OBVIOUS
  <2> QED BY <2>2
<1>4. \A n \in Node : [NewMessage("MsgHeartbeatResp") EXCEPT !.from = n] \in Message
  OBVIOUS
<1>5. \A n \in Node, i, k, c \in Nat, log \in Seq(Entry) :
       [NewMessage("MsgApp") EXCEPT !.from = n, !.index = i, !.logterm = k,
       !.commit = c, !.entries = log] \in Message
  OBVIOUS
<1>6. \A n \in Node, i \in Nat, b \in BOOLEAN :
       [NewMessage("MsgAppResp") EXCEPT !.from = n, !.index = i, !.reject = b]
       \in Message
  OBVIOUS
<1>7. \A t, i, k \in Nat :
       [NewMessage("MsgVote") EXCEPT !.term = t, !.index = i, !.logterm = k]
       \in Message
  OBVIOUS
<1>8. \A t \in Nat, b \in BOOLEAN :
       [NewMessage("MsgVoteResp") EXCEPT !.term = t, !.reject = b] \in Message
  OBVIOUS
<1> QED BY <1>1, <1>2, <1>3, <1>4, <1>5, <1>6, <1>7, <1>8

\* Every update of a Progress yields a Progress; `next' stays positive.
LEMMA ProgressType ==
  ASSUME NEW p \in Progress, NEW n \in Nat
  PROVE  /\ NewProgress(n + 1) \in Progress
         /\ BecomeProbe(p) \in Progress
         /\ BecomeReplicate(p) \in Progress
         /\ OptimisticUpdate(p, n) \in Progress
         /\ MaybeUpdate(p, n) \in Progress
<1> USE DEF Progress, ProgressState
<1>1. NewProgress(n + 1) \in Progress
  BY DEF NewProgress
<1>2. \A st \in ProgressState, k \in Nat \ {0} :
        [ResetState(p, st) EXCEPT !.next = k] \in Progress
  BY DEF ResetState
<1>3. BecomeProbe(p) \in Progress /\ BecomeReplicate(p) \in Progress
  <2>1. p.match + 1 \in Nat \ {0} /\ p.pendingSnapshot + 1 \in Nat \ {0}
    OBVIOUS
  <2> QED BY <1>2, <2>1 DEF BecomeProbe, BecomeReplicate
<1>4. OptimisticUpdate(p, n) \in Progress
  BY DEF OptimisticUpdate
<1>5. MaybeUpdate(p, n) \in Progress
  <2>1. \A a \in Nat \ {0}, b \in Nat :
          [p EXCEPT !.next = a, !.match = b] \in Progress
    OBVIOUS
  <2>2. /\ (IF p.next < n + 1 THEN n + 1 ELSE p.next) \in Nat \ {0}
        /\ (IF IsNews(p, n) THEN n ELSE p.match) \in Nat
    OBVIOUS
  <2> QED BY <2>1, <2>2 DEF MaybeUpdate
<1> QED BY <1>1, <1>3, <1>4, <1>5
-----------------------------------------------------------------------------
(* Types: the log *)

\* A part of a log is a log, even where the bounds lie outside it.
LEMMA SubSeqType ==
  ASSUME NEW S, NEW q \in Seq(S), NEW i \in Nat \ {0}
  PROVE  SubSeq(q, i, Len(q)) \in Seq(S)
<1>1. \A k \in i..Len(q) : q[k] \in S
  BY LenProperties, ElementOfSeq
<1> QED BY <1>1, LenProperties, SubSeqProperties

\* Truncate() keeps the entries before the cut as they were.
LEMMA TruncateProperties ==
  ASSUME NEW S, NEW log \in Seq(S), NEW k \in Nat
  PROVE  /\ Truncate(log, k) \in Seq(S)
         /\ Len(Truncate(log, k)) = IF k < Len(log) THEN k ELSE Len(log)
         /\ \A i \in 1..Len(Truncate(log, k)) : Truncate(log, k)[i] = log[i]
<1> DEFINE m == IF k < Len(log) THEN k ELSE Len(log)
<1>1. m \in Nat /\ m <= Len(log)
  BY LenProperties
<1>2. \A i \in 1..m : log[i] \in S
  BY <1>1, LenProperties, ElementOfSeq
<1>3. /\ SubSeq(log, 1, m) \in Seq(S)
      /\ Len(SubSeq(log, 1, m)) = IF 1 <= m THEN m - 1 + 1 ELSE 0
      /\ \A i \in 1..m - 1 + 1 : SubSeq(log, 1, m)[i] = log[1 + i - 1]
  BY <1>1, <1>2, SubSeqProperties
<1>4. Len(SubSeq(log, 1, m)) = m
  BY <1>1, <1>3
<1>5. \A i \in 1..m : SubSeq(log, 1, m)[i] = log[i]
  BY <1>1, <1>3
<1> QED BY <1>3, <1>4, <1>5 DEF Truncate

\* The term of a position is a number, whether _entries, the file or neither
\* holds the position.
LEMMA TermType ==
  ASSUME NEW s \in RaftObject, NEW i \in Nat
  PROVE  Term(s, i) \in Nat
<1>0. /\ s.entries \in Seq(Entry) /\ s.storage \in Seq(Entry)
      /\ s.offset \in Nat \ {0}
  BY DEF RaftObject
<1>1. MaybeTerm(s, i) \in Nat
  <2>1. CASE s.offset <= i /\ i <= LastIndex(s)
    <3>1. s.entries # <<>>
      BY <1>0, <2>1 DEF LastIndex
    <3>2. Len(s.entries) \in Nat \ {0}
      BY <1>0, <3>1, EmptySeq
    <3>3. i - s.offset + 1 \in 1..Len(s.entries)
      BY <1>0, <2>1, <3>1, <3>2 DEF LastIndex
    <3>4. s.entries[i - s.offset + 1] \in Entry
      BY <1>0, <3>3, ElementOfSeq
    <3> QED BY <2>1, <3>4 DEF MaybeTerm, Entry
  <2>2. CASE ~(s.offset <= i /\ i <= LastIndex(s))
    BY <2>2 DEF MaybeTerm
  <2> QED BY <2>1, <2>2
<1>2. StorageTerm(s.storage, i) \in Nat
  <2>1. CASE Len(s.storage) > 1 /\ i < Len(s.storage)
    <3>1. s.storage[i + 1] \in Entry
      BY <1>0, <2>1, ElementOfSeq, LenProperties
    <3> QED BY <2>1, <3>1 DEF StorageTerm, Entry
  <2>2. CASE ~(Len(s.storage) > 1 /\ i < Len(s.storage))
    BY <2>2 DEF StorageTerm
  <2> QED BY <2>1, <2>2
<1> QED BY <1>1, <1>2 DEF Term
-----------------------------------------------------------------------------
(* Types: roles *)

\* A change of role and term keeps the object's other fields.
LEMMA RoleType ==
  ASSUME NEW s \in RaftObject, NEW t \in Nat \ {0}, NEW l \in NodeId
  PROVE  /\ Reset(s, t) \in RaftObject
         /\ StepDown(s, t, l) \in RaftObject
         /\ BecomeCandidate(s) \in RaftObject
         /\ BecomeLeader(s) \in RaftObject
<1>1. \A u \in Nat \ {0} : Reset(s, u) \in RaftObject
  BY ZenonT(30) DEF Reset, RaftObject, NodeId
<1>2. StepDown(s, t, l) \in RaftObject
  BY <1>1, ZenonT(30) DEF StepDown, RaftObject
<1>3. s.id \in NodeId /\ s.currentTerm \in Nat \ {0}
  BY DEF RaftObject, NodeId
<1>4. BecomeCandidate(s) \in RaftObject
  <2> DEFINE r == Reset(s, s.currentTerm + 1)
  <2>1. r \in RaftObject
    BY <1>1, <1>3
  <2>2. [r EXCEPT !.vote = s.id, !.state = "CANDIDATE"] \in RaftObject
    BY <1>3, <2>1 DEF RaftObject
  <2> QED BY <2>2 DEF BecomeCandidate
<1>5. BecomeLeader(s) \in RaftObject
  <2> DEFINE r == Reset(s, s.currentTerm)
  <2>1. r \in RaftObject
    BY <1>1, <1>3
  <2>2. [r EXCEPT !.leader = s.id, !.state = "LEADER"] \in RaftObject
    BY <1>3, <2>1 DEF RaftObject
  <2> QED BY <2>2 DEF BecomeLeader
<1> QED BY <1>1, <1>2, <1>4, <1>5

\* A vote is recorded as a pair of a node id and a Boolean.
LEMMA RecordVoteType ==
  ASSUME NEW s \in RaftObject, NEW id \in NodeId, NEW v \in BOOLEAN
  PROVE  RecordVote(s, id, v) \in RaftObject
<1>1. s.votes \cup {<<id, v>>} \in SUBSET (NodeId \X BOOLEAN)
  BY DEF RaftObject
<1>2. [s EXCEPT !.votes = s.votes \cup {<<id, v>>}] \in RaftObject
  BY <1>1 DEF RaftObject
<1> QED BY <1>2 DEF RecordVote
-----------------------------------------------------------------------------
(* Types: sending *)

\* The queues of an object may be replaced by other queues of messages.
LEMMA SendmsgsType ==
  ASSUME NEW s \in RaftObject, NEW q \in [Node -> Seq(Message)]
  PROVE  [s EXCEPT !.sendmsgs = q] \in RaftObject
BY DEF RaftObject

\* They are no part of what a call may do to the object.
LEMMA SendmsgsSame ==
  ASSUME NEW s \in RaftObject, NEW q
  PROVE  /\ [s EXCEPT !.sendmsgs = q].id = s.id
         /\ [s EXCEPT !.sendmsgs = q].currentTerm = s.currentTerm
         /\ [s EXCEPT !.sendmsgs = q].state = s.state
         /\ [s EXCEPT !.sendmsgs = q].commitIndex = s.commitIndex
         /\ [s EXCEPT !.sendmsgs = q].lastApplied = s.lastApplied
         /\ [s EXCEPT !.sendmsgs = q].entries = s.entries
BY DEF RaftObject

\* send() queues its message, once or on every connection.
LEMMA SendType ==
  ASSUME NEW s \in RaftObject, NEW to \in NodeId, NEW m \in Message
  PROVE  Send(s, to, m) \in RaftObject
<1> DEFINE q == s.sendmsgs
<1>0. q \in [Node -> Seq(Message)]
  BY DEF RaftObject
<1>1. CASE to = None
  <2>1. [d \in Node |-> IF d \in s.peersfd THEN Append(q[d], m) ELSE q[d]]
          \in [Node -> Seq(Message)]
    BY <1>0
  <2> QED BY <1>1, <2>1, SendmsgsType DEF Send
<1>2. CASE to # None
  <2>1. [q EXCEPT ![to] = Append(q[to], m)] \in [Node -> Seq(Message)]
    BY <1>0, <1>2 DEF NodeId
  <2> QED BY <1>2, <2>1, SendmsgsType DEF Send
<1> QED BY <1>1, <1>2

\* A heartbeat is a message: the term it names is the leader's own.
LEMMA HeartbeatType ==
  ASSUME NEW s \in RaftObject, NEW d \in Node
  PROVE  Heartbeat(s, d) \in Message
<1>1. /\ s.id \in Node /\ s.currentTerm \in Nat \ {0}
      /\ s.commitIndex \in Nat /\ s.prs[d] \in Progress
  BY DEF RaftObject
<1>2. s.prs[d].match \in Nat
  BY <1>1 DEF Progress
<1>3. PICK c \in Nat : c = (IF s.prs[d].match < s.commitIndex
                            THEN s.prs[d].match ELSE s.commitIndex)
  BY <1>1, <1>2
<1>4. Heartbeat(s, d) = [NewMessage("MsgHeartbeat") EXCEPT
                           !.from = s.id, !.term = s.currentTerm, !.commit = c]
  BY <1>3 DEF Heartbeat
<1>5. \A k \in Nat : [NewMessage("MsgHeartbeat") EXCEPT
        !.from = s.id, !.term = s.currentTerm, !.commit = k] \in Message
  BY <1>1, MessagesType
<1> QED BY <1>4, <1>5

\* So a broadcast of heartbeats leaves a Raft object.
LEMMA BcastHeartbeatType ==
  ASSUME NEW s \in RaftObject
  PROVE  BcastHeartbeat(s) \in RaftObject
<1> DEFINE q == s.sendmsgs
<1>1. q \in [Node -> Seq(Message)]
  BY DEF RaftObject
<1>2. [d \in Node |-> IF d \in s.peers \ {s.id} THEN Append(q[d], Heartbeat(s, d))
                      ELSE q[d]] \in [Node -> Seq(Message)]
  BY <1>1, HeartbeatType
<1> QED BY <1>2, SendmsgsType DEF BcastHeartbeat

\* A MsgApp is a message, whatever position the follower is thought to be at.
LEMMA AppendMessageType ==
  ASSUME NEW s \in RaftObject, NEW to \in Node
  PROVE  AppendMessage(s, to) \in Message
<1> DEFINE prev == s.prs[to].next - 1
<1>0. /\ s.id \in Node /\ s.currentTerm \in Nat /\ s.commitIndex \in Nat
      /\ s.entries \in Seq(Entry) /\ s.prs[to] \in Progress
  BY DEF RaftObject
<1>1. prev \in Nat /\ prev + 1 \in Nat \ {0}
  BY <1>0 DEF Progress
<1>2. SubSeq(s.entries, prev + 1, Len(s.entries)) \in Seq(Entry)
  BY <1>0, <1>1, SubSeqType
<1>3. (IF prev = 0 THEN s.currentTerm ELSE Term(s, prev)) \in Nat
  BY <1>0, <1>1, TermType
<1> HIDE DEF prev
<1>4. PICK log \in Seq(Entry), k \in Nat :
        /\ log = SubSeq(s.entries, prev + 1, Len(s.entries))
        /\ k = (IF prev = 0 THEN s.currentTerm ELSE Term(s, prev))
  BY <1>2, <1>3
<1>5. [NewMessage("MsgApp") EXCEPT !.from = s.id, !.index = prev, !.logterm = k,
         !.commit = s.commitIndex, !.entries = log] \in Message
  BY <1>0, <1>1, MessagesType
<1> QED BY <1>4, <1>5 DEF AppendMessage, prev

\* The position a leader moves a follower to is that of a real entry.
LEMMA ProgressAfterAppendType ==
  ASSUME NEW s \in RaftObject, NEW to \in Node
  PROVE  ProgressAfterAppend(s, to) \in Progress
<1> DEFINE sent == AppendMessage(s, to).entries
<1>1. sent \in Seq(Entry)
  BY AppendMessageType DEF Message
<1>2. s.prs[to] \in Progress
  BY DEF RaftObject
<1>3. ASSUME sent # <<>>
      PROVE  OptimisticUpdate(s.prs[to], sent[Len(sent)].index) \in Progress
  <2>1. Len(sent) \in 1..Len(sent)
    BY <1>1, <1>3, EmptySeq
  <2>2. sent[Len(sent)] \in Entry
    BY <1>1, <2>1, ElementOfSeq
  <2>3. sent[Len(sent)].index \in Nat
    BY <2>2 DEF Entry
  <2> QED BY <1>2, <2>3, ProgressType
<1> QED BY <1>2, <1>3 DEF ProgressAfterAppend

\* sendAppend() queues messages and moves what the leader believes.
LEMMA SendAppendType ==
  ASSUME NEW s \in RaftObject, NEW to \in SUBSET Node
  PROVE  SendAppend(s, to) \in RaftObject
<1> DEFINE q == [d \in Node |-> IF d \in to
                   THEN Append(s.sendmsgs[d], AppendMessage(s, d))
                   ELSE s.sendmsgs[d]]
           p == [d \in Node |-> IF d \in to THEN ProgressAfterAppend(s, d)
                                ELSE s.prs[d]]
           c == s.corrupt \/ \E d \in to : /\ s.prs[d].next > 1
                                          /\ ReadsPastEnd(s, s.prs[d].next - 1)
<1>0. /\ s.sendmsgs \in [Node -> Seq(Message)] /\ s.prs \in [Node -> Progress]
      /\ s.corrupt \in BOOLEAN
  BY DEF RaftObject
<1>1. q \in [Node -> Seq(Message)]
  BY <1>0, AppendMessageType
<1>2. p \in [Node -> Progress]
  BY <1>0, ProgressAfterAppendType
<1>3. c \in BOOLEAN
  BY <1>0
<1> HIDE DEF q, p, c
<1>4. [s EXCEPT !.sendmsgs = q, !.prs = p, !.corrupt = c] \in RaftObject
  BY <1>1, <1>2, <1>3 DEF RaftObject
<1> QED BY <1>4 DEF SendAppend, q, p, c
-----------------------------------------------------------------------------
(* Types: the leader's side *)

\* What maybeCommit() may move the commit index to is a number, and higher.
LEMMA CommittableType ==
  ASSUME NEW s \in RaftObject
  PROVE  /\ Committable(s) \subseteq {c \in Nat : c > s.commitIndex}
         /\ MaybeCommit(s) \in RaftObject
<1>1. \A p \in s.peers : s.prs[p].match \in Nat
  <2>1. \A p \in s.peers : s.prs[p] \in Progress
    BY DEF RaftObject
  <2> QED BY <2>1 DEF Progress
<1>2. Committable(s) \subseteq {c \in Nat : c > s.commitIndex}
  BY <1>1 DEF Committable
<1>3. \A c \in Nat : CommitTo(s, c) \in RaftObject
  BY DEF CommitTo, RaftObject
<1>4. Committable(s) # {} => (CHOOSE c \in Committable(s) : TRUE) \in Committable(s)
  OBVIOUS
<1> QED BY <1>2, <1>3, <1>4 DEF MaybeCommit

\* A proposal leaves a Raft object.
LEMMA StepPropType ==
  ASSUME NEW s \in RaftObject, NEW v \in Value
  PROVE  AppendEntry(s, v) \in RaftObject /\ StepProp(s, v) \in RaftObject
<1> DEFINE e == [term |-> s.currentTerm, index |-> s.lastApplied + 1, data |-> v]
           log == Append(s.entries, e)
<1>1. e \in Entry
  BY DEF Entry, RaftObject
<1>2. log \in Seq(Entry)
  BY <1>1, AppendProperties DEF RaftObject
<1> HIDE DEF log
<1>3. [s EXCEPT !.entries = log] \in RaftObject
  BY <1>2 DEF RaftObject
<1>4. MaybeCommit([s EXCEPT !.entries = log]) \in RaftObject
  BY <1>3, CommittableType
<1>5. \A r \in RaftObject : [r EXCEPT !.ready = TRUE] \in RaftObject
  BY ZenonT(30) DEF RaftObject
<1>6. AppendEntry(s, v) \in RaftObject
  BY <1>4, <1>5 DEF AppendEntry, log
<1>7. AppendEntry(s, v).peers \subseteq Node
  BY <1>6 DEF RaftObject
<1> QED BY <1>6, <1>7, SendAppendType DEF StepProp, BcastAppend

\* So does the acknowledgement of a follower, at every position it may name.
LEMMA AcknowledgeType ==
  ASSUME NEW s \in RaftObject, NEW m \in Message, m.from \in s.peers
  PROVE  Acknowledge(s, m) \in RaftObject
<1> DEFINE p == MaybeUpdate(s.prs[m.from], m.index)
           q == IF p.state = "Probe" THEN BecomeReplicate(p)
                ELSE IF p.state = "Snapshot" THEN BecomeProbe(p)
                ELSE p
<1>1. m.from \in Node /\ s.prs[m.from] \in Progress /\ m.index \in Nat
  BY DEF RaftObject, Message
<1>2. p \in Progress
  BY <1>1, ProgressType
<1>3. q \in Progress
  BY <1>2, ProgressType
<1>4. \A x \in Progress : [s EXCEPT !.prs[m.from] = x] \in RaftObject
  BY <1>1 DEF RaftObject
<1> DEFINE t == [s EXCEPT !.prs[m.from] = q]
<1> HIDE DEF p, q
<1>5. t \in RaftObject /\ [s EXCEPT !.prs[m.from] = p] \in RaftObject
  BY <1>2, <1>3, <1>4
<1> HIDE DEF t
<1>6. MaybeCommit(t) \in RaftObject
  BY <1>5, CommittableType
<1>7. MaybeCommit(t).peers \subseteq Node
  BY <1>6 DEF RaftObject
<1>8. BcastAppend(MaybeCommit(t)) \in RaftObject
  BY <1>6, <1>7, SendAppendType DEF BcastAppend
<1> QED BY <1>5, <1>8 DEF Acknowledge, p, q, t

\* A leader's handling of a response.
LEMMA StepLeaderType ==
  ASSUME NEW s \in RaftObject, NEW m \in Message
  PROVE  StepLeader(s, m) \in RaftObject
<1>1. ASSUME m.from \in s.peers
      PROVE  \A r \in RaftObject : CatchUp(r, m.from) \in RaftObject
  <2>1. m.from \in Node
    BY <1>1 DEF RaftObject
  <2> QED BY <2>1, SendAppendType DEF CatchUp
<1>2. ASSUME m.from \in s.peers
      PROVE  (IF m.reject THEN s ELSE Acknowledge(s, m)) \in RaftObject
  BY <1>2, AcknowledgeType
<1> QED BY <1>1, <1>2 DEF StepLeader
-----------------------------------------------------------------------------
(* Types: the follower's side *)

\* What maybeAppend() leaves is a log, and what it returns a number.
LEMMA MaybeAppendType ==
  ASSUME NEW s \in RaftObject, NEW m \in Message
  PROVE  MaybeAppend(s, m) \in RaftObject /\ AppendResult(s, m) \in Nat
<1>1. s.entries \in Seq(Entry) /\ m.entries \in Seq(Entry) /\ m.index \in Nat
  BY DEF RaftObject, Message
<1> DEFINE log == Truncate(s.entries, m.index) \o m.entries
<1>2. log \in Seq(Entry)
  BY <1>1, TruncateProperties, ConcatProperties
<1>3. m.index + Len(m.entries) \in Nat
  BY <1>1, LenProperties
<1> HIDE DEF log
<1>4. [s EXCEPT !.entries = log] \in RaftObject
  BY <1>2 DEF RaftObject
<1> QED BY <1>3, <1>4 DEF MaybeAppend, AppendResult, log

\* A follower's handling of an append or a heartbeat.
LEMMA HandleType ==
  ASSUME NEW s \in RaftObject, NEW m \in Message
  PROVE  HandleAppend(s, m) \in RaftObject /\ HandleHeartbeat(s, m) \in RaftObject
<1>1. /\ m.from \in NodeId /\ m.index \in Nat /\ m.commit \in Nat
      /\ s.id \in Node /\ s.commitIndex \in Nat
  BY DEF RaftObject, Message
<1>2. \A i \in Nat, b \in BOOLEAN : AppResp(s, i, b) \in Message
  BY <1>1, MessagesType DEF AppResp
<1>3. HeartbeatResp(s) \in Message
  BY <1>1, MessagesType DEF HeartbeatResp
<1>4. \A r \in RaftObject : [r EXCEPT !.ready = TRUE] \in RaftObject
  BY ZenonT(30) DEF RaftObject
<1>5. MaybeAppend(s, m) \in RaftObject /\ AppendResult(s, m) \in Nat
  BY MaybeAppendType
<1>6. [MaybeAppend(s, m) EXCEPT !.ready = TRUE] \in RaftObject
  BY <1>4, <1>5
<1>7. HandleAppend(s, m) \in RaftObject
  BY <1>1, <1>2, <1>5, <1>6, SendType DEF HandleAppend
<1>8. CommitTo(s, m.commit) \in RaftObject
  BY <1>1 DEF CommitTo, RaftObject
<1>9. HandleHeartbeat(s, m) \in RaftObject
  BY <1>1, <1>3, <1>8, SendType DEF HandleHeartbeat
<1> QED BY <1>7, <1>9

\* A follower takes the term of a new leader's heartbeat, which is no term 0.
LEMMA StepFollowerType ==
  ASSUME NEW s \in RaftObject, NEW m \in Message
  PROVE  StepFollower(s, m) \in RaftObject
<1>1. m.from \in NodeId
  BY DEF Message
<1>2. [s EXCEPT !.leader = m.from] \in RaftObject
  BY <1>1 DEF RaftObject
<1>3. ASSUME m.type = "MsgHeartbeat"
      PROVE  [s EXCEPT !.leader = m.from,
                !.currentTerm = IF s.leader # m.from THEN m.term ELSE @]
               \in RaftObject
  <2>1. m.term \in Nat \ {0}
    BY <1>3 DEF Message
  <2>2. (IF s.leader # m.from THEN m.term ELSE s.currentTerm) \in Nat \ {0}
    BY <2>1 DEF RaftObject
  <2>3. \A t \in Nat \ {0} :
          [s EXCEPT !.leader = m.from, !.currentTerm = t] \in RaftObject
    BY <1>1 DEF RaftObject
  <2> QED BY <2>2, <2>3
<1> QED BY <1>2, <1>3, HandleType DEF StepFollower
-----------------------------------------------------------------------------
(* Types: elections and dispatch *)

\* A candidate's handling of a message.
LEMMA StepCandidateType ==
  ASSUME NEW s \in RaftObject, NEW m \in Message
  PROVE  StepCandidate(s, m) \in RaftObject
<1>1. m.from \in NodeId /\ m.reject \in BOOLEAN /\ None \in NodeId
  BY DEF Message, NodeId
<1>2. \A r \in RaftObject : r.currentTerm \in Nat \ {0} /\ r.peers \subseteq Node
  BY DEF RaftObject
<1>3. StepDown(s, s.currentTerm, m.from) \in RaftObject
  BY <1>1, <1>2, RoleType
<1>4. CountVote(s, m) \in RaftObject
  <2> DEFINE t == RecordVote(s, m.from, ~ m.reject)
  <2>1. t \in RaftObject
    BY <1>1, RecordVoteType
  <2> HIDE DEF t
  <2>2. BecomeLeader(t) \in RaftObject
    BY <2>1, <1>1, <1>2, RoleType
  <2>3. BcastAppend(BecomeLeader(t)) \in RaftObject
    BY <2>2, <1>2, SendAppendType DEF BcastAppend
  <2>4. StepDown(t, t.currentTerm, None) \in RaftObject
    BY <2>1, <1>1, <1>2, RoleType
  <2> QED BY <2>1, <2>3, <2>4 DEF CountVote, t
<1> QED BY <1>3, <1>4, HandleType DEF StepCandidate

\* The handlers that do not look at the role.
LEMMA HandleVoteType ==
  ASSUME NEW s \in RaftObject, NEW m \in Message
  PROVE  HandleVote(s, m) \in RaftObject
<1>1. m.from \in NodeId /\ m.term \in Nat
  BY DEF Message
<1>2. \A b \in BOOLEAN :
        Send(s, m.from, [NewMessage("MsgVoteResp") EXCEPT
                           !.term = m.term, !.reject = b]) \in RaftObject
  BY <1>1, MessagesType, SendType
<1>3. ASSUME NEW r \in RaftObject PROVE [r EXCEPT !.vote = m.from] \in RaftObject
  <2> DEFINE id == m.from
  <2>1. id \in NodeId
    BY <1>1
  <2> HIDE DEF id
  <2>2. [r EXCEPT !.vote = id] \in RaftObject
    BY <2>1 DEF RaftObject
  <2> QED BY <2>2 DEF id
<1> QED BY <1>2, <1>3 DEF HandleVote

\* A node that introduces itself gets a progress and waits to be bound.
LEMMA HandleNodeType ==
  ASSUME NEW s \in RaftObject, NEW m \in Message, m.type = "MsgNode"
  PROVE  HandleNode(s, m) \in RaftObject
<1>1. m.from \in Node /\ m.from \in NodeId /\ m.term \in Nat
  BY DEF Message, NodeId
<1>2. NewProgress(s.lastApplied + 1) \in Progress
  <2>1. s.lastApplied \in Nat
    BY DEF RaftObject
  <2> QED BY <2>1, ProgressType DEF NewProgress, Progress, ProgressState
<1>3. \A p \in Progress : [s EXCEPT !.peers = s.peers \cup {m.from},
                                   !.prs[m.from] = p] \in RaftObject
  BY <1>1 DEF RaftObject
<1>4. AddNode(s, m.from) \in RaftObject
  BY <1>2, <1>3 DEF AddNode
<1> DEFINE r == AddNode(s, m.from)
           u == Append(r.unknownid, m.from)
<1> HIDE DEF r
<1>5. u \in Seq(Node)
  BY <1>1, <1>4, AppendProperties DEF RaftObject, r
<1> HIDE DEF u
<1>6. [r EXCEPT !.unknownid = u] \in RaftObject
  BY <1>4, <1>5 DEF RaftObject, r
<1>7. [NewMessage("MsgNodeResp") EXCEPT !.term = m.term] \in Message
  BY <1>1, MessagesType
<1> QED BY <1>1, <1>6, <1>7, SendType DEF HandleNode, r, u

\* One message through generalStep() leaves a Raft object.
LEMMA GeneralStepType ==
  ASSUME NEW s \in RaftObject, NEW m \in Message
  PROVE  GeneralStep(s, m) \in RaftObject
<1>1. \A r \in RaftObject : Step(r, m) \in RaftObject
  BY StepLeaderType, StepCandidateType, StepFollowerType DEF Step
<1>2. \A r \in RaftObject : Dispatch(r, m) \in RaftObject
  BY <1>1, HandleVoteType, HandleNodeType DEF Dispatch
<1>3. m.term \in Nat /\ m.from \in NodeId /\ s.currentTerm \in Nat \ {0}
  BY DEF RaftObject, Message
<1>4. ASSUME m.term > s.currentTerm
      PROVE  StepDown(s, m.term, m.from) \in RaftObject
  <2>1. m.term \in Nat \ {0}
    BY <1>3, <1>4
  <2> QED BY <1>3, <2>1, RoleType
<1> QED BY <1>2, <1>4 DEF GeneralStep
-----------------------------------------------------------------------------
(* Types: the log file, and a new process *)

\* What storageLog() writes is made of entries, also where it reads memory that
\* holds none.
LEMMA SliceType ==
  ASSUME NEW log \in Seq(Entry), NEW i, NEW n \in Nat
  PROVE  Slice(log, i, n) \in Seq(Entry)
<1>1. \A j \in DOMAIN log : log[j] \in Entry
  BY LenProperties, ElementOfSeq
<1>2. [term |-> 0, index |-> 0, data |-> None] \in Entry
  BY DEF Entry
<1>3. Slice(log, i, n) \in [1..n -> Entry]
  BY <1>1, <1>2 DEF Slice
<1> QED BY <1>3, SeqDef

\* storageLog() leaves a Raft object.
LEMMA StorageLogType ==
  ASSUME NEW s \in RaftObject
  PROVE  StorageLog(s) \in RaftObject
<1>0. /\ s.commitIndex \in Nat /\ s.lastApplied \in Nat
      /\ s.entries \in Seq(Entry) /\ s.corrupt \in BOOLEAN
  BY DEF RaftObject
<1>1. \A r \in RaftObject, k \in Nat : AppliedTo(r, k) \in RaftObject
  BY ZenonT(30) DEF AppliedTo, RaftObject
<1>2. ASSUME s.lastApplied < s.commitIndex
      PROVE  StorageBatch(s) \in Seq(Entry)
  <2>1. s.commitIndex - s.lastApplied \in Nat
    BY <1>0, <1>2
  <2> QED BY <1>0, <2>1, SliceType DEF StorageBatch
<1> DEFINE c == s.corrupt \/ \E i \in DOMAIN StorageBatch(s) :
                               StorageBatch(s)[i].data = None
<1>3. c \in BOOLEAN
  BY <1>0
<1> HIDE DEF c
<1>4. \A file \in Seq(Entry) :
        [s EXCEPT !.storage = file, !.corrupt = c] \in RaftObject
  BY <1>3 DEF RaftObject
<1> QED BY <1>0, <1>1, <1>2, <1>4 DEF StorageLog, c

\* So do the constructor and init(), whatever the log file holds.
LEMMA BootType ==
  ASSUME NEW n \in Node, NEW file \in Seq(Entry)
  PROVE  Boot(n, file) \in RaftObject /\ Boot(n, file).id = n
<1> DEFINE q == [d \in Node |->
                   IF d \in Peers[n] THEN <<[NewMessage("MsgNode") EXCEPT !.from = n]>>
                   ELSE <<>>]
           p == [d \in Node |-> NewProgress(1)]
           o == IF Len(file) > 1 THEN Len(file) ELSE 1
<1>1. Peers[n] \in SUBSET Node
  BY NodeAssumption
<1>2. q \in [Node -> Seq(Message)]
  <2>1. [NewMessage("MsgNode") EXCEPT !.from = n] \in Message
    BY MessagesType
  <2> QED BY <2>1, EmptySeq
<1>3. p \in [Node -> Progress]
  BY DEF NewProgress, Progress, ProgressState
<1>4. o \in Nat \ {0}
  BY LenProperties
<1>5. None \in NodeId /\ {} \in SUBSET (NodeId \X BOOLEAN)
  BY DEF NodeId
<1>6. <<>> \in Seq(Entry) /\ <<>> \in Seq(Node)
  BY EmptySeq
<1> HIDE DEF q, p, o
<1> QED BY <1>1, <1>2, <1>3, <1>4, <1>5, <1>6 DEF Boot, RaftObject, q, p, o
-----------------------------------------------------------------------------
(* What a call keeps *)

\* The fields below are the same: the call has touched only others.
SameRecord(s, r) ==
  /\ r.id = s.id
  /\ r.currentTerm = s.currentTerm
  /\ r.state = s.state
  /\ r.commitIndex = s.commitIndex
  /\ r.lastApplied = s.lastApplied
  /\ r.entries = s.entries

\* The same, with a commit index that may have moved forward.
OnlyCommits(s, r) ==
  /\ r.id = s.id
  /\ r.currentTerm = s.currentTerm
  /\ r.state = s.state
  /\ r.commitIndex >= s.commitIndex
  /\ r.lastApplied = s.lastApplied
  /\ r.entries = s.entries

\* A log that was r1 and is r2 has kept its first k entries.
KeepsPrefix(r1, r2, k) ==
  \A i \in 1..Len(r1) : i <= k => i <= Len(r2) /\ r2[i] = r1[i]

\* A call never lowers the term or the commit index, applies nothing that is not
\* committed, and keeps what is decided.
Safe(s, r) ==
  /\ r.id = s.id
  /\ r.currentTerm >= s.currentTerm
  /\ r.commitIndex >= s.commitIndex
  /\ s.lastApplied <= s.commitIndex => r.lastApplied <= r.commitIndex
  /\ KeepsPrefix(s.entries, r.entries, s.commitIndex)

\* A leader stays one and adds to its log, or gives way to a higher term.
Yields(s, r) ==
  s.state = "LEADER" =>
    \/ r.state = "LEADER" /\ KeepsPrefix(s.entries, r.entries, Len(s.entries))
    \/ r.state = "FOLLOWER" /\ r.currentTerm > s.currentTerm

\* An unchanged record is safe.
LEMMA SameIsSafe ==
  ASSUME NEW s \in RaftObject, NEW r, SameRecord(s, r)
  PROVE  Safe(s, r) /\ Yields(s, r)
BY LenProperties DEF SameRecord, Safe, Yields, KeepsPrefix, RaftObject

\* Two safe calls, one after the other, are safe.
LEMMA SafeTransitive ==
  ASSUME NEW s \in RaftObject, NEW r \in RaftObject, NEW u \in RaftObject,
         Safe(s, r), Safe(r, u)
  PROVE  Safe(s, u)
<1>0. /\ s.currentTerm \in Nat /\ r.currentTerm \in Nat /\ u.currentTerm \in Nat
      /\ s.commitIndex \in Nat /\ r.commitIndex \in Nat /\ u.commitIndex \in Nat
      /\ s.lastApplied \in Nat /\ r.lastApplied \in Nat /\ u.lastApplied \in Nat
      /\ s.entries \in Seq(Entry) /\ r.entries \in Seq(Entry)
      /\ u.entries \in Seq(Entry)
  BY DEF RaftObject
<1>1. Len(s.entries) \in Nat /\ Len(r.entries) \in Nat
  BY <1>0, LenProperties
<1>2. KeepsPrefix(s.entries, u.entries, s.commitIndex)
  <2>1. SUFFICES ASSUME NEW i \in 1..Len(s.entries), i <= s.commitIndex
                 PROVE  i <= Len(u.entries) /\ u.entries[i] = s.entries[i]
    BY DEF KeepsPrefix
  <2>2. i <= Len(r.entries) /\ r.entries[i] = s.entries[i]
    BY <2>1 DEF Safe, KeepsPrefix
  <2>3. i \in 1..Len(r.entries) /\ i <= r.commitIndex
    BY <1>0, <1>1, <2>1, <2>2 DEF Safe
  <2> QED BY <2>2, <2>3 DEF Safe, KeepsPrefix
<1> QED BY <1>0, <1>2 DEF Safe

\* Sending changes none of it.
LEMMA SendingSafe ==
  ASSUME NEW s \in RaftObject, NEW to, NEW m, NEW D
  PROVE  /\ SameRecord(s, Send(s, to, m))
         /\ SameRecord(s, BcastHeartbeat(s))
         /\ SameRecord(s, SendAppend(s, D))
<1> USE DEF SameRecord, RaftObject
<1>1. SameRecord(s, Send(s, to, m))
  BY DEF Send
<1>2. SameRecord(s, BcastHeartbeat(s))
  BY DEF BcastHeartbeat
<1>3. SameRecord(s, SendAppend(s, D))
  BY DEF SendAppend
<1> QED BY <1>1, <1>2, <1>3

\* A change of role keeps the log, and the term unless a higher one is given.
LEMMA RoleSafe ==
  ASSUME NEW s \in RaftObject, NEW t \in Nat, NEW l, t >= s.currentTerm
  PROVE  /\ Safe(s, StepDown(s, t, l))
         /\ StepDown(s, t, l).state = "FOLLOWER"
         /\ StepDown(s, t, l).currentTerm = t
         /\ Safe(s, BecomeCandidate(s)) /\ Yields(s, BecomeCandidate(s))
         /\ Safe(s, BecomeLeader(s)) /\ Yields(s, BecomeLeader(s))
<1>1. \A u : /\ Reset(s, u).id = s.id /\ Reset(s, u).currentTerm = u
             /\ Reset(s, u).commitIndex = s.commitIndex
             /\ Reset(s, u).lastApplied = s.lastApplied
             /\ Reset(s, u).entries = s.entries
             /\ Reset(s, u).state = s.state
             /\ DOMAIN Reset(s, u) = DOMAIN s
  BY DEF Reset, RaftObject
<1>2. s.currentTerm \in Nat /\ s.commitIndex \in Nat /\ Len(s.entries) \in Nat
  BY LenProperties DEF RaftObject
<1>3. "state" \in DOMAIN s
  BY DEF RaftObject
<1>4. /\ Safe(s, StepDown(s, t, l)) /\ StepDown(s, t, l).state = "FOLLOWER"
      /\ StepDown(s, t, l).currentTerm = t
  BY <1>1, <1>2, <1>3 DEF StepDown, Safe, KeepsPrefix
<1>5. Safe(s, BecomeCandidate(s)) /\ Yields(s, BecomeCandidate(s))
  BY <1>1, <1>2, <1>3 DEF BecomeCandidate, Safe, Yields, KeepsPrefix
<1>6. Safe(s, BecomeLeader(s)) /\ Yields(s, BecomeLeader(s))
  BY <1>1, <1>2, <1>3 DEF BecomeLeader, Safe, Yields, KeepsPrefix
<1> QED BY <1>4, <1>5, <1>6

\* So is one in which only the commit index has moved, and such calls compose.
LEMMA OnlyCommitsSafe ==
  ASSUME NEW s \in RaftObject, NEW r \in RaftObject, OnlyCommits(s, r)
  PROVE  /\ Safe(s, r) /\ Yields(s, r)
         /\ \A u \in RaftObject : SameRecord(r, u) => OnlyCommits(s, u)
BY LenProperties
DEF OnlyCommits, SameRecord, Safe, Yields, KeepsPrefix, RaftObject

\* maybeCommit() moves the commit index, and forward.
LEMMA MaybeCommitSafe ==
  ASSUME NEW s \in RaftObject
  PROVE  OnlyCommits(s, MaybeCommit(s))
<1>1. \A c \in Nat : OnlyCommits(s, CommitTo(s, c))
  BY DEF CommitTo, OnlyCommits, RaftObject
<1>2. OnlyCommits(s, s)
  BY DEF OnlyCommits, RaftObject
<1>3. Committable(s) # {} => (CHOOSE c \in Committable(s) : TRUE) \in Nat
  BY CommittableType
<1> QED BY <1>1, <1>2, <1>3 DEF MaybeCommit

\* A proposal adds one entry at the end.
LEMMA StepPropSafe ==
  ASSUME NEW s \in RaftObject, NEW v \in Value, s.state = "LEADER"
  PROVE  Safe(s, StepProp(s, v)) /\ Yields(s, StepProp(s, v))
<1> DEFINE e == [term |-> s.currentTerm, index |-> s.lastApplied + 1, data |-> v]
           r == [s EXCEPT !.entries = Append(s.entries, e)]
           u == AppendEntry(s, v)
<1>1. e \in Entry
  BY DEF Entry, RaftObject
<1>2. /\ Append(s.entries, e) \in Seq(Entry)
      /\ KeepsPrefix(s.entries, Append(s.entries, e), Len(s.entries))
      /\ KeepsPrefix(s.entries, Append(s.entries, e), s.commitIndex)
  BY <1>1, AppendProperties, LenProperties DEF KeepsPrefix, RaftObject
<1> HIDE DEF e
<1>3. r \in RaftObject
  BY <1>2 DEF RaftObject
<1>4. /\ r.id = s.id /\ r.currentTerm = s.currentTerm
      /\ r.commitIndex = s.commitIndex /\ r.lastApplied = s.lastApplied
      /\ r.entries = Append(s.entries, e) /\ r.state = "LEADER"
  BY DEF RaftObject
<1>5. s.currentTerm \in Nat /\ s.commitIndex \in Nat
  BY DEF RaftObject
<1> HIDE DEF r
<1>6. Safe(s, r)
  BY <1>2, <1>4, <1>5 DEF Safe
<1>7. Safe(r, MaybeCommit(r)) /\ MaybeCommit(r) \in RaftObject
  BY <1>3, MaybeCommitSafe, CommittableType, OnlyCommitsSafe
<1>8. /\ MaybeCommit(r).state = "LEADER"
      /\ MaybeCommit(r).entries = Append(s.entries, e)
  BY <1>3, <1>4, MaybeCommitSafe DEF OnlyCommits
<1>9. Safe(s, MaybeCommit(r))
  BY <1>3, <1>6, <1>7, SafeTransitive
<1>10. u = [MaybeCommit(r) EXCEPT !.ready = TRUE]
  BY DEF AppendEntry, r, e
<1>11. SameRecord(MaybeCommit(r), u) /\ u \in RaftObject
  BY <1>7, <1>10, StepPropType DEF SameRecord, RaftObject
<1> HIDE DEF u
<1>12. SameRecord(u, StepProp(s, v)) /\ StepProp(s, v) \in RaftObject
  BY <1>11, SendingSafe, StepPropType DEF StepProp, BcastAppend, u
<1>13. Safe(s, StepProp(s, v))
  BY <1>9, <1>11, <1>12 DEF SameRecord, Safe
<1>14. Yields(s, StepProp(s, v))
  BY <1>2, <1>8, <1>11, <1>12 DEF SameRecord, Yields
<1> QED BY <1>13, <1>14

\* What a response makes a leader do leaves its log and its role alone.
LEMMA StepLeaderSafe ==
  ASSUME NEW s \in RaftObject, NEW m \in Message, s.state = "LEADER"
  PROVE  Safe(s, StepLeader(s, m)) /\ Yields(s, StepLeader(s, m))
<1>1. ASSUME m.from \in s.peers
      PROVE  OnlyCommits(s, Acknowledge(s, m))
  <2> DEFINE p == MaybeUpdate(s.prs[m.from], m.index)
             q == IF p.state = "Probe" THEN BecomeReplicate(p)
                  ELSE IF p.state = "Snapshot" THEN BecomeProbe(p)
                  ELSE p
             t == [s EXCEPT !.prs[m.from] = q]
             u == BcastAppend(MaybeCommit(t))
  <2>1. m.from \in Node /\ s.prs[m.from] \in Progress /\ m.index \in Nat
    BY <1>1 DEF RaftObject, Message
  <2>2. q \in Progress
    BY <2>1, ProgressType
  <2> HIDE DEF p, q
  <2>3. t \in RaftObject
    BY <2>1, <2>2 DEF RaftObject
  <2>4. \A x : OnlyCommits(s, [s EXCEPT !.prs[m.from] = x])
    BY DEF OnlyCommits, RaftObject
  <2>5. OnlyCommits(s, t) /\ SameRecord(s, t)
    BY <2>4 DEF SameRecord, RaftObject
  <2> HIDE DEF t
  <2>6. MaybeCommit(t) \in RaftObject /\ OnlyCommits(t, MaybeCommit(t))
    BY <2>3, CommittableType, MaybeCommitSafe
  <2>7. OnlyCommits(s, MaybeCommit(t))
    BY <2>5, <2>6 DEF OnlyCommits, SameRecord
  <2>8. u \in RaftObject
    <3>1. MaybeCommit(t).peers \ {MaybeCommit(t).id} \in SUBSET Node
      BY <2>6 DEF RaftObject
    <3> QED BY <2>6, <3>1, SendAppendType DEF BcastAppend
  <2>9. SameRecord(MaybeCommit(t), u)
    BY <2>6, SendingSafe DEF BcastAppend
  <2>10. OnlyCommits(s, u)
    BY <2>6, <2>7, <2>8, <2>9, OnlyCommitsSafe
  <2> QED BY <2>4, <2>5, <2>10 DEF Acknowledge, p, q, t
<1>2. \A r \in RaftObject : SameRecord(r, CatchUp(r, m.from))
  BY SendingSafe DEF CatchUp, SameRecord
<1>3. OnlyCommits(s, s)
  BY DEF OnlyCommits, RaftObject
<1>4. OnlyCommits(s, StepLeader(s, m))
  <2>1. CASE m.from \notin s.peers
    BY <1>3, <2>1 DEF StepLeader
  <2>2. CASE m.from \in s.peers
    <3> DEFINE r == IF m.reject THEN s ELSE Acknowledge(s, m)
    <3>1. r \in RaftObject /\ OnlyCommits(s, r)
      BY <1>1, <1>3, <2>2, AcknowledgeType
    <3> HIDE DEF r
    <3>2. \A x \in RaftObject : CatchUp(x, m.from) \in RaftObject
      <4>1. {m.from} \in SUBSET Node
        BY <2>2 DEF RaftObject
      <4> QED BY <4>1, SendAppendType DEF CatchUp
    <3>3. OnlyCommits(s, CatchUp(r, m.from)) /\ OnlyCommits(s, CatchUp(s, m.from))
      BY <1>2, <1>3, <3>1, <3>2, OnlyCommitsSafe
    <3> QED BY <1>3, <2>2, <3>3 DEF StepLeader, r
  <2> QED BY <2>1, <2>2
<1> QED BY <1>4, StepLeaderType, OnlyCommitsSafe

\* Cutting a log behind position c and adding to it keeps the first c entries.
LEMMA SplicePrefix ==
  ASSUME NEW S, NEW log \in Seq(S), NEW new \in Seq(S), NEW k \in Nat,
         NEW c \in Nat, c <= k
  PROVE  KeepsPrefix(log, Truncate(log, k) \o new, c)
<1> DEFINE cut == Truncate(log, k)
<1>1. /\ cut \in Seq(S) /\ Len(log) \in Nat /\ Len(new) \in Nat
      /\ Len(cut) = IF k < Len(log) THEN k ELSE Len(log)
      /\ \A i \in 1..Len(cut) : cut[i] = log[i]
  BY TruncateProperties, LenProperties
<1> HIDE DEF cut
<1>2. Len(cut) \in Nat
  BY <1>1
<1>3. /\ Len(cut \o new) = Len(cut) + Len(new)
      /\ \A i \in 1..Len(cut) + Len(new) :
           (cut \o new)[i] = IF i <= Len(cut) THEN cut[i] ELSE new[i - Len(cut)]
  BY <1>1, ConcatProperties
<1>4. SUFFICES ASSUME NEW i \in 1..Len(log), i <= c
               PROVE  i <= Len(cut \o new) /\ (cut \o new)[i] = log[i]
  BY DEF KeepsPrefix, cut
<1>5. i \in 1..Len(cut) /\ i \in 1..Len(cut) + Len(new)
  BY <1>1, <1>2, <1>4
<1> QED BY <1>1, <1>2, <1>3, <1>5

\* A follower's log is cut only behind what it has decided: handleAppend()
\* answers a message about an earlier position without touching the log.
LEMMA HandleAppendSafe ==
  ASSUME NEW s \in RaftObject, NEW m \in Message
  PROVE  Safe(s, HandleAppend(s, m)) /\ HandleAppend(s, m).state = s.state
<1>0. /\ s.entries \in Seq(Entry) /\ m.entries \in Seq(Entry) /\ m.index \in Nat
      /\ s.commitIndex \in Nat /\ s.currentTerm \in Nat
      /\ Len(s.entries) \in Nat
  BY LenProperties DEF RaftObject, Message
<1>1. CASE m.index < s.commitIndex
  <2>1. HandleAppend(s, m) = Send(s, m.from, AppResp(s, s.commitIndex, FALSE))
    BY <1>1 DEF HandleAppend
  <2>2. SameRecord(s, HandleAppend(s, m))
    BY <2>1, SendingSafe
  <2>3. Safe(s, HandleAppend(s, m))
    BY <2>2, SameIsSafe
  <2> QED BY <2>2, <2>3 DEF SameRecord
<1>2. CASE ~(m.index < s.commitIndex)
  <2> DEFINE log == Truncate(s.entries, m.index) \o m.entries
             u == MaybeAppend(s, m)
             w == [u EXCEPT !.ready = TRUE]
  <2>4. KeepsPrefix(s.entries, log, s.commitIndex)
    BY <1>0, <1>2, SplicePrefix
  <2> HIDE DEF log
  <2>5. /\ u.id = s.id /\ u.currentTerm = s.currentTerm /\ u.state = s.state
        /\ u.commitIndex = s.commitIndex /\ u.lastApplied = s.lastApplied
        /\ u.entries = s.entries \/ u.entries = log
    BY DEF MaybeAppend, RaftObject, log
  <2>6. KeepsPrefix(s.entries, s.entries, s.commitIndex)
    BY <1>0 DEF KeepsPrefix
  <2>7. Safe(s, u) /\ u \in RaftObject
    BY <1>0, <2>4, <2>5, <2>6, MaybeAppendType DEF Safe
  <2>8. SameRecord(u, w) /\ w \in RaftObject
    BY <2>7 DEF SameRecord, RaftObject
  <2> HIDE DEF u, w
  <2>9. \A k : /\ SameRecord(w, Send(w, m.from, k))
               /\ SameRecord(u, Send(u, m.from, k))
    BY <2>7, <2>8, SendingSafe
  <2>10. SameRecord(u, HandleAppend(s, m))
    BY <1>2, <2>8, <2>9 DEF HandleAppend, SameRecord, u, w
  <2> QED BY <2>5, <2>7, <2>10 DEF Safe, SameRecord
<1> QED BY <1>1, <1>2

\* A heartbeat moves the commit index forward or not at all.
LEMMA HandleHeartbeatSafe ==
  ASSUME NEW s \in RaftObject, NEW m \in Message
  PROVE  Safe(s, HandleHeartbeat(s, m)) /\ HandleHeartbeat(s, m).state = s.state
<1>1. m.commit \in Nat
  BY DEF Message
<1>2. CommitTo(s, m.commit) \in RaftObject /\ OnlyCommits(s, CommitTo(s, m.commit))
  <2>1. \A c \in Nat : CommitTo(s, c) \in RaftObject
    BY DEF CommitTo, RaftObject
  <2>2. \A c \in Nat : OnlyCommits(s, CommitTo(s, c))
    BY DEF CommitTo, OnlyCommits, RaftObject
  <2> QED BY <1>1, <2>1, <2>2
<1>3. SameRecord(CommitTo(s, m.commit), HandleHeartbeat(s, m))
  BY <1>2, SendingSafe DEF HandleHeartbeat
<1>4. OnlyCommits(s, HandleHeartbeat(s, m))
  BY <1>2, <1>3, HandleType, OnlyCommitsSafe
<1> QED BY <1>4, HandleType, OnlyCommitsSafe DEF OnlyCommits

\* A follower's term grows, because generalStep() has compared the terms.
LEMMA StepFollowerSafe ==
  ASSUME NEW s \in RaftObject, NEW m \in Message,
         m.type = "MsgHeartbeat" => m.term >= s.currentTerm
  PROVE  Safe(s, StepFollower(s, m)) /\ StepFollower(s, m).state = s.state
<1> DEFINE r == [s EXCEPT !.leader = m.from,
                   !.currentTerm = IF s.leader # m.from THEN m.term ELSE @]
           u == [s EXCEPT !.leader = m.from]
<1>0. m.from \in NodeId /\ m.term \in Nat /\ s.currentTerm \in Nat
      /\ Len(s.entries) \in Nat /\ s.commitIndex \in Nat
  BY LenProperties DEF Message, RaftObject
<1>1. CASE m.type = "MsgHeartbeat"
  <2>1. m.term \in Nat \ {0}
    BY <1>1 DEF Message
  <2>2. PICK t \in Nat \ {0} :
          t = (IF s.leader # m.from THEN m.term ELSE s.currentTerm)
    BY <1>0, <2>1 DEF RaftObject
  <2>3. t >= s.currentTerm
    BY <1>0, <1>1, <2>2
  <2>4. r = [s EXCEPT !.leader = m.from, !.currentTerm = t]
    BY <2>2
  <2>5. r \in RaftObject /\ r.state = s.state
    BY <1>0, <2>2, <2>4 DEF RaftObject
  <2>6. Safe(s, r)
    <3>1. /\ r.id = s.id /\ r.currentTerm = t /\ r.commitIndex = s.commitIndex
          /\ r.lastApplied = s.lastApplied /\ r.entries = s.entries
      BY <2>4 DEF RaftObject
    <3> QED BY <1>0, <2>3, <3>1 DEF Safe, KeepsPrefix
  <2> HIDE DEF r
  <2>7. Safe(r, HandleHeartbeat(r, m)) /\ HandleHeartbeat(r, m).state = r.state
        /\ HandleHeartbeat(r, m) \in RaftObject
    BY <2>5, HandleHeartbeatSafe, HandleType
  <2>8. Safe(s, HandleHeartbeat(r, m))
    BY <2>5, <2>6, <2>7, SafeTransitive
  <2>9. StepFollower(s, m) = HandleHeartbeat(r, m)
    BY <1>1 DEF StepFollower, r
  <2> QED BY <2>5, <2>7, <2>8, <2>9
<1>2. CASE m.type = "MsgApp"
  <2>1. u \in RaftObject /\ SameRecord(s, u)
    BY <1>0 DEF SameRecord, RaftObject
  <2> HIDE DEF u
  <2>2. Safe(u, HandleAppend(u, m)) /\ HandleAppend(u, m).state = u.state
        /\ HandleAppend(u, m) \in RaftObject
    BY <2>1, HandleAppendSafe, HandleType
  <2>3. Safe(s, HandleAppend(u, m))
    BY <2>1, <2>2, SameIsSafe, SafeTransitive
  <2>4. StepFollower(s, m) = HandleAppend(u, m)
    BY <1>2 DEF StepFollower, u
  <2> QED BY <2>1, <2>2, <2>3, <2>4 DEF SameRecord
<1>3. CASE m.type # "MsgHeartbeat" /\ m.type # "MsgApp"
  BY <1>0, <1>3 DEF StepFollower, Safe, KeepsPrefix, RaftObject
<1> QED BY <1>1, <1>2, <1>3

\* A candidate that yields to a leader keeps its term.
LEMMA StepCandidateSafe ==
  ASSUME NEW s \in RaftObject, NEW m \in Message
  PROVE  Safe(s, StepCandidate(s, m))
<1> DEFINE r == StepDown(s, s.currentTerm, m.from)
           t == RecordVote(s, m.from, ~ m.reject)
<1>0. /\ m.from \in NodeId /\ m.reject \in BOOLEAN
      /\ s.currentTerm \in Nat \ {0} /\ None \in NodeId
  BY DEF Message, NodeId, RaftObject
<1>1. SameRecord(s, s)
  BY DEF SameRecord
<1>2. r \in RaftObject /\ Safe(s, r)
  BY <1>0, RoleType, RoleSafe
<1> HIDE DEF r
<1>3. Safe(s, HandleHeartbeat(r, m)) /\ Safe(s, HandleAppend(r, m))
  <2>1. /\ Safe(r, HandleHeartbeat(r, m)) /\ HandleHeartbeat(r, m) \in RaftObject
        /\ Safe(r, HandleAppend(r, m)) /\ HandleAppend(r, m) \in RaftObject
    BY <1>2, HandleHeartbeatSafe, HandleAppendSafe, HandleType
  <2> QED BY <1>2, <2>1, SafeTransitive
<1>4. t \in RaftObject /\ SameRecord(s, t)
  <2>1. t \in RaftObject
    BY <1>0, RecordVoteType
  <2>2. SameRecord(s, t)
    BY DEF RecordVote, SameRecord, RaftObject
  <2> QED BY <2>1, <2>2
<1> HIDE DEF t
<1>5. t.currentTerm \in Nat \ {0}
  BY <1>4 DEF RaftObject
<1>6. /\ Safe(t, StepDown(t, t.currentTerm, None))
      /\ StepDown(t, t.currentTerm, None) \in RaftObject
  BY <1>0, <1>4, <1>5, RoleType, RoleSafe
<1>7. Safe(t, BecomeLeader(t)) /\ BecomeLeader(t) \in RaftObject
  BY <1>0, <1>4, <1>5, RoleType, RoleSafe
<1>8. BecomeLeader(t).peers \ {BecomeLeader(t).id} \in SUBSET Node
  BY <1>7 DEF RaftObject
<1>9. /\ BcastAppend(BecomeLeader(t)) \in RaftObject
      /\ SameRecord(BecomeLeader(t), BcastAppend(BecomeLeader(t)))
  BY <1>7, <1>8, SendAppendType, SendingSafe DEF BcastAppend
<1>10. Safe(t, BcastAppend(BecomeLeader(t)))
  BY <1>4, <1>7, <1>9, SameIsSafe, SafeTransitive
<1>11. /\ Safe(s, t) /\ Safe(s, StepDown(t, t.currentTerm, None))
       /\ Safe(s, BcastAppend(BecomeLeader(t)))
  BY <1>4, <1>6, <1>9, <1>10, SameIsSafe, SafeTransitive
<1>12. Safe(s, CountVote(s, m))
  BY <1>11 DEF CountVote, t
<1> QED BY <1>1, <1>3, <1>12, SameIsSafe DEF StepCandidate, r

\* The handlers that do not look at the role leave all of it alone.
LEMMA HandleVoteNodeSafe ==
  ASSUME NEW s \in RaftObject, NEW m \in Message
  PROVE  /\ SameRecord(s, HandleVote(s, m))
         /\ m.type = "MsgNode" => SameRecord(s, HandleNode(s, m))
<1>1. SameRecord(s, HandleVote(s, m))
  <2>1. \A k : /\ SameRecord(s, Send(s, m.from, k))
               /\ DOMAIN Send(s, m.from, k) = DOMAIN s
    BY SendingSafe DEF Send
  <2>2. \A r : SameRecord(s, r) /\ DOMAIN r = DOMAIN s =>
                SameRecord(s, [r EXCEPT !.vote = m.from])
    BY DEF SameRecord, RaftObject
  <2> QED BY <2>1, <2>2 DEF HandleVote
<1>2. ASSUME m.type = "MsgNode"
      PROVE  SameRecord(s, HandleNode(s, m))
  <2> DEFINE r == AddNode(s, m.from)
             u == [r EXCEPT !.unknownid = Append(@, m.from)]
  <2>1. m.from \in Node
    BY <1>2 DEF Message
  <2>2. SameRecord(s, r) /\ DOMAIN r = DOMAIN s
    BY DEF AddNode, SameRecord, RaftObject
  <2>3. \A x : SameRecord(s, [r EXCEPT !.unknownid = x])
    BY <2>2 DEF SameRecord, RaftObject
  <2>4. u \in RaftObject
    <3>1. r \in RaftObject
      <4>1. s.lastApplied \in Nat
        BY DEF RaftObject
      <4>2. NewProgress(s.lastApplied + 1) \in Progress
        BY <4>1 DEF NewProgress, Progress, ProgressState
      <4>3. \A p \in Progress :
              [s EXCEPT !.peers = s.peers \cup {m.from}, !.prs[m.from] = p]
                \in RaftObject
        BY <2>1 DEF RaftObject
      <4> QED BY <4>2, <4>3 DEF AddNode
    <3>2. Append(r.unknownid, m.from) \in Seq(Node)
      BY <2>1, <3>1, AppendProperties DEF RaftObject
    <3> HIDE DEF r
    <3> QED BY <3>1, <3>2 DEF RaftObject
  <2>5. SameRecord(s, u)
    BY <2>3
  <2> HIDE DEF u
  <2>6. \A k : SameRecord(u, Send(u, m.from, k))
    BY <2>4, SendingSafe
  <2> QED BY <2>5, <2>6 DEF HandleNode, SameRecord, r, u
<1> QED BY <1>1, <1>2

\* One message through generalStep().
LEMMA GeneralStepSafe ==
  ASSUME NEW s \in RaftObject, NEW m \in Message
  PROVE  Safe(s, GeneralStep(s, m)) /\ Yields(s, GeneralStep(s, m))
<1>0. /\ m.term \in Nat /\ m.from \in NodeId /\ s.currentTerm \in Nat \ {0}
      /\ m.type = "MsgHeartbeat" => m.term > 0
  BY DEF RaftObject, Message
<1>1. ASSUME NEW r \in RaftObject,
             m.type = "MsgHeartbeat" => m.term >= r.currentTerm
      PROVE  /\ Safe(r, Dispatch(r, m))
             /\ r.state = "LEADER" => Yields(r, Dispatch(r, m))
             /\ r.state = "FOLLOWER" => Dispatch(r, m).state = "FOLLOWER"
             /\ Dispatch(r, m) \in RaftObject
  <2>1. CASE m.type = "MsgVote"
    BY <2>1, HandleVoteNodeSafe, HandleVoteType, SameIsSafe DEF Dispatch, SameRecord
  <2>2. CASE m.type = "MsgNode"
    BY <2>2, HandleVoteNodeSafe, HandleNodeType, SameIsSafe DEF Dispatch, SameRecord
  <2>3. CASE m.type # "MsgVote" /\ m.type # "MsgNode"
    <3>1. Dispatch(r, m) = Step(r, m)
      BY <2>3 DEF Dispatch
    <3>2. CASE r.state = "LEADER"
      BY <3>1, <3>2, StepLeaderSafe, StepLeaderType DEF Step
    <3>3. CASE r.state = "CANDIDATE"
      BY <3>1, <3>3, StepCandidateSafe, StepCandidateType DEF Step
    <3>4. CASE r.state = "FOLLOWER"
      BY <1>1, <3>1, <3>4, StepFollowerSafe, StepFollowerType DEF Step
    <3> QED BY <3>2, <3>3, <3>4 DEF RaftObject
  <2> QED BY <2>1, <2>2, <2>3
<1>2. CASE m.term # 0 /\ m.term < s.currentTerm
  <2>1. GeneralStep(s, m) = s /\ SameRecord(s, s)
    BY <1>2 DEF GeneralStep, SameRecord
  <2> QED BY <2>1, SameIsSafe
<1>3. CASE m.term > s.currentTerm
  <2> DEFINE r == StepDown(s, m.term, m.from)
  <2>1. m.term \in Nat \ {0}
    BY <1>0, <1>3
  <2>2. /\ r \in RaftObject /\ Safe(s, r) /\ r.state = "FOLLOWER"
        /\ r.currentTerm = m.term
    BY <1>0, <1>3, <2>1, RoleType, RoleSafe
  <2> HIDE DEF r
  <2>3. /\ Safe(r, Dispatch(r, m)) /\ Dispatch(r, m).state = "FOLLOWER"
        /\ Dispatch(r, m) \in RaftObject
    BY <1>0, <1>1, <2>2
  <2>4. Safe(s, Dispatch(r, m))
    BY <2>2, <2>3, SafeTransitive
  <2>5. Dispatch(r, m).currentTerm \in Nat /\ Dispatch(r, m).currentTerm >= m.term
    BY <2>2, <2>3 DEF RaftObject, Safe
  <2>6. Yields(s, Dispatch(r, m))
    BY <1>0, <1>3, <2>3, <2>5 DEF Yields
  <2>7. GeneralStep(s, m) = Dispatch(r, m)
    BY <1>0, <1>3 DEF GeneralStep, r
  <2> QED BY <2>4, <2>6, <2>7
<1>4. CASE ~(m.term # 0 /\ m.term < s.currentTerm) /\ ~(m.term > s.currentTerm)
  <2>1. GeneralStep(s, m) = Dispatch(s, m)
    BY <1>4 DEF GeneralStep
  <2>2. m.type = "MsgHeartbeat" => m.term >= s.currentTerm
    BY <1>0, <1>4
  <2>3. s.state # "LEADER" => Yields(s, Dispatch(s, m))
    BY DEF Yields
  <2> QED BY <1>1, <2>1, <2>2, <2>3
<1> QED BY <1>2, <1>3, <1>4

\* The persist thread applies what is committed, or nothing, and leaves _entries
\* and the role alone.
LEMMA StorageLogSafe ==
  ASSUME NEW s \in RaftObject
  PROVE  Safe(s, StorageLog(s)) /\ Yields(s, StorageLog(s))
<1> DEFINE Keeps(r) == /\ r.id = s.id /\ r.currentTerm = s.currentTerm
                       /\ r.state = s.state /\ r.commitIndex = s.commitIndex
                       /\ r.entries = s.entries /\ DOMAIN r = DOMAIN s
<1>0. /\ s.commitIndex \in Nat /\ s.lastApplied \in Nat /\ s.currentTerm \in Nat
      /\ Len(s.entries) \in Nat
  BY LenProperties DEF RaftObject
<1>1. \A x, y : LET r == [s EXCEPT !.storage = x, !.corrupt = y]
               IN  Keeps(r) /\ r.lastApplied = s.lastApplied
  BY DEF RaftObject
<1>2. ASSUME NEW r, Keeps(r), r.lastApplied = s.lastApplied
      PROVE  LET u == AppliedTo(r, s.commitIndex)
             IN  /\ Keeps(u)
                 /\ u.lastApplied = s.lastApplied \/ u.lastApplied = s.commitIndex
  BY <1>2 DEF AppliedTo, RaftObject
<1>3. Keeps(s)
  OBVIOUS
<1> DEFINE written == [s EXCEPT !.storage = StorageBatch(s),
                                !.corrupt = s.corrupt \/ \E i \in DOMAIN StorageBatch(s) :
                                              StorageBatch(s)[i].data = None]
<1>4. Keeps(written) /\ written.lastApplied = s.lastApplied
  <2> HIDE DEF Keeps
  <2> QED BY <1>1
<1>5. PICK r : /\ StorageLog(s) = AppliedTo(r, s.commitIndex)
               /\ Keeps(r) /\ r.lastApplied = s.lastApplied
  <2> HIDE DEF Keeps
  <2>1. StorageLog(s) \in {AppliedTo(written, s.commitIndex), AppliedTo(s, s.commitIndex)}
    BY DEF StorageLog
  <2> HIDE DEF written
  <2> QED BY <1>3, <1>4, <2>1
<1> HIDE DEF Keeps, written
<1>6. /\ Keeps(StorageLog(s))
      /\ \/ StorageLog(s).lastApplied = s.lastApplied
         \/ StorageLog(s).lastApplied = s.commitIndex
  BY <1>2, <1>5
<1> QED BY <1>0, <1>6 DEF Keeps, Safe, Yields, KeepsPrefix
-----------------------------------------------------------------------------
(* Steps *)

\* In a step node x goes on, or it is started again.
Continues(x) == Safe(raft[x], raft'[x]) /\ Yields(raft[x], raft'[x])
Reboots(x) ==
  "restart" \in Faults /\ raft'[x].lastApplied = 0 /\ raft'[x].commitIndex = 0

\* What a step does to the objects.
Sound ==
  /\ raft' \in [Node -> RaftObject]
  /\ \A x \in Node : raft'[x].id = x
  /\ \A x \in Node : Continues(x) \/ Reboots(x)

\* A queue of an object may be replaced, and nothing else changes.
LEMMA QueueType ==
  ASSUME NEW s \in RaftObject, NEW d \in Node, NEW q \in Seq(Message)
  PROVE  /\ [s EXCEPT !.sendmsgs[d] = q] \in RaftObject
         /\ SameRecord(s, [s EXCEPT !.sendmsgs[d] = q])
<1>1. [s.sendmsgs EXCEPT ![d] = q] \in [Node -> Seq(Message)]
  BY DEF RaftObject
<1>2. [s EXCEPT !.sendmsgs[d] = q] \in RaftObject
  BY <1>1, SendmsgsType
<1>3. SameRecord(s, [s EXCEPT !.sendmsgs[d] = q])
  BY DEF SameRecord, RaftObject
<1> QED BY <1>2, <1>3

\* Two messages parsed as one are a message: the type is the second's, and so is
\* the term of a heartbeat or the sender of a MsgNode.
LEMMA MergeType ==
  ASSUME NEW a \in Message, NEW b \in Message
  PROVE  Merge(a, b) \in Message
<1>1. a.entries \o b.entries \in Seq(Entry)
  BY ConcatProperties DEF Message
<1> DEFINE log == a.entries \o b.entries
<1> HIDE DEF log
<1>2. log \in Seq(Entry)
  BY <1>1 DEF log
<1>3. None \notin Node
  BY NodeAssumption
<1> QED BY <1>2, <1>3 DEF Merge, Message, NodeId, log

\* A step that changes one object, safely, is sound.
LEMMA OneChanges ==
  ASSUME TypeOK, NEW n \in Node, NEW r \in RaftObject,
         Safe(raft[n], r), Yields(raft[n], r), raft' = [raft EXCEPT ![n] = r]
  PROVE  Sound
<1>1. \A x \in Node : /\ raft[x] \in RaftObject /\ raft[x].id = x
                      /\ raft'[x] = IF x = n THEN r ELSE raft[x]
  BY DEF TypeOK
<1>2. \A x \in Node : Safe(raft[x], raft[x]) /\ Yields(raft[x], raft[x])
  BY <1>1, SameIsSafe DEF SameRecord
<1>3. raft' \in [Node -> RaftObject]
  BY DEF TypeOK
<1>4. r.id = n
  BY <1>1 DEF Safe
<1> QED BY <1>1, <1>2, <1>3, <1>4 DEF Sound, Continues

\* So is one that changes no object.
LEMMA NoneChanges ==
  ASSUME TypeOK, raft' = raft
  PROVE  Sound
<1>1. \A x \in Node : raft[x] \in RaftObject /\ raft[x].id = x
  BY DEF TypeOK
<1>2. \A x \in Node : Safe(raft[x], raft[x]) /\ Yields(raft[x], raft[x])
  BY <1>1, SameIsSafe DEF SameRecord
<1> QED BY <1>1, <1>2 DEF Sound, Continues, TypeOK

\* One that changes two queues, or a queue and an object.
LEMMA TwoChange ==
  ASSUME TypeOK, NEW n \in Node, NEW m \in Node, n # m,
         NEW r \in RaftObject, Safe(raft[n], r), Yields(raft[n], r),
         NEW u \in RaftObject, SameRecord(raft[m], u),
         raft' = [raft EXCEPT ![n] = r, ![m] = u]
  PROVE  Sound
<1>1. \A x \in Node : /\ raft[x] \in RaftObject /\ raft[x].id = x
                      /\ raft'[x] = IF x = n THEN r
                                    ELSE IF x = m THEN u ELSE raft[x]
  BY DEF TypeOK
<1>2. \A x \in Node : Safe(raft[x], raft[x]) /\ Yields(raft[x], raft[x])
  BY <1>1, SameIsSafe DEF SameRecord
<1>3. raft' \in [Node -> RaftObject]
  BY DEF TypeOK
<1>4. r.id = n /\ u.id = m
  BY <1>1 DEF Safe, SameRecord
<1>5. Safe(raft[m], u) /\ Yields(raft[m], u)
  BY <1>1, SameIsSafe
<1> QED BY <1>1, <1>2, <1>3, <1>4, <1>5 DEF Sound, Continues

\* A message is taken from a queue and handled: two objects change.
LEMMA StepNodeSound ==
  ASSUME TypeOK, NEW n \in Node, NEW src \in Node \ {n}, StepNode(n, src)
  PROVE  Sound
<1> DEFINE q == raft[src].sendmsgs[n]
           r == GeneralStep(raft[n], Head(q))
           u == [raft[src] EXCEPT !.sendmsgs[n] = Tail(q)]
<1>1. raft[n] \in RaftObject /\ raft[src] \in RaftObject
  BY DEF TypeOK
<1>2. q \in Seq(Message) /\ q # <<>>
  BY <1>1 DEF StepNode, Deliverable, RaftObject
<1>3. Head(q) \in Message /\ Tail(q) \in Seq(Message)
  BY <1>2, HeadTailProperties
<1>4. r \in RaftObject /\ Safe(raft[n], r) /\ Yields(raft[n], r)
  BY <1>1, <1>3, GeneralStepType, GeneralStepSafe
<1>5. u \in RaftObject /\ SameRecord(raft[src], u)
  BY <1>1, <1>3, QueueType
<1>6. raft' = [raft EXCEPT ![n] = r, ![src] = u]
  BY DEF StepNode, Takes, TypeOK
<1> HIDE DEF r, u
<1> QED BY <1>4, <1>5, <1>6, TwoChange

\* The actions of the tick thread.
LEMMA TickSound ==
  ASSUME TypeOK, NEW n \in Node
  PROVE  /\ TickElection(n) => Sound
         /\ Elect(n) => Sound
         /\ TickHeartbeat(n) => Sound
<1>1. raft[n] \in RaftObject /\ raft[n].id = n /\ n \in NodeId
  BY DEF TypeOK, NodeId
<1>2. /\ raft[n].currentTerm \in Nat \ {0} /\ raft[n].currentTerm \in Nat
      /\ raft[n].currentTerm >= raft[n].currentTerm /\ None \in NodeId
  BY <1>1 DEF RaftObject, NodeId
<1>3. ASSUME TickElection(n)
      PROVE  Sound
  <2>1. /\ BecomeCandidate(raft[n]) \in RaftObject
        /\ Safe(raft[n], BecomeCandidate(raft[n]))
        /\ Yields(raft[n], BecomeCandidate(raft[n]))
    BY <1>1, <1>2, RoleType, RoleSafe
  <2> QED BY <1>3, <2>1, OneChanges DEF TickElection, Becomes
<1>4. ASSUME Elect(n)
      PROVE  Sound
  <2> DEFINE s == RecordVote(raft[n], n, TRUE)
             q == [d \in Node |-> IF d \in s.peers \ {n}
                                    THEN Append(s.sendmsgs[d], VoteRequest(s))
                                    ELSE s.sendmsgs[d]]
             r == IF Quorum(s) = Granted(s) THEN BecomeLeader(s)
                  ELSE [s EXCEPT !.sendmsgs = q]
  <2>1. s \in RaftObject
    BY <1>1, RecordVoteType
  <2>2. SameRecord(raft[n], s)
    BY <1>1 DEF RecordVote, SameRecord, RaftObject
  <2> HIDE DEF s
  <2>3. BecomeLeader(s) \in RaftObject /\ Safe(s, BecomeLeader(s))
    <3>1. s.currentTerm \in Nat \ {0} /\ s.currentTerm \in Nat
          /\ s.currentTerm >= s.currentTerm
      BY <2>1 DEF RaftObject
    <3> QED BY <1>2, <2>1, <3>1, RoleType, RoleSafe
  <2>4. VoteRequest(s) \in Message
    <3>1. s.currentTerm \in Nat /\ s.lastApplied \in Nat /\ s.commitIndex \in Nat
      BY <2>1 DEF RaftObject
    <3> QED BY <3>1, MessagesType DEF VoteRequest
  <2>5. q \in [Node -> Seq(Message)]
    <3>1. s.sendmsgs \in [Node -> Seq(Message)]
      BY <2>1 DEF RaftObject
    <3> QED BY <2>4, <3>1
  <2> HIDE DEF q
  <2>6. /\ [s EXCEPT !.sendmsgs = q] \in RaftObject
        /\ SameRecord(s, [s EXCEPT !.sendmsgs = q])
    BY <2>1, <2>5, SendmsgsType, SendmsgsSame DEF SameRecord
  <2>7. r \in RaftObject /\ Safe(s, r)
    BY <2>1, <2>3, <2>6, SameIsSafe
  <2>8. r.state = "LEADER" \/ r.state = s.state
    <3>1. BecomeLeader(s).state = "LEADER" \/ BecomeLeader(s) = s
      BY <2>1 DEF BecomeLeader, Reset, RaftObject
    <3> QED BY <2>6, <3>1 DEF SameRecord
  <2>9. r.entries = s.entries
    <3>1. BecomeLeader(s).entries = s.entries
      BY <2>1 DEF BecomeLeader, Reset, RaftObject
    <3> QED BY <2>6, <3>1 DEF SameRecord
  <2>10. raft' = [raft EXCEPT ![n] = r]
    BY <1>4 DEF Elect, Becomes, r, q, s
  <2> HIDE DEF r
  <2>11. Safe(raft[n], r)
    BY <1>1, <2>1, <2>2, <2>7, SameIsSafe, SafeTransitive
  <2>12. Yields(raft[n], r)
    <3>1. Len(s.entries) \in Nat
      BY <2>1, LenProperties DEF RaftObject
    <3> QED BY <2>2, <2>8, <2>9, <3>1 DEF SameRecord, Yields, KeepsPrefix
  <2> QED BY <2>7, <2>10, <2>11, <2>12, OneChanges
<1>5. ASSUME TickHeartbeat(n)
      PROVE  Sound
  <2>1. /\ BcastHeartbeat(raft[n]) \in RaftObject
        /\ Safe(raft[n], BcastHeartbeat(raft[n]))
        /\ Yields(raft[n], BcastHeartbeat(raft[n]))
    BY <1>1, BcastHeartbeatType, SendingSafe, SameIsSafe
  <2> QED BY <1>5, <2>1, OneChanges DEF TickHeartbeat, Becomes
<1> QED BY <1>3, <1>4, <1>5

\* A proposal, and the actions of the other threads.
LEMMA ThreadSound ==
  ASSUME TypeOK, NEW n \in Node
  PROVE  /\ \A v \in Value : Propose(n, v) => Sound
         /\ Persist(n) => Sound
         /\ Bind(n) => Sound
         /\ \A d \in Node : Discard(n, d) => Sound
         /\ \A d \in Node : Lose(n, d) => Sound
<1>1. raft[n] \in RaftObject
  BY DEF TypeOK
<1>2. ASSUME NEW v \in Value, Propose(n, v)
      PROVE  Sound
  <2>1. CASE raft[n].peers = {}
    BY <1>2, <2>1, NoneChanges DEF Propose
  <2>2. CASE raft[n].peers # {}
    <3>1. /\ StepProp(raft[n], v) \in RaftObject
          /\ Safe(raft[n], StepProp(raft[n], v))
          /\ Yields(raft[n], StepProp(raft[n], v))
      BY <1>1, <1>2, StepPropType, StepPropSafe DEF Propose
    <3>2. raft' = [raft EXCEPT ![n] = StepProp(raft[n], v)]
      BY <1>2, <2>2 DEF Propose, Becomes
    <3> QED BY <3>1, <3>2, OneChanges
  <2> QED BY <2>1, <2>2
<1>3. ASSUME Persist(n)
      PROVE  Sound
  <2> DEFINE s == StorageLog(raft[n])
             r == [s EXCEPT !.ready = FALSE]
  <2>1. s \in RaftObject /\ Safe(raft[n], s) /\ Yields(raft[n], s)
    BY <1>1, StorageLogType, StorageLogSafe
  <2> HIDE DEF s
  <2>2. r \in RaftObject /\ SameRecord(s, r)
    BY <2>1 DEF SameRecord, RaftObject
  <2>3. raft' = [raft EXCEPT ![n] = r]
    BY <1>3 DEF Persist, Becomes, s
  <2> HIDE DEF r
  <2>4. Safe(raft[n], r) /\ Yields(raft[n], r)
    BY <2>1, <2>2 DEF SameRecord, Safe, Yields
  <2> QED BY <2>2, <2>3, <2>4, OneChanges
<1>4. ASSUME Bind(n)
      PROVE  Sound
  <2> DEFINE u == raft[n].unknownid
             p == raft[n].peersfd \cup {Head(u)}
             r == [raft[n] EXCEPT !.peersfd = p, !.unknownid = Tail(u)]
  <2>1. u \in Seq(Node) /\ u # <<>>
    BY <1>1, <1>4 DEF Bind, RaftObject
  <2>2. p \in SUBSET Node /\ Tail(u) \in Seq(Node)
    BY <1>1, <2>1, HeadTailProperties DEF RaftObject
  <2> HIDE DEF u, p
  <2>3. r \in RaftObject /\ SameRecord(raft[n], r)
    BY <1>1, <2>2 DEF SameRecord, RaftObject
  <2>4. raft' = [raft EXCEPT ![n] = r]
    BY <1>4 DEF Bind, Becomes, p, u
  <2> QED BY <1>1, <2>3, <2>4, OneChanges, SameIsSafe
<1>5. ASSUME NEW d \in Node, raft[n].sendmsgs[d] # <<>>,
             raft' = [raft EXCEPT ![n].sendmsgs[d] = Tail(@)]
      PROVE  Sound
  <2> DEFINE q == raft[n].sendmsgs[d]
             r == [raft[n] EXCEPT !.sendmsgs[d] = Tail(q)]
  <2>1. Tail(q) \in Seq(Message)
    BY <1>1, <1>5, HeadTailProperties DEF RaftObject
  <2>2. r \in RaftObject /\ SameRecord(raft[n], r)
    BY <1>1, <2>1, QueueType
  <2>3. raft' = [raft EXCEPT ![n] = r]
    BY <1>5
  <2> HIDE DEF r
  <2> QED BY <1>1, <2>2, <2>3, OneChanges, SameIsSafe
<1> QED BY <1>2, <1>3, <1>4, <1>5 DEF Discard, Lose, Deliverable

\* Two messages become one: the head of one queue, or of two.
LEMMA CoalesceSound ==
  ASSUME TypeOK, NEW n \in Node, NEW m \in Node, NEW d \in Node,
         Coalesce(m, n, d)
  PROVE  Sound
<1> DEFINE q == raft[m].sendmsgs[d]
           k == raft[n].sendmsgs[d]
<1>1. raft[n] \in RaftObject /\ raft[m] \in RaftObject
  BY DEF TypeOK
<1>2. q \in Seq(Message) /\ q # <<>> /\ Len(q) \in Nat
  BY <1>1, LenProperties DEF Coalesce, Deliverable, RaftObject
<1>3. Head(q) \in Message /\ Tail(q) \in Seq(Message)
  BY <1>2, HeadTailProperties
<1>4. CASE m = n /\ Len(q) > 1
           /\ raft' = [raft EXCEPT ![m].sendmsgs[d] =
                         <<Merge(q[1], q[2])>> \o SubSeq(q, 3, Len(q))]
  <2> DEFINE x == <<Merge(q[1], q[2])>> \o SubSeq(q, 3, Len(q))
             r == [raft[m] EXCEPT !.sendmsgs[d] = x]
  <2>1. q[1] \in Message /\ q[2] \in Message
    BY <1>2, <1>4, ElementOfSeq
  <2>2. SubSeq(q, 3, Len(q)) \in Seq(Message)
    BY <1>2, SubSeqType
  <2>3. <<Merge(q[1], q[2])>> \in Seq(Message)
    <3>1. Merge(q[1], q[2]) \in Message
      BY <2>1, MergeType
    <3> QED BY <3>1
  <2>4. x \in Seq(Message)
    BY <2>2, <2>3, ConcatProperties
  <2>5. raft' = [raft EXCEPT ![m] = r]
    BY <1>4
  <2> HIDE DEF x
  <2>6. r \in RaftObject /\ SameRecord(raft[m], r)
    BY <1>1, <2>4, QueueType
  <2> HIDE DEF r
  <2> QED BY <1>1, <2>5, <2>6, OneChanges, SameIsSafe
<1>5. CASE m # n /\ k # <<>>
           /\ raft' = [raft EXCEPT ![m].sendmsgs[d] = Tail(@),
                 ![n].sendmsgs[d] = <<Merge(Head(q), Head(@))>> \o Tail(@)]
  <2> DEFINE x == <<Merge(Head(q), Head(k))>> \o Tail(k)
             r == [raft[m] EXCEPT !.sendmsgs[d] = Tail(q)]
             u == [raft[n] EXCEPT !.sendmsgs[d] = x]
  <2>1. k \in Seq(Message)
    BY <1>1 DEF RaftObject
  <2>2. Head(k) \in Message /\ Tail(k) \in Seq(Message)
    BY <1>5, <2>1, HeadTailProperties
  <2>3. <<Merge(Head(q), Head(k))>> \in Seq(Message)
    <3>1. Merge(Head(q), Head(k)) \in Message
      BY <1>3, <2>2, MergeType
    <3> QED BY <3>1
  <2>4. x \in Seq(Message)
    BY <2>2, <2>3, ConcatProperties
  <2>5. raft' = [raft EXCEPT ![m] = r, ![n] = u]
    BY <1>5 DEF TypeOK
  <2> HIDE DEF x
  <2>6. /\ r \in RaftObject /\ SameRecord(raft[m], r)
        /\ u \in RaftObject /\ SameRecord(raft[n], u)
    BY <1>1, <1>3, <2>4, QueueType
  <2> HIDE DEF r, u
  <2> QED BY <1>1, <1>5, <2>5, <2>6, TwoChange, SameIsSafe
<1> QED BY <1>4, <1>5 DEF Coalesce, Deliverable

\* A restart puts the object of a new process in the place of one, and takes a
\* connection from the others.
LEMMA RestartSound ==
  ASSUME TypeOK, NEW n \in Node, Restart(n)
  PROVE  Sound
<1> DEFINE boot == Boot(n, raft[n].storage)
           old == raft[n].sendmsgs
<1>1. PICK kept \in [Node -> 0..MaxInFlight] :
        /\ \A d \in Node : kept[d] <= Len(old[d])
        /\ raft' = [x \in Node |->
             IF x = n THEN [boot EXCEPT !.sendmsgs =
                             [d \in Node |-> SubSeq(old[d], 1, kept[d]) \o @[d]]]
             ELSE [raft[x] EXCEPT !.peersfd = @ \ {n}]]
  BY DEF Restart
<1>2. raft[n] \in RaftObject
  BY DEF TypeOK
<1>3. boot \in RaftObject /\ boot.id = n
  BY <1>2, BootType DEF RaftObject
<1>4. boot.commitIndex = 0 /\ boot.lastApplied = 0
  BY DEF Boot
<1> DEFINE q == [d \in Node |-> SubSeq(old[d], 1, kept[d]) \o boot.sendmsgs[d]]
           r == [boot EXCEPT !.sendmsgs = q]
<1> HIDE DEF boot
<1>5. \A d \in Node : SubSeq(old[d], 1, kept[d]) \in Seq(Message)
  <2>1. TAKE d \in Node
  <2>2. old[d] \in Seq(Message) /\ kept[d] \in Int /\ kept[d] <= Len(old[d])
    BY <1>1, <1>2, BoundAssumption DEF RaftObject
  <2>3. \A i \in 1..kept[d] : old[d][i] \in Message
    BY <2>2, LenProperties, ElementOfSeq
  <2> QED BY <2>2, <2>3, SubSeqProperties
<1>6. q \in [Node -> Seq(Message)]
  <2>1. \A d \in Node : boot.sendmsgs[d] \in Seq(Message)
    BY <1>3 DEF RaftObject
  <2>2. \A d \in Node :
          SubSeq(old[d], 1, kept[d]) \o boot.sendmsgs[d] \in Seq(Message)
    BY <1>5, <2>1, ConcatProperties
  <2> QED BY <2>2
<1>7. raft'[n] = r
  BY <1>1
<1> HIDE DEF q
<1>8. r \in RaftObject /\ SameRecord(boot, r)
  BY <1>3, <1>6, SendmsgsType, SendmsgsSame DEF SameRecord
<1>9. Reboots(n) /\ r.id = n
  BY <1>3, <1>4, <1>7, <1>8 DEF Reboots, Restart, Fault, SameRecord
<1> HIDE DEF r
<1>10. ASSUME NEW x \in Node, x # n
       PROVE  /\ raft'[x] \in RaftObject /\ raft'[x].id = x /\ Continues(x)
  <2>1. raft[x] \in RaftObject /\ raft[x].id = x
    BY DEF TypeOK
  <2>2. raft'[x] = [raft[x] EXCEPT !.peersfd = raft[x].peersfd \ {n}]
    BY <1>1, <1>10
  <2>3. raft[x].peersfd \ {n} \in SUBSET Node
    BY <2>1 DEF RaftObject
  <2>4. raft'[x] \in RaftObject /\ SameRecord(raft[x], raft'[x])
    BY <2>1, <2>2, <2>3 DEF SameRecord, RaftObject
  <2> QED BY <2>1, <2>4, SameIsSafe DEF Continues, SameRecord
<1>11. raft' \in [Node -> RaftObject]
  <2>1. \A x \in Node : raft'[x] \in RaftObject
    BY <1>7, <1>8, <1>10
  <2>2. raft' = [x \in Node |-> raft'[x]]
    BY <1>1
  <2> QED BY <2>1, <2>2
<1> QED BY <1>7, <1>8, <1>9, <1>10, <1>11 DEF Sound

\* Every step is sound.
LEMMA NextSound ==
  ASSUME TypeOK, [Next]_vars
  PROVE  Sound
<1>1. CASE UNCHANGED vars
  BY <1>1, NoneChanges DEF vars
<1>2. ASSUME NEW n \in Node,
             \/ TickElection(n) \/ Elect(n) \/ TickHeartbeat(n)
      PROVE  Sound
  BY <1>2, TickSound
<1>3. ASSUME NEW n \in Node,
             \/ Persist(n) \/ Bind(n)
             \/ \E v \in Value : Propose(n, v)
             \/ \E m \in Node : Discard(n, m) \/ Lose(n, m)
      PROVE  Sound
  BY <1>3, ThreadSound
<1>4. ASSUME NEW n \in Node, Crash(n)
      PROVE  Sound
  BY <1>4, NoneChanges DEF Crash
<1> QED BY <1>1, <1>2, <1>3, <1>4, StepNodeSound, CoalesceSound, RestartSound
    DEF Next

\* The object of every node starts as one.
LEMMA InitType ==
  ASSUME Init
  PROVE  TypeOK
<1>1. <<>> \in Seq(Entry)
  BY EmptySeq
<1>2. \A n \in Node : Boot(n, <<>>) \in RaftObject /\ Boot(n, <<>>).id = n
  BY <1>1, BootType
<1> QED BY <1>2, BoundAssumption DEF Init, TypeOK

\* The sets of processes and the count of faults keep their types.
LEMMA RestType ==
  ASSUME TypeOK, [Next]_vars
  PROVE  up' \subseteq Node /\ hup' \subseteq Node /\ faults' \in 0..MaxFaults
<1> USE DEF TypeOK
<1>1. CASE UNCHANGED vars
  BY <1>1 DEF vars
<1>2. ASSUME NEW n \in Node,
             \/ TickElection(n) \/ Elect(n) \/ TickHeartbeat(n)
             \/ Persist(n) \/ Bind(n) \/ Crash(n)
             \/ \E v \in Value : Propose(n, v)
             \/ \E m \in Node : StepNode(n, m) \/ Discard(n, m)
      PROVE  up' \subseteq Node /\ hup' \subseteq Node /\ faults' \in 0..MaxFaults
  BY <1>2 DEF TickElection, Elect, TickHeartbeat, Persist, Bind, Crash, Propose,
              StepNode, Discard
<1>3. ASSUME NEW kind, Fault(kind)
      PROVE  faults' \in 0..MaxFaults
  BY <1>3, BoundAssumption DEF Fault
<1>4. ASSUME NEW n \in Node,
             \/ Restart(n)
             \/ \E m \in Node : Lose(n, m)
             \/ \E m, m2 \in Node : Coalesce(m, m2, n)
      PROVE  up' \subseteq Node /\ hup' \subseteq Node /\ faults' \in 0..MaxFaults
  BY <1>3, <1>4 DEF Restart, Lose, Coalesce
<1> QED BY <1>1, <1>2, <1>4 DEF Next
-----------------------------------------------------------------------------
(* Theorems *)

\* Every object keeps its types, under any faults: a node never falls back to
\* term 0 and no follower's `next' is 0, where sendAppend() would subtract 1.
THEOREM TypeCorrect == Spec => []TypeOK
<1>1. Init => TypeOK
  BY InitType
<1>2. TypeOK /\ [Next]_vars => TypeOK'
  BY NextSound, RestType DEF Sound, TypeOK
<1> QED BY <1>1, <1>2, PTL DEF Spec

\* No node applies what is not committed, under any faults.  The step thread may
\* move the commit index and the persist thread may apply in any order: neither
\* leaves the commit index behind.
THEOREM AppliedCorrect == Spec => []AppliedWithinCommit
<1>1. Init => AppliedWithinCommit
  BY DEF Init, Boot, AppliedWithinCommit
<1>2. TypeOK /\ AppliedWithinCommit /\ [Next]_vars => AppliedWithinCommit'
  BY NextSound DEF Sound, Continues, Reboots, Safe, AppliedWithinCommit
<1> QED BY <1>1, <1>2, TypeCorrect, PTL DEF Spec

\* Without a restart no node goes back to an earlier term.
THEOREM TermsCorrect ==
  ASSUME "restart" \notin Faults
  PROVE  Spec => TermsOnlyGrow
<1>1. TypeOK /\ [Next]_vars =>
        [\A n \in Node : raft'[n].currentTerm >= raft[n].currentTerm]_vars
  BY NextSound DEF Sound, Continues, Reboots, Safe
<1> QED BY <1>1, TypeCorrect, PTL DEF Spec, TermsOnlyGrow

\* Without a restart a leader gives up its role only to a higher term.
THEOREM LeaderYields ==
  ASSUME "restart" \notin Faults
  PROVE  Spec => LeaderYieldsOnlyToHigherTerm
<1>1. TypeOK /\ [Next]_vars =>
        [\A n \in Node : Leads(n) /\ ~ Leads(n)' =>
           raft'[n].currentTerm > raft[n].currentTerm]_vars
  BY NextSound DEF Sound, Continues, Reboots, Yields, Leads
<1> QED BY <1>1, TypeCorrect, PTL DEF Spec, LeaderYieldsOnlyToHigherTerm

\* Without a restart a leader only adds to its log.
THEOREM LeaderAppends ==
  ASSUME "restart" \notin Faults
  PROVE  Spec => LeaderAppendOnly
<1>1. ASSUME TypeOK, [Next]_vars, NEW n \in Node, Leads(n), Leads(n)'
      PROVE  /\ Len(Log(n)) <= Len(Log(n)')
             /\ \A i \in 1..Len(Log(n)) : Log(n)'[i] = Log(n)[i]
  <2>1. KeepsPrefix(Log(n), Log(n)', Len(Log(n)))
    BY <1>1, NextSound DEF Sound, Continues, Reboots, Yields, Leads, Log
  <2>2. Log(n) \in Seq(Entry) /\ Log(n)' \in Seq(Entry)
    BY <1>1, NextSound DEF Sound, TypeOK, RaftObject, Log
  <2>3. Len(Log(n)) \in Nat /\ Len(Log(n)') \in Nat
    BY <2>2, LenProperties
  <2>4. Len(Log(n)) # 0 => Len(Log(n)) <= Len(Log(n)')
    <3>1. SUFFICES ASSUME Len(Log(n)) # 0
                   PROVE  Len(Log(n)) <= Len(Log(n)')
      OBVIOUS
    <3>2. Len(Log(n)) \in 1..Len(Log(n)) /\ Len(Log(n)) <= Len(Log(n))
      BY <2>3, <3>1
    <3> QED BY <2>1, <3>2 DEF KeepsPrefix
  <2> QED BY <2>1, <2>3, <2>4 DEF KeepsPrefix
<1>2. TypeOK /\ [Next]_vars =>
        [\A n \in Node : Leads(n) /\ Leads(n)' =>
           /\ Len(Log(n)) <= Len(Log(n)')
           /\ \A i \in 1..Len(Log(n)) : Log(n)'[i] = Log(n)[i]]_vars
  BY <1>1
<1> QED BY <1>2, TypeCorrect, PTL DEF Spec, LeaderAppendOnly

\* Without a restart no node changes or drops what it holds and takes for
\* committed, whatever leaders there are and whatever is lost or merged.
THEOREM CommittedIsStable ==
  ASSUME "restart" \notin Faults
  PROVE  Spec => CommittedStable
<1>1. ASSUME TypeOK, [Next]_vars, NEW n \in Node,
             NEW i \in 1..Len(Log(n)), i <= raft[n].commitIndex
      PROVE  i <= Len(Log(n)') /\ Log(n)'[i] = Log(n)[i]
  BY <1>1, NextSound DEF Sound, Continues, Reboots, Safe, KeepsPrefix, Log
<1>2. TypeOK /\ [Next]_vars =>
        [\A n \in Node : \A i \in 1..Len(Log(n)) :
           i <= raft[n].commitIndex =>
             /\ i <= Len(Log(n)')
             /\ Log(n)'[i] = Log(n)[i]]_vars
  BY <1>1
<1> QED BY <1>2, TypeCorrect, PTL DEF Spec, CommittedStable
-----------------------------------------------------------------------------
(* Commits *)

\* prs stays empty: the majority of no member is one.
LEMMA QuorumIsOne ==
  ASSUME NEW s
  PROVE  Quorum(s) = 1
<1>1. Cardinality({}) = 0
  BY FS_EmptySet
<1> QED BY <1>1 DEF Quorum, Members

\* So what maybeCommit() moves to is no more than any follower's match.
LEMMA CommittableIsLeast ==
  ASSUME IsFiniteSet(Node), NEW s \in RaftObject, NEW c \in Committable(s)
  PROVE  \A p \in s.peers : s.prs[p].match >= c
<1> DEFINE behind == {p \in s.peers : s.prs[p].match < c}
<1>1. \A p \in s.peers : s.prs[p].match \in Nat
  <2>1. \A p \in s.peers : s.prs[p] \in Progress
    BY DEF RaftObject
  <2> QED BY <2>1 DEF Progress
<1>2. c \in Nat /\ Cardinality(behind) < 1
  BY CommittableType, QuorumIsOne DEF Committable
<1>3. behind \in SUBSET Node
  BY DEF RaftObject
<1> HIDE DEF behind
<1>4. IsFiniteSet(behind)
  BY <1>3, FS_Subset
<1>5. Cardinality(behind) \in Nat
  BY <1>4, FS_CardinalityType
<1>6. Cardinality(behind) = 0
  BY <1>2, <1>5
<1>7. behind = {}
  BY <1>4, <1>6, FS_EmptySet
<1> QED BY <1>1, <1>2, <1>7 DEF behind

\* The followers a node knows and what it believes they hold are the same.
SameNews(s, r) ==
  /\ r.peers = s.peers
  /\ \A p \in Node : r.prs[p].match = s.prs[p].match

\* If the call has moved the commit index, every known follower holds it.
CommitsWithAll(s, r) ==
  r.commitIndex # s.commitIndex =>
    \A p \in r.peers : r.prs[p].match >= r.commitIndex

\* sendAppend() moves where the next append starts, not what is acknowledged.
LEMMA SendAppendNews ==
  ASSUME NEW s \in RaftObject, NEW D \in SUBSET Node
  PROVE  SameNews(s, SendAppend(s, D))
<1>1. s.prs \in [Node -> Progress]
  BY DEF RaftObject
<1>2. \A d \in Node : ProgressAfterAppend(s, d).match = s.prs[d].match
  <2>1. \A p \in Progress : \A k : OptimisticUpdate(p, k).match = p.match
    BY DEF OptimisticUpdate, Progress
  <2> QED BY <1>1, <2>1 DEF ProgressAfterAppend
<1>3. /\ SendAppend(s, D).peers = s.peers
      /\ SendAppend(s, D).prs =
           [d \in Node |-> IF d \in D THEN ProgressAfterAppend(s, d) ELSE s.prs[d]]
  BY DEF SendAppend, RaftObject
<1> QED BY <1>2, <1>3 DEF SameNews

\* maybeCommit() moves the commit index only.
LEMMA MaybeCommitWithAll ==
  ASSUME IsFiniteSet(Node), NEW s \in RaftObject
  PROVE  SameNews(s, MaybeCommit(s)) /\ CommitsWithAll(s, MaybeCommit(s))
<1>1. \A c : /\ SameNews(s, CommitTo(s, c))
             /\ CommitTo(s, c).commitIndex # s.commitIndex =>
                  CommitTo(s, c).commitIndex = c
  BY DEF CommitTo, SameNews, RaftObject
<1>2. SameNews(s, s) /\ CommitsWithAll(s, s)
  BY DEF SameNews, CommitsWithAll
<1>3. ASSUME Committable(s) # {}
      PROVE  CommitsWithAll(s, MaybeCommit(s))
  <2> DEFINE c == CHOOSE c \in Committable(s) : TRUE
  <2>1. c \in Committable(s)
    BY <1>3
  <2> HIDE DEF c
  <2>2. \A p \in s.peers : s.prs[p].match >= c /\ p \in Node
    BY <2>1, CommittableIsLeast DEF RaftObject
  <2>3. MaybeCommit(s) = CommitTo(s, c)
    BY <1>3 DEF MaybeCommit, c
  <2> QED BY <1>1, <2>2, <2>3 DEF CommitsWithAll, SameNews
<1> QED BY <1>1, <1>2, <1>3 DEF MaybeCommit

\* A broadcast after a commit changes nothing of it.
LEMMA ThenSendWithAll ==
  ASSUME NEW s, NEW r \in RaftObject, NEW D \in SUBSET Node, CommitsWithAll(s, r)
  PROVE  CommitsWithAll(s, SendAppend(r, D))
<1>1. r.peers \subseteq Node
  BY DEF RaftObject
<1> QED BY <1>1, SendAppendNews, SendingSafe
        DEF CommitsWithAll, SameNews, SameRecord

\* A proposal may commit what was acknowledged before it.
LEMMA StepPropWithAll ==
  ASSUME IsFiniteSet(Node), NEW s \in RaftObject, NEW v \in Value
  PROVE  CommitsWithAll(s, StepProp(s, v))
<1> DEFINE e == [term |-> s.currentTerm, index |-> s.lastApplied + 1, data |-> v]
           r == [s EXCEPT !.entries = Append(s.entries, e)]
           t == MaybeCommit(r)
           u == AppendEntry(s, v)
<1>1. e \in Entry
  BY DEF Entry, RaftObject
<1>2. Append(s.entries, e) \in Seq(Entry)
  BY <1>1, AppendProperties DEF RaftObject
<1> HIDE DEF e
<1>3. r \in RaftObject /\ r.commitIndex = s.commitIndex
  BY <1>2 DEF RaftObject
<1>4. u = [t EXCEPT !.ready = TRUE]
  BY DEF AppendEntry, e
<1> HIDE DEF r
<1>5. t \in RaftObject /\ CommitsWithAll(r, t)
  BY <1>3, CommittableType, MaybeCommitWithAll
<1> HIDE DEF t
<1>6. u \in RaftObject /\ CommitsWithAll(s, u)
  BY <1>3, <1>4, <1>5, StepPropType DEF CommitsWithAll, RaftObject
<1> HIDE DEF u
<1>7. u.peers \ {u.id} \in SUBSET Node
  BY <1>6 DEF RaftObject
<1>8. StepProp(s, v) = SendAppend(u, u.peers \ {u.id})
  BY DEF StepProp, BcastAppend, u
<1> QED BY <1>6, <1>7, <1>8, ThenSendWithAll

\* An acknowledgement may be the one that was missing.
LEMMA StepLeaderWithAll ==
  ASSUME IsFiniteSet(Node), NEW s \in RaftObject, NEW m \in Message
  PROVE  CommitsWithAll(s, StepLeader(s, m))
<1>1. CommitsWithAll(s, s)
  BY DEF CommitsWithAll
<1>2. ASSUME m.from \in s.peers
      PROVE  CommitsWithAll(s, Acknowledge(s, m))
  <2> DEFINE p == MaybeUpdate(s.prs[m.from], m.index)
             q == IF p.state = "Probe" THEN BecomeReplicate(p)
                  ELSE IF p.state = "Snapshot" THEN BecomeProbe(p)
                  ELSE p
             t == [s EXCEPT !.prs[m.from] = q]
             c == MaybeCommit(t)
  <2>1. m.from \in Node /\ s.prs[m.from] \in Progress /\ m.index \in Nat
    BY <1>2 DEF RaftObject, Message
  <2>2. q \in Progress
    BY <2>1, ProgressType
  <2> HIDE DEF p, q
  <2>3. t \in RaftObject /\ t.commitIndex = s.commitIndex
    BY <2>1, <2>2 DEF RaftObject
  <2>4. \A x : CommitsWithAll(s, [s EXCEPT !.prs[m.from] = x])
    BY DEF CommitsWithAll, RaftObject
  <2> HIDE DEF t
  <2>5. c \in RaftObject /\ CommitsWithAll(s, c)
    BY <2>3, CommittableType, MaybeCommitWithAll DEF CommitsWithAll
  <2> HIDE DEF c
  <2>6. c.peers \ {c.id} \in SUBSET Node
    BY <2>5 DEF RaftObject
  <2>7. CommitsWithAll(s, BcastAppend(c))
    BY <2>5, <2>6, ThenSendWithAll DEF BcastAppend
  <2>8. CommitsWithAll(s, t)
    BY <2>4 DEF t
  <2> QED BY <2>4, <2>7, <2>8 DEF Acknowledge, p, q, t, c
<1>3. ASSUME m.from \in s.peers, NEW r \in RaftObject, CommitsWithAll(s, r)
      PROVE  CommitsWithAll(s, CatchUp(r, m.from))
  <2>1. {m.from} \in SUBSET Node
    BY <1>3 DEF RaftObject
  <2> QED BY <1>3, <2>1, ThenSendWithAll DEF CatchUp
<1> QED BY <1>1, <1>2, <1>3, AcknowledgeType DEF StepLeader

\* The other messages a leader handles as one do not move its commit index.
LEMMA GeneralStepWithAll ==
  ASSUME IsFiniteSet(Node), NEW s \in RaftObject, NEW m \in Message,
         s.state = "LEADER", GeneralStep(s, m).state = "LEADER"
  PROVE  CommitsWithAll(s, GeneralStep(s, m))
<1>0. m.term \in Nat /\ m.from \in NodeId /\ s.currentTerm \in Nat \ {0}
  BY DEF RaftObject, Message
<1>1. CommitsWithAll(s, s)
  BY DEF CommitsWithAll
<1>2. CASE m.term > s.currentTerm
  <2> DEFINE r == StepDown(s, m.term, m.from)
  <2>1. m.term \in Nat \ {0} /\ m.term >= s.currentTerm
    BY <1>0, <1>2
  <2>2. r \in RaftObject /\ r.state = "FOLLOWER" /\ r.currentTerm = m.term
    BY <1>0, <2>1, RoleType, RoleSafe
  <2>3. GeneralStep(s, m) = Dispatch(r, m)
    BY <1>0, <1>2 DEF GeneralStep
  <2> HIDE DEF r
  <2>4. Dispatch(r, m).state = "FOLLOWER"
    <3>1. m.type = "MsgVote" \/ m.type = "MsgNode" =>
            Dispatch(r, m).state = r.state
      BY <2>2, HandleVoteNodeSafe DEF Dispatch, SameRecord
    <3>2. StepFollower(r, m).state = r.state
      BY <1>0, <2>2, StepFollowerSafe
    <3>3. m.type # "MsgVote" /\ m.type # "MsgNode" =>
            Dispatch(r, m) = StepFollower(r, m)
      BY <2>2 DEF Dispatch, Step
    <3> QED BY <2>2, <3>1, <3>2, <3>3
  <2> QED BY <2>3, <2>4
<1>3. CommitsWithAll(s, Dispatch(s, m))
  <2>1. m.type = "MsgVote" \/ m.type = "MsgNode" =>
          Dispatch(s, m).commitIndex = s.commitIndex
    BY HandleVoteNodeSafe DEF Dispatch, SameRecord
  <2>2. m.type # "MsgVote" /\ m.type # "MsgNode" =>
          Dispatch(s, m) = StepLeader(s, m)
    BY DEF Dispatch, Step
  <2> QED BY <2>1, <2>2, StepLeaderWithAll DEF CommitsWithAll
<1> QED BY <1>1, <1>2, <1>3 DEF GeneralStep

\* Only a message and a proposal move the commit index of a leader.
LEMMA NextWithAll ==
  ASSUME IsFiniteSet(Node), TypeOK, [Next]_vars, NEW x \in Node,
         Leads(x), Leads(x)', raft'[x].commitIndex # raft[x].commitIndex
  PROVE  \A p \in raft'[x].peers : raft'[x].prs[p].match >= raft'[x].commitIndex
<1>1. raft \in [Node -> RaftObject] /\ raft[x].state = "LEADER"
      /\ raft'[x].state = "LEADER" /\ \A y \in Node : raft[y] \in RaftObject
  BY DEF TypeOK, Leads
<1>2. SUFFICES CommitsWithAll(raft[x], raft'[x])
  BY DEF CommitsWithAll
<1>3. ASSUME NEW n \in Node, NEW r, raft' = [raft EXCEPT ![n] = r],
             r.commitIndex = raft[n].commitIndex
      PROVE  FALSE
  BY <1>1, <1>3
<1>4. ASSUME NEW n \in Node,
             TickElection(n) \/ Elect(n) \/ TickHeartbeat(n)
      PROVE  FALSE
  <2>1. \A s \in RaftObject :
          /\ BecomeCandidate(s).commitIndex = s.commitIndex
          /\ BecomeLeader(s).commitIndex = s.commitIndex
          /\ RecordVote(s, n, TRUE).commitIndex = s.commitIndex
          /\ BcastHeartbeat(s).commitIndex = s.commitIndex
    BY DEF BecomeCandidate, BecomeLeader, Reset, RecordVote, BcastHeartbeat,
           RaftObject
  <2>2. RecordVote(raft[n], n, TRUE) \in RaftObject
    BY <1>1, RecordVoteType DEF NodeId
  <2>3. \A s \in RaftObject : \A q : [s EXCEPT !.sendmsgs = q].commitIndex = s.commitIndex
    BY DEF RaftObject
  <2>4. CASE TickElection(n) \/ TickHeartbeat(n)
    BY <1>1, <1>3, <2>1, <2>4 DEF TickElection, TickHeartbeat, Becomes
  <2>5. CASE Elect(n)
    <3> DEFINE s == RecordVote(raft[n], n, TRUE)
    <3>1. PICK q : \/ raft' = [raft EXCEPT ![n] = BecomeLeader(s)]
                   \/ raft' = [raft EXCEPT ![n] = [s EXCEPT !.sendmsgs = q]]
      BY <2>5 DEF Elect, Becomes
    <3>2. s \in RaftObject /\ s.commitIndex = raft[n].commitIndex
      BY <1>1, <2>1, <2>2
    <3> HIDE DEF s
    <3>3. /\ BecomeLeader(s).commitIndex = raft[n].commitIndex
          /\ [s EXCEPT !.sendmsgs = q].commitIndex = raft[n].commitIndex
      BY <2>1, <2>3, <3>2
    <3> QED BY <1>3, <3>1, <3>3
  <2> QED BY <1>4, <2>4, <2>5
<1>5. ASSUME NEW n \in Node,
             \/ Persist(n) \/ Bind(n)
             \/ \E d \in Node : Discard(n, d) \/ Lose(n, d)
      PROVE  FALSE
  <2>1. \A s \in RaftObject : \A a, b :
          /\ [s EXCEPT !.ready = a].commitIndex = s.commitIndex
          /\ [s EXCEPT !.peersfd = a, !.unknownid = b].commitIndex = s.commitIndex
          /\ [s EXCEPT !.sendmsgs[a] = b].commitIndex = s.commitIndex
    BY DEF RaftObject
  <2>2. StorageLog(raft[n]) \in RaftObject
        /\ StorageLog(raft[n]).commitIndex = raft[n].commitIndex
    <3>1. raft[n] \in RaftObject
      BY <1>1
    <3>2. StorageLog(raft[n]).commitIndex = raft[n].commitIndex
      BY <3>1 DEF StorageLog, AppliedTo, RaftObject
    <3> QED BY <3>1, <3>2, StorageLogType
  <2>3. CASE Persist(n)
    BY <1>3, <2>1, <2>2, <2>3 DEF Persist, Becomes
  <2>4. CASE Bind(n)
    BY <1>1, <1>3, <2>1, <2>4 DEF Bind, Becomes
  <2>5. ASSUME NEW d \in Node, Discard(n, d) \/ Lose(n, d)
        PROVE  FALSE
    <3>1. raft' = [raft EXCEPT ![n] =
                     [raft[n] EXCEPT !.sendmsgs[d] = Tail(raft[n].sendmsgs[d])]]
      BY <2>5 DEF Discard, Lose
    <3> QED BY <1>1, <1>3, <2>1, <3>1
  <2> QED BY <1>5, <2>3, <2>4, <2>5
<1>6. ASSUME NEW n \in Node, NEW v \in Value, Propose(n, v)
      PROVE  CommitsWithAll(raft[x], raft'[x])
  <2>1. CommitsWithAll(raft[n], StepProp(raft[n], v))
    BY <1>1, StepPropWithAll
  <2> QED BY <1>1, <1>6, <2>1 DEF Propose, Becomes
<1>7. ASSUME NEW n \in Node, NEW src \in Node \ {n}, StepNode(n, src)
      PROVE  CommitsWithAll(raft[x], raft'[x])
  <2> DEFINE q == raft[src].sendmsgs[n]
             r == GeneralStep(raft[n], Head(q))
             u == [raft[src] EXCEPT !.sendmsgs[n] = Tail(q)]
  <2>1. q \in Seq(Message) /\ q # <<>>
    BY <1>1, <1>7 DEF StepNode, Deliverable, RaftObject
  <2>2. Head(q) \in Message
    BY <2>1, HeadTailProperties
  <2>3. raft' = [raft EXCEPT ![n] = r, ![src] = u]
    BY <1>7 DEF StepNode, Takes, TypeOK
  <2>4. u.commitIndex = raft[src].commitIndex
    BY <1>1 DEF RaftObject
  <2>5. x = n
    BY <1>1, <2>3, <2>4
  <2> QED BY <1>1, <2>2, <2>3, <2>5, GeneralStepWithAll
<1>8. ASSUME NEW m \in Node, NEW m2 \in Node, NEW n \in Node, Coalesce(m, m2, n)
      PROVE  FALSE
  <2>1. \A s \in RaftObject : \A a :
          [s EXCEPT !.sendmsgs[n] = a].commitIndex = s.commitIndex
    BY DEF RaftObject
  <2>2. PICK a, b :
          \/ raft' = [raft EXCEPT ![m] = [raft[m] EXCEPT !.sendmsgs[n] = a]]
          \/ raft' = [raft EXCEPT ![m] = [raft[m] EXCEPT !.sendmsgs[n] = a],
                                  ![m2] = [raft[m2] EXCEPT !.sendmsgs[n] = b]]
    BY <1>1, <1>8 DEF Coalesce
  <2>3. \A y \in Node : raft'[y].commitIndex = raft[y].commitIndex
    <3>1. CASE raft' = [raft EXCEPT ![m] = [raft[m] EXCEPT !.sendmsgs[n] = a]]
      BY <1>1, <2>1, <3>1
    <3>2. CASE raft' = [raft EXCEPT ![m] = [raft[m] EXCEPT !.sendmsgs[n] = a],
                                    ![m2] = [raft[m2] EXCEPT !.sendmsgs[n] = b]]
      <4>1. /\ [raft[m] EXCEPT !.sendmsgs[n] = a].commitIndex = raft[m].commitIndex
            /\ [raft[m2] EXCEPT !.sendmsgs[n] = b].commitIndex
                 = raft[m2].commitIndex
        BY <1>1, <2>1
      <4> QED BY <1>1, <3>2, <4>1
    <3> QED BY <2>2, <3>1, <3>2
  <2> QED BY <2>3
<1>9. ASSUME NEW n \in Node, Restart(n)
      PROVE  FALSE
  <2>1. x # n => raft'[x].commitIndex = raft[x].commitIndex
    BY <1>1, <1>9 DEF Restart, RaftObject
  <2>2. raft'[n].state = "FOLLOWER"
    BY <1>9 DEF Restart, Boot
  <2> QED BY <1>1, <2>1, <2>2
<1>10. CASE UNCHANGED vars
  BY <1>10 DEF vars
<1>11. \A n \in Node : ~ Crash(n)
  BY DEF Crash
<1> QED BY <1>4, <1>5, <1>6, <1>7, <1>8, <1>9, <1>10, <1>11 DEF Next

\* Under any faults, a leader that moves its own commit index has had it
\* acknowledged by every follower it knows: maybeCommit() takes mis[quorum()-1]
\* of the sorted matches, quorum() counts the empty prs, and the lowest match is
\* what every follower has acknowledged.
THEOREM LeaderCommitsWithAll ==
  ASSUME IsFiniteSet(Node)
  PROVE  Spec => LeaderCommitsWhatAllAcknowledged
<1>1. ASSUME TypeOK, [Next]_vars, NEW n \in Node, Leads(n), Leads(n)',
             raft'[n].commitIndex > raft[n].commitIndex
      PROVE  \A p \in raft'[n].peers :
               raft'[n].prs[p].match >= raft'[n].commitIndex
  <2>1. raft[n] \in RaftObject
    BY <1>1 DEF TypeOK
  <2>2. raft[n].commitIndex \in Nat
    BY <2>1 DEF RaftObject
  <2>3. raft'[n].commitIndex # raft[n].commitIndex
    BY <1>1, <2>2
  <2> QED BY <1>1, <2>3, NextWithAll
<1>2. TypeOK /\ [Next]_vars =>
        [\A n \in Node :
           Leads(n) /\ Leads(n)' /\ raft'[n].commitIndex > raft[n].commitIndex =>
             \A p \in raft'[n].peers :
               raft'[n].prs[p].match >= raft'[n].commitIndex]_vars
  BY <1>1
<1> QED BY <1>2, TypeCorrect, PTL DEF Spec, LeaderCommitsWhatAllAcknowledged
-----------------------------------------------------------------------------
(* Quiet objects *)

\* A set of commit indexes that has with each its predecessors.
Closed(K) == K \subseteq Nat /\ 0 \in K /\ \A c \in K, b \in Nat : b <= c => b \in K

\* What some follower has acknowledged to the node, and 0.
Own(s) == {c \in Nat : c = 0 \/ \E p \in s.peers : s.prs[p].match >= c}

\* No vote message, and a commit index of the set.
QuietMessage(K) ==
  {m \in Message : m.type \notin {"MsgVote", "MsgVoteResp"} /\ m.commit \in K}

\* The object knows no vote but its own, and no commit index outside the set.
Quiet(K) ==
  {s \in RaftObject :
     /\ s.votes \subseteq {<<s.id, TRUE>>}
     /\ s.commitIndex \in K
     /\ Own(s) \subseteq K
     /\ s.sendmsgs \in [Node -> Seq(QuietMessage(K))]}

\* The followers a node knows, and what they hold, only grow.
Grown(s, r) ==
  \A p \in s.peers : p \in r.peers /\ r.prs[p].match >= s.prs[p].match

\* A call that leaves r keeps within the set and what r has had acknowledged.
Tells(K, s, r) == r \in Quiet(K \cup Own(r)) /\ Grown(s, r)

\* A larger set has more quiet objects.
LEMMA QuietMonotonic ==
  ASSUME NEW K, NEW L, K \subseteq L, NEW s \in Quiet(K)
  PROVE  s \in Quiet(L)
<1>1. QuietMessage(K) \subseteq QuietMessage(L)
  BY DEF QuietMessage
<1>2. \A q \in Seq(QuietMessage(K)) : q \in Seq(QuietMessage(L))
  BY <1>1, SeqMonotonic
<1>3. s.sendmsgs \in [Node -> Seq(QuietMessage(L))]
  BY <1>2 DEF Quiet
<1> QED BY <1>3 DEF Quiet

\* What a node has had acknowledged is closed, and the same when peers and
\* matches are.
LEMMA OwnProperties ==
  ASSUME NEW s \in RaftObject
  PROVE  /\ Closed(Own(s))
         /\ \A r : SameNews(s, r) => Own(r) = Own(s) /\ Grown(s, r)
<1>1. \A p \in s.peers : p \in Node /\ s.prs[p].match \in Nat
  <2>1. \A p \in s.peers : p \in Node /\ s.prs[p] \in Progress
    BY DEF RaftObject
  <2> QED BY <2>1 DEF Progress
<1>2. Closed(Own(s))
  BY <1>1 DEF Closed, Own
<1>3. ASSUME NEW r, SameNews(s, r)
      PROVE  Own(r) = Own(s) /\ Grown(s, r)
  BY <1>1, <1>3 DEF SameNews, Own, Grown
<1> QED BY <1>2, <1>3

\* An object with the same votes, peers and matches is as quiet, if its commit
\* index and its messages are.
LEMMA QuietSame ==
  ASSUME NEW K, NEW s \in Quiet(K), NEW r \in RaftObject,
         r.id = s.id, r.votes = s.votes, r.commitIndex \in K, SameNews(s, r),
         r.sendmsgs \in [Node -> Seq(QuietMessage(K))]
  PROVE  r \in Quiet(K)
BY OwnProperties DEF Quiet

\* A quiet object with no news to lose has been told nothing else.
LEMMA QuietTells ==
  ASSUME NEW K, NEW s \in RaftObject, NEW r \in Quiet(K), Grown(s, r)
  PROVE  Tells(K, s, r)
BY QuietMonotonic DEF Tells

\* The messages a node builds, but for the votes, are quiet.
LEMMA MessagesQuiet ==
  ASSUME NEW K, Closed(K)
  PROVE  /\ \A n \in Node :
              [NewMessage("MsgNode") EXCEPT !.from = n] \in QuietMessage(K)
         /\ \A t \in Nat :
              [NewMessage("MsgNodeResp") EXCEPT !.term = t] \in QuietMessage(K)
         /\ \A s \in RaftObject : HeartbeatResp(s) \in QuietMessage(K)
         /\ \A s \in RaftObject, i \in Nat, b \in BOOLEAN :
              AppResp(s, i, b) \in QuietMessage(K)
<1>1. 0 \in K
  BY DEF Closed
<1>2. \A s \in RaftObject : s.id \in Node
  BY DEF RaftObject
<1>3. \A n \in Node :
        [NewMessage("MsgNode") EXCEPT !.from = n] \in QuietMessage(K)
  BY <1>1, MessagesType DEF QuietMessage, NewMessage
<1>4. \A t \in Nat :
        [NewMessage("MsgNodeResp") EXCEPT !.term = t] \in QuietMessage(K)
  BY <1>1, MessagesType DEF QuietMessage, NewMessage
<1>5. \A s \in RaftObject : HeartbeatResp(s) \in QuietMessage(K)
  <2>1. TAKE s \in RaftObject
  <2>2. HeartbeatResp(s) \in Message
    BY <1>2, MessagesType DEF HeartbeatResp
  <2> QED BY <1>1, <2>2 DEF HeartbeatResp, QuietMessage, NewMessage
<1>6. \A s \in RaftObject, i \in Nat, b \in BOOLEAN :
        AppResp(s, i, b) \in QuietMessage(K)
  <2>1. TAKE s \in RaftObject, i \in Nat, b \in BOOLEAN
  <2>2. AppResp(s, i, b) \in Message
    BY <1>2, MessagesType DEF AppResp
  <2> QED BY <1>1, <2>2 DEF AppResp, QuietMessage, NewMessage
<1> QED BY <1>3, <1>4, <1>5, <1>6
-----------------------------------------------------------------------------
(* Quiet calls: sending and roles *)

\* send() of a quiet message.
LEMMA SendQuiet ==
  ASSUME NEW K, NEW s \in Quiet(K), NEW to \in NodeId, NEW m \in QuietMessage(K)
  PROVE  Send(s, to, m) \in Quiet(K) /\ SameNews(s, Send(s, to, m))
<1> DEFINE q == s.sendmsgs
<1>1. s \in RaftObject /\ q \in [Node -> Seq(QuietMessage(K))] /\ m \in Message
  BY DEF Quiet, QuietMessage
<1>2. Send(s, to, m) \in RaftObject
  BY <1>1, SendType
<1>3. /\ Send(s, to, m).id = s.id /\ Send(s, to, m).votes = s.votes
      /\ Send(s, to, m).commitIndex = s.commitIndex
      /\ SameNews(s, Send(s, to, m))
  BY <1>1 DEF Send, SameNews, RaftObject
<1>4. Send(s, to, m).sendmsgs \in [Node -> Seq(QuietMessage(K))]
  <2>1. CASE to = None
    <3>1. Send(s, to, m).sendmsgs =
            [d \in Node |-> IF d \in s.peersfd THEN Append(q[d], m) ELSE q[d]]
      BY <1>1, <2>1 DEF Send, RaftObject
    <3> QED BY <1>1, <3>1
  <2>2. CASE to # None
    <3>1. Send(s, to, m).sendmsgs = [q EXCEPT ![to] = Append(q[to], m)]
      BY <1>1, <2>2 DEF Send, RaftObject
    <3> QED BY <1>1, <2>2, <3>1 DEF NodeId
  <2> QED BY <2>1, <2>2
<1> QED BY <1>2, <1>3, <1>4, QuietSame DEF Quiet

\* A heartbeat carries no more than the leader's commit index.
LEMMA BcastHeartbeatQuiet ==
  ASSUME NEW K, Closed(K), NEW s \in Quiet(K)
  PROVE  BcastHeartbeat(s) \in Quiet(K) /\ SameNews(s, BcastHeartbeat(s))
<1> DEFINE q == s.sendmsgs
<1>1. /\ s \in RaftObject /\ q \in [Node -> Seq(QuietMessage(K))]
      /\ s.commitIndex \in K /\ s.commitIndex \in Nat
  BY DEF Quiet, RaftObject
<1>2. BcastHeartbeat(s) \in RaftObject
  BY <1>1, BcastHeartbeatType
<1>3. \A d \in Node : Heartbeat(s, d) \in QuietMessage(K)
  <2>1. TAKE d \in Node
  <2>2. s.prs[d] \in Progress /\ s.id \in Node /\ s.currentTerm \in Nat \ {0}
    BY <1>1 DEF RaftObject
  <2>3. s.prs[d].match \in Nat
    BY <2>2 DEF Progress
  <2>4. PICK c \in Nat : c = (IF s.prs[d].match < s.commitIndex
                              THEN s.prs[d].match ELSE s.commitIndex)
    BY <1>1, <2>3
  <2>5. c \in K
    BY <1>1, <2>3, <2>4 DEF Closed
  <2>6. Heartbeat(s, d) = [NewMessage("MsgHeartbeat") EXCEPT
                             !.from = s.id, !.term = s.currentTerm, !.commit = c]
    BY <2>4 DEF Heartbeat
  <2>7. Heartbeat(s, d) \in Message
    <3>1. \A k \in Nat : [NewMessage("MsgHeartbeat") EXCEPT
            !.from = s.id, !.term = s.currentTerm, !.commit = k] \in Message
      BY <2>2, MessagesType
    <3> QED BY <2>6, <3>1
  <2>8. Heartbeat(s, d).type = "MsgHeartbeat" /\ Heartbeat(s, d).commit = c
    BY <2>6 DEF NewMessage
  <2> QED BY <2>5, <2>7, <2>8 DEF QuietMessage
<1>4. /\ BcastHeartbeat(s).id = s.id /\ BcastHeartbeat(s).votes = s.votes
      /\ BcastHeartbeat(s).commitIndex = s.commitIndex
      /\ SameNews(s, BcastHeartbeat(s))
      /\ BcastHeartbeat(s).sendmsgs =
           [d \in Node |-> IF d \in s.peers \ {s.id}
                             THEN Append(q[d], Heartbeat(s, d)) ELSE q[d]]
  BY <1>1 DEF BcastHeartbeat, SameNews, RaftObject
<1>5. BcastHeartbeat(s).sendmsgs \in [Node -> Seq(QuietMessage(K))]
  BY <1>1, <1>3, <1>4
<1> QED BY <1>1, <1>2, <1>4, <1>5, QuietSame

\* An append carries the leader's commit index.
LEMMA SendAppendQuiet ==
  ASSUME NEW K, NEW s \in Quiet(K), NEW D \in SUBSET Node
  PROVE  SendAppend(s, D) \in Quiet(K) /\ SameNews(s, SendAppend(s, D))
<1> DEFINE q == s.sendmsgs
           r == SendAppend(s, D)
<1>1. /\ s \in RaftObject /\ q \in [Node -> Seq(QuietMessage(K))]
      /\ s.commitIndex \in K
  BY DEF Quiet
<1>2. r \in RaftObject /\ SameNews(s, r)
  BY <1>1, SendAppendType, SendAppendNews
<1>3. \A d \in Node : AppendMessage(s, d) \in QuietMessage(K)
  <2>1. TAKE d \in Node
  <2>2. AppendMessage(s, d) \in Message
    BY <1>1, AppendMessageType
  <2>3. /\ AppendMessage(s, d).type = "MsgApp"
        /\ AppendMessage(s, d).commit = s.commitIndex
    BY DEF AppendMessage, NewMessage
  <2> QED BY <1>1, <2>2, <2>3 DEF QuietMessage
<1>4. /\ r.id = s.id /\ r.votes = s.votes /\ r.commitIndex = s.commitIndex
      /\ r.sendmsgs = [d \in Node |-> IF d \in D THEN Append(q[d], AppendMessage(s, d))
                                      ELSE q[d]]
  BY <1>1 DEF SendAppend, RaftObject
<1>5. r.sendmsgs \in [Node -> Seq(QuietMessage(K))]
  BY <1>1, <1>3, <1>4
<1> QED BY <1>1, <1>2, <1>4, <1>5, QuietSame

\* An update of the fields of roles and terms.
LEMMA RoleQuiet ==
  ASSUME NEW K, NEW s \in Quiet(K), NEW t \in Nat \ {0}, NEW l \in NodeId
  PROVE  /\ StepDown(s, t, l) \in Quiet(K) /\ SameNews(s, StepDown(s, t, l))
         /\ BecomeCandidate(s) \in Quiet(K) /\ SameNews(s, BecomeCandidate(s))
         /\ BecomeLeader(s) \in Quiet(K) /\ SameNews(s, BecomeLeader(s))
<1> DEFINE Same(r) == /\ r.id = s.id /\ r.votes = s.votes
                      /\ r.commitIndex = s.commitIndex /\ r.sendmsgs = s.sendmsgs
                      /\ r.peers = s.peers /\ r.prs = s.prs
<1>1. s \in RaftObject
  BY DEF Quiet
<1>2. \A u : Same(Reset(s, u)) /\ DOMAIN Reset(s, u) = DOMAIN s
  BY <1>1 DEF Reset, RaftObject
<1>3. /\ Same(StepDown(s, t, l)) /\ Same(BecomeCandidate(s))
      /\ Same(BecomeLeader(s))
  BY <1>1, <1>2 DEF StepDown, BecomeCandidate, BecomeLeader, RaftObject
<1>4. /\ StepDown(s, t, l) \in RaftObject /\ BecomeCandidate(s) \in RaftObject
      /\ BecomeLeader(s) \in RaftObject
  BY <1>1, RoleType
<1>5. \A r \in RaftObject : Same(r) => r \in Quiet(K) /\ SameNews(s, r)
  BY QuietSame DEF Quiet, SameNews
<1> HIDE DEF Same
<1> QED BY <1>3, <1>4, <1>5
-----------------------------------------------------------------------------
(* Quiet calls: the leader *)

\* maybeCommit() moves to what a follower has acknowledged.
LEMMA MaybeCommitQuiet ==
  ASSUME NEW K, NEW s \in Quiet(K)
  PROVE  MaybeCommit(s) \in Quiet(K) /\ SameNews(s, MaybeCommit(s))
<1>1. s \in RaftObject /\ s.commitIndex \in K /\ Own(s) \subseteq K
  BY DEF Quiet
<1>2. Committable(s) \subseteq Own(s)
  <2>1. \A c \in Committable(s) : c \in Nat
    BY <1>1, CommittableType
  <2>2. \A c \in Committable(s) : \E p \in s.peers : c = s.prs[p].match
    BY DEF Committable
  <2> QED BY <2>1, <2>2 DEF Own
<1>3. \A c : /\ CommitTo(s, c).id = s.id /\ CommitTo(s, c).votes = s.votes
             /\ CommitTo(s, c).commitIndex \in {s.commitIndex, c}
             /\ CommitTo(s, c).sendmsgs = s.sendmsgs
             /\ SameNews(s, CommitTo(s, c))
  BY <1>1 DEF CommitTo, SameNews, RaftObject
<1>4. Committable(s) # {} => (CHOOSE c \in Committable(s) : TRUE) \in K
  BY <1>1, <1>2
<1>5. /\ MaybeCommit(s).id = s.id /\ MaybeCommit(s).votes = s.votes
      /\ MaybeCommit(s).commitIndex \in K
      /\ MaybeCommit(s).sendmsgs = s.sendmsgs
      /\ SameNews(s, MaybeCommit(s))
  BY <1>1, <1>3, <1>4 DEF MaybeCommit, SameNews
<1>6. MaybeCommit(s) \in RaftObject
  BY <1>1, CommittableType
<1> QED BY <1>5, <1>6, QuietSame DEF Quiet

\* A proposal.
LEMMA StepPropQuiet ==
  ASSUME NEW K, NEW s \in Quiet(K), NEW v \in Value
  PROVE  Tells(K, s, StepProp(s, v))
<1> DEFINE e == [term |-> s.currentTerm, index |-> s.lastApplied + 1, data |-> v]
           r == [s EXCEPT !.entries = Append(s.entries, e)]
           t == MaybeCommit(r)
           u == AppendEntry(s, v)
<1>1. s \in RaftObject
  BY DEF Quiet
<1>2. e \in Entry
  BY <1>1 DEF Entry, RaftObject
<1>3. Append(s.entries, e) \in Seq(Entry)
  BY <1>1, <1>2, AppendProperties DEF RaftObject
<1> HIDE DEF e
<1>4. r \in RaftObject
  BY <1>1, <1>3 DEF RaftObject
<1>5. u = [t EXCEPT !.ready = TRUE]
  BY DEF AppendEntry, e
<1>6. /\ r.id = s.id /\ r.votes = s.votes /\ r.commitIndex = s.commitIndex
      /\ r.sendmsgs = s.sendmsgs /\ SameNews(s, r)
  BY <1>1 DEF SameNews, RaftObject
<1> HIDE DEF r
<1>7. r \in Quiet(K)
  BY <1>4, <1>6, QuietSame DEF Quiet
<1>8. t \in Quiet(K) /\ SameNews(r, t)
  BY <1>7, MaybeCommitQuiet
<1> HIDE DEF t
<1>9. u \in RaftObject
  BY <1>1, StepPropType
<1>10. /\ u.id = t.id /\ u.votes = t.votes /\ u.commitIndex = t.commitIndex
       /\ u.sendmsgs = t.sendmsgs /\ SameNews(t, u)
  BY <1>5, <1>8 DEF SameNews, Quiet, RaftObject
<1> HIDE DEF u
<1>11. u \in Quiet(K)
  BY <1>8, <1>9, <1>10, QuietSame DEF Quiet
<1>12. u.peers \ {u.id} \in SUBSET Node
  BY <1>9 DEF RaftObject
<1>13. /\ StepProp(s, v) = SendAppend(u, u.peers \ {u.id})
       /\ StepProp(s, v) \in Quiet(K)
       /\ SameNews(u, StepProp(s, v))
  <2>1. StepProp(s, v) = SendAppend(u, u.peers \ {u.id})
    BY DEF StepProp, BcastAppend, u
  <2> QED BY <1>11, <1>12, <2>1, SendAppendQuiet
<1>14. SameNews(s, StepProp(s, v))
  BY <1>6, <1>8, <1>10, <1>13 DEF SameNews
<1> QED BY <1>1, <1>13, <1>14, OwnProperties, QuietTells

\* An acknowledgement is what makes a commit index known to be acknowledged.
LEMMA AcknowledgeQuiet ==
  ASSUME NEW K, NEW s \in Quiet(K), NEW m \in Message, m.from \in s.peers
  PROVE  Tells(K, s, Acknowledge(s, m))
<1> DEFINE p == MaybeUpdate(s.prs[m.from], m.index)
           q == IF p.state = "Probe" THEN BecomeReplicate(p)
                ELSE IF p.state = "Snapshot" THEN BecomeProbe(p)
                ELSE p
           t == [s EXCEPT !.prs[m.from] = q]
           c == MaybeCommit(t)
           u == BcastAppend(c)
<1>1. s \in RaftObject
  BY DEF Quiet
<1>2. m.from \in Node /\ s.prs[m.from] \in Progress /\ m.index \in Nat
  BY <1>1 DEF RaftObject, Message
<1>3. p \in Progress /\ p.match >= s.prs[m.from].match
  <2>1. p \in Progress
    BY <1>2, ProgressType
  <2>2. \A x \in Progress, k \in Nat : MaybeUpdate(x, k).match >= x.match
    BY DEF MaybeUpdate, IsNews, Progress
  <2> QED BY <1>2, <2>1, <2>2
<1>4. q \in Progress /\ q.match = p.match
  <2>1. \A x \in Progress : /\ BecomeReplicate(x).match = x.match
                            /\ BecomeProbe(x).match = x.match
    BY DEF BecomeReplicate, BecomeProbe, ResetState, Progress
  <2> QED BY <1>2, <1>3, <2>1, ProgressType
<1> HIDE DEF p, q
<1>5. ASSUME NEW x \in Progress, x.match >= s.prs[m.from].match
      PROVE  LET r == [s EXCEPT !.prs[m.from] = x]
             IN  /\ r \in Quiet(K \cup Own(r)) /\ r \in RaftObject /\ Grown(s, r)
  <2> DEFINE r == [s EXCEPT !.prs[m.from] = x]
             L == K \cup Own(r)
  <2>1. r \in RaftObject
    BY <1>1, <1>2 DEF RaftObject
  <2>2. /\ r.id = s.id /\ r.votes = s.votes /\ r.commitIndex = s.commitIndex
        /\ r.sendmsgs = s.sendmsgs /\ r.peers = s.peers
        /\ \A d \in Node : r.prs[d] = IF d = m.from THEN x ELSE s.prs[d]
    BY <1>1 DEF RaftObject
  <2>3. Grown(s, r)
    <3>1. \A d \in s.peers : d \in Node /\ s.prs[d] \in Progress
      BY <1>1 DEF RaftObject
    <3>2. \A d \in s.peers : d \in Node /\ s.prs[d].match \in Nat
      BY <3>1 DEF Progress
    <3> QED BY <1>5, <2>2, <3>2 DEF Grown
  <2>4. s \in Quiet(L)
    BY QuietMonotonic
  <2> HIDE DEF r
  <2>5. r \in Quiet(L)
    BY <2>1, <2>2, <2>4 DEF Quiet
  <2> QED BY <2>1, <2>3, <2>5 DEF r
<1> DEFINE L == K \cup Own(t)
<1>6. t \in Quiet(L) /\ t \in RaftObject /\ Grown(s, t)
  BY <1>3, <1>4, <1>5
<1>7. Tells(K, s, [s EXCEPT !.prs[m.from] = p])
  BY <1>3, <1>5 DEF Tells
<1> HIDE DEF t
<1>8. c \in Quiet(L) /\ SameNews(t, c)
  BY <1>6, MaybeCommitQuiet
<1>9. c.peers \ {c.id} \in SUBSET Node
  BY <1>8 DEF Quiet, RaftObject
<1>10. u \in Quiet(L) /\ SameNews(c, u)
  BY <1>8, <1>9, SendAppendQuiet DEF BcastAppend
<1> HIDE DEF c, u
<1>11. SameNews(t, u)
  BY <1>8, <1>10 DEF SameNews
<1>12. Own(u) = Own(t)
  BY <1>6, <1>11, OwnProperties
<1>13. Tells(K, s, t)
  BY <1>6 DEF Tells
<1>14. Grown(s, u)
  <2>1. s.peers \subseteq Node
    BY <1>1 DEF RaftObject
  <2> QED BY <1>6, <1>11, <2>1 DEF Grown, SameNews
<1>15. Tells(K, s, u)
  BY <1>10, <1>12, <1>14 DEF Tells
<1> QED BY <1>7, <1>13, <1>15 DEF Acknowledge, p, q, t, c, u

\* What a leader makes of a response.
LEMMA StepLeaderQuiet ==
  ASSUME NEW K, NEW s \in Quiet(K), NEW m \in Message
  PROVE  Tells(K, s, StepLeader(s, m))
<1>1. s \in RaftObject
  BY DEF Quiet
<1>2. Tells(K, s, s)
  BY <1>1, QuietTells, OwnProperties DEF SameNews
<1>3. ASSUME m.from \in s.peers, NEW r, Tells(K, s, r)
      PROVE  Tells(K, s, CatchUp(r, m.from))
  <2> DEFINE L == K \cup Own(r)
             u == SendAppend(r, {m.from})
  <2>1. {m.from} \in SUBSET Node /\ s.peers \subseteq Node
    BY <1>1, <1>3 DEF RaftObject
  <2>2. r \in Quiet(L) /\ r \in RaftObject /\ Grown(s, r)
    BY <1>3 DEF Tells, Quiet
  <2>3. u \in Quiet(L) /\ SameNews(r, u)
    BY <2>1, <2>2, SendAppendQuiet
  <2>4. Own(u) = Own(r)
    BY <2>2, <2>3, OwnProperties
  <2>5. Grown(s, u)
    BY <2>1, <2>2, <2>3 DEF Grown, SameNews
  <2>6. Tells(K, s, u)
    BY <2>3, <2>4, <2>5 DEF Tells
  <2> QED BY <1>3, <2>6 DEF CatchUp
<1> QED BY <1>2, <1>3, AcknowledgeQuiet DEF StepLeader
-----------------------------------------------------------------------------
(* Quiet calls: the follower, and the dispatch of a message *)

\* An update of the log, of the leader and of the term.
LEMMA UpdateQuiet ==
  ASSUME NEW K, NEW s \in Quiet(K), NEW r \in RaftObject,
         r.id = s.id, r.votes = s.votes, r.commitIndex = s.commitIndex,
         r.sendmsgs = s.sendmsgs, r.peers = s.peers, r.prs = s.prs
  PROVE  r \in Quiet(K) /\ SameNews(s, r)
BY QuietSame DEF Quiet, SameNews

\* An append is answered with a position, and no commit index.
LEMMA HandleAppendQuiet ==
  ASSUME NEW K, Closed(K), NEW s \in Quiet(K), NEW m \in Message
  PROVE  HandleAppend(s, m) \in Quiet(K) /\ SameNews(s, HandleAppend(s, m))
<1> DEFINE u == MaybeAppend(s, m)
           w == [u EXCEPT !.ready = TRUE]
<1>1. s \in RaftObject /\ m.from \in NodeId /\ m.index \in Nat
  BY DEF Quiet, Message
<1>2. u \in RaftObject /\ AppendResult(s, m) \in Nat /\ s.commitIndex \in Nat
  BY <1>1, MaybeAppendType DEF RaftObject
<1>3. \A i \in Nat, b \in BOOLEAN : AppResp(s, i, b) \in QuietMessage(K)
  BY <1>1, MessagesQuiet
<1>4. u \in Quiet(K) /\ SameNews(s, u)
  <2>1. /\ u.id = s.id /\ u.votes = s.votes /\ u.commitIndex = s.commitIndex
        /\ u.sendmsgs = s.sendmsgs /\ u.peers = s.peers /\ u.prs = s.prs
    BY <1>1 DEF MaybeAppend, RaftObject
  <2> HIDE DEF u
  <2> QED BY <1>2, <2>1, UpdateQuiet
<1> HIDE DEF u
<1>5. w \in Quiet(K) /\ SameNews(u, w)
  <2>1. /\ w.id = u.id /\ w.votes = u.votes /\ w.commitIndex = u.commitIndex
        /\ w.sendmsgs = u.sendmsgs /\ w.peers = u.peers /\ w.prs = u.prs
        /\ w \in RaftObject
    BY <1>2 DEF RaftObject
  <2> HIDE DEF w
  <2> QED BY <1>4, <2>1, UpdateQuiet
<1> HIDE DEF w
<1>6. \A i \in Nat, b \in BOOLEAN, r \in {s, u, w} :
        /\ Send(r, m.from, AppResp(s, i, b)) \in Quiet(K)
        /\ SameNews(r, Send(r, m.from, AppResp(s, i, b)))
  BY <1>1, <1>3, <1>4, <1>5, SendQuiet
<1>7. \A r \in {s, u, w} : \A x : SameNews(r, x) => SameNews(s, x)
  BY <1>4, <1>5 DEF SameNews
<1> QED BY <1>1, <1>2, <1>6, <1>7 DEF HandleAppend, u, w

\* A heartbeat hands on a commit index of the set.
LEMMA HandleHeartbeatQuiet ==
  ASSUME NEW K, Closed(K), NEW s \in Quiet(K), NEW m \in QuietMessage(K)
  PROVE  HandleHeartbeat(s, m) \in Quiet(K) /\ SameNews(s, HandleHeartbeat(s, m))
<1> DEFINE r == CommitTo(s, m.commit)
<1>1. /\ s \in RaftObject /\ m.from \in NodeId
      /\ m.commit \in Nat /\ m.commit \in K
  BY DEF Quiet, QuietMessage, Message
<1>2. r \in RaftObject
  <2>1. \A c \in Nat : CommitTo(s, c) \in RaftObject
    BY <1>1 DEF CommitTo, RaftObject
  <2> QED BY <1>1, <2>1
<1>3. /\ r.id = s.id /\ r.votes = s.votes /\ r.commitIndex \in {s.commitIndex, m.commit}
      /\ r.sendmsgs = s.sendmsgs /\ SameNews(s, r)
  BY <1>1 DEF CommitTo, SameNews, RaftObject
<1> HIDE DEF r
<1>4. r \in Quiet(K)
  BY <1>1, <1>2, <1>3, QuietSame DEF Quiet
<1>5. HeartbeatResp(s) \in QuietMessage(K)
  BY <1>1, MessagesQuiet
<1>6. /\ HandleHeartbeat(s, m) = Send(r, m.from, HeartbeatResp(s))
      /\ HandleHeartbeat(s, m) \in Quiet(K) /\ SameNews(r, HandleHeartbeat(s, m))
  BY <1>1, <1>4, <1>5, SendQuiet DEF HandleHeartbeat, r
<1> QED BY <1>3, <1>6 DEF SameNews

\* What a follower makes of a message.
LEMMA StepFollowerQuiet ==
  ASSUME NEW K, Closed(K), NEW s \in Quiet(K), NEW m \in QuietMessage(K)
  PROVE  StepFollower(s, m) \in Quiet(K) /\ SameNews(s, StepFollower(s, m))
<1> DEFINE u == [s EXCEPT !.leader = m.from]
<1>1. s \in RaftObject /\ m \in Message /\ m.from \in NodeId
  BY DEF Quiet, QuietMessage, Message
<1>2. \A l \in NodeId, t \in Nat \ {0} :
        LET r == [s EXCEPT !.leader = l, !.currentTerm = t]
        IN  r \in Quiet(K) /\ SameNews(s, r)
  <2>1. TAKE l \in NodeId, t \in Nat \ {0}
  <2> DEFINE r == [s EXCEPT !.leader = l, !.currentTerm = t]
  <2>2. /\ r.id = s.id /\ r.votes = s.votes /\ r.commitIndex = s.commitIndex
        /\ r.sendmsgs = s.sendmsgs /\ r.peers = s.peers /\ r.prs = s.prs
        /\ r \in RaftObject
    BY <1>1 DEF RaftObject
  <2> HIDE DEF r
  <2>3. r \in Quiet(K) /\ SameNews(s, r)
    BY <2>2, UpdateQuiet
  <2> QED BY <2>3 DEF r
<1>3. u \in Quiet(K) /\ SameNews(s, u)
  <2>1. s.currentTerm \in Nat \ {0}
    BY <1>1 DEF RaftObject
  <2>2. u = [s EXCEPT !.leader = m.from, !.currentTerm = s.currentTerm]
    BY <1>1 DEF RaftObject
  <2> QED BY <1>1, <1>2, <2>1, <2>2
<1>4. CASE m.type = "MsgHeartbeat"
  <2>1. m.term \in Nat \ {0}
    BY <1>1, <1>4 DEF Message
  <2>2. PICK t \in Nat \ {0} :
          t = (IF s.leader # m.from THEN m.term ELSE s.currentTerm)
    BY <1>1, <2>1 DEF RaftObject
  <2> DEFINE r == [s EXCEPT !.leader = m.from, !.currentTerm = t]
  <2>3. r \in Quiet(K) /\ SameNews(s, r)
    BY <1>1, <1>2
  <2>4. StepFollower(s, m) = HandleHeartbeat(r, m)
    BY <1>4, <2>2 DEF StepFollower
  <2> HIDE DEF r
  <2>5. HandleHeartbeat(r, m) \in Quiet(K) /\ SameNews(r, HandleHeartbeat(r, m))
    BY <2>3, HandleHeartbeatQuiet
  <2> QED BY <2>3, <2>4, <2>5 DEF SameNews
<1>5. CASE m.type = "MsgApp"
  <2>1. StepFollower(s, m) = HandleAppend(u, m)
    BY <1>5 DEF StepFollower
  <2> HIDE DEF u
  <2>2. HandleAppend(u, m) \in Quiet(K) /\ SameNews(u, HandleAppend(u, m))
    BY <1>1, <1>3, HandleAppendQuiet
  <2> QED BY <1>3, <2>1, <2>2 DEF SameNews
<1>6. CASE m.type # "MsgHeartbeat" /\ m.type # "MsgApp"
  BY <1>6 DEF StepFollower, SameNews
<1> QED BY <1>4, <1>5, <1>6

\* What a candidate makes of one: it never comes to count another's vote.
LEMMA StepCandidateQuiet ==
  ASSUME NEW K, Closed(K), NEW s \in Quiet(K), NEW m \in QuietMessage(K)
  PROVE  StepCandidate(s, m) \in Quiet(K) /\ SameNews(s, StepCandidate(s, m))
<1> DEFINE r == StepDown(s, s.currentTerm, m.from)
<1>1. /\ s.currentTerm \in Nat \ {0} /\ m.from \in NodeId
      /\ m \in Message /\ m.type # "MsgVoteResp"
  BY DEF Quiet, RaftObject, QuietMessage, Message
<1>2. r \in Quiet(K) /\ SameNews(s, r)
  BY <1>1, RoleQuiet
<1> HIDE DEF r
<1>3. /\ HandleHeartbeat(r, m) \in Quiet(K) /\ SameNews(r, HandleHeartbeat(r, m))
      /\ HandleAppend(r, m) \in Quiet(K) /\ SameNews(r, HandleAppend(r, m))
  BY <1>1, <1>2, HandleHeartbeatQuiet, HandleAppendQuiet
<1>4. /\ SameNews(s, s) /\ SameNews(s, HandleHeartbeat(r, m))
      /\ SameNews(s, HandleAppend(r, m))
  BY <1>2, <1>3 DEF SameNews
<1> QED BY <1>1, <1>3, <1>4 DEF StepCandidate, r

\* A node that introduces itself has acknowledged nothing yet.
LEMMA HandleNodeQuiet ==
  ASSUME NEW K, Closed(K), NEW s \in Quiet(K), NEW m \in QuietMessage(K),
         m.type = "MsgNode"
  PROVE  Tells(K, s, HandleNode(s, m))
<1> DEFINE r == AddNode(s, m.from)
           u == [r EXCEPT !.unknownid = Append(@, m.from)]
           resp == [NewMessage("MsgNodeResp") EXCEPT !.term = m.term]
<1>1. /\ s \in RaftObject /\ m \in Message /\ m.term \in Nat
      /\ m.from \in Node /\ m.from \in NodeId
  BY DEF Quiet, QuietMessage, Message, NodeId
<1>2. \A p \in s.peers : p \in Node /\ s.prs[p].match \in Nat
  <2>1. \A p \in s.peers : p \in Node /\ s.prs[p] \in Progress
    BY <1>1 DEF RaftObject
  <2> QED BY <2>1 DEF Progress
<1>3. /\ r.id = s.id /\ r.votes = s.votes /\ r.commitIndex = s.commitIndex
      /\ r.sendmsgs = s.sendmsgs /\ DOMAIN r = DOMAIN s
  BY <1>1 DEF AddNode, RaftObject
<1>4. /\ r.peers = s.peers \cup {m.from}
      /\ \A p \in s.peers : r.prs[p] = s.prs[p]
      /\ \A p \in r.peers \ s.peers : r.prs[p].match = 0
  BY <1>1 DEF AddNode, NewProgress, RaftObject
<1>5. r \in RaftObject
  <2>1. s.lastApplied \in Nat
    BY <1>1 DEF RaftObject
  <2>2. NewProgress(s.lastApplied + 1) \in Progress
    BY <2>1 DEF NewProgress, Progress, ProgressState
  <2>3. \A p \in Progress :
          [s EXCEPT !.peers = s.peers \cup {m.from}, !.prs[m.from] = p]
            \in RaftObject
    BY <1>1 DEF RaftObject
  <2> QED BY <1>1, <2>2, <2>3 DEF AddNode
<1> HIDE DEF r
<1>6. u \in RaftObject
  <2>1. Append(r.unknownid, m.from) \in Seq(Node)
    BY <1>1, <1>5, AppendProperties DEF RaftObject
  <2> QED BY <1>5, <2>1 DEF RaftObject
<1>7. /\ u.id = r.id /\ u.votes = r.votes /\ u.commitIndex = r.commitIndex
      /\ u.sendmsgs = r.sendmsgs /\ u.peers = r.peers /\ u.prs = r.prs
  BY <1>5 DEF RaftObject
<1> HIDE DEF u
<1>8. Grown(s, u) /\ Own(u) \subseteq Own(s)
  <2>1. Grown(s, u)
    BY <1>2, <1>4, <1>7 DEF Grown
  <2>2. Own(u) \subseteq Own(s)
    BY <1>4, <1>7 DEF Own
  <2> QED BY <2>1, <2>2
<1>9. u \in Quiet(K)
  BY <1>3, <1>6, <1>7, <1>8 DEF Quiet
<1>10. resp \in QuietMessage(K)
  BY <1>1, MessagesQuiet
<1>11. /\ HandleNode(s, m) = Send(u, m.from, resp)
       /\ Send(u, m.from, resp) \in Quiet(K)
       /\ SameNews(u, Send(u, m.from, resp))
  BY <1>1, <1>9, <1>10, SendQuiet DEF HandleNode, r, u
<1> HIDE DEF resp
<1>12. Grown(s, HandleNode(s, m))
  BY <1>2, <1>8, <1>11 DEF Grown, SameNews
<1> QED BY <1>1, <1>11, <1>12, QuietTells

\* One message through generalStep().
LEMMA GeneralStepQuiet ==
  ASSUME NEW K, Closed(K), NEW s \in Quiet(K), NEW m \in QuietMessage(K)
  PROVE  Tells(K, s, GeneralStep(s, m))
<1>1. /\ s \in RaftObject /\ m \in Message /\ m.type # "MsgVote"
      /\ m.term \in Nat /\ m.from \in NodeId /\ s.currentTerm \in Nat \ {0}
  BY DEF Quiet, QuietMessage, Message, RaftObject
<1>2. \A r \in Quiet(K) : r \in RaftObject
  BY DEF Quiet
<1>3. \A r \in Quiet(K) : \A u \in Quiet(K) : SameNews(r, u) => Tells(K, r, u)
  BY <1>2, OwnProperties, QuietTells
<1>4. \A r \in Quiet(K) : Tells(K, r, Dispatch(r, m))
  <2>1. TAKE r \in Quiet(K)
  <2>2. Tells(K, r, Step(r, m))
    BY <1>1, <1>3, StepLeaderQuiet, StepCandidateQuiet, StepFollowerQuiet DEF Step
  <2> QED BY <1>1, <2>2, HandleNodeQuiet DEF Dispatch
<1>5. Tells(K, s, s)
  BY <1>3 DEF SameNews
<1>6. ASSUME m.term > s.currentTerm
      PROVE  Tells(K, s, GeneralStep(s, m))
  <2> DEFINE r == StepDown(s, m.term, m.from)
             u == Dispatch(r, m)
  <2>1. m.term \in Nat \ {0}
    BY <1>1, <1>6
  <2>2. r \in Quiet(K) /\ SameNews(s, r)
    BY <1>1, <2>1, RoleQuiet
  <2>3. GeneralStep(s, m) = u
    BY <1>1, <1>6 DEF GeneralStep
  <2> HIDE DEF r
  <2>4. Tells(K, r, u)
    BY <1>4, <2>2
  <2> HIDE DEF u
  <2>5. s.peers \subseteq Node
    BY <1>1 DEF RaftObject
  <2>6. Tells(K, s, u)
    BY <2>2, <2>4, <2>5 DEF Tells, Grown, SameNews
  <2> QED BY <2>3, <2>6
<1> QED BY <1>4, <1>5, <1>6 DEF GeneralStep
-----------------------------------------------------------------------------
(* Quiet steps *)

\* In a step each node goes on within the set and what it has had acknowledged,
\* or it is started again.
AllTell(K) ==
  \A x \in Node : \/ Tells(K, raft[x], raft'[x])
                  \/ "restart" \in Faults /\ raft'[x] \in Quiet(K)

\* A call that leaves peers and matches alone tells nothing new.
LEMMA SameTells ==
  ASSUME NEW K, NEW s \in RaftObject, NEW r \in Quiet(K), SameNews(s, r)
  PROVE  Tells(K, s, r)
BY OwnProperties, QuietTells

\* A step in which at most two objects change, each by such a call.
LEMMA TwoTell ==
  ASSUME NEW K, TypeOK, \A x \in Node : raft[x] \in Quiet(K),
         NEW n \in Node, NEW m \in Node, NEW r, NEW u,
         Tells(K, raft[n], r), Tells(K, raft[m], u),
         raft' \in {raft, [raft EXCEPT ![n] = r], [raft EXCEPT ![n] = r, ![m] = u]}
  PROVE  AllTell(K)
<1>1. \A x \in Node : Tells(K, raft[x], raft[x])
  <2>1. \A x \in Node : raft[x] \in RaftObject /\ raft[x] \in Quiet(K)
    BY DEF TypeOK
  <2> QED BY <2>1, SameTells DEF SameNews
<1>2. \A x \in Node : \/ raft'[x] = raft[x]
                      \/ x = n /\ raft'[x] = r
                      \/ x = m /\ raft'[x] = u
  BY DEF TypeOK
<1> QED BY <1>1, <1>2 DEF AllTell

\* One that changes one.
LEMMA OneTells ==
  ASSUME NEW K, TypeOK, \A x \in Node : raft[x] \in Quiet(K),
         NEW n \in Node, NEW r, Tells(K, raft[n], r),
         raft' = raft \/ raft' = [raft EXCEPT ![n] = r]
  PROVE  AllTell(K)
BY TwoTell

\* Another queue of quiet messages.
LEMMA QueueQuiet ==
  ASSUME NEW K, NEW s \in Quiet(K), NEW d \in Node, NEW q \in Seq(QuietMessage(K))
  PROVE  Tells(K, s, [s EXCEPT !.sendmsgs[d] = q])
<1> DEFINE r == [s EXCEPT !.sendmsgs[d] = q]
<1>1. s \in RaftObject /\ s.sendmsgs \in [Node -> Seq(QuietMessage(K))]
  BY DEF Quiet
<1>2. q \in Seq(Message)
  <2>1. QuietMessage(K) \subseteq Message
    BY DEF QuietMessage
  <2> QED BY <2>1, SeqMonotonic
<1>3. r \in RaftObject
  BY <1>1, <1>2, QueueType
<1>4. r.id = s.id /\ r.votes = s.votes /\ r.commitIndex = s.commitIndex
      /\ r.sendmsgs = [s.sendmsgs EXCEPT ![d] = q] /\ SameNews(s, r)
  BY <1>1 DEF SameNews, RaftObject
<1>5. r.sendmsgs \in [Node -> Seq(QuietMessage(K))]
  BY <1>1, <1>4
<1> HIDE DEF r
<1>6. r \in Quiet(K)
  BY <1>3, <1>4, <1>5, QuietSame DEF Quiet
<1>7. Tells(K, s, r)
  BY <1>1, <1>4, <1>6, SameTells
<1> QED BY <1>7 DEF r

\* Two quiet messages parsed as one: the commit index is one of theirs.
LEMMA MergeQuiet ==
  ASSUME NEW K, NEW a \in QuietMessage(K), NEW b \in QuietMessage(K)
  PROVE  Merge(a, b) \in QuietMessage(K)
<1>1. Merge(a, b) \in Message
  BY MergeType DEF QuietMessage
<1>2. Merge(a, b).type = b.type /\ Merge(a, b).commit \in {a.commit, b.commit}
  BY DEF Merge
<1> QED BY <1>1, <1>2 DEF QuietMessage

\* The count of votes that follows a candidacy: the node's own vote is the only
\* one, and it is enough.
LEMMA ElectLeads ==
  ASSUME NEW K, TypeOK, NEW n \in Node, raft[n] \in Quiet(K), Elect(n)
  PROVE  LET s == RecordVote(raft[n], n, TRUE)
         IN  s.votes = {<<n, TRUE>>} /\ raft' = [raft EXCEPT ![n] = BecomeLeader(s)]
<1> DEFINE s == RecordVote(raft[n], n, TRUE)
<1>1. raft[n] \in RaftObject /\ raft[n].id = n
  BY DEF TypeOK
<1>2. raft[n].votes = {} \/ raft[n].votes = {<<n, TRUE>>}
  BY <1>1 DEF Quiet
<1>3. s.votes = {<<n, TRUE>>}
  <2>1. CASE raft[n].votes = {}
    BY <1>1, <2>1 DEF RecordVote, RaftObject
  <2>2. CASE raft[n].votes = {<<n, TRUE>>}
    BY <2>2 DEF RecordVote
  <2> QED BY <1>2, <2>1, <2>2
<1>4. {v \in s.votes : v[2]} = {<<n, TRUE>>}
  <2> DEFINE w == <<n, TRUE>>
  <2>1. w[2]
    OBVIOUS
  <2> HIDE DEF w
  <2>2. {v \in {w} : v[2]} = {w}
    BY <2>1
  <2> QED BY <1>3, <2>2 DEF w
<1>5. Cardinality({<<n, TRUE>>}) = 1
  BY FS_Singleton
<1>6. Quorum(s) = Granted(s)
  BY <1>4, <1>5, QuorumIsOne DEF Granted
<1> HIDE DEF s
<1> QED BY <1>3, <1>6 DEF Elect, Becomes, s

\* The actions of the tick thread.  A candidate has its own vote, and one is
\* enough: it sends no MsgVote.
LEMMA TickTells ==
  ASSUME NEW K, Closed(K), TypeOK, \A x \in Node : raft[x] \in Quiet(K),
         NEW n \in Node
  PROVE  /\ TickElection(n) => AllTell(K)
         /\ Elect(n) => AllTell(K)
         /\ TickHeartbeat(n) => AllTell(K)
<1>1. /\ raft[n] \in RaftObject /\ raft[n] \in Quiet(K) /\ raft[n].id = n
      /\ raft[n].currentTerm \in Nat \ {0} /\ n \in NodeId
  BY DEF TypeOK, RaftObject, NodeId
<1>2. ASSUME TickElection(n)
      PROVE  AllTell(K)
  <2>1. Tells(K, raft[n], BecomeCandidate(raft[n]))
    BY <1>1, RoleQuiet, SameTells
  <2>2. raft' = [raft EXCEPT ![n] = BecomeCandidate(raft[n])]
    BY <1>2 DEF TickElection, Becomes
  <2> QED BY <2>1, <2>2, OneTells
<1>3. ASSUME TickHeartbeat(n)
      PROVE  AllTell(K)
  <2>1. Tells(K, raft[n], BcastHeartbeat(raft[n]))
    BY <1>1, BcastHeartbeatQuiet, SameTells
  <2>2. raft' = [raft EXCEPT ![n] = BcastHeartbeat(raft[n])]
    BY <1>3 DEF TickHeartbeat, Becomes
  <2> QED BY <2>1, <2>2, OneTells
<1>4. ASSUME Elect(n)
      PROVE  AllTell(K)
  <2> DEFINE s == RecordVote(raft[n], n, TRUE)
  <2>1. s.votes = {<<n, TRUE>>} /\ raft' = [raft EXCEPT ![n] = BecomeLeader(s)]
    BY <1>1, <1>4, ElectLeads
  <2>2. s \in RaftObject
    BY <1>1, RecordVoteType
  <2>3. /\ s.id = n /\ s.commitIndex = raft[n].commitIndex
        /\ s.sendmsgs = raft[n].sendmsgs /\ SameNews(raft[n], s)
    BY <1>1 DEF RecordVote, SameNews, RaftObject
  <2> HIDE DEF s
  <2>4. Own(s) = Own(raft[n])
    BY <1>1, <2>3, OwnProperties
  <2>5. s \in Quiet(K)
    BY <1>1, <2>1, <2>2, <2>3, <2>4 DEF Quiet
  <2>6. s.currentTerm \in Nat \ {0} /\ None \in NodeId
    BY <2>2 DEF RaftObject, NodeId
  <2>7. BecomeLeader(s) \in Quiet(K) /\ SameNews(s, BecomeLeader(s))
    BY <2>5, <2>6, RoleQuiet
  <2>8. SameNews(raft[n], BecomeLeader(s))
    BY <2>3, <2>7 DEF SameNews
  <2>9. Tells(K, raft[n], BecomeLeader(s))
    BY <1>1, <2>7, <2>8, SameTells
  <2> QED BY <2>1, <2>9, OneTells
<1> QED BY <1>2, <1>3, <1>4

\* A proposal, and the actions of the other threads.
LEMMA ThreadTells ==
  ASSUME NEW K, Closed(K), TypeOK, \A x \in Node : raft[x] \in Quiet(K),
         NEW n \in Node
  PROVE  /\ \A v \in Value : Propose(n, v) => AllTell(K)
         /\ Persist(n) => AllTell(K)
         /\ Bind(n) => AllTell(K)
         /\ \A d \in Node : Discard(n, d) => AllTell(K)
         /\ \A d \in Node : Lose(n, d) => AllTell(K)
<1>1. raft[n] \in RaftObject /\ raft[n] \in Quiet(K)
  BY DEF TypeOK
<1>2. \A r \in RaftObject :
        /\ r.id = raft[n].id /\ r.votes = raft[n].votes
        /\ r.commitIndex = raft[n].commitIndex
        /\ r.sendmsgs = raft[n].sendmsgs
        /\ r.peers = raft[n].peers /\ r.prs = raft[n].prs
        => Tells(K, raft[n], r)
  BY <1>1, UpdateQuiet, SameTells
<1>3. ASSUME NEW v \in Value, Propose(n, v)
      PROVE  AllTell(K)
  <2>1. Tells(K, raft[n], StepProp(raft[n], v))
    BY <1>1, StepPropQuiet
  <2>2. raft' = raft \/ raft' = [raft EXCEPT ![n] = StepProp(raft[n], v)]
    BY <1>3 DEF Propose, Becomes
  <2> QED BY <2>1, <2>2, OneTells
<1>4. ASSUME Persist(n)
      PROVE  AllTell(K)
  <2> DEFINE s == StorageLog(raft[n])
             r == [s EXCEPT !.ready = FALSE]
  <2>1. s \in RaftObject
    BY <1>1, StorageLogType
  <2>2. /\ s.id = raft[n].id /\ s.votes = raft[n].votes
        /\ s.commitIndex = raft[n].commitIndex
        /\ s.sendmsgs = raft[n].sendmsgs
        /\ s.peers = raft[n].peers /\ s.prs = raft[n].prs
    BY <1>1 DEF StorageLog, AppliedTo, RaftObject
  <2> HIDE DEF s
  <2>3. /\ r \in RaftObject
        /\ r.id = s.id /\ r.votes = s.votes
        /\ r.commitIndex = s.commitIndex /\ r.sendmsgs = s.sendmsgs
        /\ r.peers = s.peers /\ r.prs = s.prs
    BY <2>1 DEF RaftObject
  <2>4. raft' = [raft EXCEPT ![n] = r]
    BY <1>4 DEF Persist, Becomes, s
  <2> HIDE DEF r
  <2> QED BY <1>2, <2>2, <2>3, <2>4, OneTells
<1>5. ASSUME Bind(n)
      PROVE  AllTell(K)
  <2> DEFINE u == raft[n].unknownid
             p == raft[n].peersfd \cup {Head(u)}
             r == [raft[n] EXCEPT !.peersfd = p, !.unknownid = Tail(u)]
  <2>1. u \in Seq(Node) /\ u # <<>>
    BY <1>1, <1>5 DEF Bind, RaftObject
  <2>2. p \in SUBSET Node /\ Tail(u) \in Seq(Node)
    BY <1>1, <2>1, HeadTailProperties DEF RaftObject
  <2> HIDE DEF u, p
  <2>3. /\ r \in RaftObject
        /\ r.id = raft[n].id /\ r.votes = raft[n].votes
        /\ r.commitIndex = raft[n].commitIndex
        /\ r.sendmsgs = raft[n].sendmsgs
        /\ r.peers = raft[n].peers /\ r.prs = raft[n].prs
    BY <1>1, <2>2 DEF RaftObject
  <2>4. raft' = [raft EXCEPT ![n] = r]
    BY <1>5 DEF Bind, Becomes, p, u
  <2> HIDE DEF r
  <2> QED BY <1>2, <2>3, <2>4, OneTells
<1>6. ASSUME NEW d \in Node, raft[n].sendmsgs[d] # <<>>,
             raft' = [raft EXCEPT ![n].sendmsgs[d] = Tail(@)]
      PROVE  AllTell(K)
  <2> DEFINE q == raft[n].sendmsgs[d]
             r == [raft[n] EXCEPT !.sendmsgs[d] = Tail(q)]
  <2>1. q \in Seq(QuietMessage(K))
    BY <1>1 DEF Quiet
  <2>2. Tail(q) \in Seq(QuietMessage(K))
    BY <1>6, <2>1, HeadTailProperties
  <2>3. Tells(K, raft[n], r)
    BY <1>1, <2>2, QueueQuiet
  <2>4. raft' = [raft EXCEPT ![n] = r]
    BY <1>6
  <2> HIDE DEF r
  <2> QED BY <2>3, <2>4, OneTells
<1> QED BY <1>3, <1>4, <1>5, <1>6 DEF Discard, Lose, Deliverable

\* A message is taken from a queue and handled.
LEMMA StepNodeTells ==
  ASSUME NEW K, Closed(K), TypeOK, \A x \in Node : raft[x] \in Quiet(K),
         NEW n \in Node, NEW src \in Node \ {n}, StepNode(n, src)
  PROVE  AllTell(K)
<1> DEFINE q == raft[src].sendmsgs[n]
           r == GeneralStep(raft[n], Head(q))
           u == [raft[src] EXCEPT !.sendmsgs[n] = Tail(q)]
<1>1. q \in Seq(QuietMessage(K)) /\ q # <<>>
  BY DEF StepNode, Deliverable, Quiet
<1>2. Head(q) \in QuietMessage(K) /\ Tail(q) \in Seq(QuietMessage(K))
  BY <1>1, HeadTailProperties
<1>3. Tells(K, raft[n], r)
  BY <1>2, GeneralStepQuiet
<1>4. Tells(K, raft[src], u)
  BY <1>2, QueueQuiet
<1>5. raft' = [raft EXCEPT ![n] = r, ![src] = u]
  BY DEF StepNode, Takes, TypeOK
<1> HIDE DEF r, u
<1> QED BY <1>3, <1>4, <1>5, TwoTell

\* Two messages become one.
LEMMA CoalesceTells ==
  ASSUME NEW K, TypeOK, \A x \in Node : raft[x] \in Quiet(K),
         NEW n \in Node, NEW m \in Node, NEW d \in Node, Coalesce(m, n, d)
  PROVE  AllTell(K)
<1> DEFINE q == raft[m].sendmsgs[d]
           k == raft[n].sendmsgs[d]
<1>1. q \in Seq(QuietMessage(K)) /\ q # <<>> /\ k \in Seq(QuietMessage(K))
  BY DEF Coalesce, Deliverable, Quiet
<1>2. /\ Head(q) \in QuietMessage(K) /\ Tail(q) \in Seq(QuietMessage(K))
      /\ Len(q) \in Nat
  BY <1>1, HeadTailProperties, LenProperties
<1>3. CASE m = n /\ Len(q) > 1
           /\ raft' = [raft EXCEPT ![m].sendmsgs[d] =
                         <<Merge(q[1], q[2])>> \o SubSeq(q, 3, Len(q))]
  <2> DEFINE x == <<Merge(q[1], q[2])>> \o SubSeq(q, 3, Len(q))
             r == [raft[m] EXCEPT !.sendmsgs[d] = x]
  <2>1. q[1] \in QuietMessage(K) /\ q[2] \in QuietMessage(K)
    BY <1>1, <1>2, <1>3, ElementOfSeq
  <2>2. SubSeq(q, 3, Len(q)) \in Seq(QuietMessage(K))
    BY <1>1, SubSeqType
  <2>3. <<Merge(q[1], q[2])>> \in Seq(QuietMessage(K))
    <3>1. Merge(q[1], q[2]) \in QuietMessage(K)
      BY <2>1, MergeQuiet
    <3> QED BY <3>1
  <2>4. x \in Seq(QuietMessage(K))
    BY <2>2, <2>3, ConcatProperties
  <2>5. raft' = [raft EXCEPT ![m] = r]
    BY <1>3
  <2> HIDE DEF x
  <2>6. Tells(K, raft[m], r)
    BY <2>4, QueueQuiet
  <2> HIDE DEF r
  <2> QED BY <2>5, <2>6, OneTells
<1>4. CASE m # n /\ k # <<>>
           /\ raft' = [raft EXCEPT ![m].sendmsgs[d] = Tail(@),
                 ![n].sendmsgs[d] = <<Merge(Head(q), Head(@))>> \o Tail(@)]
  <2> DEFINE x == <<Merge(Head(q), Head(k))>> \o Tail(k)
             r == [raft[m] EXCEPT !.sendmsgs[d] = Tail(q)]
             u == [raft[n] EXCEPT !.sendmsgs[d] = x]
  <2>1. Head(k) \in QuietMessage(K) /\ Tail(k) \in Seq(QuietMessage(K))
    BY <1>1, <1>4, HeadTailProperties
  <2>2. <<Merge(Head(q), Head(k))>> \in Seq(QuietMessage(K))
    <3>1. Merge(Head(q), Head(k)) \in QuietMessage(K)
      BY <1>2, <2>1, MergeQuiet
    <3> QED BY <3>1
  <2>3. x \in Seq(QuietMessage(K))
    BY <2>1, <2>2, ConcatProperties
  <2>4. raft' = [raft EXCEPT ![m] = r, ![n] = u]
    BY <1>4 DEF TypeOK
  <2> HIDE DEF x
  <2>5. Tells(K, raft[m], r) /\ Tells(K, raft[n], u)
    BY <1>2, <2>3, QueueQuiet
  <2> HIDE DEF r, u
  <2> QED BY <2>4, <2>5, TwoTell
<1> QED BY <1>3, <1>4 DEF Coalesce, Deliverable

\* A new process knows of no acknowledgement and has decided nothing.
LEMMA BootQuiet ==
  ASSUME NEW K, Closed(K), NEW n \in Node, NEW file \in Seq(Entry)
  PROVE  Boot(n, file) \in Quiet(K)
<1> DEFINE b == Boot(n, file)
<1>1. b \in RaftObject /\ 0 \in K /\ Peers[n] \subseteq Node
  BY BootType, NodeAssumption DEF Closed
<1>2. /\ b.votes = {} /\ b.commitIndex = 0 /\ b.peers = Peers[n]
      /\ \A d \in Node : b.prs[d].match = 0
      /\ b.sendmsgs = [d \in Node |->
           IF d \in Peers[n] THEN <<[NewMessage("MsgNode") EXCEPT !.from = n]>>
           ELSE <<>>]
  BY DEF Boot, NewProgress
<1>3. b.sendmsgs \in [Node -> Seq(QuietMessage(K))]
  <2>1. [NewMessage("MsgNode") EXCEPT !.from = n] \in QuietMessage(K)
    BY MessagesQuiet
  <2> QED BY <1>2, <2>1, EmptySeq
<1> HIDE DEF b
<1>4. Own(b) \subseteq K
  <2>1. \A c \in Own(b) : c = 0
    BY <1>1, <1>2 DEF Own
  <2> QED BY <1>1, <2>1
<1>5. b \in Quiet(K)
  BY <1>1, <1>2, <1>3, <1>4 DEF Quiet
<1> QED BY <1>5 DEF b

\* A restart leaves what the old process had sent, and a new process.
LEMMA RestartTells ==
  ASSUME NEW K, Closed(K), TypeOK, \A x \in Node : raft[x] \in Quiet(K),
         NEW n \in Node, Restart(n)
  PROVE  AllTell(K)
<1> DEFINE boot == Boot(n, raft[n].storage)
           old == raft[n].sendmsgs
<1>1. PICK kept \in [Node -> 0..MaxInFlight] :
        /\ \A d \in Node : kept[d] <= Len(old[d])
        /\ raft' = [x \in Node |->
             IF x = n THEN [boot EXCEPT !.sendmsgs =
                             [d \in Node |-> SubSeq(old[d], 1, kept[d]) \o @[d]]]
             ELSE [raft[x] EXCEPT !.peersfd = @ \ {n}]]
  BY DEF Restart
<1>2. raft[n] \in RaftObject /\ old \in [Node -> Seq(QuietMessage(K))]
  BY DEF TypeOK, Quiet
<1>3. boot \in Quiet(K)
  BY <1>2, BootQuiet DEF RaftObject
<1> DEFINE q == [d \in Node |-> SubSeq(old[d], 1, kept[d]) \o boot.sendmsgs[d]]
           r == [boot EXCEPT !.sendmsgs = q]
<1> HIDE DEF boot
<1>4. q \in [Node -> Seq(QuietMessage(K))]
  <2>1. SUFFICES ASSUME NEW d \in Node
                 PROVE  SubSeq(old[d], 1, kept[d]) \o boot.sendmsgs[d]
                          \in Seq(QuietMessage(K))
    OBVIOUS
  <2>2. /\ old[d] \in Seq(QuietMessage(K)) /\ kept[d] \in Int
        /\ kept[d] <= Len(old[d]) /\ boot.sendmsgs[d] \in Seq(QuietMessage(K))
    BY <1>1, <1>2, <1>3, BoundAssumption DEF Quiet
  <2>3. \A i \in 1..kept[d] : old[d][i] \in QuietMessage(K)
    BY <2>2, LenProperties, ElementOfSeq
  <2>4. SubSeq(old[d], 1, kept[d]) \in Seq(QuietMessage(K))
    BY <2>2, <2>3, SubSeqProperties
  <2> QED BY <2>2, <2>4, ConcatProperties
<1>5. q \in [Node -> Seq(Message)]
  <2>1. QuietMessage(K) \subseteq Message
    BY DEF QuietMessage
  <2>2. \A x \in Seq(QuietMessage(K)) : x \in Seq(Message)
    BY <2>1, SeqMonotonic
  <2> QED BY <1>4, <2>2
<1>6. raft'[n] = r
  BY <1>1
<1> HIDE DEF q
<1>7. r \in RaftObject
  BY <1>3, <1>5, SendmsgsType DEF Quiet
<1>8. /\ r.id = boot.id /\ r.votes = boot.votes /\ r.sendmsgs = q
      /\ r.commitIndex = boot.commitIndex /\ SameNews(boot, r)
  BY <1>3 DEF SameNews, Quiet, RaftObject
<1> HIDE DEF r
<1>9. r \in Quiet(K)
  BY <1>3, <1>4, <1>7, <1>8, QuietSame DEF Quiet
<1>10. "restart" \in Faults
  BY DEF Restart, Fault
<1>11. ASSUME NEW x \in Node, x # n
       PROVE  Tells(K, raft[x], raft'[x])
  <2> DEFINE s == [raft[x] EXCEPT !.peersfd = raft[x].peersfd \ {n}]
  <2>1. raft[x] \in RaftObject /\ raft[x] \in Quiet(K)
    BY DEF TypeOK
  <2>2. raft'[x] = s
    BY <1>1, <1>11
  <2>3. raft[x].peersfd \ {n} \in SUBSET Node
    BY <2>1 DEF RaftObject
  <2>4. /\ s \in RaftObject
        /\ s.id = raft[x].id /\ s.votes = raft[x].votes
        /\ s.commitIndex = raft[x].commitIndex
        /\ s.sendmsgs = raft[x].sendmsgs
        /\ s.peers = raft[x].peers /\ s.prs = raft[x].prs
    BY <2>1, <2>3 DEF RaftObject
  <2> HIDE DEF s
  <2>5. s \in Quiet(K) /\ SameNews(raft[x], s)
    BY <2>1, <2>4, UpdateQuiet
  <2> QED BY <2>1, <2>2, <2>5, SameTells
<1> QED BY <1>6, <1>9, <1>10, <1>11 DEF AllTell

\* Every step is quiet.
LEMMA NextTells ==
  ASSUME NEW K, Closed(K), TypeOK, \A x \in Node : raft[x] \in Quiet(K),
         [Next]_vars
  PROVE  AllTell(K)
<1>1. ASSUME raft' = raft
      PROVE  AllTell(K)
  <2>1. \A x \in Node : raft[x] \in RaftObject
    BY DEF TypeOK
  <2> QED BY <1>1, <2>1, SameTells DEF AllTell, SameNews
<1>2. CASE UNCHANGED vars
  BY <1>1, <1>2 DEF vars
<1>3. ASSUME NEW n \in Node,
             \/ TickElection(n) \/ Elect(n) \/ TickHeartbeat(n)
      PROVE  AllTell(K)
  BY <1>3, TickTells
<1>4. ASSUME NEW n \in Node,
             \/ Persist(n) \/ Bind(n)
             \/ \E v \in Value : Propose(n, v)
             \/ \E m \in Node : Discard(n, m) \/ Lose(n, m)
      PROVE  AllTell(K)
  BY <1>4, ThreadTells
<1>5. ASSUME NEW n \in Node, Crash(n)
      PROVE  AllTell(K)
  BY <1>1, <1>5 DEF Crash
<1> QED BY <1>2, <1>3, <1>4, <1>5, StepNodeTells, CoalesceTells, RestartTells
    DEF Next

\* The program starts quiet.
LEMMA InitQuiet ==
  ASSUME NEW K, Closed(K), Init
  PROVE  \A x \in Node : raft[x] \in Quiet(K)
<1>1. <<>> \in Seq(Entry)
  BY EmptySeq
<1> QED BY <1>1, BootQuiet DEF Init
-----------------------------------------------------------------------------
(* Theorems *)

\* No process starts or goes on with a vote other than its own, and no vote
\* message is ever queued.
NoVotes == \A x \in Node : raft[x] \in Quiet(Nat)

\* So it stays, under any faults.
LEMMA AlwaysQuiet == Spec => []NoVotes
<1>1. Closed(Nat)
  BY DEF Closed
<1>2. Init => NoVotes
  BY <1>1, InitQuiet DEF NoVotes
<1>3. TypeOK /\ NoVotes /\ [Next]_vars => NoVotes'
  <2>1. SUFFICES ASSUME TypeOK, NoVotes, [Next]_vars, NEW x \in Node
                 PROVE  raft'[x] \in Quiet(Nat)
    BY DEF NoVotes
  <2>2. AllTell(Nat)
    BY <1>1, <2>1, NextTells DEF NoVotes
  <2>3. Nat \cup Own(raft'[x]) = Nat
    BY DEF Own
  <2> QED BY <2>2, <2>3 DEF AllTell, Tells
<1> QED BY <1>2, <1>3, TypeCorrect, PTL DEF Spec

\* No node ever asks another for a vote, under any faults: quorum() is 1, the
\* votes of a node are at most its own, and with that one it leads.
THEOREM NobodyVotes == Spec => []NobodyIsAskedToVote
<1>1. NoVotes => NobodyIsAskedToVote
  <2>1. SUFFICES ASSUME NoVotes, NEW n \in Node, NEW d \in Node,
                        NEW m \in InFlight(n, d)
                 PROVE  m.type \notin {"MsgVote", "MsgVoteResp"}
    BY DEF NobodyIsAskedToVote
  <2>2. raft[n].sendmsgs[d] \in Seq(QuietMessage(Nat))
    BY <2>1 DEF NoVotes, Quiet
  <2>3. m \in QuietMessage(Nat)
    BY <2>1, <2>2, ElementOfSeq DEF InFlight
  <2> QED BY <2>3 DEF QuietMessage
<1> QED BY <1>1, AlwaysQuiet, PTL

\* The commit indexes that some follower has acknowledged to some node.
Reached == {0} \cup UNION {Own(raft[l]) : l \in Node}

\* No object and no message has another commit index.
OnlyReached == \A x \in Node : raft[x] \in Quiet(Reached)

\* They are closed.
LEMMA ReachedClosed ==
  ASSUME TypeOK
  PROVE  Closed(Reached)
<1>1. \A l \in Node : Closed(Own(raft[l]))
  BY OwnProperties DEF TypeOK
<1> QED BY <1>1 DEF Closed, Reached

\* None is ever taken back while the followers that a node knows and their
\* matches only grow.
LEMMA ReachedGrows ==
  ASSUME TypeOK, TypeOK', \A x \in Node : Grown(raft[x], raft'[x])
  PROVE  Reached \subseteq Reached'
<1>1. \A l \in Node : \A p \in raft[l].peers :
        /\ p \in raft'[l].peers
        /\ raft'[l].prs[p].match >= raft[l].prs[p].match
        /\ raft[l].prs[p].match \in Nat /\ raft'[l].prs[p].match \in Nat
  <2>1. SUFFICES ASSUME NEW l \in Node, NEW p \in raft[l].peers
                 PROVE  /\ p \in raft'[l].peers
                        /\ raft'[l].prs[p].match >= raft[l].prs[p].match
                        /\ raft[l].prs[p].match \in Nat
                        /\ raft'[l].prs[p].match \in Nat
    OBVIOUS
  <2>2. raft[l] \in RaftObject /\ raft'[l] \in RaftObject
    BY DEF TypeOK
  <2>3. p \in Node /\ raft[l].prs[p] \in Progress /\ raft'[l].prs[p] \in Progress
    BY <2>2 DEF RaftObject
  <2> QED BY <2>3 DEF Grown, Progress
<1>2. \A l \in Node : Own(raft[l]) \subseteq Own(raft'[l])
  BY <1>1 DEF Own
<1> QED BY <1>2 DEF Reached

\* Without a restart every commit index, at a node or on its way to one, has
\* been acknowledged to some leader by some follower: maybeCommit() takes one
\* of the matches, a heartbeat and an append hand on the sender's, and merging
\* two messages leaves that of one of them.
THEOREM CommitIsAcknowledged ==
  ASSUME "restart" \notin Faults
  PROVE  Spec => []CommitHasAcknowledgement
<1>1. Init => OnlyReached
  BY InitType, ReachedClosed, InitQuiet DEF OnlyReached
<1>2. TypeOK /\ TypeOK' /\ OnlyReached /\ [Next]_vars => OnlyReached'
  <2>1. SUFFICES ASSUME TypeOK, TypeOK', OnlyReached, [Next]_vars, NEW x \in Node
                 PROVE  raft'[x] \in Quiet(Reached')
    BY DEF OnlyReached
  <2>2. AllTell(Reached)
    BY <2>1, ReachedClosed, NextTells DEF OnlyReached
  <2>3. \A y \in Node : /\ raft'[y] \in Quiet(Reached \cup Own(raft'[y]))
                        /\ Grown(raft[y], raft'[y])
    BY <2>2 DEF AllTell, Tells
  <2>4. Reached \subseteq Reached'
    BY <2>1, <2>3, ReachedGrows
  <2>5. Reached \cup Own(raft'[x]) \subseteq Reached'
    BY <2>4 DEF Reached
  <2> QED BY <2>3, <2>5, QuietMonotonic
<1>3. OnlyReached => CommitHasAcknowledgement
  <2>1. SUFFICES ASSUME OnlyReached
                 PROVE  CommitHasAcknowledgement
    OBVIOUS
  <2>2. \A c \in Reached : c > 0 =>
          \E l \in Node : \E p \in raft[l].peers : raft[l].prs[p].match >= c
    BY DEF Reached, Own
  <2>3. \A n \in Node : raft[n].commitIndex \in Reached
    BY <2>1 DEF OnlyReached, Quiet
  <2>4. \A n, d \in Node : \A m \in InFlight(n, d) : m.commit \in Reached
    <3>1. SUFFICES ASSUME NEW n \in Node, NEW d \in Node, NEW m \in InFlight(n, d)
                   PROVE  m.commit \in Reached
      OBVIOUS
    <3>2. raft[n].sendmsgs[d] \in Seq(QuietMessage(Reached))
      BY <2>1 DEF OnlyReached, Quiet
    <3>3. m \in QuietMessage(Reached)
      BY <3>1, <3>2, ElementOfSeq DEF InFlight
    <3> QED BY <3>3 DEF QuietMessage
  <2> QED BY <2>2, <2>3, <2>4 DEF CommitHasAcknowledgement
<1> QED BY <1>1, <1>2, <1>3, TypeCorrect, PTL DEF Spec
-----------------------------------------------------------------------------
(* Solid objects *)

\* The entries with a position.
Numbered == {e \in Entry : e.index > 0}

\* A message whose entries have one, and that is no append of nothing to nothing.
SolidMessage ==
  {m \in Message :
     /\ m.entries \in Seq(Numbered)
     /\ m.type = "MsgApp" /\ m.index = 0 => m.entries # <<>>}

\* A follower that has acknowledged an entry is sent what comes after one.
SolidProgress == {p \in Progress : p.match > 0 => p.next > 1}

\* An object whose log is not empty where it counts on it: the leader sends it
\* from the start to a follower that is behind what the leader has applied.
Solid ==
  {s \in RaftObject :
     /\ s.entries \in Seq(Numbered)
     /\ s.ready \/ s.lastApplied > 0 => s.entries # <<>>
     /\ s.prs \in [Node -> SolidProgress]
     /\ s.sendmsgs \in [Node -> Seq(SolidMessage)]}

\* An object with the same log, beliefs and messages is as solid.
LEMMA SolidSame ==
  ASSUME NEW s \in Solid, NEW r \in RaftObject,
         r.entries = s.entries, r.ready = s.ready, r.lastApplied = s.lastApplied,
         r.prs = s.prs, r.sendmsgs = s.sendmsgs
  PROVE  r \in Solid
BY DEF Solid

\* A message without entries is solid if it is no append.
LEMMA PlainSolid ==
  \A m \in Message : m.entries = <<>> /\ m.type # "MsgApp" => m \in SolidMessage
BY EmptySeq DEF SolidMessage

\* What becomes of a belief.
LEMMA ProgressSolid ==
  ASSUME NEW p \in SolidProgress, NEW n \in Nat
  PROVE  /\ NewProgress(n + 1) \in SolidProgress
         /\ BecomeProbe(p) \in SolidProgress
         /\ BecomeReplicate(p) \in SolidProgress
         /\ n > 0 => OptimisticUpdate(p, n) \in SolidProgress
         /\ MaybeUpdate(p, n) \in SolidProgress
<1>1. p \in Progress /\ p.match \in Nat /\ p.next \in Nat \ {0}
      /\ p.pendingSnapshot \in Nat
  BY DEF SolidProgress, Progress
<1>2. NewProgress(n + 1) \in SolidProgress
  BY ProgressType DEF SolidProgress, NewProgress
<1>3. BecomeProbe(p) \in SolidProgress
  <2>1. /\ BecomeProbe(p).match = p.match
        /\ BecomeProbe(p).next \in {p.match + 1, p.pendingSnapshot + 1}
        /\ BecomeProbe(p).next # p.match + 1 => p.pendingSnapshot > p.match
    BY <1>1 DEF BecomeProbe, ResetState, Progress
  <2> QED BY <1>1, <2>1, ProgressType DEF SolidProgress
<1>4. BecomeReplicate(p) \in SolidProgress
  <2>1. /\ BecomeReplicate(p).match = p.match
        /\ BecomeReplicate(p).next = p.match + 1
    BY <1>1 DEF BecomeReplicate, ResetState, Progress
  <2> QED BY <1>1, <2>1, ProgressType DEF SolidProgress
<1>5. ASSUME n > 0
      PROVE  OptimisticUpdate(p, n) \in SolidProgress
  <2>1. OptimisticUpdate(p, n).next = n + 1
    BY <1>1 DEF OptimisticUpdate, Progress
  <2> QED BY <1>1, <1>5, <2>1, ProgressType DEF SolidProgress
<1>6. MaybeUpdate(p, n) \in SolidProgress
  <2>1. /\ MaybeUpdate(p, n).next = IF p.next < n + 1 THEN n + 1 ELSE p.next
        /\ MaybeUpdate(p, n).match = IF p.match < n THEN n ELSE p.match
    BY <1>1 DEF MaybeUpdate, IsNews, Progress
  <2>2. p.match > 0 => p.next > 1
    BY DEF SolidProgress
  <2> QED BY <1>1, <2>1, <2>2, ProgressType DEF SolidProgress
<1> QED BY <1>2, <1>3, <1>4, <1>5, <1>6
-----------------------------------------------------------------------------
(* Solid calls: sending and roles *)

\* Other queues of solid messages.
LEMMA QueuesSolid ==
  ASSUME NEW s \in Solid, NEW q \in [Node -> Seq(SolidMessage)]
  PROVE  [s EXCEPT !.sendmsgs = q] \in Solid
<1> DEFINE r == [s EXCEPT !.sendmsgs = q]
<1>1. q \in [Node -> Seq(Message)]
  <2>1. SolidMessage \subseteq Message
    BY DEF SolidMessage
  <2>2. \A x \in Seq(SolidMessage) : x \in Seq(Message)
    BY <2>1, SeqMonotonic
  <2> QED BY <2>2
<1>2. s \in RaftObject
  BY DEF Solid
<1>3. r \in RaftObject
  BY <1>1, <1>2, SendmsgsType
<1>4. /\ r.entries = s.entries /\ r.ready = s.ready /\ r.lastApplied = s.lastApplied
      /\ r.prs = s.prs /\ r.sendmsgs = q
  BY <1>2 DEF RaftObject
<1> HIDE DEF r
<1>5. r \in Solid
  BY <1>3, <1>4 DEF Solid
<1> QED BY <1>5 DEF r

\* One other queue.
LEMMA QueueSolid ==
  ASSUME NEW s \in Solid, NEW d \in Node, NEW x \in Seq(SolidMessage)
  PROVE  [s EXCEPT !.sendmsgs[d] = x] \in Solid
<1> DEFINE q == [s.sendmsgs EXCEPT ![d] = x]
<1>1. q \in [Node -> Seq(SolidMessage)]
  BY DEF Solid
<1>2. [s EXCEPT !.sendmsgs[d] = x] = [s EXCEPT !.sendmsgs = q]
  OBVIOUS
<1> HIDE DEF q
<1> QED BY <1>1, <1>2, QueuesSolid

\* send() of a solid message.
LEMMA SendSolid ==
  ASSUME NEW s \in Solid, NEW to \in NodeId, NEW m \in SolidMessage
  PROVE  Send(s, to, m) \in Solid
<1> DEFINE q == s.sendmsgs
<1>1. q \in [Node -> Seq(SolidMessage)]
  BY DEF Solid
<1>2. CASE to = None
  <2>1. [d \in Node |-> IF d \in s.peersfd THEN Append(q[d], m) ELSE q[d]]
          \in [Node -> Seq(SolidMessage)]
    BY <1>1
  <2> QED BY <1>2, <2>1, QueuesSolid DEF Send
<1>3. CASE to # None
  <2> DEFINE x == Append(q[to], m)
  <2>1. x \in Seq(SolidMessage) /\ to \in Node
    BY <1>1, <1>3 DEF NodeId
  <2>2. Send(s, to, m) = [s EXCEPT !.sendmsgs[to] = x]
    BY <1>3 DEF Send
  <2> HIDE DEF x
  <2> QED BY <2>1, <2>2, QueueSolid
<1> QED BY <1>2, <1>3

\* A heartbeat has no entries.
LEMMA BcastHeartbeatSolid ==
  ASSUME NEW s \in Solid
  PROVE  BcastHeartbeat(s) \in Solid
<1> DEFINE q == s.sendmsgs
<1>1. s \in RaftObject /\ q \in [Node -> Seq(SolidMessage)]
  BY DEF Solid
<1>2. \A d \in Node : Heartbeat(s, d) \in SolidMessage
  <2>1. TAKE d \in Node
  <2>2. Heartbeat(s, d) \in Message
    BY <1>1, HeartbeatType
  <2>3. Heartbeat(s, d).type = "MsgHeartbeat" /\ Heartbeat(s, d).entries = <<>>
    BY DEF Heartbeat, NewMessage
  <2> QED BY <2>2, <2>3, PlainSolid
<1>3. [d \in Node |-> IF d \in s.peers \ {s.id} THEN Append(q[d], Heartbeat(s, d))
                      ELSE q[d]] \in [Node -> Seq(SolidMessage)]
  BY <1>1, <1>2
<1> QED BY <1>3, QueuesSolid DEF BcastHeartbeat

\* An append from position 0 on carries the log, if there is one.
LEMMA AppendMessageSolid ==
  ASSUME NEW s \in Solid, NEW d \in Node, s.prs[d].next > 1 \/ s.entries # <<>>
  PROVE  AppendMessage(s, d) \in SolidMessage
<1> DEFINE prev == s.prs[d].next - 1
           m == AppendMessage(s, d)
<1>1. /\ s \in RaftObject /\ s.prs[d] \in Progress /\ s.entries \in Seq(Numbered)
  BY DEF Solid, RaftObject
<1>2. prev \in Nat /\ prev + 1 \in Nat \ {0}
  BY <1>1 DEF Progress
<1>3. /\ m \in Message
      /\ m.index = prev
      /\ m.entries = SubSeq(s.entries, prev + 1, Len(s.entries))
  BY <1>1, AppendMessageType DEF AppendMessage, NewMessage
<1> HIDE DEF m, prev
<1>4. m.entries \in Seq(Numbered)
  BY <1>1, <1>2, <1>3, SubSeqType
<1>5. ASSUME prev = 0
      PROVE  m.entries # <<>>
  <2>1. s.entries # <<>>
    BY <1>1, <1>5 DEF Progress, prev
  <2>2. Len(s.entries) \in Nat /\ Len(s.entries) # 0
    BY <1>1, <2>1, EmptySeq, LenProperties
  <2>3. \A i \in 1..Len(s.entries) : s.entries[i] \in Numbered
    BY <1>1, ElementOfSeq
  <2>4. Len(SubSeq(s.entries, 1, Len(s.entries))) = Len(s.entries)
    BY <2>2, <2>3, SubSeqProperties
  <2>5. m.entries = SubSeq(s.entries, 1, Len(s.entries))
    BY <1>3, <1>5
  <2> QED BY <2>2, <2>4, <2>5, EmptySeq
<1>6. m \in SolidMessage
  BY <1>3, <1>4, <1>5 DEF SolidMessage
<1> QED BY <1>6 DEF m

\* The leader then moves to the position of the last entry it has sent.
LEMMA ProgressAfterAppendSolid ==
  ASSUME NEW s \in Solid, NEW d \in Node
  PROVE  ProgressAfterAppend(s, d) \in SolidProgress
<1> DEFINE sent == AppendMessage(s, d).entries
           prev == s.prs[d].next - 1
<1>1. /\ s.prs[d] \in SolidProgress /\ s.prs[d] \in Progress
      /\ s.entries \in Seq(Numbered)
  BY DEF Solid, SolidProgress
<1>2. prev + 1 \in Nat \ {0}
  BY <1>1 DEF Progress
<1>3. sent = SubSeq(s.entries, prev + 1, Len(s.entries))
  BY DEF AppendMessage, NewMessage
<1> HIDE DEF prev
<1>4. sent \in Seq(Numbered)
  BY <1>1, <1>2, <1>3, SubSeqType
<1> HIDE DEF sent
<1>5. ASSUME sent # <<>>
      PROVE  OptimisticUpdate(s.prs[d], sent[Len(sent)].index) \in SolidProgress
  <2>1. Len(sent) \in 1..Len(sent)
    BY <1>4, <1>5, EmptySeq
  <2>2. sent[Len(sent)] \in Numbered
    BY <1>4, <2>1, ElementOfSeq
  <2>3. sent[Len(sent)].index \in Nat /\ sent[Len(sent)].index > 0
    BY <2>2 DEF Numbered, Entry
  <2> QED BY <1>1, <2>3, ProgressSolid
<1> QED BY <1>1, <1>5 DEF ProgressAfterAppend, sent

\* sendAppend() to followers that hold an entry, or with one to send.
LEMMA SendAppendSolid ==
  ASSUME NEW s \in Solid, NEW D \in SUBSET Node,
         \A d \in D : s.prs[d].next > 1 \/ s.entries # <<>>
  PROVE  SendAppend(s, D) \in Solid
<1> DEFINE r == SendAppend(s, D)
<1>1. /\ s \in RaftObject /\ s.sendmsgs \in [Node -> Seq(SolidMessage)]
      /\ s.prs \in [Node -> SolidProgress]
  BY DEF Solid
<1>2. r \in RaftObject
  BY <1>1, SendAppendType
<1>3. /\ r.entries = s.entries /\ r.ready = s.ready /\ r.lastApplied = s.lastApplied
      /\ r.sendmsgs = [d \in Node |-> IF d \in D
                         THEN Append(s.sendmsgs[d], AppendMessage(s, d))
                         ELSE s.sendmsgs[d]]
      /\ r.prs = [d \in Node |-> IF d \in D THEN ProgressAfterAppend(s, d)
                                 ELSE s.prs[d]]
  BY <1>1 DEF SendAppend, RaftObject
<1> HIDE DEF r
<1>4. r.sendmsgs \in [Node -> Seq(SolidMessage)]
  <2>1. \A d \in D : AppendMessage(s, d) \in SolidMessage
    BY AppendMessageSolid
  <2> QED BY <1>1, <1>3, <2>1
<1>5. r.prs \in [Node -> SolidProgress]
  BY <1>1, <1>3, ProgressAfterAppendSolid
<1>6. r \in Solid
  BY <1>2, <1>3, <1>4, <1>5 DEF Solid
<1> QED BY <1>6 DEF r

\* An update of the fields of roles and terms.
LEMMA RoleSolid ==
  ASSUME NEW s \in Solid, NEW t \in Nat \ {0}, NEW l \in NodeId
  PROVE  /\ StepDown(s, t, l) \in Solid
         /\ BecomeCandidate(s) \in Solid
         /\ BecomeLeader(s) \in Solid
<1> DEFINE Same(r) == /\ r.entries = s.entries /\ r.ready = s.ready
                      /\ r.lastApplied = s.lastApplied /\ r.prs = s.prs
                      /\ r.sendmsgs = s.sendmsgs
<1>1. s \in RaftObject
  BY DEF Solid
<1>2. \A u : Same(Reset(s, u)) /\ DOMAIN Reset(s, u) = DOMAIN s
  BY <1>1 DEF Reset, RaftObject
<1>3. Same(StepDown(s, t, l)) /\ Same(BecomeCandidate(s)) /\ Same(BecomeLeader(s))
  BY <1>1, <1>2 DEF StepDown, BecomeCandidate, BecomeLeader, RaftObject
<1>4. /\ StepDown(s, t, l) \in RaftObject /\ BecomeCandidate(s) \in RaftObject
      /\ BecomeLeader(s) \in RaftObject
  BY <1>1, RoleType
<1>5. \A r \in RaftObject : Same(r) => r \in Solid
  BY SolidSame
<1> HIDE DEF Same
<1> QED BY <1>3, <1>4, <1>5
-----------------------------------------------------------------------------
(* Solid calls: the leader *)

\* maybeCommit() moves the commit index only.
LEMMA MaybeCommitSolid ==
  ASSUME NEW s \in Solid
  PROVE  /\ MaybeCommit(s) \in Solid
         /\ MaybeCommit(s).prs = s.prs /\ MaybeCommit(s).peers = s.peers
         /\ MaybeCommit(s).entries = s.entries
<1>1. s \in RaftObject
  BY DEF Solid
<1>2. MaybeCommit(s) \in RaftObject
  BY <1>1, CommittableType
<1>3. /\ MaybeCommit(s).prs = s.prs /\ MaybeCommit(s).peers = s.peers
      /\ MaybeCommit(s).entries = s.entries /\ MaybeCommit(s).ready = s.ready
      /\ MaybeCommit(s).lastApplied = s.lastApplied
      /\ MaybeCommit(s).sendmsgs = s.sendmsgs
  BY <1>1 DEF MaybeCommit, CommitTo, RaftObject
<1> QED BY <1>2, <1>3, SolidSame

\* The object may be marked as ready when its log is not empty.
LEMMA ReadySolid ==
  ASSUME NEW s \in Solid, s.entries # <<>>
  PROVE  /\ [s EXCEPT !.ready = TRUE] \in Solid
         /\ [s EXCEPT !.ready = TRUE].entries = s.entries
         /\ [s EXCEPT !.ready = TRUE].peers = s.peers
<1> DEFINE r == [s EXCEPT !.ready = TRUE]
<1>1. s \in RaftObject
  BY DEF Solid
<1>2. /\ r \in RaftObject /\ r.entries = s.entries /\ r.prs = s.prs
      /\ r.sendmsgs = s.sendmsgs /\ r.peers = s.peers
  BY <1>1, ZenonT(30) DEF RaftObject
<1> HIDE DEF r
<1>3. r \in Solid
  BY <1>2 DEF Solid
<1> QED BY <1>2, <1>3 DEF r

\* A log of entries with positions that is not empty.
LEMMA EntriesSolid ==
  ASSUME NEW s \in Solid, NEW log \in Seq(Numbered), log # <<>>
  PROVE  /\ [s EXCEPT !.entries = log] \in Solid
         /\ [s EXCEPT !.entries = log].entries = log
<1> DEFINE r == [s EXCEPT !.entries = log]
<1>1. log \in Seq(Entry)
  <2>1. Numbered \subseteq Entry
    BY DEF Numbered
  <2> QED BY <2>1, SeqMonotonic
<1>2. s \in RaftObject
  BY DEF Solid
<1>3. /\ r \in RaftObject /\ r.entries = log /\ r.prs = s.prs
      /\ r.sendmsgs = s.sendmsgs
  BY <1>1, <1>2 DEF RaftObject
<1> HIDE DEF r
<1>4. r \in Solid
  BY <1>3 DEF Solid
<1> QED BY <1>3, <1>4 DEF r

\* A proposal puts an entry with a position into the log and sends it.
LEMMA StepPropSolid ==
  ASSUME NEW s \in Solid, NEW v \in Value
  PROVE  StepProp(s, v) \in Solid
<1> DEFINE e == [term |-> s.currentTerm, index |-> s.lastApplied + 1, data |-> v]
           log == Append(s.entries, e)
           r == [s EXCEPT !.entries = log]
           t == MaybeCommit(r)
           u == AppendEntry(s, v)
<1>1. s \in RaftObject /\ s.entries \in Seq(Numbered)
  BY DEF Solid
<1>2. e \in Numbered
  BY <1>1 DEF Numbered, Entry, RaftObject
<1> HIDE DEF e
<1>3. log \in Seq(Numbered) /\ log # <<>>
  BY <1>1, <1>2, AppendProperties, EmptySeq, LenProperties
<1> HIDE DEF log
<1>4. r \in Solid /\ r.entries = log
  BY <1>3, EntriesSolid
<1>5. u = [t EXCEPT !.ready = TRUE]
  BY DEF AppendEntry, e, log
<1> HIDE DEF r
<1>6. t \in Solid /\ t.entries = log
  BY <1>4, MaybeCommitSolid
<1> HIDE DEF t
<1>7. u \in Solid /\ u.entries = log
  BY <1>3, <1>5, <1>6, ReadySolid
<1> HIDE DEF u
<1>8. u.peers \ {u.id} \in SUBSET Node
  BY <1>7 DEF Solid, RaftObject
<1>9. StepProp(s, v) = SendAppend(u, u.peers \ {u.id})
  BY DEF StepProp, BcastAppend, u
<1> QED BY <1>3, <1>7, <1>8, <1>9, SendAppendSolid

\* An acknowledgement: the leader broadcasts what comes after it only when all
\* followers have acknowledged an entry.
LEMMA AcknowledgeSolid ==
  ASSUME IsFiniteSet(Node), NEW s \in Solid, NEW m \in Message, m.from \in s.peers
  PROVE  Acknowledge(s, m) \in Solid
<1> DEFINE p == MaybeUpdate(s.prs[m.from], m.index)
           q == IF p.state = "Probe" THEN BecomeReplicate(p)
                ELSE IF p.state = "Snapshot" THEN BecomeProbe(p)
                ELSE p
           t == [s EXCEPT !.prs[m.from] = q]
           c == MaybeCommit(t)
<1>1. s \in RaftObject /\ s.prs \in [Node -> SolidProgress]
  BY DEF Solid
<1>2. m.from \in Node /\ s.prs[m.from] \in SolidProgress /\ m.index \in Nat
  BY <1>1 DEF RaftObject, Message
<1>3. p \in SolidProgress
  BY <1>2, ProgressSolid
<1> HIDE DEF p
<1>4. q \in SolidProgress
  BY <1>2, <1>3, ProgressSolid
<1> HIDE DEF q
<1>5. ASSUME NEW x \in SolidProgress
      PROVE  [s EXCEPT !.prs[m.from] = x] \in Solid
  <2> DEFINE r == [s EXCEPT !.prs[m.from] = x]
  <2>1. x \in Progress
    BY DEF SolidProgress
  <2>2. /\ r \in RaftObject /\ r.entries = s.entries /\ r.ready = s.ready
        /\ r.lastApplied = s.lastApplied /\ r.sendmsgs = s.sendmsgs
        /\ r.prs = [s.prs EXCEPT ![m.from] = x]
    BY <1>1, <1>2, <2>1 DEF RaftObject
  <2> HIDE DEF r
  <2>3. r.prs \in [Node -> SolidProgress]
    BY <1>1, <2>2
  <2>4. r \in Solid
    BY <2>2, <2>3 DEF Solid
  <2> QED BY <2>4 DEF r
<1>6. t \in Solid /\ [s EXCEPT !.prs[m.from] = p] \in Solid
  BY <1>3, <1>4, <1>5
<1> HIDE DEF t
<1>7. c \in Solid /\ c.prs = t.prs /\ c.peers = t.peers
  BY <1>6, MaybeCommitSolid
<1> HIDE DEF c
<1>8. ASSUME Committable(t) # {}
      PROVE  BcastAppend(c) \in Solid
  <2>1. t \in RaftObject /\ c \in RaftObject /\ t.commitIndex \in Nat
    BY <1>6, <1>7 DEF Solid, RaftObject
  <2>2. PICK k \in Committable(t) : TRUE
    BY <1>8
  <2>3. k \in Nat /\ k > 0
    BY <2>1, <2>2, CommittableType
  <2>4. \A d \in t.peers : t.prs[d].match >= k
    BY <2>1, <2>2, CommittableIsLeast
  <2>5. \A d \in t.peers : d \in Node /\ t.prs[d] \in SolidProgress
    BY <1>6, <2>1 DEF Solid, RaftObject
  <2>6. \A d \in t.peers : t.prs[d].match \in Nat
    BY <2>5 DEF SolidProgress, Progress
  <2>7. \A d \in t.peers : t.prs[d].next > 1
    BY <2>3, <2>4, <2>5, <2>6 DEF SolidProgress
  <2>8. c.peers \ {c.id} \in SUBSET Node
    BY <2>1 DEF RaftObject
  <2> QED BY <1>7, <2>7, <2>8, SendAppendSolid DEF BcastAppend
<1> QED BY <1>6, <1>8 DEF Acknowledge, p, q, t, c

\* What a leader makes of a response.
LEMMA StepLeaderSolid ==
  ASSUME IsFiniteSet(Node), NEW s \in Solid, NEW m \in Message
  PROVE  StepLeader(s, m) \in Solid
<1>1. ASSUME m.from \in s.peers, NEW r \in Solid
      PROVE  CatchUp(r, m.from) \in Solid
  <2>1. {m.from} \in SUBSET Node
    BY <1>1 DEF Solid, RaftObject
  <2>2. ASSUME r.prs[m.from].match < r.lastApplied
        PROVE  r.entries # <<>>
    <3>1. r \in RaftObject /\ r.prs[m.from] \in Progress /\ r.lastApplied \in Nat
      BY <2>1 DEF Solid, RaftObject
    <3>2. r.prs[m.from].match \in Nat
      BY <3>1 DEF Progress
    <3>3. r.lastApplied > 0
      BY <2>2, <3>1, <3>2
    <3> QED BY <3>3 DEF Solid
  <2> QED BY <2>1, <2>2, SendAppendSolid DEF CatchUp
<1>2. m.from \in s.peers => Acknowledge(s, m) \in Solid
  BY AcknowledgeSolid
<1> QED BY <1>1, <1>2 DEF StepLeader
-----------------------------------------------------------------------------
(* Solid calls: the follower, and the dispatch of a message *)

\* maybeAppend() leaves a log that is not empty: the one it cut ended before
\* what it adds, or nothing was cut.
LEMMA MaybeAppendSolid ==
  ASSUME NEW s \in Solid, NEW m \in SolidMessage, m.type = "MsgApp"
  PROVE  /\ MaybeAppend(s, m) \in Solid
         /\ AppendResult(s, m) > 0 => MaybeAppend(s, m).entries # <<>>
<1> DEFINE cut == Truncate(s.entries, m.index)
           log == cut \o m.entries
<1>1. /\ s.entries \in Seq(Numbered) /\ m.entries \in Seq(Numbered)
      /\ m.index \in Nat
  BY DEF Solid, SolidMessage, Message
<1>2. Len(s.entries) \in Nat /\ Len(m.entries) \in Nat
  BY <1>1, LenProperties
<1>3. /\ cut \in Seq(Numbered)
      /\ Len(cut) = IF m.index < Len(s.entries) THEN m.index ELSE Len(s.entries)
  BY <1>1, TruncateProperties
<1> HIDE DEF cut
<1>4. log \in Seq(Numbered) /\ Len(log) = Len(cut) + Len(m.entries)
  BY <1>1, <1>3, ConcatProperties
<1>5. ASSUME Accepts(s, m)
      PROVE  log # <<>>
  <2>1. Len(cut) = m.index
    BY <1>1, <1>2, <1>3, <1>5 DEF Accepts
  <2>2. m.index = 0 => Len(m.entries) # 0
    BY <1>1, EmptySeq DEF SolidMessage
  <2>3. Len(log) # 0
    BY <1>1, <1>2, <1>4, <2>1, <2>2
  <2> QED BY <2>3, EmptySeq
<1> HIDE DEF log
<1>6. Accepts(s, m) => /\ [s EXCEPT !.entries = log] \in Solid
                       /\ [s EXCEPT !.entries = log].entries = log
  BY <1>4, <1>5, EntriesSolid
<1>7. /\ Accepts(s, m) => MaybeAppend(s, m) = [s EXCEPT !.entries = log]
      /\ ~ Accepts(s, m) => MaybeAppend(s, m) = s /\ AppendResult(s, m) = 0
  BY DEF MaybeAppend, AppendResult, log, cut
<1>8. CASE Accepts(s, m)
  <2> DEFINE u == [s EXCEPT !.entries = log]
  <2>1. /\ MaybeAppend(s, m) = u /\ u \in Solid /\ u.entries = log /\ log # <<>>
    BY <1>5, <1>6, <1>7, <1>8
  <2> HIDE DEF u
  <2> QED BY <2>1
<1>9. CASE ~ Accepts(s, m)
  <2>1. ~ AppendResult(s, m) > 0
    BY <1>7, <1>9
  <2> QED BY <1>7, <1>9, <2>1
<1> QED BY <1>8, <1>9

\* The answers to an append and to a heartbeat have no entries.
LEMMA ResponsesSolid ==
  ASSUME NEW s \in RaftObject
  PROVE  /\ HeartbeatResp(s) \in SolidMessage
         /\ \A i \in Nat, b \in BOOLEAN : AppResp(s, i, b) \in SolidMessage
<1>1. s.id \in Node
  BY DEF RaftObject
<1>2. HeartbeatResp(s) \in SolidMessage
  <2>1. HeartbeatResp(s) \in Message
    BY <1>1, MessagesType DEF HeartbeatResp
  <2> QED BY <2>1, PlainSolid DEF HeartbeatResp, NewMessage
<1>3. ASSUME NEW i \in Nat, NEW b \in BOOLEAN
      PROVE  AppResp(s, i, b) \in SolidMessage
  <2>1. AppResp(s, i, b) \in Message
    BY <1>1, MessagesType DEF AppResp
  <2> QED BY <2>1, PlainSolid DEF AppResp, NewMessage
<1> QED BY <1>2, <1>3

\* An append.
LEMMA HandleAppendSolid ==
  ASSUME NEW s \in Solid, NEW m \in SolidMessage, m.type = "MsgApp"
  PROVE  HandleAppend(s, m) \in Solid
<1> DEFINE u == MaybeAppend(s, m)
           w == [u EXCEPT !.ready = TRUE]
<1>1. /\ s \in RaftObject /\ m \in Message /\ m.from \in NodeId /\ m.index \in Nat
      /\ s.commitIndex \in Nat
  BY DEF Solid, SolidMessage, Message, RaftObject
<1>2. AppendResult(s, m) \in Nat
  BY <1>1, MaybeAppendType
<1>3. u \in Solid /\ (AppendResult(s, m) > 0 => u.entries # <<>>)
  BY MaybeAppendSolid
<1> HIDE DEF u
<1>4. AppendResult(s, m) > 0 => w \in Solid
  BY <1>3, ReadySolid
<1> HIDE DEF w
<1>5. \A i \in Nat, b \in BOOLEAN, r \in Solid :
        Send(r, m.from, AppResp(s, i, b)) \in Solid
  BY <1>1, ResponsesSolid, SendSolid
<1> QED BY <1>1, <1>2, <1>3, <1>4, <1>5 DEF HandleAppend, u, w

\* A heartbeat.
LEMMA HandleHeartbeatSolid ==
  ASSUME NEW s \in Solid, NEW m \in Message
  PROVE  HandleHeartbeat(s, m) \in Solid
<1> DEFINE r == CommitTo(s, m.commit)
<1>1. s \in RaftObject /\ m.from \in NodeId /\ m.commit \in Nat
  BY DEF Solid, Message
<1>2. /\ r \in RaftObject /\ r.entries = s.entries /\ r.ready = s.ready
      /\ r.lastApplied = s.lastApplied /\ r.prs = s.prs /\ r.sendmsgs = s.sendmsgs
  BY <1>1 DEF CommitTo, RaftObject
<1> HIDE DEF r
<1>3. r \in Solid
  BY <1>2, SolidSame
<1>4. HeartbeatResp(s) \in SolidMessage
  BY <1>1, ResponsesSolid
<1> QED BY <1>1, <1>3, <1>4, SendSolid DEF HandleHeartbeat, r

\* What a follower makes of a message.
LEMMA StepFollowerSolid ==
  ASSUME NEW s \in Solid, NEW m \in SolidMessage
  PROVE  StepFollower(s, m) \in Solid
<1>1. /\ s \in RaftObject /\ m \in Message /\ m.from \in NodeId
      /\ s.currentTerm \in Nat \ {0}
  BY DEF Solid, SolidMessage, Message, RaftObject
<1>2. ASSUME NEW t \in Nat \ {0}
      PROVE  [s EXCEPT !.leader = m.from, !.currentTerm = t] \in Solid
  <2> DEFINE r == [s EXCEPT !.leader = m.from, !.currentTerm = t]
  <2>1. /\ r \in RaftObject /\ r.entries = s.entries /\ r.ready = s.ready
        /\ r.lastApplied = s.lastApplied /\ r.prs = s.prs
        /\ r.sendmsgs = s.sendmsgs
    BY <1>1 DEF RaftObject
  <2> HIDE DEF r
  <2>2. r \in Solid
    BY <2>1, SolidSame
  <2> QED BY <2>2 DEF r
<1>3. CASE m.type = "MsgHeartbeat"
  <2>1. m.term \in Nat \ {0}
    BY <1>1, <1>3 DEF Message
  <2>2. PICK t \in Nat \ {0} :
          t = (IF s.leader # m.from THEN m.term ELSE s.currentTerm)
    BY <1>1, <2>1
  <2> DEFINE r == [s EXCEPT !.leader = m.from, !.currentTerm = t]
  <2>3. StepFollower(s, m) = HandleHeartbeat(r, m)
    BY <1>3, <2>2 DEF StepFollower
  <2>4. r \in Solid
    BY <1>2
  <2> HIDE DEF r
  <2> QED BY <1>1, <2>3, <2>4, HandleHeartbeatSolid
<1>4. CASE m.type = "MsgApp"
  <2> DEFINE r == [s EXCEPT !.leader = m.from]
  <2>1. r = [s EXCEPT !.leader = m.from, !.currentTerm = s.currentTerm]
    BY <1>1 DEF RaftObject
  <2>2. r \in Solid
    BY <1>1, <1>2, <2>1
  <2>3. StepFollower(s, m) = HandleAppend(r, m)
    BY <1>4 DEF StepFollower
  <2> HIDE DEF r
  <2> QED BY <1>4, <2>2, <2>3, HandleAppendSolid
<1>5. CASE m.type # "MsgHeartbeat" /\ m.type # "MsgApp"
  BY <1>5 DEF StepFollower
<1> QED BY <1>3, <1>4, <1>5

\* What a candidate makes of one that is no vote.
LEMMA StepCandidateSolid ==
  ASSUME NEW s \in Solid, NEW m \in SolidMessage, m.type # "MsgVoteResp"
  PROVE  StepCandidate(s, m) \in Solid
<1> DEFINE r == StepDown(s, s.currentTerm, m.from)
<1>1. s.currentTerm \in Nat \ {0} /\ m.from \in NodeId /\ m \in Message
  BY DEF Solid, RaftObject, SolidMessage, Message
<1>2. r \in Solid
  BY <1>1, RoleSolid
<1> HIDE DEF r
<1>3. /\ HandleHeartbeat(r, m) \in Solid
      /\ m.type = "MsgApp" => HandleAppend(r, m) \in Solid
  BY <1>1, <1>2, HandleHeartbeatSolid, HandleAppendSolid
<1> QED BY <1>3 DEF StepCandidate, r

\* A node that introduces itself has acknowledged nothing.
LEMMA HandleNodeSolid ==
  ASSUME NEW s \in Solid, NEW m \in Message, m.type = "MsgNode"
  PROVE  HandleNode(s, m) \in Solid
<1> DEFINE p == NewProgress(s.lastApplied + 1)
           r == AddNode(s, m.from)
           u == [r EXCEPT !.unknownid = Append(@, m.from)]
           resp == [NewMessage("MsgNodeResp") EXCEPT !.term = m.term]
<1>1. /\ s \in RaftObject /\ s.prs \in [Node -> SolidProgress]
      /\ m.from \in Node /\ m.from \in NodeId /\ m.term \in Nat
      /\ s.lastApplied \in Nat
  BY DEF Solid, Message, NodeId, RaftObject
<1>2. p \in SolidProgress /\ p \in Progress
  BY <1>1 DEF NewProgress, SolidProgress, Progress, ProgressState
<1> HIDE DEF p
<1>3. /\ r \in RaftObject /\ r.entries = s.entries /\ r.ready = s.ready
      /\ r.lastApplied = s.lastApplied /\ r.sendmsgs = s.sendmsgs
      /\ r.prs = s.prs \/ r.prs = [s.prs EXCEPT ![m.from] = p]
  BY <1>1, <1>2 DEF AddNode, RaftObject, p
<1> HIDE DEF r
<1>4. r.prs \in [Node -> SolidProgress]
  BY <1>1, <1>2, <1>3
<1>5. Append(r.unknownid, m.from) \in Seq(Node)
  BY <1>1, <1>3, AppendProperties DEF RaftObject
<1>6. /\ u \in RaftObject /\ u.entries = r.entries /\ u.ready = r.ready
      /\ u.lastApplied = r.lastApplied /\ u.prs = r.prs /\ u.sendmsgs = r.sendmsgs
  BY <1>3, <1>5 DEF RaftObject
<1> HIDE DEF u
<1>7. u \in Solid
  BY <1>3, <1>4, <1>6 DEF Solid
<1>8. resp \in SolidMessage
  <2>1. resp \in Message
    BY <1>1, MessagesType
  <2> QED BY <2>1, PlainSolid DEF NewMessage
<1> HIDE DEF resp
<1>9. HandleNode(s, m) = Send(u, m.from, resp)
  BY DEF HandleNode, r, u, resp
<1> QED BY <1>1, <1>7, <1>8, <1>9, SendSolid

\* One message through generalStep().
LEMMA GeneralStepSolid ==
  ASSUME IsFiniteSet(Node), NEW s \in Solid, NEW m \in SolidMessage,
         m.type \notin {"MsgVote", "MsgVoteResp"}
  PROVE  GeneralStep(s, m) \in Solid
<1>1. /\ m \in Message /\ m.term \in Nat /\ m.from \in NodeId
      /\ s.currentTerm \in Nat \ {0}
  BY DEF Solid, SolidMessage, Message, RaftObject
<1>2. \A r \in Solid : Step(r, m) \in Solid
  BY <1>1, StepLeaderSolid, StepCandidateSolid, StepFollowerSolid DEF Step
<1>3. \A r \in Solid : Dispatch(r, m) \in Solid
  BY <1>1, <1>2, HandleNodeSolid DEF Dispatch
<1>4. ASSUME m.term > s.currentTerm
      PROVE  StepDown(s, m.term, m.from) \in Solid
  <2>1. m.term \in Nat \ {0}
    BY <1>1, <1>4
  <2> QED BY <1>1, <2>1, RoleSolid
<1> QED BY <1>3, <1>4 DEF GeneralStep
-----------------------------------------------------------------------------
(* Solid steps *)

\* Every object is solid.
AllSolid == \A x \in Node : raft[x] \in Solid

\* A step in which at most two objects change.
LEMMA TwoSolid ==
  ASSUME TypeOK, AllSolid, NEW n \in Node, NEW m \in Node, NEW r \in Solid,
         NEW u \in Solid,
         raft' \in {raft, [raft EXCEPT ![n] = r], [raft EXCEPT ![n] = r, ![m] = u]}
  PROVE  AllSolid'
<1>1. \A x \in Node : \/ raft'[x] = raft[x]
                      \/ raft'[x] = r
                      \/ raft'[x] = u
  BY DEF TypeOK
<1> QED BY <1>1 DEF AllSolid

\* One that changes one.
LEMMA OneSolid ==
  ASSUME TypeOK, AllSolid, NEW n \in Node, NEW r \in Solid,
         raft' = raft \/ raft' = [raft EXCEPT ![n] = r]
  PROVE  AllSolid'
BY TwoSolid

\* The actions of the tick thread.
LEMMA TickSolid ==
  ASSUME TypeOK, NoVotes, AllSolid, NEW n \in Node
  PROVE  /\ TickElection(n) => AllSolid'
         /\ Elect(n) => AllSolid'
         /\ TickHeartbeat(n) => AllSolid'
<1>1. /\ raft[n] \in Solid /\ raft[n] \in Quiet(Nat) /\ raft[n] \in RaftObject
      /\ raft[n].currentTerm \in Nat \ {0} /\ n \in NodeId /\ None \in NodeId
  BY DEF TypeOK, NoVotes, AllSolid, RaftObject, NodeId
<1>2. ASSUME TickElection(n)
      PROVE  AllSolid'
  <2>1. BecomeCandidate(raft[n]) \in Solid
    BY <1>1, RoleSolid
  <2>2. raft' = [raft EXCEPT ![n] = BecomeCandidate(raft[n])]
    BY <1>2 DEF TickElection, Becomes
  <2> QED BY <2>1, <2>2, OneSolid
<1>3. ASSUME TickHeartbeat(n)
      PROVE  AllSolid'
  <2>1. BcastHeartbeat(raft[n]) \in Solid
    BY <1>1, BcastHeartbeatSolid
  <2>2. raft' = [raft EXCEPT ![n] = BcastHeartbeat(raft[n])]
    BY <1>3 DEF TickHeartbeat, Becomes
  <2> QED BY <2>1, <2>2, OneSolid
<1>4. ASSUME Elect(n)
      PROVE  AllSolid'
  <2> DEFINE s == RecordVote(raft[n], n, TRUE)
  <2>1. raft' = [raft EXCEPT ![n] = BecomeLeader(s)]
    BY <1>1, <1>4, ElectLeads
  <2>2. s \in RaftObject
    BY <1>1, RecordVoteType
  <2>3. /\ s.entries = raft[n].entries /\ s.ready = raft[n].ready
        /\ s.lastApplied = raft[n].lastApplied /\ s.prs = raft[n].prs
        /\ s.sendmsgs = raft[n].sendmsgs
    BY <1>1 DEF RecordVote, RaftObject
  <2> HIDE DEF s
  <2>4. s \in Solid
    BY <1>1, <2>2, <2>3, SolidSame
  <2>5. BecomeLeader(s) \in Solid
    BY <1>1, <2>4, RoleSolid
  <2> QED BY <2>1, <2>5, OneSolid
<1> QED BY <1>2, <1>3, <1>4

\* A proposal, and the actions of the other threads.
LEMMA ThreadSolid ==
  ASSUME TypeOK, AllSolid, NEW n \in Node
  PROVE  /\ \A v \in Value : Propose(n, v) => AllSolid'
         /\ Persist(n) => AllSolid'
         /\ Bind(n) => AllSolid'
         /\ \A d \in Node : Discard(n, d) => AllSolid'
         /\ \A d \in Node : Lose(n, d) => AllSolid'
<1>1. raft[n] \in RaftObject /\ raft[n] \in Solid
  BY DEF TypeOK, AllSolid
<1>2. ASSUME NEW v \in Value, Propose(n, v)
      PROVE  AllSolid'
  <2>1. StepProp(raft[n], v) \in Solid
    BY <1>1, StepPropSolid
  <2>2. raft' = raft \/ raft' = [raft EXCEPT ![n] = StepProp(raft[n], v)]
    BY <1>2 DEF Propose, Becomes
  <2> QED BY <2>1, <2>2, OneSolid
<1>3. ASSUME Persist(n)
      PROVE  AllSolid'
  <2> DEFINE s == StorageLog(raft[n])
             r == [s EXCEPT !.ready = FALSE]
  <2>1. s \in RaftObject
    BY <1>1, StorageLogType
  <2>2. /\ s.entries = raft[n].entries /\ s.prs = raft[n].prs
        /\ s.sendmsgs = raft[n].sendmsgs
    BY <1>1 DEF StorageLog, AppliedTo, RaftObject
  <2> HIDE DEF s
  <2>3. /\ r \in RaftObject /\ r.entries = s.entries /\ r.prs = s.prs
        /\ r.sendmsgs = s.sendmsgs
    BY <2>1 DEF RaftObject
  <2>4. raft' = [raft EXCEPT ![n] = r]
    BY <1>3 DEF Persist, Becomes, s
  <2> HIDE DEF r
  <2>5. raft[n].entries # <<>>
    BY <1>1, <1>3 DEF Persist, Solid
  <2>6. r \in Solid
    BY <1>1, <2>2, <2>3, <2>5 DEF Solid
  <2> QED BY <2>4, <2>6, OneSolid
<1>4. ASSUME Bind(n)
      PROVE  AllSolid'
  <2> DEFINE u == raft[n].unknownid
             p == raft[n].peersfd \cup {Head(u)}
             r == [raft[n] EXCEPT !.peersfd = p, !.unknownid = Tail(u)]
  <2>1. u \in Seq(Node) /\ u # <<>>
    BY <1>1, <1>4 DEF Bind, RaftObject
  <2>2. p \in SUBSET Node /\ Tail(u) \in Seq(Node)
    BY <1>1, <2>1, HeadTailProperties DEF RaftObject
  <2> HIDE DEF u, p
  <2>3. /\ r \in RaftObject /\ r.entries = raft[n].entries
        /\ r.ready = raft[n].ready /\ r.lastApplied = raft[n].lastApplied
        /\ r.prs = raft[n].prs /\ r.sendmsgs = raft[n].sendmsgs
    BY <1>1, <2>2 DEF RaftObject
  <2>4. raft' = [raft EXCEPT ![n] = r]
    BY <1>4 DEF Bind, Becomes, p, u
  <2> HIDE DEF r
  <2>5. r \in Solid
    BY <1>1, <2>3, SolidSame
  <2> QED BY <2>4, <2>5, OneSolid
<1>5. ASSUME NEW d \in Node, raft[n].sendmsgs[d] # <<>>,
             raft' = [raft EXCEPT ![n].sendmsgs[d] = Tail(@)]
      PROVE  AllSolid'
  <2> DEFINE x == Tail(raft[n].sendmsgs[d])
             r == [raft[n] EXCEPT !.sendmsgs[d] = x]
  <2>1. raft[n].sendmsgs[d] \in Seq(SolidMessage)
    BY <1>1 DEF Solid
  <2>2. x \in Seq(SolidMessage)
    BY <1>5, <2>1, HeadTailProperties
  <2>3. raft' = [raft EXCEPT ![n] = r]
    BY <1>5
  <2> HIDE DEF x
  <2>4. r \in Solid
    BY <1>1, <2>2, QueueSolid
  <2> HIDE DEF r
  <2> QED BY <2>3, <2>4, OneSolid
<1> QED BY <1>2, <1>3, <1>4, <1>5 DEF Discard, Lose, Deliverable

\* A message is taken from a queue and handled.
LEMMA StepNodeSolid ==
  ASSUME IsFiniteSet(Node), TypeOK, NoVotes, AllSolid,
         NEW n \in Node, NEW src \in Node \ {n}, StepNode(n, src)
  PROVE  AllSolid'
<1> DEFINE q == raft[src].sendmsgs[n]
           h == Head(q)
           x == Tail(q)
           r == GeneralStep(raft[n], h)
           u == [raft[src] EXCEPT !.sendmsgs[n] = x]
<1>1. /\ q \in Seq(SolidMessage) /\ q \in Seq(QuietMessage(Nat)) /\ q # <<>>
      /\ raft[n] \in Solid /\ raft[src] \in Solid
  BY DEF StepNode, Deliverable, AllSolid, NoVotes, Solid, Quiet
<1>2. h \in SolidMessage /\ x \in Seq(SolidMessage) /\ h \in QuietMessage(Nat)
  BY <1>1, HeadTailProperties
<1>3. raft' = [raft EXCEPT ![n] = r, ![src] = u]
  BY DEF StepNode, Takes, TypeOK
<1> HIDE DEF h, x
<1>4. r \in Solid
  BY <1>1, <1>2, GeneralStepSolid DEF QuietMessage
<1>5. u \in Solid
  BY <1>1, <1>2, QueueSolid
<1> HIDE DEF r, u
<1> QED BY <1>3, <1>4, <1>5, TwoSolid

\* Two solid messages parsed as one: with nothing at position 0, the first one
\* was at 0 as well, and the entries of the second are still there.
LEMMA MergeSolid ==
  ASSUME NEW a \in SolidMessage, NEW b \in SolidMessage
  PROVE  Merge(a, b) \in SolidMessage
<1> DEFINE m == Merge(a, b)
<1>1. /\ a \in Message /\ b \in Message
      /\ a.entries \in Seq(Numbered) /\ b.entries \in Seq(Numbered)
      /\ a.index \in Nat /\ b.index \in Nat
  BY DEF SolidMessage, Message
<1>2. m \in Message
  BY <1>1, MergeType
<1>3. /\ m.type = b.type /\ m.entries = a.entries \o b.entries
      /\ m.index = 0 => b.index = 0
  BY <1>1 DEF Merge
<1> HIDE DEF m
<1>4. /\ m.entries \in Seq(Numbered)
      /\ Len(m.entries) = Len(a.entries) + Len(b.entries)
      /\ Len(a.entries) \in Nat /\ Len(b.entries) \in Nat
  BY <1>1, <1>3, ConcatProperties, LenProperties
<1>5. b.entries # <<>> => m.entries # <<>>
  <2> DEFINE i == Len(a.entries)
             j == Len(b.entries)
  <2>1. b.entries # <<>> => j # 0
    BY <1>1, EmptySeq
  <2>2. i \in Nat /\ j \in Nat /\ Len(m.entries) = i + j
    BY <1>4
  <2> HIDE DEF i, j
  <2>3. j # 0 => Len(m.entries) # 0
    BY <2>2
  <2> QED BY <2>1, <2>3, EmptySeq
<1>6. m \in SolidMessage
  BY <1>2, <1>3, <1>4, <1>5 DEF SolidMessage
<1> QED BY <1>6 DEF m

\* Two messages become one.
LEMMA CoalesceSolid ==
  ASSUME TypeOK, AllSolid, NEW n \in Node, NEW m \in Node, NEW d \in Node,
         Coalesce(m, n, d)
  PROVE  AllSolid'
<1> DEFINE q == raft[m].sendmsgs[d]
           k == raft[n].sendmsgs[d]
<1>1. /\ q \in Seq(SolidMessage) /\ q # <<>> /\ k \in Seq(SolidMessage)
      /\ raft[m] \in Solid /\ raft[n] \in Solid
  BY DEF Coalesce, Deliverable, AllSolid, Solid
<1>2. /\ Head(q) \in SolidMessage /\ Tail(q) \in Seq(SolidMessage)
      /\ Len(q) \in Nat
  BY <1>1, HeadTailProperties, LenProperties
<1>3. CASE m = n /\ Len(q) > 1
           /\ raft' = [raft EXCEPT ![m].sendmsgs[d] =
                         <<Merge(q[1], q[2])>> \o SubSeq(q, 3, Len(q))]
  <2> DEFINE x == <<Merge(q[1], q[2])>> \o SubSeq(q, 3, Len(q))
             r == [raft[m] EXCEPT !.sendmsgs[d] = x]
  <2>1. q[1] \in SolidMessage /\ q[2] \in SolidMessage
    BY <1>1, <1>2, <1>3, ElementOfSeq
  <2>2. SubSeq(q, 3, Len(q)) \in Seq(SolidMessage)
    BY <1>1, SubSeqType
  <2>3. <<Merge(q[1], q[2])>> \in Seq(SolidMessage)
    <3>1. Merge(q[1], q[2]) \in SolidMessage
      BY <2>1, MergeSolid
    <3> QED BY <3>1
  <2>4. x \in Seq(SolidMessage)
    BY <2>2, <2>3, ConcatProperties
  <2>5. raft' = [raft EXCEPT ![m] = r]
    BY <1>3
  <2> HIDE DEF x
  <2>6. r \in Solid
    BY <1>1, <2>4, QueueSolid
  <2> HIDE DEF r
  <2> QED BY <2>5, <2>6, OneSolid
<1>4. CASE m # n /\ k # <<>>
           /\ raft' = [raft EXCEPT ![m].sendmsgs[d] = Tail(@),
                 ![n].sendmsgs[d] = <<Merge(Head(q), Head(@))>> \o Tail(@)]
  <2> DEFINE x == <<Merge(Head(q), Head(k))>> \o Tail(k)
             y == Tail(q)
             r == [raft[m] EXCEPT !.sendmsgs[d] = y]
             u == [raft[n] EXCEPT !.sendmsgs[d] = x]
  <2>1. Head(k) \in SolidMessage /\ Tail(k) \in Seq(SolidMessage)
    BY <1>1, <1>4, HeadTailProperties
  <2>2. <<Merge(Head(q), Head(k))>> \in Seq(SolidMessage)
    <3>1. Merge(Head(q), Head(k)) \in SolidMessage
      BY <1>2, <2>1, MergeSolid
    <3> QED BY <3>1
  <2>3. x \in Seq(SolidMessage) /\ y \in Seq(SolidMessage)
    BY <1>2, <2>1, <2>2, ConcatProperties
  <2>4. raft' = [raft EXCEPT ![m] = r, ![n] = u]
    BY <1>4 DEF TypeOK
  <2> HIDE DEF x, y
  <2>5. r \in Solid /\ u \in Solid
    BY <1>1, <2>3, QueueSolid
  <2> HIDE DEF r, u
  <2> QED BY <2>4, <2>5, TwoSolid
<1> QED BY <1>3, <1>4 DEF Coalesce, Deliverable

\* A new process has an empty log and has applied nothing of it.
LEMMA BootSolid ==
  ASSUME NEW n \in Node, NEW file \in Seq(Entry)
  PROVE  Boot(n, file) \in Solid
<1> DEFINE b == Boot(n, file)
<1>1. b \in RaftObject
  BY BootType
<1>2. /\ b.entries = <<>> /\ ~ b.ready /\ b.lastApplied = 0
      /\ b.prs = [d \in Node |-> NewProgress(1)]
      /\ b.sendmsgs = [d \in Node |->
           IF d \in Peers[n] THEN <<[NewMessage("MsgNode") EXCEPT !.from = n]>>
           ELSE <<>>]
  BY DEF Boot
<1>3. b.sendmsgs \in [Node -> Seq(SolidMessage)]
  <2> DEFINE m == [NewMessage("MsgNode") EXCEPT !.from = n]
  <2>1. m \in Message
    BY MessagesType
  <2>2. m \in SolidMessage
    BY <2>1, PlainSolid DEF NewMessage
  <2> HIDE DEF m
  <2>3. <<m>> \in Seq(SolidMessage) /\ <<>> \in Seq(SolidMessage)
    BY <2>2, EmptySeq
  <2> QED BY <1>2, <2>3 DEF m
<1>4. NewProgress(1) \in SolidProgress
  BY DEF NewProgress, SolidProgress, Progress, ProgressState
<1>5. b.entries \in Seq(Numbered)
  BY <1>2, EmptySeq
<1> HIDE DEF b
<1>6. b \in Solid
  <2>1. b.prs \in [Node -> SolidProgress]
    BY <1>2, <1>4
  <2>2. ~ b.lastApplied > 0
    BY <1>2
  <2> QED BY <1>1, <1>2, <1>3, <1>5, <2>1, <2>2 DEF Solid
<1> QED BY <1>6 DEF b

\* A restart leaves what the old process had sent, and a new process.
LEMMA RestartSolid ==
  ASSUME TypeOK, AllSolid, NEW n \in Node, Restart(n)
  PROVE  AllSolid'
<1> DEFINE boot == Boot(n, raft[n].storage)
           old == raft[n].sendmsgs
<1>1. PICK kept \in [Node -> 0..MaxInFlight] :
        /\ \A d \in Node : kept[d] <= Len(old[d])
        /\ raft' = [x \in Node |->
             IF x = n THEN [boot EXCEPT !.sendmsgs =
                             [d \in Node |-> SubSeq(old[d], 1, kept[d]) \o @[d]]]
             ELSE [raft[x] EXCEPT !.peersfd = @ \ {n}]]
  BY DEF Restart
<1>2. raft[n] \in RaftObject /\ old \in [Node -> Seq(SolidMessage)]
  BY DEF TypeOK, AllSolid, Solid
<1>3. boot \in Solid
  BY <1>2, BootSolid DEF RaftObject
<1> DEFINE q == [d \in Node |-> SubSeq(old[d], 1, kept[d]) \o boot.sendmsgs[d]]
           r == [boot EXCEPT !.sendmsgs = q]
<1> HIDE DEF boot
<1>4. q \in [Node -> Seq(SolidMessage)]
  <2>1. SUFFICES ASSUME NEW d \in Node
                 PROVE  SubSeq(old[d], 1, kept[d]) \o boot.sendmsgs[d]
                          \in Seq(SolidMessage)
    OBVIOUS
  <2>2. /\ old[d] \in Seq(SolidMessage) /\ kept[d] \in Int
        /\ kept[d] <= Len(old[d]) /\ boot.sendmsgs[d] \in Seq(SolidMessage)
    BY <1>1, <1>2, <1>3, BoundAssumption DEF Solid
  <2>3. \A i \in 1..kept[d] : old[d][i] \in SolidMessage
    BY <2>2, LenProperties, ElementOfSeq
  <2>4. SubSeq(old[d], 1, kept[d]) \in Seq(SolidMessage)
    BY <2>2, <2>3, SubSeqProperties
  <2> QED BY <2>2, <2>4, ConcatProperties
<1>5. raft'[n] = r
  BY <1>1
<1> HIDE DEF q
<1>6. r \in Solid
  BY <1>3, <1>4, QueuesSolid
<1>7. ASSUME NEW x \in Node, x # n
      PROVE  raft'[x] \in Solid
  <2> DEFINE s == [raft[x] EXCEPT !.peersfd = raft[x].peersfd \ {n}]
  <2>1. raft[x] \in RaftObject /\ raft[x] \in Solid
    BY DEF TypeOK, AllSolid
  <2>2. raft'[x] = s
    BY <1>1, <1>7
  <2>3. raft[x].peersfd \ {n} \in SUBSET Node
    BY <2>1 DEF RaftObject
  <2>4. /\ s \in RaftObject /\ s.entries = raft[x].entries
        /\ s.ready = raft[x].ready /\ s.lastApplied = raft[x].lastApplied
        /\ s.prs = raft[x].prs /\ s.sendmsgs = raft[x].sendmsgs
    BY <2>1, <2>3 DEF RaftObject
  <2> HIDE DEF s
  <2> QED BY <2>1, <2>2, <2>4, SolidSame
<1> QED BY <1>5, <1>6, <1>7 DEF AllSolid

\* Every step leaves the objects solid.
LEMMA NextSolid ==
  ASSUME IsFiniteSet(Node), TypeOK, NoVotes, AllSolid, [Next]_vars
  PROVE  AllSolid'
<1>1. raft' = raft => AllSolid'
  BY DEF AllSolid
<1>2. CASE UNCHANGED vars
  BY <1>1, <1>2 DEF vars
<1>3. ASSUME NEW n \in Node,
             \/ TickElection(n) \/ Elect(n) \/ TickHeartbeat(n)
      PROVE  AllSolid'
  BY <1>3, TickSolid
<1>4. ASSUME NEW n \in Node,
             \/ Persist(n) \/ Bind(n)
             \/ \E v \in Value : Propose(n, v)
             \/ \E m \in Node : Discard(n, m) \/ Lose(n, m)
      PROVE  AllSolid'
  BY <1>4, ThreadSolid
<1>5. ASSUME NEW n \in Node, Crash(n)
      PROVE  AllSolid'
  BY <1>1, <1>5 DEF Crash
<1> QED BY <1>2, <1>3, <1>4, <1>5, StepNodeSolid, CoalesceSolid, RestartSolid
    DEF Next

\* The objects of every reachable state are solid.
LEMMA AlwaysSolid ==
  ASSUME IsFiniteSet(Node)
  PROVE  Spec => []AllSolid
<1>1. Init => AllSolid
  <2>1. <<>> \in Seq(Entry)
    BY EmptySeq
  <2> QED BY <2>1, BootSolid DEF Init, AllSolid
<1>2. TypeOK /\ NoVotes /\ AllSolid /\ [Next]_vars => AllSolid'
  BY NextSolid
<1> QED BY <1>1, <1>2, TypeCorrect, AlwaysQuiet, PTL DEF Spec

\* Under any faults the two results of maybeAppend() cannot be confused: a
\* leader sends from the start of its log only when it has one (stepProp(), the
\* test of match against _lastApplied), or to followers that have acknowledged
\* an entry, which it does not send from the start.
THEOREM AppendsSaySomething ==
  ASSUME IsFiniteSet(Node)
  PROVE  Spec => []NoEmptyAppendAtZero
<1>1. AllSolid => NoEmptyAppendAtZero
  <2>1. SUFFICES ASSUME AllSolid, NEW n \in Node, NEW d \in Node,
                        NEW m \in InFlight(n, d), m.type = "MsgApp", m.index = 0
                 PROVE  m.entries # <<>>
    BY DEF NoEmptyAppendAtZero
  <2>2. raft[n].sendmsgs[d] \in Seq(SolidMessage)
    BY <2>1 DEF AllSolid, Solid
  <2>3. m \in SolidMessage
    BY <2>1, <2>2, ElementOfSeq DEF InFlight
  <2> QED BY <2>1, <2>3 DEF SolidMessage
<1> QED BY <1>1, AlwaysSolid, PTL
=============================================================================
