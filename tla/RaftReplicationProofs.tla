----------------------- MODULE RaftReplicationProofs -----------------------
(***************************************************************************)
(* Proofs about replication under one leader: when one node stands for     *)
(* election and no process is started again, for any number of nodes, any  *)
(* peers and any bounds, whatever messages are lost.                       *)
(*                                                                         *)
(* The inductive invariant Led says what the leader's object, a follower's *)
(* object and the messages between them have to do with each other: a      *)
(* follower's log is the start of the leader's, every append on its way    *)
(* is a part of the leader's log that ends no earlier than the follower's  *)
(* does, the appends of one queue end later and later, and no match, no    *)
(* acknowledgement and no commit index lies behind the end of the log it   *)
(* is about.                                                               *)
(***************************************************************************)
EXTENDS RaftProofs

-----------------------------------------------------------------------------
(* Logs and queues *)

\* Where the entries of an append end in the log.
End(m) == m.index + Len(m.entries)

\* The entries of an append are those of the log at its position.
PartOf(m, log) ==
  /\ End(m) <= Len(log)
  /\ \A i \in 1..Len(m.entries) : m.entries[i] = log[m.index + i]

\* A log is the start of another.
StartOf(log, whole) ==
  /\ Len(log) <= Len(whole)
  /\ \A i \in 1..Len(log) : log[i] = whole[i]

\* What leader l, whose log this is, may have on its way to a follower that
\* holds so many entries.
LeaderSays(l, log, held) ==
  {m \in Message :
     /\ m.type \in {"MsgNode", "MsgNodeResp", "MsgHeartbeat", "MsgApp"}
     /\ m.type # "MsgNodeResp" => m.from = l
     /\ m.type = "MsgNode" => m.term = 0
     /\ m.type = "MsgHeartbeat" => m.commit <= held
     /\ m.type = "MsgApp" => held <= End(m) /\ PartOf(m, log)}

\* What follower f, which holds so many entries, may have on its way.
FollowerSays(f, held) ==
  {m \in Message :
     /\ m.type \in {"MsgNode", "MsgNodeResp", "MsgHeartbeatResp", "MsgAppResp"}
     /\ m.term = 0
     /\ m.type # "MsgNodeResp" => m.from = f
     /\ m.type = "MsgAppResp" /\ ~ m.reject => m.index <= held}

\* No append of a queue ends before one ahead of it.
InOrder(q) ==
  \A i, j \in 1..Len(q) :
    i < j /\ q[i].type = "MsgApp" /\ q[j].type = "MsgApp" => End(q[i]) <= End(q[j])

LeaderQueue(l, log, held) == {q \in Seq(LeaderSays(l, log, held)) : InOrder(q)}

\* The numbers of a message and of its entries.
LEMMA MessageNumbers ==
  ASSUME NEW m \in Message
  PROVE  /\ m.index \in Nat /\ m.commit \in Nat /\ m.term \in Nat
         /\ m.entries \in Seq(Entry) /\ Len(m.entries) \in Nat /\ End(m) \in Nat
         /\ m.from \in NodeId /\ m.reject \in BOOLEAN
<1>1. /\ m.index \in Nat /\ m.commit \in Nat /\ m.term \in Nat
      /\ m.entries \in Seq(Entry) /\ m.from \in NodeId /\ m.reject \in BOOLEAN
  BY DEF Message
<1>2. Len(m.entries) \in Nat
  BY <1>1, LenProperties
<1> QED BY <1>1, <1>2 DEF End

\* Being the start is transitive, and a log with an entry more goes on from it.
LEMMA StartProperties ==
  ASSUME NEW a \in Seq(Entry), NEW b \in Seq(Entry)
  PROVE  /\ StartOf(a, a)
         /\ \A c \in Seq(Entry) : StartOf(a, b) /\ StartOf(b, c) => StartOf(a, c)
         /\ \A e \in Entry : StartOf(a, Append(a, e))
<1>1. Len(a) \in Nat /\ Len(b) \in Nat
  BY LenProperties
<1>2. ASSUME NEW c \in Seq(Entry), StartOf(a, b), StartOf(b, c)
      PROVE  StartOf(a, c)
  <2>1. Len(c) \in Nat
    BY LenProperties
  <2> QED BY <1>1, <1>2, <2>1 DEF StartOf
<1>3. ASSUME NEW e \in Entry
      PROVE  StartOf(a, Append(a, e))
  <2>1. /\ Len(Append(a, e)) = Len(a) + 1
        /\ \A i \in 1..Len(a) : Append(a, e)[i] = a[i]
    BY AppendProperties
  <2> QED BY <1>1, <2>1 DEF StartOf
<1> QED BY <1>1, <1>2, <1>3 DEF StartOf

\* A message that is queued behind the others: an append ends at the end of the
\* log, which no append ahead of it is past.
LEMMA QueueAppend ==
  ASSUME NEW l, NEW log \in Seq(Entry), NEW held \in Nat,
         NEW q \in LeaderQueue(l, log, held), NEW m \in LeaderSays(l, log, held),
         m.type = "MsgApp" => End(m) = Len(log)
  PROVE  Append(q, m) \in LeaderQueue(l, log, held)
<1> DEFINE S == LeaderSays(l, log, held)
           r == Append(q, m)
<1>1. q \in Seq(S) /\ InOrder(q) /\ m \in S
  BY DEF LeaderQueue
<1> HIDE DEF S
<1>2. /\ r \in Seq(S) /\ Len(r) = Len(q) + 1 /\ Len(q) \in Nat
      /\ \A i \in 1..Len(q) : r[i] = q[i]
      /\ r[Len(q) + 1] = m
  BY <1>1, AppendProperties, LenProperties
<1> HIDE DEF r
<1>3. \A i \in 1..Len(q) : q[i] \in S
  BY <1>1, ElementOfSeq
<1>4. ASSUME NEW i \in 1..Len(r), NEW j \in 1..Len(r), i < j,
             r[i].type = "MsgApp", r[j].type = "MsgApp"
      PROVE  End(r[i]) <= End(r[j])
  <2>1. i \in 1..Len(q) /\ r[i] = q[i]
    BY <1>2, <1>4
  <2>2. CASE j = Len(q) + 1
    <3>1. q[i] \in S /\ q[i].type = "MsgApp"
      BY <1>3, <1>4, <2>1
    <3>2. End(q[i]) <= Len(log)
      BY <3>1 DEF S, LeaderSays, PartOf
    <3> QED BY <1>2, <1>4, <2>1, <2>2, <3>2
  <2>3. CASE j # Len(q) + 1
    <3>1. j \in 1..Len(q) /\ r[j] = q[j]
      BY <1>2, <2>3
    <3> QED BY <1>1, <1>4, <2>1, <3>1 DEF InOrder
  <2> QED BY <2>2, <2>3
<1>5. InOrder(r)
  BY <1>4 DEF InOrder
<1> QED BY <1>2, <1>5 DEF LeaderQueue, S, r

\* What is left of a queue when its head is taken, by a follower that now holds
\* more: no more than an append at the head brought.
LEMMA QueueTail ==
  ASSUME NEW l, NEW log \in Seq(Entry), NEW held \in Nat, NEW now \in Nat,
         NEW q \in LeaderQueue(l, log, held), q # <<>>, held <= now,
         now <= IF Head(q).type = "MsgApp" THEN End(Head(q)) ELSE held
  PROVE  Tail(q) \in LeaderQueue(l, log, now)
<1> DEFINE S == LeaderSays(l, log, held)
           T == LeaderSays(l, log, now)
           r == Tail(q)
<1>1. q \in Seq(S) /\ InOrder(q)
  BY DEF LeaderQueue
<1> HIDE DEF S
<1>2. /\ r \in Seq(S) /\ Len(r) = Len(q) - 1 /\ Len(q) \in Nat \ {0} /\ Head(q) = q[1]
      /\ \A i \in 1..Len(r) : r[i] = q[i + 1]
  BY <1>1, HeadTailProperties, LenProperties, EmptySeq
<1> HIDE DEF r
<1>3. ASSUME NEW i \in 1..Len(r)
      PROVE  r[i] \in T
  <2>1. r[i] \in S
    BY <1>2, ElementOfSeq
  <2>2. r[i] \in Message /\ q[1] \in S /\ q[1] \in Message
    BY <1>1, <1>2, <2>1, ElementOfSeq DEF S, LeaderSays
  <2>3. ASSUME r[i].type = "MsgApp"
        PROVE  now <= End(r[i])
    <3>1. held <= End(r[i])
      BY <2>1, <2>3 DEF S, LeaderSays
    <3>2. End(r[i]) \in Nat /\ End(q[1]) \in Nat
      BY <2>2, MessageNumbers
    <3>3. CASE q[1].type = "MsgApp"
      <4>1. 1 \in 1..Len(q) /\ i + 1 \in 1..Len(q) /\ 1 < i + 1 /\ r[i] = q[i + 1]
        BY <1>2
      <4>2. End(q[1]) <= End(r[i])
        BY <1>1, <2>3, <3>3, <4>1 DEF InOrder
      <4> QED BY <1>2, <3>2, <3>3, <4>2
    <3>4. CASE q[1].type # "MsgApp"
      BY <1>2, <3>1, <3>2, <3>4
    <3> QED BY <3>3, <3>4
  <2>4. r[i].type = "MsgHeartbeat" => r[i].commit <= now
    <3>1. r[i].type = "MsgHeartbeat" => r[i].commit <= held
      BY <2>1 DEF S, LeaderSays
    <3> QED BY <2>2, <3>1, MessageNumbers
  <2> QED BY <2>1, <2>3, <2>4 DEF S, LeaderSays
<1> HIDE DEF T
<1>4. r \in Seq(T)
  BY <1>2, <1>3, SeqDef
<1>5. InOrder(r)
  <2>1. \A i \in 1..Len(r) : i + 1 \in 1..Len(q)
    BY <1>2
  <2>2. \A i, j \in 1..Len(r) : i < j => i + 1 < j + 1
    BY <1>2
  <2> QED BY <1>1, <1>2, <2>1, <2>2 DEF InOrder
<1> QED BY <1>4, <1>5 DEF LeaderQueue, T, r

\* The leader's log grows: what was a part of it still is.
LEMMA QueueGrows ==
  ASSUME NEW l, NEW log \in Seq(Entry), NEW more \in Seq(Entry), NEW held \in Nat,
         StartOf(log, more), NEW q \in LeaderQueue(l, log, held)
  PROVE  q \in LeaderQueue(l, more, held)
<1>1. ASSUME NEW m \in LeaderSays(l, log, held)
      PROVE  m \in LeaderSays(l, more, held)
  <2>1. m \in Message /\ Len(log) \in Nat /\ Len(more) \in Nat
    BY LenProperties DEF LeaderSays
  <2>2. ASSUME PartOf(m, log)
        PROVE  PartOf(m, more)
    <3>1. m.index \in Nat /\ Len(m.entries) \in Nat
      BY <2>1, MessageNumbers
    <3>2. \A i \in 1..Len(m.entries) : m.index + i \in 1..Len(log)
      BY <2>1, <2>2, <3>1 DEF PartOf, End
    <3> QED BY <2>1, <2>2, <3>1, <3>2 DEF PartOf, End, StartOf
  <2> QED BY <2>2 DEF LeaderSays
<1>2. LeaderSays(l, log, held) \subseteq LeaderSays(l, more, held)
  BY <1>1
<1>3. q \in Seq(LeaderSays(l, more, held))
  BY <1>2, SeqMonotonic DEF LeaderQueue
<1> QED BY <1>3 DEF LeaderQueue
-----------------------------------------------------------------------------
(* The follower *)

\* A follower of a leader with this log.
Followers(log) ==
  {s \in RaftObject :
     /\ s.state = "FOLLOWER"
     /\ StartOf(s.entries, log)
     /\ s.commitIndex <= Len(s.entries)
     /\ s.sendmsgs \in [Node -> Seq(FollowerSays(s.id, Len(s.entries)))]}

\* The numbers of an object.
LEMMA ObjectNumbers ==
  ASSUME NEW s \in RaftObject
  PROVE  /\ s.id \in Node /\ s.id \in NodeId /\ s.currentTerm \in Nat \ {0}
         /\ s.commitIndex \in Nat /\ s.lastApplied \in Nat
         /\ s.entries \in Seq(Entry) /\ Len(s.entries) \in Nat
         /\ s.prs \in [Node -> Progress] /\ s.peers \subseteq Node
         /\ s.sendmsgs \in [Node -> Seq(Message)]
BY LenProperties DEF RaftObject, NodeId

\* What a follower had on its way stays true of it when its log grows.
LEMMA FollowerSaysMonotonic ==
  ASSUME NEW f, NEW held \in Nat, NEW now \in Nat, held <= now
  PROVE  \A q \in Seq(FollowerSays(f, held)) : q \in Seq(FollowerSays(f, now))
<1>1. FollowerSays(f, held) \subseteq FollowerSays(f, now)
  <2>1. \A m \in Message : m.index \in Nat
    BY MessageNumbers
  <2> QED BY <2>1 DEF FollowerSays
<1> QED BY <1>1, SeqMonotonic

\* An object with the same log, or with a longer start of the leader's, is a
\* follower if its role and its commit index still are a follower's.
LEMMA FollowerUpdate ==
  ASSUME NEW log \in Seq(Entry), NEW s \in Followers(log), NEW r \in RaftObject,
         r.id = s.id, r.state = "FOLLOWER", r.sendmsgs = s.sendmsgs,
         r.commitIndex <= Len(r.entries),
         Len(s.entries) <= Len(r.entries), StartOf(r.entries, log)
  PROVE  r \in Followers(log)
<1>1. /\ s \in RaftObject /\ Len(s.entries) \in Nat /\ Len(r.entries) \in Nat
      /\ s.sendmsgs \in [Node -> Seq(FollowerSays(s.id, Len(s.entries)))]
  BY ObjectNumbers DEF Followers
<1>2. r.sendmsgs \in [Node -> Seq(FollowerSays(r.id, Len(r.entries)))]
  BY <1>1, FollowerSaysMonotonic
<1> QED BY <1>2 DEF Followers

\* send() to one node.
LEMMA FollowerSend ==
  ASSUME NEW log \in Seq(Entry), NEW s \in Followers(log), NEW to \in Node,
         NEW m \in FollowerSays(s.id, Len(s.entries))
  PROVE  Send(s, to, m) \in Followers(log) /\ SameRecord(s, Send(s, to, m))
<1> DEFINE r == Send(s, to, m)
           S == FollowerSays(s.id, Len(s.entries))
           q == s.sendmsgs
<1>1. s \in RaftObject /\ q \in [Node -> Seq(S)] /\ s.sendmsgs \in [Node -> Seq(Message)]
  BY ObjectNumbers DEF Followers
<1>2. m \in Message /\ m \in S /\ to \in NodeId /\ to # None
  BY NodeAssumption DEF FollowerSays, NodeId
<1>3. r \in RaftObject /\ SameRecord(s, r)
  BY <1>1, <1>2, SendType, SendingSafe
<1>4. r.sendmsgs = [q EXCEPT ![to] = Append(q[to], m)]
  BY <1>1, <1>2 DEF Send, RaftObject
<1> HIDE DEF r, S, q
<1>5. r.sendmsgs \in [Node -> Seq(S)]
  BY <1>1, <1>2, <1>4, AppendProperties
<1>6. /\ r.state = "FOLLOWER" /\ StartOf(r.entries, log)
      /\ r.commitIndex <= Len(r.entries)
      /\ r.sendmsgs \in [Node -> Seq(FollowerSays(r.id, Len(r.entries)))]
  BY <1>3, <1>5 DEF Followers, SameRecord, S
<1> QED BY <1>3, <1>6 DEF Followers, r

\* The answers of a follower.
LEMMA FollowerAnswers ==
  ASSUME NEW s \in RaftObject, NEW held \in Nat
  PROVE  /\ HeartbeatResp(s) \in FollowerSays(s.id, held)
         /\ \A i \in Nat : AppResp(s, i, TRUE) \in FollowerSays(s.id, held)
         /\ \A i \in Nat : i <= held => AppResp(s, i, FALSE) \in FollowerSays(s.id, held)
         /\ [NewMessage("MsgNodeResp") EXCEPT !.term = 0] \in FollowerSays(s.id, held)
<1>1. s.id \in Node
  BY ObjectNumbers
<1>2. HeartbeatResp(s) \in FollowerSays(s.id, held)
  <2>1. HeartbeatResp(s) \in Message
    BY <1>1, MessagesType DEF HeartbeatResp
  <2> QED BY <2>1 DEF HeartbeatResp, NewMessage, FollowerSays
<1>3. ASSUME NEW i \in Nat, NEW b \in BOOLEAN, b \/ i <= held
      PROVE  AppResp(s, i, b) \in FollowerSays(s.id, held)
  <2>1. AppResp(s, i, b) \in Message
    BY <1>1, MessagesType DEF AppResp
  <2> QED BY <1>3, <2>1 DEF AppResp, NewMessage, FollowerSays
<1>4. [NewMessage("MsgNodeResp") EXCEPT !.term = 0] \in FollowerSays(s.id, held)
  <2>1. [NewMessage("MsgNodeResp") EXCEPT !.term = 0] \in Message
    BY MessagesType
  <2> QED BY <2>1 DEF NewMessage, FollowerSays
<1> QED BY <1>2, <1>3, <1>4

\* The log after an append is a start of the leader's, no shorter than it was,
\* and ends where the append does.
LEMMA AppendKeepsStart ==
  ASSUME NEW l, NEW log \in Seq(Entry), NEW s \in Followers(log),
         NEW m \in LeaderSays(l, log, Len(s.entries)), m.type = "MsgApp",
         Accepts(s, m)
  PROVE  /\ MaybeAppend(s, m).entries \in Seq(Entry)
         /\ StartOf(MaybeAppend(s, m).entries, log)
         /\ Len(MaybeAppend(s, m).entries) = End(m)
         /\ Len(s.entries) <= End(m)
<1> DEFINE cut == Truncate(s.entries, m.index)
           new == cut \o m.entries
<1>1. s \in RaftObject /\ StartOf(s.entries, log) /\ m \in Message
  BY DEF Followers, LeaderSays
<1>2. /\ s.entries \in Seq(Entry) /\ Len(s.entries) \in Nat /\ m.index \in Nat
      /\ m.entries \in Seq(Entry) /\ Len(m.entries) \in Nat
  BY <1>1, ObjectNumbers, MessageNumbers
<1>3. m.index <= Len(s.entries) /\ Len(s.entries) <= End(m) /\ PartOf(m, log)
  BY <1>2 DEF Accepts, LeaderSays
<1>4. /\ cut \in Seq(Entry) /\ Len(cut) = m.index
      /\ \A i \in 1..m.index : cut[i] = s.entries[i]
  <2>1. /\ cut \in Seq(Entry)
        /\ Len(cut) = IF m.index < Len(s.entries) THEN m.index ELSE Len(s.entries)
        /\ \A i \in 1..Len(cut) : cut[i] = s.entries[i]
    BY <1>2, TruncateProperties
  <2> HIDE DEF cut
  <2> QED BY <1>2, <1>3, <2>1
<1> HIDE DEF cut
<1>5. /\ new \in Seq(Entry) /\ Len(new) = m.index + Len(m.entries)
      /\ \A i \in 1..m.index + Len(m.entries) :
           new[i] = IF i <= m.index THEN cut[i] ELSE m.entries[i - m.index]
  <2>1. /\ new \in Seq(Entry) /\ Len(new) = Len(cut) + Len(m.entries)
        /\ \A i \in 1..Len(cut) + Len(m.entries) :
             new[i] = IF i <= Len(cut) THEN cut[i] ELSE m.entries[i - Len(cut)]
    BY <1>2, <1>4, ConcatProperties
  <2> HIDE DEF new
  <2> QED BY <1>4, <2>1
<1> HIDE DEF new
<1>6. StartOf(new, log)
  <2>1. SUFFICES ASSUME NEW i \in 1..End(m)
                 PROVE  new[i] = log[i]
    BY <1>3, <1>5 DEF StartOf, PartOf, End
  <2>2. i \in 1..m.index + Len(m.entries)
    BY DEF End
  <2>3. CASE i <= m.index
    <3>1. i \in 1..m.index /\ i \in 1..Len(s.entries)
      BY <1>2, <1>3, <2>2, <2>3
    <3> QED BY <1>1, <1>4, <1>5, <2>2, <2>3, <3>1 DEF StartOf
  <2>4. CASE ~ (i <= m.index)
    <3>1. i - m.index \in 1..Len(m.entries) /\ m.index + (i - m.index) = i
      BY <1>2, <2>2, <2>4
    <3> QED BY <1>3, <1>5, <2>2, <2>4, <3>1 DEF PartOf
  <2> QED BY <2>3, <2>4
<1>7. MaybeAppend(s, m).entries = new
  BY <1>1 DEF MaybeAppend, RaftObject, new, cut
<1> QED BY <1>3, <1>5, <1>6, <1>7 DEF End

\* A call that leaves r: it still is a follower, and its log has at least the
\* entries it had and at most so many.
Follows(log, s, r, most) ==
  /\ r \in Followers(log) /\ r.id = s.id
  /\ Len(s.entries) <= Len(r.entries) /\ Len(r.entries) <= most

\* handleAppend(): what is acknowledged is in the log.
LEMMA HandleAppendFollows ==
  ASSUME NEW l \in Node, NEW log \in Seq(Entry), NEW s \in Followers(log),
         NEW m \in LeaderSays(l, log, Len(s.entries)), m.type = "MsgApp"
  PROVE  Follows(log, s, HandleAppend(s, m), End(m))
<1> DEFINE u == MaybeAppend(s, m)
           w == [u EXCEPT !.ready = TRUE]
           j == AppendResult(s, m)
<1>1. /\ s \in RaftObject /\ m \in Message /\ m.from = l /\ Len(s.entries) <= End(m)
      /\ s.commitIndex <= Len(s.entries) /\ StartOf(s.entries, log)
      /\ s.state = "FOLLOWER"
  BY DEF Followers, LeaderSays
<1>2. /\ s.commitIndex \in Nat /\ Len(s.entries) \in Nat /\ m.index \in Nat
      /\ End(m) \in Nat /\ s.entries \in Seq(Entry)
  BY <1>1, ObjectNumbers, MessageNumbers
<1>3. /\ u \in RaftObject /\ j \in Nat
      /\ u.id = s.id /\ u.state = s.state /\ u.sendmsgs = s.sendmsgs
      /\ u.commitIndex = s.commitIndex
  <2>1. u \in RaftObject /\ j \in Nat
    BY <1>1, MaybeAppendType
  <2>2. /\ u.id = s.id /\ u.state = s.state /\ u.sendmsgs = s.sendmsgs
        /\ u.commitIndex = s.commitIndex
    BY <1>1 DEF MaybeAppend, RaftObject
  <2> QED BY <2>1, <2>2
<1>4. /\ StartOf(u.entries, log)
      /\ Len(s.entries) <= Len(u.entries) /\ Len(u.entries) <= End(m)
      /\ j > 0 => j = Len(u.entries)
  <2>1. CASE Accepts(s, m)
    <3>1. /\ StartOf(u.entries, log) /\ Len(u.entries) = End(m)
      BY <2>1, AppendKeepsStart
    <3>2. j = End(m)
      BY <2>1 DEF AppendResult, End
    <3> QED BY <1>1, <1>2, <3>1, <3>2
  <2>2. CASE ~ Accepts(s, m)
    <3>1. u = s /\ j = 0
      BY <2>2 DEF MaybeAppend, AppendResult
    <3> QED BY <1>1, <1>2, <3>1
  <2> QED BY <2>1, <2>2
<1> HIDE DEF u, j
<1>5. Len(u.entries) \in Nat
  BY <1>3, ObjectNumbers
<1>6. u \in Followers(log)
  BY <1>1, <1>2, <1>3, <1>4, <1>5, FollowerUpdate
<1>7. /\ w \in RaftObject /\ w.id = u.id /\ w.state = u.state
      /\ w.sendmsgs = u.sendmsgs /\ w.commitIndex = u.commitIndex
      /\ w.entries = u.entries
  BY <1>3 DEF RaftObject
<1> HIDE DEF w
<1>8. w \in Followers(log)
  BY <1>1, <1>2, <1>3, <1>4, <1>5, <1>6, <1>7, FollowerUpdate
<1>9. ASSUME NEW r \in Followers(log), r.id = s.id,
             Len(s.entries) <= Len(r.entries), Len(r.entries) <= End(m),
             NEW a \in FollowerSays(s.id, Len(r.entries))
      PROVE  Follows(log, s, Send(r, m.from, a), End(m))
  <2>1. Send(r, l, a) \in Followers(log) /\ SameRecord(r, Send(r, l, a))
    BY <1>9, FollowerSend
  <2> QED BY <1>1, <1>9, <2>1 DEF Follows, SameRecord
<1>10. CASE m.index < s.commitIndex
  <2>1. AppResp(s, s.commitIndex, FALSE) \in FollowerSays(s.id, Len(s.entries))
    BY <1>1, <1>2, FollowerAnswers
  <2>2. HandleAppend(s, m) = Send(s, m.from, AppResp(s, s.commitIndex, FALSE))
    BY <1>10 DEF HandleAppend
  <2>3. Len(s.entries) <= Len(s.entries)
    BY <1>2
  <2>4. Follows(log, s, Send(s, m.from, AppResp(s, s.commitIndex, FALSE)), End(m))
    BY <1>1, <1>9, <2>1, <2>3
  <2> QED BY <2>2, <2>4
<1>11. CASE ~ (m.index < s.commitIndex) /\ j > 0
  <2>1. AppResp(s, j, FALSE) \in FollowerSays(s.id, Len(w.entries))
    <3>1. \A i \in Nat : i <= Len(u.entries) =>
            AppResp(s, i, FALSE) \in FollowerSays(s.id, Len(u.entries))
      BY <1>1, <1>5, FollowerAnswers
    <3>2. j \in Nat /\ j <= Len(u.entries)
      BY <1>3, <1>4, <1>5, <1>11
    <3> QED BY <1>7, <3>1, <3>2
  <2>2. HandleAppend(s, m) = Send(w, m.from, AppResp(s, j, FALSE))
    BY <1>11 DEF HandleAppend, w, u, j
  <2> QED BY <1>3, <1>4, <1>7, <1>8, <1>9, <2>1, <2>2
<1>12. CASE ~ (m.index < s.commitIndex) /\ ~ (j > 0)
  <2>1. AppResp(s, m.index, TRUE) \in FollowerSays(s.id, Len(u.entries))
    BY <1>1, <1>2, <1>5, FollowerAnswers
  <2>2. HandleAppend(s, m) = Send(u, m.from, AppResp(s, m.index, TRUE))
    BY <1>12 DEF HandleAppend, u, j
  <2> QED BY <1>3, <1>4, <1>6, <1>9, <2>1, <2>2
<1> QED BY <1>10, <1>11, <1>12

\* handleHeartbeat(): the commit index that arrives is in the log.
LEMMA HandleHeartbeatFollows ==
  ASSUME NEW log \in Seq(Entry), NEW s \in Followers(log), NEW m \in Message,
         m.from \in Node, m.commit <= Len(s.entries)
  PROVE  Follows(log, s, HandleHeartbeat(s, m), Len(s.entries))
<1> DEFINE r == CommitTo(s, m.commit)
<1>1. /\ s \in RaftObject /\ s.commitIndex <= Len(s.entries)
      /\ StartOf(s.entries, log) /\ s.state = "FOLLOWER"
  BY DEF Followers
<1>2. s.commitIndex \in Nat /\ Len(s.entries) \in Nat /\ m.commit \in Nat
  BY <1>1, ObjectNumbers, MessageNumbers
<1>3. r \in RaftObject
  <2>1. \A c \in Nat : CommitTo(s, c) \in RaftObject
    BY <1>1 DEF CommitTo, RaftObject
  <2> QED BY <1>2, <2>1
<1>4. /\ r.id = s.id /\ r.state = s.state /\ r.sendmsgs = s.sendmsgs
      /\ r.entries = s.entries /\ r.commitIndex \in {s.commitIndex, m.commit}
  BY <1>1 DEF CommitTo, RaftObject
<1> HIDE DEF r
<1>5. r \in Followers(log)
  BY <1>1, <1>2, <1>3, <1>4, FollowerUpdate
<1>6. HeartbeatResp(s) \in FollowerSays(r.id, Len(r.entries))
  BY <1>1, <1>2, <1>4, FollowerAnswers
<1>7. /\ Send(r, m.from, HeartbeatResp(s)) \in Followers(log)
      /\ SameRecord(r, Send(r, m.from, HeartbeatResp(s)))
  BY <1>5, <1>6, FollowerSend
<1> QED BY <1>2, <1>4, <1>7 DEF HandleHeartbeat, Follows, SameRecord, r

\* A node that introduces itself is told so.
LEMMA HandleNodeFollows ==
  ASSUME NEW log \in Seq(Entry), NEW s \in Followers(log), NEW m \in Message,
         m.type = "MsgNode", m.term = 0
  PROVE  Follows(log, s, HandleNode(s, m), Len(s.entries))
<1> DEFINE r == AddNode(s, m.from)
           u == [r EXCEPT !.unknownid = Append(@, m.from)]
           a == [NewMessage("MsgNodeResp") EXCEPT !.term = 0]
<1>1. /\ s \in RaftObject /\ m.from \in Node /\ s.commitIndex <= Len(s.entries)
      /\ StartOf(s.entries, log) /\ s.state = "FOLLOWER"
  BY DEF Followers, Message
<1>2. s.lastApplied \in Nat /\ Len(s.entries) \in Nat
  BY <1>1, ObjectNumbers
<1>3. r \in RaftObject
  <2>1. NewProgress(s.lastApplied + 1) \in Progress
    BY <1>2 DEF NewProgress, Progress, ProgressState
  <2>2. \A p \in Progress :
          [s EXCEPT !.peers = s.peers \cup {m.from}, !.prs[m.from] = p] \in RaftObject
    BY <1>1 DEF RaftObject
  <2> QED BY <1>1, <2>1, <2>2 DEF AddNode
<1>4. /\ r.id = s.id /\ r.state = s.state /\ r.sendmsgs = s.sendmsgs
      /\ r.entries = s.entries /\ r.commitIndex = s.commitIndex
  BY <1>1 DEF AddNode, RaftObject
<1> HIDE DEF r
<1>5. u \in RaftObject
  <2>1. Append(r.unknownid, m.from) \in Seq(Node)
    BY <1>1, <1>3, AppendProperties DEF RaftObject
  <2> QED BY <1>3, <2>1 DEF RaftObject
<1>6. /\ u.id = s.id /\ u.state = s.state /\ u.sendmsgs = s.sendmsgs
      /\ u.entries = s.entries /\ u.commitIndex = s.commitIndex
  BY <1>3, <1>4 DEF RaftObject
<1>7. HandleNode(s, m) = Send(u, m.from, a)
  BY DEF HandleNode, r, u
<1> HIDE DEF u, a
<1>8. u \in Followers(log)
  BY <1>1, <1>2, <1>5, <1>6, FollowerUpdate
<1>9. a \in FollowerSays(u.id, Len(u.entries))
  BY <1>2, <1>5, <1>6, FollowerAnswers DEF a
<1>10. Send(u, m.from, a) \in Followers(log) /\ SameRecord(u, Send(u, m.from, a))
  BY <1>1, <1>8, <1>9, FollowerSend
<1> QED BY <1>2, <1>6, <1>7, <1>10 DEF Follows, SameRecord

\* What may arrive at a follower: from its leader, or from another follower.
Arrives(l, log, held) ==
  LeaderSays(l, log, held) \cup UNION {FollowerSays(g, k) : g \in Node, k \in Nat}

\* How many entries a follower may hold after a message.
Brings(m, held) == IF m.type = "MsgApp" THEN End(m) ELSE held

\* One message through generalStep() of a follower: it may raise its term, and
\* its log keeps to the leader's.
LEMMA GeneralStepFollows ==
  ASSUME NEW l \in Node, NEW log \in Seq(Entry), NEW s \in Followers(log),
         NEW m \in Arrives(l, log, Len(s.entries))
  PROVE  Follows(log, s, GeneralStep(s, m), Brings(m, Len(s.entries)))
<1> DEFINE Alike(r) == /\ r \in Followers(log) /\ r.id = s.id
                       /\ r.entries = s.entries
           most == Brings(m, Len(s.entries))
<1>1. /\ s \in RaftObject /\ m \in Message /\ s.state = "FOLLOWER"
      /\ m.type \in {"MsgNode", "MsgNodeResp", "MsgHeartbeat", "MsgApp",
                     "MsgHeartbeatResp", "MsgAppResp"}
      /\ m.type = "MsgNode" => m.term = 0
      /\ m.type = "MsgHeartbeat" => m.from \in Node /\ m.commit <= Len(s.entries)
      /\ m.type \in {"MsgHeartbeat", "MsgApp"} =>
           m \in LeaderSays(l, log, Len(s.entries))
  BY DEF Followers, Arrives, LeaderSays, FollowerSays
<1>2. /\ s.currentTerm \in Nat \ {0} /\ Len(s.entries) \in Nat
      /\ m.term \in Nat /\ m.from \in NodeId /\ End(m) \in Nat
  BY <1>1, ObjectNumbers, MessageNumbers
<1>3. /\ most \in Nat /\ Len(s.entries) <= most
      /\ m.type = "MsgApp" => most = End(m)
      /\ m.type # "MsgApp" => most = Len(s.entries)
  BY <1>1, <1>2 DEF Brings, LeaderSays
<1> HIDE DEF most
<1>4. \A r \in RaftObject :
        /\ r.id = s.id /\ r.state = "FOLLOWER" /\ r.sendmsgs = s.sendmsgs
        /\ r.commitIndex = s.commitIndex /\ r.entries = s.entries
        => Alike(r)
  <2>1. /\ s.commitIndex <= Len(s.entries) /\ StartOf(s.entries, log)
        /\ Len(s.entries) <= Len(s.entries)
    BY <1>2 DEF Followers
  <2> QED BY <2>1, FollowerUpdate
<1>5. Alike(s)
  BY <1>1, <1>4
<1>6. \A t \in Nat \ {0} : Alike(StepDown(s, t, m.from))
  <2>1. TAKE t \in Nat \ {0}
  <2> DEFINE r == StepDown(s, t, m.from)
  <2>2. r \in RaftObject
    BY <1>1, <1>2, RoleType
  <2>3. /\ r.id = s.id /\ r.state = "FOLLOWER" /\ r.sendmsgs = s.sendmsgs
        /\ r.commitIndex = s.commitIndex /\ r.entries = s.entries
    BY <1>1 DEF StepDown, Reset, RaftObject
  <2> HIDE DEF r
  <2>4. Alike(r)
    BY <1>4, <2>2, <2>3
  <2> QED BY <2>4 DEF r
<1>7. \A r : \A t \in Nat \ {0} :
        Alike(r) => /\ Alike([r EXCEPT !.leader = m.from, !.currentTerm = t])
                    /\ Alike([r EXCEPT !.leader = m.from])
  <2>1. SUFFICES ASSUME NEW r, Alike(r), NEW t \in Nat \ {0}
                 PROVE  /\ Alike([r EXCEPT !.leader = m.from, !.currentTerm = t])
                        /\ Alike([r EXCEPT !.leader = m.from])
    OBVIOUS
  <2> DEFINE a == [r EXCEPT !.leader = m.from, !.currentTerm = t]
             b == [r EXCEPT !.leader = m.from]
  <2>2. /\ r \in RaftObject /\ r.state = "FOLLOWER" /\ r.commitIndex <= Len(r.entries)
        /\ StartOf(r.entries, log) /\ Len(r.entries) <= Len(r.entries)
    BY <1>2, <2>1 DEF Followers
  <2>3. /\ a \in RaftObject /\ a.id = r.id /\ a.state = r.state
        /\ a.sendmsgs = r.sendmsgs /\ a.commitIndex = r.commitIndex
        /\ a.entries = r.entries
    BY <1>2, <2>2 DEF RaftObject
  <2>4. /\ b \in RaftObject /\ b.id = r.id /\ b.state = r.state
        /\ b.sendmsgs = r.sendmsgs /\ b.commitIndex = r.commitIndex
        /\ b.entries = r.entries
    BY <1>2, <2>2 DEF RaftObject
  <2> HIDE DEF a, b
  <2>5. Alike(a) /\ Alike(b)
    BY <2>1, <2>2, <2>3, <2>4, FollowerUpdate
  <2> QED BY <2>5 DEF a, b
<1>8. \A r, u : Alike(r) /\ Follows(log, r, u, most) => Follows(log, s, u, most)
  BY DEF Follows
<1>9. ASSUME NEW r, Alike(r)
      PROVE  Follows(log, s, Dispatch(r, m), most)
  <2>0. r \in RaftObject /\ r.state = "FOLLOWER" /\ r \in Followers(log)
        /\ r.entries = s.entries
    BY <1>9 DEF Followers
  <2>1. CASE m.type = "MsgNode"
    <3>1. Follows(log, r, HandleNode(r, m), Len(r.entries))
      BY <1>1, <2>0, <2>1, HandleNodeFollows
    <3>2. Dispatch(r, m) = HandleNode(r, m) /\ Len(r.entries) = most
      BY <1>3, <2>0, <2>1 DEF Dispatch
    <3> QED BY <1>8, <1>9, <3>1, <3>2
  <2>2. CASE m.type = "MsgHeartbeat"
    <3>1. PICK t \in Nat \ {0} :
            t = IF r.leader # m.from THEN m.term ELSE r.currentTerm
      BY <1>1, <2>0, <2>2, ObjectNumbers DEF Message
    <3> DEFINE a == [r EXCEPT !.leader = m.from, !.currentTerm = t]
    <3>2. Alike(a)
      BY <1>7, <1>9
    <3>3. Dispatch(r, m) = HandleHeartbeat(a, m)
      BY <2>0, <2>2, <3>1 DEF Dispatch, Step, StepFollower
    <3> HIDE DEF a
    <3>4. Follows(log, a, HandleHeartbeat(a, m), Len(a.entries))
      BY <1>1, <2>2, <3>2, HandleHeartbeatFollows
    <3>5. Len(a.entries) = most
      BY <1>3, <2>2, <3>2
    <3> QED BY <1>8, <3>2, <3>3, <3>4, <3>5
  <2>3. CASE m.type = "MsgApp"
    <3> DEFINE a == [r EXCEPT !.leader = m.from]
    <3>1. Alike(a)
      BY <1>2, <1>7, <1>9
    <3>2. Dispatch(r, m) = HandleAppend(a, m)
      BY <2>0, <2>3 DEF Dispatch, Step, StepFollower
    <3> HIDE DEF a
    <3>3. Follows(log, a, HandleAppend(a, m), most)
      BY <1>1, <1>3, <2>3, <3>1, HandleAppendFollows
    <3> QED BY <1>8, <3>1, <3>2, <3>3
  <2>4. CASE m.type \notin {"MsgNode", "MsgHeartbeat", "MsgApp"}
    <3>1. Dispatch(r, m) = r
      BY <1>1, <2>0, <2>4 DEF Dispatch, Step, StepFollower
    <3> QED BY <1>2, <1>3, <1>9, <3>1 DEF Follows
  <2> QED BY <2>1, <2>2, <2>3, <2>4
<1>10. ASSUME m.term > s.currentTerm
       PROVE  m.term \in Nat \ {0}
  BY <1>2, <1>10
<1>11. Follows(log, s, s, most)
  BY <1>2, <1>3, <1>5 DEF Follows
<1> HIDE DEF Alike
<1> QED BY <1>5, <1>6, <1>9, <1>10, <1>11 DEF GeneralStep, most
-----------------------------------------------------------------------------
(* The leader *)

\* What the leader believes of a node is within its own log.
Believable(s, p) ==
  /\ s.prs[p].match <= Len(s.entries)
  /\ s.prs[p].next <= Len(s.entries) + 1
  /\ s.prs[p].state # "Snapshot"

\* A leader of followers that hold so many entries each.
Leading(held) ==
  {s \in RaftObject :
     /\ s.commitIndex <= Len(s.entries)
     /\ \A i \in 1..Len(s.entries) : s.entries[i].index <= i
     /\ \A p \in Node : Believable(s, p)
     /\ \A f \in DOMAIN held :
          /\ s.prs[f].match <= held[f]
          /\ held[f] <= Len(s.entries)
          /\ s.sendmsgs[f] \in LeaderQueue(s.id, s.entries, held[f])}

\* maybeCommit() would find nothing to commit.
Settled(s) == Committable(s) = {}

\* A call of the leader that leaves r has not touched the log.
Serves(held, s, r) ==
  r \in Leading(held) /\ Settled(r) /\ r.id = s.id /\ r.entries = s.entries

\* The numbers of a progress.
LEMMA ProgressNumbers ==
  ASSUME NEW s \in RaftObject, NEW p \in Node
  PROVE  /\ s.prs[p] \in Progress
         /\ s.prs[p].match \in Nat /\ s.prs[p].next \in Nat \ {0}
         /\ s.prs[p].state \in ProgressState
<1>1. s.prs[p] \in Progress
  BY DEF RaftObject
<1> QED BY <1>1 DEF Progress

\* An object with the same log, queues and progresses leads as well.
LEMMA LeadingUpdate ==
  ASSUME NEW held, NEW s \in Leading(held), NEW r \in RaftObject,
         r.id = s.id, r.entries = s.entries, r.sendmsgs = s.sendmsgs,
         r.prs = s.prs, r.commitIndex <= Len(r.entries)
  PROVE  r \in Leading(held)
BY DEF Leading, Believable

\* What can be committed depends on the peers, their matches and the commit
\* index.
LEMMA CommittableSame ==
  ASSUME NEW s \in RaftObject, NEW r, SameNews(s, r), r.commitIndex = s.commitIndex
  PROVE  Committable(r) = Committable(s)
<1>1. r.peers = s.peers /\ \A p \in s.peers : r.prs[p].match = s.prs[p].match
  BY ObjectNumbers DEF SameNews
<1>2. {r.prs[p].match : p \in r.peers} = {s.prs[p].match : p \in s.peers}
  BY <1>1
<1>3. \A c : /\ {p \in r.peers : r.prs[p].match < c} = {p \in s.peers : s.prs[p].match < c}
             /\ {p \in r.peers : r.prs[p].match <= c} = {p \in s.peers : s.prs[p].match <= c}
  BY <1>1
<1>4. Quorum(r) = Quorum(s)
  BY QuorumIsOne
<1> QED BY <1>2, <1>3, <1>4 DEF Committable

\* After maybeCommit() there is nothing left to commit.
LEMMA MaybeCommitSettles ==
  ASSUME IsFiniteSet(Node), NEW s \in RaftObject
  PROVE  Settled(MaybeCommit(s))
<1> DEFINE c == CHOOSE c \in Committable(s) : TRUE
           r == MaybeCommit(s)
<1>1. CASE Committable(s) = {}
  BY <1>1 DEF MaybeCommit, Settled
<1>2. CASE Committable(s) # {}
  <2>1. c \in Committable(s)
    BY <1>2
  <2>2. r = CommitTo(s, c)
    BY <1>2 DEF MaybeCommit
  <2> HIDE DEF c
  <2>3. c \in Nat /\ c > s.commitIndex
    BY <2>1, CommittableType
  <2>4. PICK p \in s.peers : c = s.prs[p].match
    BY <2>1 DEF Committable
  <2>5. r \in RaftObject /\ SameNews(s, r) /\ r.commitIndex = c
    <3>1. r.commitIndex = c
      BY <2>2, <2>3, ObjectNumbers DEF CommitTo, RaftObject
    <3> QED BY <3>1, CommittableType, MaybeCommitWithAll
  <2> HIDE DEF r
  <2>6. p \in Node /\ p \in r.peers /\ r.prs[p].match = c
    BY <2>4, <2>5, ObjectNumbers DEF SameNews
  <2>7. ASSUME NEW d \in Committable(r)
        PROVE  FALSE
    <3>1. d \in Nat /\ d > c
      BY <2>5, <2>7, CommittableType
    <3>2. c >= d
      BY <2>5, <2>6, <2>7, CommittableIsLeast
    <3> QED BY <2>3, <3>1, <3>2
  <2> QED BY <2>7 DEF Settled, r
<1> QED BY <1>1, <1>2

\* maybeCommit() commits what some follower has, and the leader has that too.
LEMMA MaybeCommitServes ==
  ASSUME IsFiniteSet(Node), NEW held, NEW s \in Leading(held)
  PROVE  Serves(held, s, MaybeCommit(s))
<1> DEFINE r == MaybeCommit(s)
<1>1. s \in RaftObject /\ s.commitIndex <= Len(s.entries)
  BY DEF Leading
<1>2. \A c \in Committable(s) : c <= Len(s.entries)
  <2>1. SUFFICES ASSUME NEW c \in Committable(s)
                 PROVE  c <= Len(s.entries)
    OBVIOUS
  <2>2. PICK p \in s.peers : c = s.prs[p].match
    BY DEF Committable
  <2>3. p \in Node
    BY <1>1, ObjectNumbers
  <2> QED BY <2>2, <2>3 DEF Leading, Believable
<1>3. \A c : /\ CommitTo(s, c).id = s.id /\ CommitTo(s, c).entries = s.entries
             /\ CommitTo(s, c).sendmsgs = s.sendmsgs /\ CommitTo(s, c).prs = s.prs
             /\ CommitTo(s, c).commitIndex \in {s.commitIndex, c}
  BY <1>1 DEF CommitTo, RaftObject
<1>4. /\ r.id = s.id /\ r.entries = s.entries /\ r.sendmsgs = s.sendmsgs
      /\ r.prs = s.prs /\ r.commitIndex <= Len(r.entries)
  BY <1>1, <1>2, <1>3 DEF MaybeCommit
<1>5. r \in RaftObject /\ Settled(r)
  BY <1>1, CommittableType, MaybeCommitSettles
<1> HIDE DEF r
<1>6. r \in Leading(held)
  BY <1>4, <1>5, LeadingUpdate
<1> QED BY <1>4, <1>5, <1>6 DEF Serves, r

\* An append of the leader ends with its log, and is a part of it.
LEMMA AppendMessageSays ==
  ASSUME NEW F \in SUBSET Node, NEW held \in [F -> Nat], NEW s \in Leading(held),
         NEW d \in Node
  PROVE  LET m == AppendMessage(s, d)
         IN  /\ m \in Message /\ m.type = "MsgApp" /\ m.from = s.id
             /\ End(m) = Len(s.entries) /\ PartOf(m, s.entries)
             /\ d \in F => m \in LeaderSays(s.id, s.entries, held[d])
<1> DEFINE m == AppendMessage(s, d)
           prev == s.prs[d].next - 1
<1>1. s \in RaftObject /\ Believable(s, d)
  BY DEF Leading
<1>2. /\ prev \in Nat /\ prev <= Len(s.entries) /\ Len(s.entries) \in Nat
      /\ s.entries \in Seq(Entry)
  BY <1>1, ObjectNumbers, ProgressNumbers DEF Believable
<1>3. /\ m \in Message /\ m.type = "MsgApp" /\ m.from = s.id /\ m.index = prev
      /\ m.entries = SubSeq(s.entries, prev + 1, Len(s.entries))
  BY <1>1, AppendMessageType DEF AppendMessage, NewMessage
<1> HIDE DEF m, prev
<1>4. /\ Len(m.entries) = Len(s.entries) - prev
      /\ \A i \in 1..Len(m.entries) : m.entries[i] = s.entries[prev + i]
  <2>1. \A i \in prev + 1..Len(s.entries) : s.entries[i] \in Entry
    BY <1>2, ElementOfSeq
  <2>2. /\ Len(m.entries) = IF prev + 1 <= Len(s.entries)
                              THEN Len(s.entries) - (prev + 1) + 1 ELSE 0
        /\ \A i \in 1..Len(s.entries) - (prev + 1) + 1 :
             m.entries[i] = s.entries[prev + 1 + i - 1]
    BY <1>2, <1>3, <2>1, SubSeqProperties
  <2> QED BY <1>2, <2>2
<1>5. End(m) = Len(s.entries) /\ PartOf(m, s.entries)
  <2>1. End(m) = prev + Len(m.entries)
    BY <1>3 DEF End
  <2>2. End(m) = Len(s.entries)
    BY <1>2, <1>4, <2>1
  <2>3. \A i \in 1..Len(m.entries) : m.entries[i] = s.entries[m.index + i]
    BY <1>3, <1>4
  <2> QED BY <1>2, <2>2, <2>3 DEF PartOf
<1>6. d \in F => m \in LeaderSays(s.id, s.entries, held[d])
  <2>1. d \in F => held[d] <= Len(s.entries)
    BY DEF Leading
  <2> QED BY <1>3, <1>5, <2>1 DEF LeaderSays
<1> QED BY <1>3, <1>5, <1>6 DEF m

\* The progress after an append: the next entry is still within the log.
LEMMA ProgressAfterAppendBelievable ==
  ASSUME NEW F \in SUBSET Node, NEW held \in [F -> Nat], NEW s \in Leading(held),
         NEW d \in Node
  PROVE  LET p == ProgressAfterAppend(s, d)
         IN  /\ p \in Progress /\ p.match = s.prs[d].match
             /\ p.state = s.prs[d].state /\ p.next <= Len(s.entries) + 1
<1> DEFINE p == ProgressAfterAppend(s, d)
           sent == AppendMessage(s, d).entries
<1>1. s \in RaftObject /\ Believable(s, d) /\ p \in Progress
  BY ProgressAfterAppendType DEF Leading
<1>2. /\ s.prs[d] \in Progress /\ s.prs[d].next <= Len(s.entries) + 1
      /\ s.prs[d].match \in Nat /\ Len(s.entries) \in Nat /\ s.entries \in Seq(Entry)
  BY <1>1, ObjectNumbers, ProgressNumbers DEF Believable
<1>3. CASE sent # <<>> /\ s.prs[d].state = "Replicate"
  <2>1. p = OptimisticUpdate(s.prs[d], sent[Len(sent)].index)
    BY <1>3 DEF ProgressAfterAppend
  <2>2. p.match = s.prs[d].match /\ p.state = s.prs[d].state
        /\ p.next = sent[Len(sent)].index + 1
    BY <1>2, <2>1 DEF OptimisticUpdate, Progress
  <2>3. /\ AppendMessage(s, d) \in Message
        /\ End(AppendMessage(s, d)) = Len(s.entries)
        /\ PartOf(AppendMessage(s, d), s.entries)
    BY AppendMessageSays
  <2>4. sent \in Seq(Entry) /\ Len(sent) \in Nat \ {0}
    BY <1>3, <2>3, MessageNumbers, EmptySeq
  <2> DEFINE at == AppendMessage(s, d).index
  <2>5. at \in Nat /\ at + Len(sent) = Len(s.entries)
    BY <2>3, MessageNumbers DEF End
  <2>6. sent[Len(sent)] = s.entries[at + Len(sent)]
    BY <2>3, <2>4 DEF PartOf
  <2> HIDE DEF p, sent, at
  <2>7. Len(s.entries) \in 1..Len(s.entries)
    BY <1>2, <2>4, <2>5
  <2>8. s.entries[Len(s.entries)].index <= Len(s.entries)
    BY <2>7 DEF Leading
  <2>9. s.entries[Len(s.entries)].index \in Nat
    <3>1. s.entries[Len(s.entries)] \in Entry
      BY <1>2, <2>7, ElementOfSeq
    <3> QED BY <3>1 DEF Entry
  <2>10. sent[Len(sent)] = s.entries[Len(s.entries)]
    BY <2>5, <2>6
  <2>11. p.next = s.entries[Len(s.entries)].index + 1
    BY <2>2, <2>10
  <2>12. p.next <= Len(s.entries) + 1
    BY <1>2, <2>8, <2>9, <2>11
  <2> QED BY <1>1, <2>2, <2>12 DEF p
<1>4. CASE ~ (sent # <<>> /\ s.prs[d].state = "Replicate")
  <2>1. p = s.prs[d]
    BY <1>4 DEF ProgressAfterAppend
  <2> QED BY <1>1, <1>2, <2>1
<1> QED BY <1>3, <1>4

\* Messages put into queues, and progress that stays within the log, leave a
\* leader of the same followers.
LEMMA LeadingSends ==
  ASSUME NEW F \in SUBSET Node, NEW held \in [F -> Nat], NEW s \in Leading(held),
         NEW r \in RaftObject, SameRecord(s, r),
         \A d \in Node : Believable(r, d),
         \A f \in F : /\ r.prs[f].match <= held[f]
                      /\ \/ r.sendmsgs[f] = s.sendmsgs[f]
                         \/ \E m \in LeaderSays(s.id, s.entries, held[f]) :
                              /\ m.type = "MsgApp" => End(m) = Len(s.entries)
                              /\ r.sendmsgs[f] = Append(s.sendmsgs[f], m)
  PROVE  r \in Leading(held) /\ r.id = s.id /\ r.entries = s.entries
<1>1. /\ r.id = s.id /\ r.entries = s.entries /\ r.commitIndex = s.commitIndex
      /\ s \in RaftObject /\ s.entries \in Seq(Entry)
  BY ObjectNumbers DEF SameRecord, Leading
<1>2. ASSUME NEW f \in F
      PROVE  r.sendmsgs[f] \in LeaderQueue(s.id, s.entries, held[f])
  <2>1. s.sendmsgs[f] \in LeaderQueue(s.id, s.entries, held[f]) /\ held[f] \in Nat
    BY DEF Leading
  <2>2. ASSUME NEW m \in LeaderSays(s.id, s.entries, held[f]),
               m.type = "MsgApp" => End(m) = Len(s.entries)
        PROVE  Append(s.sendmsgs[f], m) \in LeaderQueue(s.id, s.entries, held[f])
    BY <1>1, <2>1, <2>2, QueueAppend
  <2> QED BY <2>1, <2>2
<1> QED BY <1>1, <1>2 DEF Leading

\* sendAppend() to any nodes.
LEMMA SendAppendLeads ==
  ASSUME NEW F \in SUBSET Node, NEW held \in [F -> Nat], NEW s \in Leading(held),
         NEW D \in SUBSET Node
  PROVE  /\ SendAppend(s, D) \in Leading(held)
         /\ SendAppend(s, D).id = s.id /\ SendAppend(s, D).entries = s.entries
         /\ Committable(SendAppend(s, D)) = Committable(s)
<1> DEFINE r == SendAppend(s, D)
<1>1. s \in RaftObject
  BY DEF Leading
<1>2. r \in RaftObject /\ SameRecord(s, r) /\ SameNews(s, r)
  BY <1>1, SendAppendType, SendingSafe, SendAppendNews
<1>3. Committable(r) = Committable(s)
  BY <1>1, <1>2, CommittableSame DEF SameRecord
<1>4. \A d \in Node : r.prs[d] = IF d \in D THEN ProgressAfterAppend(s, d) ELSE s.prs[d]
  BY <1>1 DEF SendAppend, RaftObject
<1>5. \A d \in Node : r.sendmsgs[d] = IF d \in D THEN Append(s.sendmsgs[d], AppendMessage(s, d))
                                      ELSE s.sendmsgs[d]
  BY <1>1 DEF SendAppend, RaftObject
<1> HIDE DEF r
<1>6. \A d \in Node : Believable(r, d) /\ r.prs[d].match = s.prs[d].match
  <2>1. TAKE d \in Node
  <2>2. Believable(s, d) /\ r.entries = s.entries
    BY <1>2 DEF Leading, SameRecord
  <2>3. CASE d \in D
    <3>1. /\ r.prs[d].match = s.prs[d].match /\ r.prs[d].state = s.prs[d].state
          /\ r.prs[d].next <= Len(s.entries) + 1
      BY <1>4, <2>3, ProgressAfterAppendBelievable
    <3> QED BY <2>2, <3>1 DEF Believable
  <2>4. CASE d \notin D
    BY <1>4, <2>2, <2>4 DEF Believable
  <2> QED BY <2>3, <2>4
<1>7. ASSUME NEW f \in F
      PROVE  /\ r.prs[f].match <= held[f]
             /\ \/ r.sendmsgs[f] = s.sendmsgs[f]
                \/ \E m \in LeaderSays(s.id, s.entries, held[f]) :
                     /\ m.type = "MsgApp" => End(m) = Len(s.entries)
                     /\ r.sendmsgs[f] = Append(s.sendmsgs[f], m)
  <2>1. r.prs[f].match <= held[f]
    BY <1>6 DEF Leading
  <2>2. /\ AppendMessage(s, f) \in LeaderSays(s.id, s.entries, held[f])
        /\ End(AppendMessage(s, f)) = Len(s.entries)
    BY AppendMessageSays
  <2> QED BY <1>5, <2>1, <2>2
<1>8. r \in Leading(held) /\ r.id = s.id /\ r.entries = s.entries
  BY <1>2, <1>6, <1>7, LeadingSends
<1> QED BY <1>3, <1>8 DEF r

\* bcastHeartbeat(): the commit index a heartbeat carries is no more than its
\* receiver holds.
LEMMA BcastHeartbeatLeads ==
  ASSUME NEW F \in SUBSET Node, NEW held \in [F -> Nat], NEW s \in Leading(held)
  PROVE  /\ BcastHeartbeat(s) \in Leading(held)
         /\ BcastHeartbeat(s).id = s.id /\ BcastHeartbeat(s).entries = s.entries
         /\ Committable(BcastHeartbeat(s)) = Committable(s)
<1> DEFINE r == BcastHeartbeat(s)
<1>1. s \in RaftObject
  BY DEF Leading
<1>2. r \in RaftObject /\ SameRecord(s, r)
  BY <1>1, BcastHeartbeatType, SendingSafe
<1>3. r.prs = s.prs /\ r.peers = s.peers
  BY <1>1 DEF BcastHeartbeat, RaftObject
<1>4. \A d \in Node : r.sendmsgs[d] = IF d \in s.peers \ {s.id}
                                        THEN Append(s.sendmsgs[d], Heartbeat(s, d))
                                        ELSE s.sendmsgs[d]
  BY <1>1 DEF BcastHeartbeat, RaftObject
<1> HIDE DEF r
<1>5. Committable(r) = Committable(s)
  BY <1>1, <1>2, <1>3, CommittableSame DEF SameRecord, SameNews
<1>6. ASSUME NEW f \in F
      PROVE  /\ Heartbeat(s, f) \in LeaderSays(s.id, s.entries, held[f])
             /\ Heartbeat(s, f).type # "MsgApp"
  <2> DEFINE c == IF s.prs[f].match < s.commitIndex THEN s.prs[f].match
                  ELSE s.commitIndex
             m == [NewMessage("MsgHeartbeat") EXCEPT
                     !.from = s.id, !.term = s.currentTerm, !.commit = c]
  <2>1. /\ s.prs[f].match \in Nat /\ s.commitIndex \in Nat /\ held[f] \in Nat
        /\ s.prs[f].match <= held[f] /\ s.id \in Node /\ s.currentTerm \in Nat \ {0}
    BY <1>1, ObjectNumbers, ProgressNumbers DEF Leading
  <2>2. c \in Nat /\ c <= held[f]
    BY <2>1
  <2>3. Heartbeat(s, f) = m
    BY DEF Heartbeat
  <2> HIDE DEF c
  <2>4. m \in Message
    BY <2>1, <2>2, MessagesType
  <2>5. m.type = "MsgHeartbeat" /\ m.from = s.id /\ m.commit = c
    BY DEF NewMessage
  <2> HIDE DEF m
  <2> QED BY <2>2, <2>3, <2>4, <2>5 DEF LeaderSays
<1>7. \A d \in Node : Believable(r, d)
  BY <1>2, <1>3 DEF Believable, Leading, SameRecord
<1>8. \A f \in F : /\ r.prs[f].match <= held[f]
                   /\ \/ r.sendmsgs[f] = s.sendmsgs[f]
                      \/ \E m \in LeaderSays(s.id, s.entries, held[f]) :
                           /\ m.type = "MsgApp" => End(m) = Len(s.entries)
                           /\ r.sendmsgs[f] = Append(s.sendmsgs[f], m)
  BY <1>3, <1>4, <1>6 DEF Leading
<1>9. r \in Leading(held) /\ r.id = s.id /\ r.entries = s.entries
  BY <1>2, <1>7, <1>8, LeadingSends
<1> QED BY <1>5, <1>9 DEF r

\* appendEntry(): the entry goes to the end of the log, its index field is no
\* higher than its place, and nothing is committed by it.
LEMMA AppendEntryLeads ==
  ASSUME NEW F \in SUBSET Node, NEW held \in [F -> Nat], NEW s \in Leading(held),
         Settled(s), s.lastApplied <= s.commitIndex, NEW v \in Value
  PROVE  LET r == AppendEntry(s, v)
         IN  /\ r \in Leading(held) /\ Settled(r)
             /\ r.id = s.id /\ r.commitIndex = s.commitIndex
             /\ \E e \in Entry : e.data = v /\ r.entries = Append(s.entries, e)
<1> DEFINE e == [term |-> s.currentTerm, index |-> s.lastApplied + 1, data |-> v]
           new == Append(s.entries, e)
           t == [s EXCEPT !.entries = new]
           r == AppendEntry(s, v)
<1>1. s \in RaftObject
  BY DEF Leading
<1>2. /\ s.lastApplied \in Nat /\ s.commitIndex \in Nat /\ Len(s.entries) \in Nat
      /\ s.entries \in Seq(Entry) /\ s.currentTerm \in Nat
  BY <1>1, ObjectNumbers
<1>3. e \in Entry /\ e.data = v /\ e.index <= Len(s.entries) + 1
  <2>1. s.commitIndex <= Len(s.entries)
    BY DEF Leading
  <2>2. s.lastApplied + 1 \in Nat /\ s.lastApplied + 1 <= Len(s.entries) + 1
    BY <1>2, <2>1
  <2>3. e \in Entry
    BY <1>2, <2>2 DEF Entry
  <2> QED BY <2>2, <2>3
<1> HIDE DEF e
<1>4. /\ new \in Seq(Entry) /\ Len(new) = Len(s.entries) + 1
      /\ \A i \in 1..Len(s.entries) : new[i] = s.entries[i]
      /\ new[Len(s.entries) + 1] = e
      /\ StartOf(s.entries, new)
  BY <1>2, <1>3, AppendProperties, StartProperties
<1> HIDE DEF new
<1>5. /\ t \in RaftObject /\ t.id = s.id /\ t.commitIndex = s.commitIndex
      /\ t.peers = s.peers /\ t.prs = s.prs /\ t.sendmsgs = s.sendmsgs
      /\ t.entries = new
  BY <1>1, <1>4 DEF RaftObject
<1>6. r = [MaybeCommit(t) EXCEPT !.ready = TRUE]
  BY DEF AppendEntry, t, new, e
<1> HIDE DEF t
<1>7. Committable(t) = {}
  BY <1>1, <1>5, CommittableSame DEF SameNews, Settled
<1>8. r = [t EXCEPT !.ready = TRUE]
  BY <1>6, <1>7 DEF MaybeCommit
<1>9. /\ r \in RaftObject /\ r.id = s.id /\ r.commitIndex = s.commitIndex
      /\ r.peers = s.peers /\ r.prs = s.prs /\ r.sendmsgs = s.sendmsgs
      /\ r.entries = new
  BY <1>5, <1>8 DEF RaftObject
<1> HIDE DEF r
<1>10. Settled(r)
  BY <1>1, <1>9, CommittableSame DEF SameNews, Settled
<1>11. r \in Leading(held)
  <2>1. r.commitIndex <= Len(r.entries)
    <3>1. s.commitIndex <= Len(s.entries)
      BY DEF Leading
    <3> QED BY <1>2, <1>4, <1>9, <3>1
  <2>2. ASSUME NEW i \in 1..Len(new)
        PROVE  new[i].index <= i
    <3>1. CASE i \in 1..Len(s.entries)
      BY <1>4, <3>1 DEF Leading
    <3>2. CASE i \notin 1..Len(s.entries)
      <4>1. i = Len(s.entries) + 1
        BY <1>2, <1>4, <3>2
      <4> QED BY <1>3, <1>4, <4>1
    <3> QED BY <3>1, <3>2
  <2>3. ASSUME NEW p \in Node
        PROVE  Believable(r, p)
    <3>1. Believable(s, p) /\ s.prs[p].match \in Nat /\ s.prs[p].next \in Nat
      BY <1>1, ProgressNumbers DEF Leading
    <3> QED BY <1>2, <1>4, <1>9, <3>1 DEF Believable
  <2>4. ASSUME NEW f \in F
        PROVE  /\ r.prs[f].match <= held[f] /\ held[f] <= Len(r.entries)
               /\ r.sendmsgs[f] \in LeaderQueue(r.id, r.entries, held[f])
    <3>1. /\ s.prs[f].match <= held[f] /\ held[f] <= Len(s.entries)
          /\ s.sendmsgs[f] \in LeaderQueue(s.id, s.entries, held[f])
          /\ held[f] \in Nat
      BY DEF Leading
    <3>2. s.sendmsgs[f] \in LeaderQueue(s.id, new, held[f])
      BY <1>2, <1>4, <3>1, QueueGrows
    <3> QED BY <1>2, <1>4, <1>9, <3>1, <3>2
  <2> QED BY <1>9, <2>1, <2>2, <2>3, <2>4 DEF Leading
<1> QED BY <1>3, <1>9, <1>10, <1>11 DEF new, r

\* The leader takes a client's value and sends its log.
LEMMA StepPropLeads ==
  ASSUME NEW F \in SUBSET Node, NEW held \in [F -> Nat], NEW s \in Leading(held),
         Settled(s), s.lastApplied <= s.commitIndex, NEW v \in Value
  PROVE  LET r == StepProp(s, v)
         IN  /\ r \in Leading(held) /\ Settled(r)
             /\ r.id = s.id /\ r.commitIndex = s.commitIndex
             /\ \E e \in Entry : e.data = v /\ r.entries = Append(s.entries, e)
<1> DEFINE t == AppendEntry(s, v)
           D == t.peers \ {t.id}
           r == SendAppend(t, D)
<1>1. /\ t \in Leading(held) /\ Settled(t)
      /\ t.id = s.id /\ t.commitIndex = s.commitIndex
      /\ \E e \in Entry : e.data = v /\ t.entries = Append(s.entries, e)
  BY AppendEntryLeads
<1>2. StepProp(s, v) = r
  BY DEF StepProp, BcastAppend
<1> HIDE DEF t
<1>3. t \in RaftObject /\ D \in SUBSET Node
  BY <1>1, ObjectNumbers DEF Leading
<1> HIDE DEF D
<1>4. /\ r \in Leading(held) /\ r.id = t.id /\ r.entries = t.entries
      /\ Committable(r) = Committable(t)
  BY <1>1, <1>3, SendAppendLeads
<1>5. r.commitIndex = t.commitIndex
  BY <1>3, SendingSafe DEF SameRecord
<1> HIDE DEF r
<1> QED BY <1>1, <1>2, <1>4, <1>5 DEF Settled

\* The leader revises what it believes of a follower.
LEMMA BeliefLeads ==
  ASSUME NEW F \in SUBSET Node, NEW held \in [F -> Nat], NEW s \in Leading(held),
         NEW f \in F, NEW q \in Progress, q.match <= held[f],
         q.next <= Len(s.entries) + 1, q.state # "Snapshot"
  PROVE  LET r == [s EXCEPT !.prs[f] = q]
         IN  /\ r \in Leading(held) /\ r.id = s.id /\ r.entries = s.entries
             /\ q.match = s.prs[f].match => Committable(r) = Committable(s)
<1> DEFINE r == [s EXCEPT !.prs[f] = q]
<1>1. s \in RaftObject /\ f \in Node
  BY DEF Leading
<1>2. /\ r \in RaftObject /\ r.id = s.id /\ r.entries = s.entries
      /\ r.sendmsgs = s.sendmsgs /\ r.commitIndex = s.commitIndex
      /\ r.peers = s.peers
      /\ \A p \in Node : r.prs[p] = IF p = f THEN q ELSE s.prs[p]
  BY <1>1 DEF RaftObject
<1> HIDE DEF r
<1>3. q.match <= Len(s.entries)
  <2>1. held[f] <= Len(s.entries) /\ held[f] \in Nat /\ Len(s.entries) \in Nat
    BY <1>1, ObjectNumbers DEF Leading
  <2> QED BY <2>1 DEF Progress
<1>4. \A p \in Node : Believable(r, p)
  BY <1>2, <1>3 DEF Believable, Leading
<1>5. \A g \in F : r.prs[g].match <= held[g]
  BY <1>2 DEF Leading
<1>6. r \in Leading(held)
  BY <1>2, <1>4, <1>5 DEF Leading
<1>7. q.match = s.prs[f].match => Committable(r) = Committable(s)
  BY <1>1, <1>2, CommittableSame DEF SameNews
<1> QED BY <1>2, <1>6, <1>7 DEF r

\* An acknowledgement raises the match to what the follower holds at most.
LEMMA AcknowledgeLeads ==
  ASSUME IsFiniteSet(Node), NEW F \in SUBSET Node, NEW held \in [F -> Nat],
         NEW s \in Leading(held), Settled(s), NEW f \in F,
         NEW m \in Message, m.from = f, m.index <= held[f]
  PROVE  Serves(held, s, Acknowledge(s, m))
<1> DEFINE p == MaybeUpdate(s.prs[f], m.index)
           q == IF p.state = "Probe" THEN BecomeReplicate(p)
                ELSE IF p.state = "Snapshot" THEN BecomeProbe(p)
                ELSE p
           u == [s EXCEPT !.prs[f] = p]
           t == [s EXCEPT !.prs[f] = q]
<1>1. s \in RaftObject /\ f \in Node /\ Believable(s, f) /\ s.prs[f].match <= held[f]
  BY DEF Leading
<1>2. /\ m.index \in Nat /\ held[f] \in Nat /\ Len(s.entries) \in Nat
      /\ held[f] <= Len(s.entries)
      /\ s.prs[f] \in Progress /\ s.prs[f].match \in Nat
      /\ s.prs[f].next \in Nat /\ s.prs[f].next <= Len(s.entries) + 1
      /\ s.prs[f].state # "Snapshot"
  BY <1>1, ObjectNumbers, ProgressNumbers, MessageNumbers DEF Leading, Believable
<1>3. /\ p \in Progress /\ p.state = s.prs[f].state
      /\ p.match = IF s.prs[f].match < m.index THEN m.index ELSE s.prs[f].match
      /\ p.next = IF s.prs[f].next < m.index + 1 THEN m.index + 1 ELSE s.prs[f].next
  <2>1. PICK b \in Progress : b = s.prs[f]
    BY <1>2
  <2>2. PICK k \in Nat : k = m.index
    BY <1>2
  <2>3. p = MaybeUpdate(b, k)
    BY <2>1, <2>2
  <2> HIDE DEF p
  <2>4. p \in Progress
    BY <2>2, <2>3, ProgressType
  <2>5. p.state = b.state /\ p.match = IF b.match < k THEN k ELSE b.match
    BY <2>2, <2>3 DEF MaybeUpdate, IsNews, Progress
  <2>6. p.next = IF b.next < k + 1 THEN k + 1 ELSE b.next
    BY <2>2, <2>3 DEF MaybeUpdate, IsNews, Progress
  <2> QED BY <2>1, <2>2, <2>4, <2>5, <2>6
<1> HIDE DEF p
<1>4. p.match <= held[f] /\ p.next <= Len(s.entries) + 1 /\ p.state # "Snapshot"
  <2>1. p.match \in {m.index, s.prs[f].match} /\ p.next \in {m.index + 1, s.prs[f].next}
    BY <1>3
  <2>2. p.match <= held[f]
    BY <1>1, <2>1
  <2>3. p.next <= Len(s.entries) + 1
    BY <1>2, <2>1
  <2> QED BY <1>2, <1>3, <2>2, <2>3
<1>5. /\ q \in Progress /\ q.match = p.match /\ q.state # "Snapshot"
      /\ q.next \in {p.match + 1, p.next}
  BY <1>3, <1>4, ProgressType DEF BecomeReplicate, ResetState, Progress
<1> HIDE DEF q
<1>6. /\ q \in Progress /\ q.match <= held[f] /\ q.state # "Snapshot"
      /\ q.next <= Len(s.entries) + 1
  BY <1>2, <1>3, <1>4, <1>5
<1> DEFINE Revised(b) == [s EXCEPT !.prs[f] = b]
<1>R. ASSUME NEW b \in Progress, b.match <= held[f],
             b.next <= Len(s.entries) + 1, b.state # "Snapshot"
      PROVE  /\ Revised(b) \in Leading(held)
             /\ Revised(b).id = s.id /\ Revised(b).entries = s.entries
             /\ b.match = s.prs[f].match => Committable(Revised(b)) = Committable(s)
  BY <1>R, BeliefLeads
<1> HIDE DEF Revised
<1>7. /\ u \in Leading(held) /\ u.id = s.id /\ u.entries = s.entries
      /\ p.match = s.prs[f].match => Committable(u) = Committable(s)
  <2>1. u = Revised(p)
    BY DEF Revised
  <2> QED BY <1>3, <1>4, <1>R, <2>1
<1>8. t \in Leading(held) /\ t.id = s.id /\ t.entries = s.entries
  <2>1. t = Revised(q)
    BY DEF Revised
  <2> QED BY <1>6, <1>R, <2>1
<1>9. Acknowledge(s, m) = IF ~ IsNews(s.prs[f], m.index) THEN u
                          ELSE IF Committable(t) # {} THEN BcastAppend(MaybeCommit(t))
                          ELSE t
  BY DEF Acknowledge, p, q, u, t
<1> HIDE DEF t, u
<1>10. CASE ~ IsNews(s.prs[f], m.index)
  <2>1. p.match = s.prs[f].match
    BY <1>3, <1>10 DEF IsNews
  <2> QED BY <1>7, <1>9, <1>10, <2>1 DEF Serves, Settled
<1>11. CASE IsNews(s.prs[f], m.index) /\ Committable(t) # {}
  <2> DEFINE a == MaybeCommit(t)
             D == a.peers \ {a.id}
  <2>1. Serves(held, t, a)
    BY <1>8, MaybeCommitServes
  <2> HIDE DEF a
  <2>2. a \in Leading(held) /\ D \in SUBSET Node
    BY <2>1, ObjectNumbers DEF Serves, Leading
  <2>3. Acknowledge(s, m) = SendAppend(a, D)
    BY <1>9, <1>11 DEF BcastAppend, a
  <2> HIDE DEF D
  <2>4. /\ SendAppend(a, D) \in Leading(held)
        /\ SendAppend(a, D).id = a.id /\ SendAppend(a, D).entries = a.entries
        /\ Committable(SendAppend(a, D)) = Committable(a)
    BY <2>2, SendAppendLeads
  <2> QED BY <1>8, <2>1, <2>3, <2>4 DEF Serves, Settled
<1>12. CASE IsNews(s.prs[f], m.index) /\ Committable(t) = {}
  BY <1>8, <1>9, <1>12 DEF Serves, Settled
<1> QED BY <1>10, <1>11, <1>12

\* A message of a follower, as stepLeader() takes it.
LEMMA StepLeaderLeads ==
  ASSUME IsFiniteSet(Node), NEW F \in SUBSET Node, NEW held \in [F -> Nat],
         NEW s \in Leading(held), Settled(s), NEW f \in F,
         NEW m \in FollowerSays(f, held[f])
  PROVE  Serves(held, s, StepLeader(s, m))
<1>1. ASSUME NEW r \in Leading(held), Settled(r), r.id = s.id, r.entries = s.entries
      PROVE  Serves(held, s, CatchUp(r, f))
  <2>1. {f} \in SUBSET Node
    OBVIOUS
  <2>2. /\ SendAppend(r, {f}) \in Leading(held)
        /\ SendAppend(r, {f}).id = r.id /\ SendAppend(r, {f}).entries = r.entries
        /\ Committable(SendAppend(r, {f})) = Committable(r)
    BY <2>1, SendAppendLeads
  <2> QED BY <1>1, <2>2 DEF CatchUp, Serves, Settled
<1>2. m \in Message /\ s \in RaftObject
  BY DEF FollowerSays, Leading
<1>3. Serves(held, s, s)
  BY DEF Serves
<1>4. CASE m.from \in s.peers /\ m.type = "MsgAppResp"
  <2>1. m.from = f /\ (~ m.reject => m.index <= held[f])
    BY <1>4 DEF FollowerSays
  <2>2. CASE m.reject
    <3>1. StepLeader(s, m) = CatchUp(s, f)
      BY <1>4, <2>1, <2>2 DEF StepLeader
    <3> QED BY <1>1, <3>1
  <2>3. CASE ~ m.reject
    <3>1. StepLeader(s, m) = CatchUp(Acknowledge(s, m), f)
      BY <1>4, <2>1, <2>3 DEF StepLeader
    <3>2. Serves(held, s, Acknowledge(s, m))
      BY <1>2, <2>1, <2>3, AcknowledgeLeads
    <3> HIDE DEF Acknowledge
    <3> QED BY <1>1, <3>1, <3>2 DEF Serves
  <2> QED BY <2>2, <2>3
<1>5. CASE m.from \in s.peers /\ m.type = "MsgHeartbeatResp"
  <2>1. StepLeader(s, m) = CatchUp(s, f)
    BY <1>5 DEF StepLeader, FollowerSays
  <2> QED BY <1>1, <2>1
<1>6. CASE m.from \notin s.peers \/ m.type \notin {"MsgAppResp", "MsgHeartbeatResp"}
  <2>1. StepLeader(s, m) = s
    BY <1>6 DEF StepLeader
  <2> QED BY <1>3, <2>1
<1> QED BY <1>4, <1>5, <1>6

\* A follower that introduces itself becomes a peer that holds nothing yet, so
\* that nothing can be committed until it has acknowledged something.
LEMMA AddNodeLeads ==
  ASSUME IsFiniteSet(Node), NEW F \in SUBSET Node, NEW held \in [F -> Nat],
         NEW s \in Leading(held), Settled(s), s.lastApplied <= s.commitIndex,
         NEW f \in F
  PROVE  Serves(held, s, AddNode(s, f))
<1> DEFINE b == NewProgress(s.lastApplied + 1)
           r == AddNode(s, f)
<1>1. s \in RaftObject /\ f \in Node /\ s.commitIndex <= Len(s.entries)
  BY DEF Leading
<1>2. /\ s.lastApplied \in Nat /\ s.commitIndex \in Nat /\ Len(s.entries) \in Nat
      /\ held[f] \in Nat
  BY <1>1, ObjectNumbers
<1>3. CASE f \in s.peers
  BY <1>3 DEF AddNode, Serves
<1>4. CASE f \notin s.peers
  <2>1. b \in Progress
    BY <1>2, ProgressType DEF NewProgress, Progress, ProgressState
  <2>2. b.match = 0 /\ b.next = s.lastApplied + 1 /\ b.state = "Probe"
    BY DEF NewProgress
  <2> HIDE DEF b
  <2>3. r = [s EXCEPT !.peers = s.peers \cup {f}, !.prs[f] = b]
    BY <1>1, <1>4 DEF AddNode, b
  <2>4. /\ r \in RaftObject /\ r.id = s.id /\ r.entries = s.entries
        /\ r.sendmsgs = s.sendmsgs /\ r.commitIndex = s.commitIndex
        /\ r.peers = s.peers \cup {f}
        /\ \A p \in Node : r.prs[p] = IF p = f THEN b ELSE s.prs[p]
    <3>1. /\ s.prs \in [Node -> Progress] /\ s.peers \cup {f} \in SUBSET Node
      BY <1>1, ObjectNumbers
    <3>2. [s.prs EXCEPT ![f] = b] \in [Node -> Progress]
      BY <2>1, <3>1
    <3> DEFINE new == [s.prs EXCEPT ![f] = b]
    <3>3. \A p \in Node : new[p] = IF p = f THEN b ELSE s.prs[p]
      BY <3>1
    <3>4. r = [s EXCEPT !.peers = s.peers \cup {f}, !.prs = new]
      BY <2>3
    <3> HIDE DEF new, r
    <3>5. new \in [Node -> Progress]
      BY <3>2 DEF new
    <3> QED BY <1>1, <3>1, <3>3, <3>4, <3>5 DEF RaftObject
  <2> HIDE DEF r
  <2>5. b.match <= Len(s.entries) /\ b.next <= Len(s.entries) + 1 /\ b.match <= held[f]
    BY <1>1, <1>2, <2>2
  <2>6. \A p \in Node : Believable(r, p)
    BY <2>2, <2>4, <2>5 DEF Believable, Leading
  <2>7. \A g \in F : r.prs[g].match <= held[g]
    BY <2>4, <2>5 DEF Leading
  <2>8. r \in Leading(held)
    BY <2>4, <2>6, <2>7 DEF Leading
  <2>9. ASSUME NEW c \in Committable(r)
        PROVE  FALSE
    <3>1. c \in Nat /\ c > r.commitIndex
      BY <2>4, CommittableType
    <3>2. r.prs[f].match >= c
      BY <2>4, CommittableIsLeast
    <3> QED BY <1>1, <1>2, <2>2, <2>4, <3>1, <3>2
  <2> QED BY <2>4, <2>8, <2>9 DEF Serves, Settled, r
<1> QED BY <1>3, <1>4

\* handleNode() of the leader.
LEMMA HandleNodeLeads ==
  ASSUME IsFiniteSet(Node), NEW F \in SUBSET Node, NEW held \in [F -> Nat],
         NEW s \in Leading(held), Settled(s), s.lastApplied <= s.commitIndex,
         NEW m \in Message, m.from \in F, m.term = 0
  PROVE  Serves(held, s, HandleNode(s, m))
<1> DEFINE r == AddNode(s, m.from)
           u == [r EXCEPT !.unknownid = Append(@, m.from)]
           a == [NewMessage("MsgNodeResp") EXCEPT !.term = 0]
           w == Send(u, m.from, a)
<1>1. Serves(held, s, r) /\ m.from \in Node
  BY AddNodeLeads
<1>2. HandleNode(s, m) = w
  BY DEF HandleNode
<1> HIDE DEF r
<1>3. r \in RaftObject /\ r \in Leading(held) /\ Settled(r)
  BY <1>1 DEF Serves, Leading
<1>4. /\ u \in RaftObject /\ u.id = r.id /\ u.entries = r.entries /\ u.prs = r.prs
      /\ u.sendmsgs = r.sendmsgs /\ u.commitIndex = r.commitIndex
      /\ u.peers = r.peers
  <2>1. Append(r.unknownid, m.from) \in Seq(Node)
    BY <1>1, <1>3, AppendProperties DEF RaftObject
  <2> QED BY <1>3, <2>1 DEF RaftObject
<1> HIDE DEF u
<1>5. u \in Leading(held)
  BY <1>3, <1>4, LeadingUpdate DEF Leading
<1>6. a \in Message
  BY MessagesType
<1>7. \A f \in F : a \in LeaderSays(u.id, u.entries, held[f])
  BY <1>6 DEF LeaderSays, NewMessage
<1>8. a.type # "MsgApp"
  BY DEF NewMessage
<1> HIDE DEF a
<1>9. /\ w.prs = u.prs /\ w.peers = u.peers
       /\ \A d \in Node : w.sendmsgs[d] = IF d = m.from THEN Append(u.sendmsgs[d], a)
                                          ELSE u.sendmsgs[d]
  BY <1>1, <1>4, NodeAssumption DEF Send, RaftObject
<1>10. w \in RaftObject /\ SameRecord(u, w)
  BY <1>1, <1>4, <1>6, SendType, SendingSafe DEF NodeId
<1> HIDE DEF w
<1>11. \A d \in Node : Believable(w, d)
  BY <1>5, <1>9, <1>10 DEF Believable, Leading, SameRecord
<1>12. \A f \in F : /\ w.prs[f].match <= held[f]
                    /\ \/ w.sendmsgs[f] = u.sendmsgs[f]
                       \/ \E x \in LeaderSays(u.id, u.entries, held[f]) :
                            /\ x.type = "MsgApp" => End(x) = Len(u.entries)
                            /\ w.sendmsgs[f] = Append(u.sendmsgs[f], x)
  BY <1>5, <1>7, <1>8, <1>9 DEF Leading
<1>13. w \in Leading(held) /\ w.id = u.id /\ w.entries = u.entries
  BY <1>5, <1>10, <1>11, <1>12, LeadingSends
<1>14. Settled(u) /\ Settled(w)
  <2>1. Settled(u)
    BY <1>3, <1>4, CommittableSame DEF SameNews, Settled
  <2> QED BY <1>4, <1>9, <1>10, <2>1, CommittableSame DEF SameNews, Settled, SameRecord
<1> QED BY <1>1, <1>2, <1>4, <1>13, <1>14 DEF Serves

\* One message of a follower through generalStep() of the node that stands for
\* election, in whatever role it is.
LEMMA GeneralStepLeads ==
  ASSUME IsFiniteSet(Node), NEW F \in SUBSET Node, NEW held \in [F -> Nat],
         NEW s \in Leading(held), Settled(s), s.lastApplied <= s.commitIndex,
         NEW f \in F, NEW m \in FollowerSays(f, held[f])
  PROVE  Serves(held, s, GeneralStep(s, m))
<1>1. /\ m \in Message /\ m.term = 0 /\ s \in RaftObject
      /\ m.type \in {"MsgNode", "MsgNodeResp", "MsgHeartbeatResp", "MsgAppResp"}
      /\ m.type = "MsgNode" => m.from = f
  BY DEF FollowerSays, Leading
<1>2. s.currentTerm \in Nat
  BY <1>1, ObjectNumbers
<1>3. GeneralStep(s, m) = Dispatch(s, m)
  BY <1>1, <1>2 DEF GeneralStep
<1>4. CASE m.type = "MsgNode"
  BY <1>1, <1>3, <1>4, HandleNodeLeads DEF Dispatch
<1>5. CASE m.type # "MsgNode" /\ s.state = "LEADER"
  <2>1. Dispatch(s, m) = StepLeader(s, m)
    BY <1>1, <1>5 DEF Dispatch, Step
  <2> QED BY <1>3, <2>1, StepLeaderLeads
<1>6. CASE m.type # "MsgNode" /\ s.state # "LEADER"
  <2>1. Dispatch(s, m) = s
    BY <1>1, <1>6 DEF Dispatch, Step, StepCandidate, StepFollower
  <2> QED BY <1>3, <2>1 DEF Serves
<1> QED BY <1>4, <1>5, <1>6
-----------------------------------------------------------------------------
(* The cluster *)

Others == Node \ {TheLeader}

\* How much each follower holds.
HeldBy == [f \in Others |-> Len(Log(f))]

\* The node that stands for election leads followers of its log, and nobody
\* else is ever about to count its votes.
Led ==
  /\ raft[TheLeader] \in Leading(HeldBy)
  /\ Settled(raft[TheLeader])
  /\ \A f \in Others : raft[f] \in Followers(Log(TheLeader))
  /\ hup \subseteq {TheLeader}

\* A step keeps that, and it leaves the leader's log as it is, or puts a value
\* at its end while nobody's commit index moves.
Replicates ==
  /\ Led'
  /\ \/ Log(TheLeader)' = Log(TheLeader)
     \/ /\ \E v \in Value : \E e \in Entry :
             e.data = v /\ Log(TheLeader)' = Append(Log(TheLeader), e)
        /\ \A x \in Node : raft'[x].commitIndex = raft[x].commitIndex

\* The types of what Led speaks of.
LEMMA LedTypes ==
  ASSUME TypeOK, TheLeader \in Node
  PROVE  /\ Others \in SUBSET Node /\ HeldBy \in [Others -> Nat]
         /\ \A f \in Others : /\ HeldBy[f] = Len(Log(f)) /\ f \in Node
                              /\ f # TheLeader
                              /\ raft[f] \in RaftObject /\ raft[f].id = f
         /\ raft[TheLeader] \in RaftObject /\ raft[TheLeader].id = TheLeader
         /\ Log(TheLeader) \in Seq(Entry) /\ Len(Log(TheLeader)) \in Nat
<1>1. \A x \in Node : /\ raft[x] \in RaftObject /\ raft[x].id = x
                      /\ Log(x) \in Seq(Entry) /\ Len(Log(x)) \in Nat
  BY ObjectNumbers DEF TypeOK, Log
<1> QED BY <1>1 DEF Others, HeldBy

\* A step that changes no more than the leader's object and not its log.
LEMMA OnlyLeader ==
  ASSUME TypeOK, Led, TheLeader \in Node, hup' \subseteq {TheLeader},
         NEW r, Serves(HeldBy, raft[TheLeader], r),
         raft' = [raft EXCEPT ![TheLeader] = r]
  PROVE  Replicates
<1>1. /\ raft'[TheLeader] = r /\ \A f \in Others : raft'[f] = raft[f]
  BY DEF TypeOK, Others
<1>2. HeldBy' = HeldBy /\ Log(TheLeader)' = Log(TheLeader)
  BY <1>1 DEF HeldBy, Log, Serves
<1> QED BY <1>1, <1>2 DEF Replicates, Led, Serves

\* A step that changes the objects of followers, whose logs stay as long.
LEMMA OnlyFollowers ==
  ASSUME TypeOK, Led, TheLeader \in Node, hup' = hup,
         NEW f \in Others, NEW g \in Others, NEW r, NEW u,
         Follows(Log(TheLeader), raft[f], r, Len(Log(f))),
         Follows(Log(TheLeader), raft[g], u, Len(Log(g))),
         raft' \in {raft, [raft EXCEPT ![f] = r], [raft EXCEPT ![f] = r, ![g] = u]}
  PROVE  Replicates
<1>1. /\ raft'[TheLeader] = raft[TheLeader]
      /\ raft'[f] \in {raft[f], r, u} /\ (f # g => raft'[f] \in {raft[f], r})
      /\ \A x \in Others : raft'[x] \in {raft[x]} \cup (IF x = f THEN {r} ELSE {})
                                                   \cup (IF x = g THEN {u} ELSE {})
  BY DEF TypeOK, Others
<1>2. \A x \in Others : /\ raft'[x] \in Followers(Log(TheLeader))
                        /\ Len(raft'[x].entries) = Len(raft[x].entries)
  <2>1. TAKE x \in Others
  <2>2. ASSUME NEW w, Follows(Log(TheLeader), raft[x], w, Len(Log(x)))
        PROVE  /\ w \in Followers(Log(TheLeader))
               /\ Len(w.entries) = Len(raft[x].entries)
    <3>1. w \in RaftObject /\ raft[x] \in RaftObject
      BY <2>2, LedTypes DEF Follows, Followers
    <3>2. Len(w.entries) \in Nat /\ Len(raft[x].entries) \in Nat
      BY <3>1, ObjectNumbers
    <3> QED BY <2>2, <3>2 DEF Follows, Log
  <2> QED BY <1>1, <2>2 DEF Led
<1>3. HeldBy' = HeldBy /\ Log(TheLeader)' = Log(TheLeader)
  BY <1>1, <1>2 DEF HeldBy, Log
<1> QED BY <1>1, <1>2, <1>3 DEF Replicates, Led

\* A step that changes the objects of the leader and of one follower.
LEMMA LeaderAndFollower ==
  ASSUME TypeOK, Led, TheLeader \in Node, hup' = hup,
         NEW f \in Others, NEW r, NEW u,
         r \in Leading([HeldBy EXCEPT ![f] = Len(u.entries)]), Settled(r),
         r.entries = Log(TheLeader), u \in Followers(Log(TheLeader)),
         raft'[TheLeader] = r, raft'[f] = u,
         \A x \in Others : x # f => raft'[x] = raft[x]
  PROVE  Replicates
<1>1. HeldBy' = [HeldBy EXCEPT ![f] = Len(u.entries)]
  BY DEF HeldBy, Log
<1>2. Log(TheLeader)' = Log(TheLeader)
  BY DEF Log
<1>3. \A x \in Others : raft'[x] \in Followers(Log(TheLeader))
  BY DEF Led
<1> QED BY <1>1, <1>2, <1>3 DEF Replicates, Led

\* A call that touches neither the log nor the queues, the peers or the commit
\* index.
SameFlow(s, r) ==
  /\ r \in RaftObject /\ r.id = s.id
  /\ r.entries = s.entries /\ r.commitIndex = s.commitIndex
  /\ r.sendmsgs = s.sendmsgs /\ r.peers = s.peers /\ r.prs = s.prs

\* Such a call leaves a leader one, and a follower one that holds as much.
LEMMA SameFlowKeeps ==
  ASSUME NEW s \in RaftObject, NEW r, SameFlow(s, r)
  PROVE  /\ \A held : s \in Leading(held) /\ Settled(s) => Serves(held, s, r)
         /\ \A log \in Seq(Entry) :
              s \in Followers(log) /\ r.state = "FOLLOWER"
              => Follows(log, s, r, Len(s.entries))
<1>1. ASSUME NEW held, s \in Leading(held), Settled(s)
      PROVE  Serves(held, s, r)
  <2>1. r \in Leading(held)
    BY <1>1, LeadingUpdate DEF SameFlow, Leading
  <2>2. Settled(r)
    BY <1>1, CommittableSame DEF SameFlow, SameNews, Settled
  <2> QED BY <2>1, <2>2 DEF Serves, SameFlow
<1>2. ASSUME NEW log \in Seq(Entry), s \in Followers(log), r.state = "FOLLOWER"
      PROVE  Follows(log, s, r, Len(s.entries))
  <2>1. Len(s.entries) \in Nat
    BY ObjectNumbers
  <2>2. /\ s.commitIndex <= Len(s.entries) /\ StartOf(s.entries, log)
        /\ Len(s.entries) <= Len(s.entries)
    BY <1>2, <2>1 DEF Followers
  <2>3. r \in Followers(log)
    BY <1>2, <2>2, FollowerUpdate DEF SameFlow
  <2> QED BY <2>2, <2>3 DEF Follows, SameFlow
<1> QED BY <1>1, <1>2

\* A message of the leader leaves its queue, and its receiver now holds so much.
LEMMA LeaderDrops ==
  ASSUME NEW F \in SUBSET Node, NEW held \in [F -> Nat], NEW s \in Leading(held),
         Settled(s), NEW f \in F, s.sendmsgs[f] # <<>>,
         NEW now \in Nat, held[f] <= now,
         now <= Brings(Head(s.sendmsgs[f]), held[f])
  PROVE  LET r == [s EXCEPT !.sendmsgs[f] = Tail(@)]
         IN  /\ Serves([held EXCEPT ![f] = now], s, r)
             /\ Head(s.sendmsgs[f]) \in LeaderSays(s.id, s.entries, held[f])
<1> DEFINE q == s.sendmsgs[f]
           r == [s EXCEPT !.sendmsgs[f] = Tail(@)]
           S == LeaderSays(s.id, s.entries, held[f])
           after == [held EXCEPT ![f] = now]
<1>1. /\ s \in RaftObject /\ f \in Node /\ held[f] \in Nat
      /\ s.prs[f].match <= held[f] /\ held[f] <= Len(s.entries)
      /\ q \in LeaderQueue(s.id, s.entries, held[f])
  BY DEF Leading
<1>2. /\ s.entries \in Seq(Entry) /\ Len(s.entries) \in Nat
      /\ s.prs[f].match \in Nat /\ q \in Seq(Message)
  BY <1>1, ObjectNumbers, ProgressNumbers
<1>3. Head(q) \in S /\ Tail(q) \in Seq(Message)
  <2>1. q \in Seq(S)
    BY <1>1 DEF LeaderQueue
  <2> HIDE DEF S
  <2> QED BY <1>2, <2>1, HeadTailProperties
<1>4. now <= Len(s.entries)
  <2>1. Head(q).type = "MsgApp" => End(Head(q)) <= Len(s.entries)
    BY <1>3 DEF LeaderSays, PartOf
  <2> HIDE DEF q
  <2>2. CASE Head(q).type = "MsgApp"
    <3>1. Head(q) \in Message
      BY <1>3 DEF LeaderSays
    <3>2. End(Head(q)) \in Nat /\ now <= End(Head(q))
      BY <2>2, <3>1, MessageNumbers DEF Brings, q
    <3> QED BY <1>2, <2>1, <2>2, <3>2
  <2>3. CASE Head(q).type # "MsgApp"
    BY <1>1, <1>2, <2>3 DEF Brings, q
  <2> QED BY <2>2, <2>3
<1>5. Tail(q) \in LeaderQueue(s.id, s.entries, now)
  BY <1>1, <1>2, QueueTail DEF Brings
<1>6. /\ r \in RaftObject /\ SameRecord(s, r) /\ r.peers = s.peers /\ r.prs = s.prs
      /\ \A d \in Node : r.sendmsgs[d] = IF d = f THEN Tail(q) ELSE s.sendmsgs[d]
  <2>1. r \in RaftObject /\ SameRecord(s, r)
    BY <1>1, <1>3, QueueType
  <2>2. /\ r.peers = s.peers /\ r.prs = s.prs
        /\ \A d \in Node : r.sendmsgs[d] = IF d = f THEN Tail(q) ELSE s.sendmsgs[d]
    BY <1>1 DEF RaftObject
  <2> QED BY <2>1, <2>2
<1> HIDE DEF q, r, S
<1>7. Settled(r)
  BY <1>1, <1>6, CommittableSame DEF SameNews, SameRecord, Settled
<1>8. /\ DOMAIN after = F /\ \A g \in F : after[g] = IF g = f THEN now ELSE held[g]
  OBVIOUS
<1> HIDE DEF after
<1>9. ASSUME NEW g \in F
      PROVE  /\ r.prs[g].match <= after[g] /\ after[g] <= Len(r.entries)
             /\ r.sendmsgs[g] \in LeaderQueue(r.id, r.entries, after[g])
  <2>1. CASE g = f
    <3>1. s.prs[f].match <= now
      BY <1>1, <1>2
    <3> QED BY <1>1, <1>4, <1>5, <1>6, <1>8, <2>1, <3>1 DEF SameRecord
  <2>2. CASE g # f
    BY <1>1, <1>6, <1>8, <2>2 DEF SameRecord, Leading
  <2> QED BY <2>1, <2>2
<1>10. /\ r.commitIndex <= Len(r.entries)
       /\ \A i \in 1..Len(r.entries) : r.entries[i].index <= i
       /\ \A p \in Node : Believable(r, p)
  BY <1>6 DEF SameRecord, Leading, Believable
<1>11. r \in Leading(after)
  BY <1>6, <1>8, <1>9, <1>10 DEF Leading
<1> QED BY <1>3, <1>6, <1>7, <1>11 DEF Serves, SameRecord, q, r, S, after

\* A message of a follower leaves its queue.
LEMMA FollowerDrops ==
  ASSUME NEW log \in Seq(Entry), NEW s \in Followers(log), NEW d \in Node,
         s.sendmsgs[d] # <<>>
  PROVE  /\ Follows(log, s, [s EXCEPT !.sendmsgs[d] = Tail(@)], Len(s.entries))
         /\ Head(s.sendmsgs[d]) \in FollowerSays(s.id, Len(s.entries))
<1> DEFINE q == s.sendmsgs
           r == [s EXCEPT !.sendmsgs[d] = Tail(@)]
           S == FollowerSays(s.id, Len(s.entries))
<1>1. s \in RaftObject /\ q \in [Node -> Seq(S)]
  BY DEF Followers
<1>2. Len(s.entries) \in Nat /\ q \in [Node -> Seq(Message)]
  BY <1>1, ObjectNumbers
<1> HIDE DEF S
<1>3. Head(q[d]) \in S /\ Tail(q[d]) \in Seq(S) /\ Tail(q[d]) \in Seq(Message)
  <2>1. q[d] \in Seq(S) /\ q[d] \in Seq(Message) /\ q[d] # <<>>
    BY <1>1, <1>2
  <2> HIDE DEF q
  <2> QED BY <2>1, HeadTailProperties
<1>4. r \in RaftObject /\ SameRecord(s, r)
  BY <1>1, <1>3, QueueType
<1>5. r.sendmsgs = [q EXCEPT ![d] = Tail(q[d])]
  BY <1>1 DEF RaftObject
<1> HIDE DEF r, q
<1>6. r.sendmsgs \in [Node -> Seq(S)]
  BY <1>1, <1>3, <1>5
<1>7. /\ r.state = "FOLLOWER" /\ StartOf(r.entries, log)
      /\ r.commitIndex <= Len(r.entries)
      /\ r.sendmsgs \in [Node -> Seq(FollowerSays(r.id, Len(r.entries)))]
  BY <1>4, <1>6 DEF Followers, SameRecord, S
<1>8. Len(s.entries) <= Len(s.entries)
  BY <1>2
<1> QED BY <1>3, <1>4, <1>7, <1>8 DEF Follows, Followers, SameRecord, r, q, S
-----------------------------------------------------------------------------
(* Steps *)

\* Nothing happens to the objects.
LEMMA NothingReplicates ==
  ASSUME TypeOK, Led, TheLeader \in Node, hup' = hup, raft' = raft
  PROVE  Replicates
<1>1. HeldBy' = HeldBy /\ Log(TheLeader)' = Log(TheLeader)
  BY DEF HeldBy, Log
<1> QED BY <1>1 DEF Replicates, Led

\* The persist thread and the bind thread.
LEMMA ThreadFlow ==
  ASSUME TypeOK, NEW n \in Node, Persist(n) \/ Bind(n)
  PROVE  \E r : /\ SameFlow(raft[n], r) /\ r.state = raft[n].state
                /\ raft' = [raft EXCEPT ![n] = r]
<1>1. raft[n] \in RaftObject
  BY DEF TypeOK
<1>2. CASE Persist(n)
  <2> DEFINE s == StorageLog(raft[n])
             r == [s EXCEPT !.ready = FALSE]
  <2>1. s \in RaftObject
    BY <1>1, StorageLogType
  <2>2. /\ s.id = raft[n].id /\ s.state = raft[n].state
        /\ s.entries = raft[n].entries /\ s.commitIndex = raft[n].commitIndex
        /\ s.sendmsgs = raft[n].sendmsgs
        /\ s.peers = raft[n].peers /\ s.prs = raft[n].prs
    BY <1>1 DEF StorageLog, AppliedTo, RaftObject
  <2>3. raft' = [raft EXCEPT ![n] = r]
    BY <1>2 DEF Persist, Becomes
  <2> HIDE DEF s
  <2>4. /\ r \in RaftObject /\ r.id = s.id /\ r.state = s.state
        /\ r.entries = s.entries /\ r.commitIndex = s.commitIndex
        /\ r.sendmsgs = s.sendmsgs /\ r.peers = s.peers /\ r.prs = s.prs
    BY <2>1 DEF RaftObject
  <2> HIDE DEF r
  <2>5. SameFlow(raft[n], r) /\ r.state = raft[n].state
    BY <2>2, <2>4 DEF SameFlow
  <2> QED BY <2>3, <2>5
<1>3. CASE Bind(n)
  <2> DEFINE u == raft[n].unknownid
             p == raft[n].peersfd \cup {Head(u)}
             r == [raft[n] EXCEPT !.peersfd = p, !.unknownid = Tail(u)]
  <2>1. u \in Seq(Node) /\ u # <<>>
    BY <1>1, <1>3 DEF Bind, RaftObject
  <2>2. p \in SUBSET Node /\ Tail(u) \in Seq(Node)
    BY <1>1, <2>1, HeadTailProperties DEF RaftObject
  <2>3. raft' = [raft EXCEPT ![n] = r]
    BY <1>3 DEF Bind, Becomes
  <2> HIDE DEF u, p
  <2>4. /\ r \in RaftObject /\ r.id = raft[n].id /\ r.state = raft[n].state
        /\ r.entries = raft[n].entries /\ r.commitIndex = raft[n].commitIndex
        /\ r.sendmsgs = raft[n].sendmsgs
        /\ r.peers = raft[n].peers /\ r.prs = raft[n].prs
    BY <1>1, <2>2 DEF RaftObject
  <2> HIDE DEF r
  <2> QED BY <2>3, <2>4 DEF SameFlow
<1> QED BY <1>2, <1>3

\* The two halves of an election.
LEMMA ElectionFlow ==
  ASSUME TypeOK, NoVotes, NEW n \in Node, TickElection(n) \/ Elect(n)
  PROVE  \E r : SameFlow(raft[n], r) /\ raft' = [raft EXCEPT ![n] = r]
<1>1. raft[n] \in RaftObject /\ raft[n] \in Quiet(Nat) /\ n \in NodeId
  BY DEF TypeOK, NoVotes, NodeId
<1>2. CASE TickElection(n)
  <2> DEFINE r == BecomeCandidate(raft[n])
  <2>1. r \in RaftObject
    <3>1. 1 \in Nat \ {0} /\ n \in NodeId
      BY <1>1
    <3> QED BY <1>1, <3>1, RoleType
  <2>2. SameFlow(raft[n], r)
    <3>1. /\ r.id = raft[n].id /\ r.entries = raft[n].entries
          /\ r.commitIndex = raft[n].commitIndex
      BY <1>1 DEF BecomeCandidate, Reset, RaftObject
    <3>2. r.sendmsgs = raft[n].sendmsgs /\ r.peers = raft[n].peers /\ r.prs = raft[n].prs
      BY <1>1 DEF BecomeCandidate, Reset, RaftObject
    <3> HIDE DEF r
    <3> QED BY <2>1, <3>1, <3>2 DEF SameFlow
  <2>3. raft' = [raft EXCEPT ![n] = r]
    BY <1>2 DEF TickElection, Becomes
  <2> QED BY <2>2, <2>3
<1>3. CASE Elect(n)
  <2> DEFINE s == RecordVote(raft[n], n, TRUE)
             r == BecomeLeader(s)
  <2>1. raft' = [raft EXCEPT ![n] = r]
    BY <1>1, <1>3, ElectLeads
  <2>2. s \in RaftObject
    BY <1>1, RecordVoteType
  <2>3. SameFlow(raft[n], s)
    BY <1>1, <2>2 DEF SameFlow, RecordVote, RaftObject
  <2> HIDE DEF s
  <2>4. r \in RaftObject
    <3>1. 1 \in Nat \ {0} /\ n \in NodeId
      BY <1>1
    <3> QED BY <2>2, <3>1, RoleType
  <2>5. SameFlow(s, r)
    BY <2>2, <2>4 DEF SameFlow, BecomeLeader, Reset, RaftObject
  <2>6. SameFlow(raft[n], r)
    BY <2>3, <2>5 DEF SameFlow
  <2> QED BY <2>1, <2>6
<1> QED BY <1>2, <1>3

\* A step of the leader's own threads.
LEMMA LeaderAlone ==
  ASSUME IsFiniteSet(Node), TypeOK, NoVotes, AppliedWithinCommit, Led,
         TheLeader \in Node,
         \/ TickElection(TheLeader) \/ Elect(TheLeader) \/ TickHeartbeat(TheLeader)
         \/ Persist(TheLeader) \/ Bind(TheLeader)
         \/ \E v \in Value : Propose(TheLeader, v)
  PROVE  Replicates
<1> DEFINE s == raft[TheLeader]
<1>1. /\ s \in RaftObject /\ s \in Leading(HeldBy) /\ Settled(s)
      /\ s.lastApplied <= s.commitIndex
      /\ Others \in SUBSET Node /\ HeldBy \in [Others -> Nat]
  BY LedTypes DEF Led, AppliedWithinCommit
<1>2. hup \subseteq {TheLeader}
  BY DEF Led
<1>3. CASE \/ TickElection(TheLeader) \/ Elect(TheLeader)
           \/ Persist(TheLeader) \/ Bind(TheLeader)
  <2>1. PICK r : SameFlow(s, r) /\ raft' = [raft EXCEPT ![TheLeader] = r]
    BY <1>3, ThreadFlow, ElectionFlow
  <2>2. Serves(HeldBy, s, r)
    BY <1>1, <2>1, SameFlowKeeps
  <2>3. hup' \subseteq {TheLeader}
    BY <1>2, <1>3 DEF TickElection, Elect, Persist, Bind
  <2> QED BY <2>1, <2>2, <2>3, OnlyLeader
<1>4. CASE TickHeartbeat(TheLeader)
  <2> DEFINE r == BcastHeartbeat(s)
  <2>1. raft' = [raft EXCEPT ![TheLeader] = r] /\ hup' = hup
    BY <1>4 DEF TickHeartbeat, Becomes
  <2>2. /\ r \in Leading(HeldBy) /\ r.id = s.id /\ r.entries = s.entries
        /\ Committable(r) = Committable(s)
    BY <1>1, BcastHeartbeatLeads
  <2> HIDE DEF r
  <2>3. Serves(HeldBy, s, r)
    BY <1>1, <2>2 DEF Serves, Settled
  <2> QED BY <1>2, <2>1, <2>3, OnlyLeader
<1>5. ASSUME NEW v \in Value, Propose(TheLeader, v)
      PROVE  Replicates
  <2> DEFINE r == StepProp(s, v)
  <2>1. hup' = hup
    BY <1>5 DEF Propose
  <2>2. CASE raft' = raft
    BY <2>1, <2>2, NothingReplicates
  <2>3. CASE raft' = [raft EXCEPT ![TheLeader] = r]
    <3>1. /\ r \in Leading(HeldBy) /\ Settled(r)
          /\ r.id = s.id /\ r.commitIndex = s.commitIndex
          /\ \E e \in Entry : e.data = v /\ r.entries = Append(s.entries, e)
      BY <1>1, StepPropLeads
    <3> HIDE DEF r
    <3>2. PICK e \in Entry : e.data = v /\ r.entries = Append(s.entries, e)
      BY <3>1
    <3>3. /\ raft'[TheLeader] = r /\ \A f \in Others : raft'[f] = raft[f]
          /\ \A x \in Node : x # TheLeader => raft'[x] = raft[x]
      BY <2>3 DEF TypeOK, Others
    <3>4. HeldBy' = HeldBy /\ Log(TheLeader)' = Append(Log(TheLeader), e)
      BY <3>2, <3>3 DEF HeldBy, Log
    <3>5. ASSUME NEW f \in Others
          PROVE  raft[f] \in Followers(Append(Log(TheLeader), e))
      <4>1. /\ raft[f] \in Followers(Log(TheLeader)) /\ raft[f] \in RaftObject
            /\ Log(TheLeader) \in Seq(Entry)
        BY LedTypes DEF Led
      <4>2. /\ Append(Log(TheLeader), e) \in Seq(Entry)
            /\ StartOf(Log(TheLeader), Append(Log(TheLeader), e))
        BY <4>1, StartProperties, AppendProperties
      <4>3. raft[f].entries \in Seq(Entry) /\ StartOf(raft[f].entries, Log(TheLeader))
        BY <4>1, ObjectNumbers DEF Followers
      <4>4. StartOf(raft[f].entries, Append(Log(TheLeader), e))
        BY <4>1, <4>2, <4>3, StartProperties
      <4> QED BY <4>1, <4>4 DEF Followers
    <3>6. Led'
      BY <1>2, <2>1, <3>1, <3>3, <3>4, <3>5 DEF Led
    <3>7. \A x \in Node : raft'[x].commitIndex = raft[x].commitIndex
      BY <3>1, <3>3
    <3> QED BY <3>2, <3>4, <3>6, <3>7 DEF Replicates
  <2> QED BY <1>5, <2>2, <2>3 DEF Propose, Becomes
<1> QED BY <1>3, <1>4, <1>5

\* A step of a follower's own threads: only the persist and the bind thread have
\* anything to do.
LEMMA FollowerAlone ==
  ASSUME TypeOK, Led, TheLeader \in Node, Electable = {TheLeader},
         NEW f \in Others,
         \/ TickElection(f) \/ Elect(f) \/ TickHeartbeat(f) \/ Persist(f) \/ Bind(f)
         \/ \E v \in Value : Propose(f, v)
  PROVE  Replicates
<1>1. /\ raft[f] \in Followers(Log(TheLeader)) /\ raft[f].state = "FOLLOWER"
      /\ raft[f] \in RaftObject /\ f \in Node /\ f # TheLeader
      /\ Log(TheLeader) \in Seq(Entry) /\ hup \subseteq {TheLeader}
  BY LedTypes DEF Led, Followers
<1>2. Persist(f) \/ Bind(f)
  BY <1>1 DEF TickElection, Elect, TickHeartbeat, Propose
<1>3. PICK r : /\ SameFlow(raft[f], r) /\ r.state = raft[f].state
               /\ raft' = [raft EXCEPT ![f] = r]
  BY <1>1, <1>2, ThreadFlow
<1>4. Follows(Log(TheLeader), raft[f], r, Len(Log(f)))
  BY <1>1, <1>3, SameFlowKeeps DEF Log
<1>5. hup' = hup
  BY <1>2 DEF Persist, Bind
<1> QED BY <1>3, <1>4, <1>5, OnlyFollowers

\* What is at the head of the leader's queue.
LEMMA LeaderHead ==
  ASSUME NEW F \in SUBSET Node, NEW held \in [F -> Nat], NEW s \in Leading(held),
         NEW f \in F, s.sendmsgs[f] # <<>>
  PROVE  LET m == Head(s.sendmsgs[f])
         IN  /\ m \in LeaderSays(s.id, s.entries, held[f])
             /\ held[f] <= Brings(m, held[f])
<1> DEFINE q == s.sendmsgs[f]
           S == LeaderSays(s.id, s.entries, held[f])
<1>1. q \in Seq(S) /\ q # <<>>
  BY DEF Leading, LeaderQueue
<1> HIDE DEF q
<1>2. Head(q) \in S
  <2> HIDE DEF S
  <2> QED BY <1>1, HeadTailProperties
<1>3. held[f] \in Nat
  OBVIOUS
<1>4. held[f] <= Brings(Head(q), held[f])
  BY <1>2, <1>3 DEF LeaderSays, Brings
<1> QED BY <1>2, <1>4 DEF q

\* A message is dropped: its receiver has no connection, or it is lost.
LEMMA DropReplicates ==
  ASSUME TypeOK, Led, TheLeader \in Node, hup' = hup,
         NEW n \in Node, NEW d \in Node \ {n}, raft[n].sendmsgs[d] # <<>>,
         raft' = [raft EXCEPT ![n].sendmsgs[d] = Tail(@)]
  PROVE  Replicates
<1> DEFINE r == [raft[n] EXCEPT !.sendmsgs[d] = Tail(@)]
<1>1. raft' = [raft EXCEPT ![n] = r]
  OBVIOUS
<1>2. hup' \subseteq {TheLeader}
  BY DEF Led
<1>3. CASE n = TheLeader
  <2>1. /\ d \in Others /\ Others \in SUBSET Node /\ HeldBy \in [Others -> Nat]
        /\ raft[n] \in Leading(HeldBy) /\ Settled(raft[n])
    BY <1>3, LedTypes DEF Led, Others
  <2>2. HeldBy[d] <= Brings(Head(raft[n].sendmsgs[d]), HeldBy[d])
    BY <2>1, LeaderHead
  <2>3. HeldBy[d] \in Nat /\ HeldBy[d] <= HeldBy[d]
    BY <2>1
  <2>4. Serves([HeldBy EXCEPT ![d] = HeldBy[d]], raft[n], r)
    BY <2>1, <2>2, <2>3, LeaderDrops
  <2>5. [HeldBy EXCEPT ![d] = HeldBy[d]] = HeldBy
    BY <2>1
  <2> HIDE DEF r
  <2> QED BY <1>1, <1>2, <1>3, <2>4, <2>5, OnlyLeader
<1>4. CASE n # TheLeader
  <2>1. /\ n \in Others /\ raft[n] \in Followers(Log(TheLeader))
        /\ Log(TheLeader) \in Seq(Entry)
    BY <1>4, LedTypes DEF Led, Others
  <2>2. Follows(Log(TheLeader), raft[n], r, Len(Log(n)))
    BY <2>1, FollowerDrops DEF Log
  <2> HIDE DEF r
  <2> QED BY <1>1, <2>1, <2>2, OnlyFollowers
<1> QED BY <1>3, <1>4

\* A message is taken from a queue and handled.
LEMMA StepNodeReplicates ==
  ASSUME IsFiniteSet(Node), TypeOK, AppliedWithinCommit, Led, TheLeader \in Node,
         NEW n \in Node, NEW src \in Node \ {n}, StepNode(n, src)
  PROVE  Replicates
<1> DEFINE s == raft[n]
           q == raft[src].sendmsgs[n]
           m == Head(q)
           r == GeneralStep(s, m)
           u == [raft[src] EXCEPT !.sendmsgs[n] = Tail(@)]
           log == Log(TheLeader)
<1>1. q # <<>> /\ hup' = hup
  BY DEF StepNode, Deliverable
<1>2. raft' = [raft EXCEPT ![n] = r, ![src] = u]
  BY DEF StepNode, Takes, TypeOK
<1>3. /\ raft'[n] = r /\ raft'[src] = u
      /\ \A x \in Node : x \notin {n, src} => raft'[x] = raft[x]
  BY <1>2 DEF TypeOK
<1>4. /\ Others \in SUBSET Node /\ HeldBy \in [Others -> Nat]
      /\ \A f \in Others : /\ HeldBy[f] = Len(Log(f)) /\ f \in Node
                           /\ f # TheLeader
                           /\ raft[f] \in RaftObject /\ raft[f].id = f
                           /\ raft[f] \in Followers(log)
      /\ raft[TheLeader] \in Leading(HeldBy) /\ Settled(raft[TheLeader])
      /\ raft[TheLeader].id = TheLeader
      /\ log \in Seq(Entry) /\ Len(log) \in Nat
  BY LedTypes DEF Led
<1>5. CASE n = TheLeader
  <2>1. src \in Others /\ s.lastApplied <= s.commitIndex
    BY <1>5 DEF Others, AppliedWithinCommit
  <2>2. Follows(log, raft[src], u, Len(raft[src].entries))
        /\ m \in FollowerSays(src, Len(raft[src].entries))
    BY <1>1, <1>4, <2>1, FollowerDrops
  <2>3. m \in FollowerSays(src, HeldBy[src])
    BY <1>4, <2>1, <2>2 DEF Log
  <2>4. Serves(HeldBy, s, r)
    BY <1>4, <1>5, <2>1, <2>3, GeneralStepLeads
  <2> HIDE DEF m, r, u, q
  <2>5. u \in Followers(log) /\ Len(u.entries) = HeldBy[src]
    <3>1. u \in RaftObject /\ Len(u.entries) \in Nat /\ Len(raft[src].entries) \in Nat
      BY <1>4, <2>1, <2>2, ObjectNumbers DEF Follows, Followers
    <3> QED BY <1>4, <2>1, <2>2, <3>1 DEF Follows, Log
  <2>6. [HeldBy EXCEPT ![src] = Len(u.entries)] = HeldBy
    BY <1>4, <2>1, <2>5
  <2>7. \A x \in Others : x # src => raft'[x] = raft[x]
    BY <1>3, <1>5 DEF Others
  <2>8. r.entries = Log(TheLeader) /\ Settled(r) /\ r \in Leading(HeldBy)
    BY <1>5, <2>4 DEF Serves, Log
  <2> QED BY <1>1, <1>3, <1>5, <2>1, <2>5, <2>6, <2>7, <2>8, LeaderAndFollower
<1>6. CASE src = TheLeader
  <2>1. n \in Others
    BY <1>6 DEF Others
  <2>2. /\ m \in LeaderSays(TheLeader, log, HeldBy[n])
    BY <1>1, <1>4, <1>6, <2>1, LeaderHead DEF Log
  <2>3. HeldBy[n] = Len(s.entries) /\ s \in Followers(log)
    BY <1>4, <2>1 DEF Log
  <2>4. Follows(log, s, r, Brings(m, Len(s.entries)))
    <3>1. m \in Arrives(TheLeader, log, Len(s.entries))
      BY <2>2, <2>3 DEF Arrives
    <3> QED BY <1>4, <2>3, <3>1, GeneralStepFollows
  <2> HIDE DEF r
  <2>5. /\ r \in Followers(log) /\ HeldBy[n] <= Len(r.entries)
        /\ Len(r.entries) <= Brings(m, HeldBy[n]) /\ Len(r.entries) \in Nat
    BY <2>3, <2>4, ObjectNumbers DEF Follows, Followers
  <2>6. Serves([HeldBy EXCEPT ![n] = Len(r.entries)], raft[src], u)
    BY <1>1, <1>4, <1>6, <2>1, <2>5, LeaderDrops
  <2> HIDE DEF u, m
  <2>7. \A x \in Others : x # n => raft'[x] = raft[x]
    BY <1>3, <1>6 DEF Others
  <2>8. /\ u.entries = Log(TheLeader) /\ Settled(u)
        /\ u \in Leading([HeldBy EXCEPT ![n] = Len(r.entries)])
    BY <1>6, <2>6 DEF Serves, Log
  <2> QED BY <1>1, <1>3, <1>6, <2>1, <2>5, <2>7, <2>8, LeaderAndFollower
<1>7. CASE n # TheLeader /\ src # TheLeader
  <2>1. n \in Others /\ src \in Others
    BY <1>7 DEF Others
  <2>2. Follows(log, raft[src], u, Len(Log(src)))
        /\ m \in FollowerSays(src, Len(raft[src].entries))
    BY <1>1, <1>4, <2>1, FollowerDrops DEF Log
  <2>3. Len(raft[src].entries) \in Nat
    BY <1>4, <2>1, ObjectNumbers
  <2>4. Follows(log, s, r, Brings(m, Len(s.entries)))
    <3>1. m \in Arrives(TheLeader, log, Len(s.entries))
      BY <2>2, <2>3 DEF Arrives
    <3> QED BY <1>4, <2>1, <3>1, GeneralStepFollows
  <2>5. Brings(m, Len(s.entries)) = Len(Log(n))
    BY <2>2 DEF Brings, FollowerSays, Log
  <2> HIDE DEF r, u, m
  <2> QED BY <1>1, <1>2, <2>1, <2>2, <2>4, <2>5, OnlyFollowers
<1> QED BY <1>5, <1>6, <1>7

\* Every step, when one node stands for election and no process restarts.
LEMMA NextReplicates ==
  ASSUME IsFiniteSet(Node), Faults \subseteq {"lose"}, TheLeader \in Node,
         Electable = {TheLeader},
         TypeOK, NoVotes, AppliedWithinCommit, Led, [Next]_vars
  PROVE  Replicates
<1>1. CASE UNCHANGED vars
  BY <1>1, NothingReplicates DEF vars
<1>2. ASSUME NEW n \in Node,
             \/ TickElection(n) \/ Elect(n) \/ TickHeartbeat(n)
             \/ Persist(n) \/ Bind(n) \/ \E v \in Value : Propose(n, v)
      PROVE  Replicates
  <2>1. CASE n = TheLeader
    BY <1>2, <2>1, LeaderAlone
  <2>2. CASE n # TheLeader
    <3>1. n \in Others
      BY <2>2 DEF Others
    <3> QED BY <1>2, <3>1, FollowerAlone
  <2> QED BY <2>1, <2>2
<1>3. ASSUME NEW n \in Node, Crash(n)
      PROVE  Replicates
  BY <1>3, NothingReplicates DEF Crash
<1>4. ASSUME NEW n \in Node, NEW d \in Node \ {n}, Discard(n, d) \/ Lose(n, d)
      PROVE  Replicates
  <2>1. /\ raft[n].sendmsgs[d] # <<>> /\ hup' = hup
        /\ raft' = [raft EXCEPT ![n].sendmsgs[d] = Tail(@)]
    BY <1>4 DEF Discard, Lose, Deliverable
  <2> QED BY <2>1, DropReplicates
<1>5. /\ \A n \in Node : ~ Restart(n)
      /\ \A n, a, b : ~ Coalesce(a, b, n)
  BY DEF Restart, Coalesce, Fault
<1> QED BY <1>1, <1>2, <1>3, <1>4, <1>5, StepNodeReplicates DEF Next

\* The messages a process boots with introduce it.
LEMMA BootQueue ==
  ASSUME NEW n \in Node, NEW S, [NewMessage("MsgNode") EXCEPT !.from = n] \in S
  PROVE  Boot(n, <<>>).sendmsgs \in
           [Node -> {q \in Seq(S) : Len(q) <= 1}]
<1>1. /\ <<[NewMessage("MsgNode") EXCEPT !.from = n]>> \in Seq(S) /\ <<>> \in Seq(S)
      /\ Len(<<[NewMessage("MsgNode") EXCEPT !.from = n]>>) = 1 /\ Len(<<>>) = 0
  BY EmptySeq
<1> QED BY <1>1 DEF Boot

\* The program starts so.
LEMMA InitLed ==
  ASSUME IsFiniteSet(Node), TheLeader \in Node, Init
  PROVE  Led
<1>1. <<>> \in Seq(Entry) /\ Len(<<>>) = 0
  BY EmptySeq
<1>2. \A n \in Node : /\ raft[n] = Boot(n, <<>>) /\ raft[n] \in RaftObject
                      /\ raft[n].id = n
  BY <1>1, BootType DEF Init
<1>3. \A n \in Node : /\ raft[n].entries = <<>> /\ raft[n].commitIndex = 0
                      /\ raft[n].state = "FOLLOWER"
                      /\ \A p \in Node : raft[n].prs[p] = NewProgress(1)
  <2>1. TAKE n \in Node
  <2> DEFINE b == Boot(n, <<>>)
  <2>2. /\ b.entries = <<>> /\ b.commitIndex = 0 /\ b.state = "FOLLOWER"
        /\ b.prs = [d \in Node |-> NewProgress(1)]
    BY DEF Boot
  <2>3. raft[n] = b
    BY <1>2
  <2> HIDE DEF b
  <2> QED BY <2>2, <2>3
<1>4. /\ \A f \in Others : HeldBy[f] = 0 /\ f \in Node
      /\ DOMAIN HeldBy = Others /\ Log(TheLeader) = <<>>
  BY <1>1, <1>3 DEF HeldBy, Log, Others
<1>5. ASSUME NEW n \in Node
      PROVE  /\ [NewMessage("MsgNode") EXCEPT !.from = n] \in LeaderSays(n, <<>>, 0)
             /\ [NewMessage("MsgNode") EXCEPT !.from = n] \in FollowerSays(n, 0)
  <2>1. [NewMessage("MsgNode") EXCEPT !.from = n] \in Message
    BY MessagesType
  <2> QED BY <2>1 DEF LeaderSays, FollowerSays, NewMessage
<1>6. raft[TheLeader] \in Leading(HeldBy)
  <2> DEFINE s == raft[TheLeader]
             S == LeaderSays(TheLeader, <<>>, 0)
  <2>1. s.sendmsgs \in [Node -> {q \in Seq(S) : Len(q) <= 1}]
    <3> HIDE DEF S
    <3>1. [NewMessage("MsgNode") EXCEPT !.from = TheLeader] \in S
      BY <1>5 DEF S
    <3> QED BY <1>2, <3>1, BootQueue
  <2>2. \A q \in Seq(S) : Len(q) <= 1 => InOrder(q)
    <3>1. \A q \in Seq(S) : Len(q) \in Nat
      BY LenProperties
    <3> QED BY <3>1 DEF InOrder
  <2>3. \A f \in Node : s.sendmsgs[f] \in LeaderQueue(TheLeader, <<>>, 0)
    BY <2>1, <2>2 DEF LeaderQueue
  <2>4. \A p \in Node : /\ s.prs[p].match = 0 /\ s.prs[p].next = 1
                        /\ s.prs[p].state = "Probe"
    BY <1>3 DEF NewProgress
  <2> HIDE DEF s, S
  <2>5. s \in RaftObject /\ s.id = TheLeader /\ s.entries = <<>> /\ s.commitIndex = 0
    BY <1>2, <1>3 DEF s
  <2>6. \A p \in Node : Believable(s, p)
    BY <1>1, <2>4, <2>5 DEF Believable
  <2>7. s \in Leading(HeldBy)
    BY <1>1, <1>4, <2>3, <2>4, <2>5, <2>6 DEF Leading
  <2> QED BY <2>7 DEF s
<1>7. Settled(raft[TheLeader])
  <2>1. SUFFICES ASSUME NEW c \in Committable(raft[TheLeader])
                 PROVE  FALSE
    BY DEF Settled
  <2>2. c > 0
    BY <1>2, <1>3, CommittableType
  <2>3. PICK p \in raft[TheLeader].peers : c = raft[TheLeader].prs[p].match
    BY DEF Committable
  <2>4. p \in Node
    BY <1>2, ObjectNumbers
  <2> QED BY <1>3, <2>2, <2>3, <2>4 DEF NewProgress
<1>8. ASSUME NEW f \in Others
      PROVE  raft[f] \in Followers(Log(TheLeader))
  <2>1. f \in Node
    BY DEF Others
  <2> DEFINE S == FollowerSays(f, 0)
  <2>2. raft[f].sendmsgs \in [Node -> {q \in Seq(S) : Len(q) <= 1}]
    <3> HIDE DEF S
    <3>1. [NewMessage("MsgNode") EXCEPT !.from = f] \in S
      BY <1>5, <2>1 DEF S
    <3> QED BY <1>2, <2>1, <3>1, BootQueue
  <2>3. raft[f].sendmsgs \in [Node -> Seq(S)]
    BY <2>2
  <2>4. StartOf(raft[f].entries, <<>>)
    BY <1>1, <1>3, <2>1 DEF StartOf
  <2> QED BY <1>1, <1>2, <1>3, <1>4, <2>1, <2>3, <2>4 DEF Followers
<1>9. hup \subseteq {TheLeader}
  BY DEF Init
<1> QED BY <1>6, <1>7, <1>8, <1>9 DEF Led

\* Of one node that stands for election.
LEMMA TheLeaderStands ==
  ASSUME \E l : Electable = {l}
  PROVE  TheLeader \in Node /\ Electable = {TheLeader}
<1>1. TheLeader \in Electable
  <2>1. \E n \in Node : n \in Electable
    BY NodeAssumption
  <2> QED BY <2>1 DEF TheLeader
<1> QED BY <1>1, NodeAssumption

-----------------------------------------------------------------------------
(* Theorems *)

\* With one node that stands for election and no restart, whatever messages are
\* lost, that node leads and the others follow it.
THEOREM OneLeads ==
  ASSUME IsFiniteSet(Node), Faults \subseteq {"lose"}, \E l : Electable = {l}
  PROVE  Spec => []Led
<1>1. TheLeader \in Node /\ Electable = {TheLeader}
  BY TheLeaderStands
<1>2. Init => Led
  BY <1>1, InitLed
<1>3. TypeOK /\ NoVotes /\ AppliedWithinCommit /\ Led /\ [Next]_vars => Led'
  BY <1>1, NextReplicates DEF Replicates
<1> QED BY <1>2, <1>3, TypeCorrect, AlwaysQuiet, AppliedCorrect, PTL DEF Spec

\* What Led says of each node.
LEMMA LedSays ==
  ASSUME TypeOK, Led, TheLeader \in Node, NEW n \in Node
  PROVE  /\ raft[n] \in RaftObject
         /\ raft[n].commitIndex \in Nat /\ raft[n].commitIndex <= Len(Log(n))
         /\ Log(n) \in Seq(Entry) /\ Len(Log(n)) \in Nat
         /\ StartOf(Log(n), Log(TheLeader))
         /\ n # TheLeader => ~ Leads(n)
<1>1. /\ raft[n] \in RaftObject /\ raft[n].commitIndex \in Nat
      /\ Log(n) \in Seq(Entry) /\ Len(Log(n)) \in Nat
  BY ObjectNumbers DEF TypeOK, Log
<1>2. CASE n = TheLeader
  BY <1>1, <1>2, StartProperties DEF Led, Leading, Log
<1>3. CASE n # TheLeader
  <2>1. raft[n] \in Followers(Log(TheLeader))
    BY <1>3 DEF Led, Others
  <2> QED BY <1>1, <1>3, <2>1 DEF Followers, Log, Leads
<1> QED BY <1>2, <1>3

\* No node takes for committed what it does not have: the heartbeat's commit
\* index is capped by the match (raft.cc bcastHeartbeat()), and the match never
\* runs ahead of the follower's log.
THEOREM CommitsAreHeld ==
  ASSUME IsFiniteSet(Node), Faults \subseteq {"lose"}, \E l : Electable = {l}
  PROVE  Spec => []CommitWithinLog
<1>1. TheLeader \in Node
  BY TheLeaderStands
<1>2. TypeOK /\ Led => CommitWithinLog
  BY <1>1, LedSays DEF CommitWithinLog
<1> QED BY <1>2, OneLeads, TypeCorrect, PTL

\* What the leader believes a follower holds, it does hold, and the two logs
\* agree up to there.
THEOREM MatchesAreHeld ==
  ASSUME IsFiniteSet(Node), Faults \subseteq {"lose"}, \E l : Electable = {l}
  PROVE  Spec => []MatchIsHeld
<1>1. TheLeader \in Node
  BY TheLeaderStands
<1>2. TypeOK /\ Led => MatchIsHeld
  <2>1. SUFFICES ASSUME TypeOK, Led, NEW l \in Node, Leads(l),
                        NEW p \in raft[l].peers, NEW i \in 1..raft[l].prs[p].match
                 PROVE  /\ i <= Len(Log(l)) /\ i <= Len(Log(p))
                        /\ Log(l)[i] = Log(p)[i]
    BY DEF MatchIsHeld
  <2>2. l = TheLeader /\ raft[l] \in RaftObject /\ Len(Log(l)) \in Nat
    BY <1>1, <2>1, LedSays
  <2>3. p \in Node /\ raft[l].prs[p].match \in Nat
    BY <2>2, ObjectNumbers, ProgressNumbers
  <2>4. raft[l].prs[p].match <= Len(Log(l))
    BY <2>1, <2>2, <2>3 DEF Led, Leading, Believable, Log
  <2>5. i <= Len(Log(l))
    BY <2>2, <2>3, <2>4
  <2>6. CASE p = TheLeader
    BY <2>2, <2>5, <2>6
  <2>7. CASE p # TheLeader
    <3>1. p \in Others
      BY <2>3, <2>7 DEF Others
    <3>2. Len(Log(p)) \in Nat /\ StartOf(Log(p), Log(l))
      BY <1>1, <2>1, <2>2, <2>3, LedSays
    <3>3. raft[l].prs[p].match <= HeldBy[p] /\ HeldBy[p] = Len(Log(p))
      BY <2>1, <2>2, <3>1 DEF Led, Leading, HeldBy
    <3>4. i \in 1..Len(Log(p))
      BY <2>3, <3>2, <3>3
    <3> QED BY <2>5, <3>2, <3>4 DEF StartOf
  <2> QED BY <2>6, <2>7
<1> QED BY <1>2, OneLeads, TypeCorrect, PTL

\* No two nodes take different entries for committed at one position.
THEOREM CommitsAgree ==
  ASSUME IsFiniteSet(Node), Faults \subseteq {"lose"}, \E l : Electable = {l}
  PROVE  Spec => []CommittedAgree
<1>1. TheLeader \in Node
  BY TheLeaderStands
<1>2. TypeOK /\ Led => CommittedAgree
  <2>1. SUFFICES ASSUME TypeOK, Led, NEW n \in Node, NEW m \in Node,
                        NEW i \in 1..Len(Decided(n)), i <= Len(Decided(m))
                 PROVE  Decided(n)[i] = Decided(m)[i]
    BY DEF CommittedAgree
  <2>2. ASSUME NEW x \in Node, NEW j \in 1..Len(Decided(x))
        PROVE  Decided(x)[j] = Log(TheLeader)[j]
    <3>1. /\ raft[x].commitIndex \in Nat /\ raft[x].commitIndex <= Len(Log(x))
          /\ Log(x) \in Seq(Entry) /\ Len(Log(x)) \in Nat
          /\ StartOf(Log(x), Log(TheLeader))
      BY <1>1, <2>1, LedSays
    <3>2. /\ Len(Decided(x)) <= Len(Log(x)) /\ Len(Decided(x)) \in Nat
          /\ Decided(x)[j] = Log(x)[j]
      BY <3>1, TruncateProperties DEF Decided
    <3>3. j \in 1..Len(Log(x))
      BY <3>1, <3>2
    <3> QED BY <3>1, <3>2, <3>3 DEF StartOf
  <2>3. i \in 1..Len(Decided(m))
    <3>1. Log(m) \in Seq(Entry) /\ raft[m].commitIndex \in Nat
      BY <1>1, <2>1, LedSays
    <3>2. Decided(m) \in Seq(Entry)
      BY <3>1, TruncateProperties DEF Decided
    <3>3. Len(Decided(m)) \in Nat
      BY <3>2, LenProperties
    <3> QED BY <2>1, <3>3
  <2> QED BY <2>2, <2>3
<1> QED BY <1>2, OneLeads, TypeCorrect, PTL
-----------------------------------------------------------------------------
(* The replicated log *)

\* The values of a log, one for one.
LEMMA ValuesProperties ==
  ASSUME NEW log \in Seq(Entry)
  PROVE  /\ Values(log) \in Seq(Value \cup {None})
         /\ Len(Values(log)) = Len(log)
         /\ \A i \in 1..Len(log) : Values(log)[i] = log[i].data
<1> DEFINE D == Value \cup {None}
           n == Len(log)
<1>1. n \in Nat /\ \A i \in 1..n : log[i] \in Entry
  BY LenProperties, ElementOfSeq
<1>2. /\ Values(log) \in [1..n -> D]
      /\ \A i \in 1..n : Values(log)[i] = log[i].data
  BY <1>1 DEF Values, Entry
<1> HIDE DEF n
<1>3. Values(log) \in Seq(D)
  BY <1>1, <1>2, SeqDef
<1>4. Len(Values(log)) = n
  <2>1. DOMAIN Values(log) = 1..Len(Values(log)) /\ Len(Values(log)) \in Nat
    BY <1>3, LenProperties
  <2> QED BY <1>1, <1>2, <2>1
<1> QED BY <1>2, <1>3, <1>4 DEF n

\* An entry more is a value more.
LEMMA ValuesAppend ==
  ASSUME NEW log \in Seq(Entry), NEW e \in Entry
  PROVE  Values(Append(log, e)) = Append(Values(log), e.data)
<1> DEFINE D == Value \cup {None}
           more == Append(log, e)
           a == Values(more)
           v == Values(log)
           b == Append(v, e.data)
<1>1. /\ more \in Seq(Entry) /\ Len(more) = Len(log) + 1 /\ Len(log) \in Nat
      /\ \A i \in 1..Len(log) : more[i] = log[i]
      /\ more[Len(log) + 1] = e
  BY AppendProperties, LenProperties
<1> HIDE DEF more
<1>2. /\ a \in Seq(D) /\ Len(a) = Len(log) + 1
      /\ \A i \in 1..Len(log) + 1 : a[i] = more[i].data
  BY <1>1, ValuesProperties
<1>3. /\ v \in Seq(D) /\ Len(v) = Len(log) /\ e.data \in D
      /\ \A i \in 1..Len(log) : v[i] = log[i].data
  BY ValuesProperties DEF Entry
<1> HIDE DEF a, v, D
<1>4. /\ b \in Seq(D) /\ Len(b) = Len(log) + 1
      /\ \A i \in 1..Len(log) : b[i] = v[i]
      /\ b[Len(log) + 1] = e.data
  BY <1>3, AppendProperties
<1> HIDE DEF b
<1>5. ASSUME NEW i \in 1..Len(a)
      PROVE  a[i] = b[i]
  <2>1. CASE i \in 1..Len(log)
    BY <1>1, <1>2, <1>3, <1>4, <2>1
  <2>2. CASE i \notin 1..Len(log)
    <3>1. i = Len(log) + 1
      BY <1>1, <1>2, <2>2
    <3> QED BY <1>1, <1>2, <1>4, <3>1
  <2> QED BY <2>1, <2>2
<1>6. a = b
  BY <1>2, <1>4, <1>5, SeqEqual
<1> QED BY <1>6 DEF a, b, v, more

\* The decided part of a log that is the start of another is a prefix of the
\* other's values.
LEMMA ValuesDecided ==
  ASSUME NEW own \in Seq(Entry), NEW log \in Seq(Entry), StartOf(own, log),
         NEW c \in Nat, c <= Len(own)
  PROVE  /\ Values(Truncate(own, c)) = SubSeq(Values(log), 1, c)
         /\ Len(Values(Truncate(own, c))) = c
<1> DEFINE D == Value \cup {None}
           cut == Truncate(own, c)
           a == Values(cut)
           v == Values(log)
           b == SubSeq(v, 1, c)
<1>1. Len(own) \in Nat /\ Len(log) \in Nat
  BY LenProperties
<1>2. cut \in Seq(Entry) /\ Len(cut) = c /\ \A i \in 1..c : cut[i] = own[i]
  <2>1. /\ cut \in Seq(Entry) /\ Len(cut) = IF c < Len(own) THEN c ELSE Len(own)
        /\ \A i \in 1..Len(cut) : cut[i] = own[i]
    BY TruncateProperties
  <2> HIDE DEF cut
  <2>2. Len(cut) = c
    BY <1>1, <2>1
  <2> QED BY <2>1, <2>2
<1> HIDE DEF cut
<1>3. a \in Seq(D) /\ Len(a) = c /\ \A i \in 1..c : a[i] = cut[i].data
  BY <1>2, ValuesProperties
<1>4. /\ v \in Seq(D) /\ Len(v) = Len(log)
      /\ \A i \in 1..Len(log) : v[i] = log[i].data
  BY ValuesProperties
<1> HIDE DEF a, v, D
<1>5. b \in Seq(D) /\ Len(b) = c /\ \A i \in 1..c : b[i] = v[i]
  <2>1. \A i \in 1..c : i \in 1..Len(v)
    BY <1>1, <1>4 DEF StartOf
  <2>2. \A i \in 1..c : v[i] \in D
    BY <1>4, <2>1, ElementOfSeq
  <2>3. /\ b \in Seq(D) /\ Len(b) = IF 1 <= c THEN c - 1 + 1 ELSE 0
        /\ \A i \in 1..c - 1 + 1 : b[i] = v[1 + i - 1]
    BY <2>2, SubSeqProperties
  <2> HIDE DEF b
  <2> QED BY <2>3
<1> HIDE DEF b
<1>6. \A i \in 1..c : a[i] = b[i]
  <2>1. \A i \in 1..c : i \in 1..Len(own) /\ i \in 1..Len(log)
    BY <1>1 DEF StartOf
  <2> QED BY <1>2, <1>3, <1>4, <1>5, <2>1 DEF StartOf
<1>7. a = b
  BY <1>3, <1>5, <1>6, SeqEqual
<1> QED BY <1>3, <1>7 DEF a, b, v, cut

\* In a step at most one commit index moves.
LEMMA OneCommits ==
  ASSUME Faults \subseteq {"lose"}, TheLeader \in Node, TypeOK, [Next]_vars
  PROVE  \E n \in Node : \A x \in Node :
           x # n => raft'[x].commitIndex = raft[x].commitIndex
<1>1. raft' = raft => \A x \in Node : raft'[x].commitIndex = raft[x].commitIndex
  OBVIOUS
<1>2. ASSUME NEW n \in Node, NEW r, raft' = [raft EXCEPT ![n] = r]
      PROVE  \A x \in Node : x # n => raft'[x].commitIndex = raft[x].commitIndex
  BY <1>2 DEF TypeOK
<1>3. CASE UNCHANGED vars
  BY <1>1, <1>3 DEF vars
<1>4. ASSUME NEW n \in Node,
             \/ TickElection(n) \/ Elect(n) \/ TickHeartbeat(n) \/ Persist(n)
             \/ Bind(n) \/ Crash(n) \/ \E v \in Value : Propose(n, v)
      PROVE  \A x \in Node : x # n => raft'[x].commitIndex = raft[x].commitIndex
  <2>1. raft' = raft \/ \E r : raft' = [raft EXCEPT ![n] = r]
    BY <1>4 DEF TickElection, Elect, TickHeartbeat, Persist, Bind, Crash, Propose,
                Becomes
  <2> QED BY <1>1, <1>2, <2>1
<1>5. ASSUME NEW n \in Node, NEW d \in Node, Discard(n, d) \/ Lose(n, d)
      PROVE  \A x \in Node : x # n => raft'[x].commitIndex = raft[x].commitIndex
  <2>1. \E r : raft' = [raft EXCEPT ![n] = r]
    BY <1>5 DEF Discard, Lose
  <2> QED BY <1>2, <2>1
<1>6. ASSUME NEW n \in Node, NEW src \in Node \ {n}, StepNode(n, src)
      PROVE  \A x \in Node : x # n => raft'[x].commitIndex = raft[x].commitIndex
  <2> DEFINE q == raft[src].sendmsgs[n]
             r == GeneralStep(raft[n], Head(q))
             u == [raft[src] EXCEPT !.sendmsgs[n] = Tail(@)]
  <2>1. raft' = [raft EXCEPT ![n] = r, ![src] = u]
    BY <1>6 DEF StepNode, Takes, TypeOK
  <2>2. u.commitIndex = raft[src].commitIndex
    BY DEF TypeOK, RaftObject
  <2> HIDE DEF r, u
  <2> QED BY <2>1, <2>2 DEF TypeOK
<1>7. /\ \A n \in Node : ~ Restart(n)
      /\ \A n, a, b : ~ Coalesce(a, b, n)
  BY DEF Restart, Coalesce, Fault
<1> QED BY <1>3, <1>4, <1>5, <1>6, <1>7 DEF Next

\* What each node takes for decided is a prefix of the leader's values, as long
\* as its commit index says.
LEMMA DecidedIsPrefix ==
  ASSUME TypeOK, Led, TheLeader \in Node, NEW n \in Node
  PROVE  /\ Values(Decided(n)) = SubSeq(Values(Log(TheLeader)), 1, raft[n].commitIndex)
         /\ Len(Values(Decided(n))) = raft[n].commitIndex
         /\ raft[n].commitIndex \in Nat
         /\ raft[n].commitIndex <= Len(Values(Log(TheLeader)))
         /\ Len(Values(Log(TheLeader))) \in Nat
<1>1. /\ raft[n].commitIndex \in Nat /\ raft[n].commitIndex <= Len(Log(n))
      /\ Log(n) \in Seq(Entry) /\ StartOf(Log(n), Log(TheLeader))
      /\ Log(TheLeader) \in Seq(Entry)
      /\ Len(Log(n)) \in Nat /\ Len(Log(TheLeader)) \in Nat
  BY LedSays
<1>2. Len(Values(Log(TheLeader))) = Len(Log(TheLeader))
  BY <1>1, ValuesProperties
<1>3. Len(Log(n)) <= Len(Log(TheLeader))
  BY <1>1 DEF StartOf
<1>4. raft[n].commitIndex <= Len(Values(Log(TheLeader)))
  BY <1>1, <1>2, <1>3
<1> DEFINE c == raft[n].commitIndex
           own == Log(n)
           log == Log(TheLeader)
<1>5. /\ own \in Seq(Entry) /\ log \in Seq(Entry) /\ StartOf(own, log)
      /\ c \in Nat /\ c <= Len(own) /\ Decided(n) = Truncate(own, c)
  BY <1>1 DEF Decided
<1> HIDE DEF c, own, log
<1>6. /\ Values(Decided(n)) = SubSeq(Values(log), 1, c)
      /\ Len(Values(Decided(n))) = c
  BY <1>5, ValuesDecided
<1> QED BY <1>1, <1>2, <1>4, <1>6 DEF c, log

\* So it is in the next state.
LEMMA DecidedIsPrefixNext ==
  ASSUME TheLeader \in Node, NEW n \in Node
  PROVE  (TypeOK /\ Led)' =>
           (/\ Values(Decided(n)) = SubSeq(Values(Log(TheLeader)), 1, raft[n].commitIndex)
            /\ Len(Values(Decided(n))) = raft[n].commitIndex
            /\ raft[n].commitIndex \in Nat
            /\ raft[n].commitIndex <= Len(Values(Log(TheLeader))))'
<1>1. TypeOK /\ Led =>
           /\ Values(Decided(n)) = SubSeq(Values(Log(TheLeader)), 1, raft[n].commitIndex)
           /\ Len(Values(Decided(n))) = raft[n].commitIndex
           /\ raft[n].commitIndex \in Nat
           /\ raft[n].commitIndex <= Len(Values(Log(TheLeader)))
  BY DecidedIsPrefix
<1> QED BY <1>1, PTL

\* Without a restart no commit index falls.
LEMMA CommitsGrow ==
  ASSUME Faults \subseteq {"lose"}, TypeOK, [Next]_vars, NEW n \in Node
  PROVE  raft'[n].commitIndex >= raft[n].commitIndex
<1>1. Sound
  BY NextSound
<1>2. ~ Reboots(n)
  BY DEF Reboots
<1> QED BY <1>1, <1>2 DEF Sound, Continues, Safe

\* The log begins empty, and nothing is decided.
LEMMA AbstractInit ==
  ASSUME TheLeader \in Node, Init
  PROVE  Abstract!Init
<1>1. \A n \in Node : raft[n].entries = <<>> /\ raft[n].commitIndex = 0
  BY DEF Init, Boot
<1>2. Values(<<>>) = <<>>
  BY DEF Values
<1>3. Truncate(<<>>, 0) = <<>>
  BY DEF Truncate
<1>4. \A n \in Node : Values(Log(n)) = <<>> /\ Values(Decided(n)) = <<>>
  BY <1>1, <1>2, <1>3 DEF Log, Decided
<1> QED BY <1>4 DEF Abstract!Init

\* A step puts a value at the end of the log, or one node learns more of it, or
\* neither changes.
LEMMA AbstractStep ==
  ASSUME IsFiniteSet(Node), Faults \subseteq {"lose"}, TheLeader \in Node,
         TypeOK, TypeOK', Led, Replicates, [Next]_vars
  PROVE  [Abstract!Next]_<<Values(Log(TheLeader)), [n \in Node |-> Values(Decided(n))]>>
<1> DEFINE log == Values(Log(TheLeader))
           committed == [n \in Node |-> Values(Decided(n))]
           known(n) == raft[n].commitIndex
           next(n) == raft'[n].commitIndex
<1>1. \A n \in Node :
        /\ committed[n] = SubSeq(log, 1, known(n)) /\ Len(committed[n]) = known(n)
        /\ known(n) \in Nat /\ known(n) <= Len(log) /\ Len(log) \in Nat
  BY DecidedIsPrefix
<1>2. \A n \in Node :
        /\ committed'[n] = SubSeq(log', 1, next(n))
        /\ next(n) \in Nat /\ next(n) <= Len(log') /\ next(n) >= known(n)
  <2>1. TAKE n \in Node
  <2>2. next(n) >= known(n)
    BY CommitsGrow
  <2>3. (/\ Values(Decided(n)) = SubSeq(Values(Log(TheLeader)), 1, raft[n].commitIndex)
         /\ Len(Values(Decided(n))) = raft[n].commitIndex
         /\ raft[n].commitIndex \in Nat
         /\ raft[n].commitIndex <= Len(Values(Log(TheLeader))))'
    BY DecidedIsPrefixNext DEF Replicates
  <2> QED BY <2>2, <2>3
<1>3. \E n \in Node : \A x \in Node : x # n => next(x) = known(x)
  BY OneCommits
<1>4. /\ committed = [n \in Node |-> committed[n]]
      /\ committed' = [n \in Node |-> committed'[n]]
  OBVIOUS
<1>5. ASSUME Log(TheLeader)' = Log(TheLeader)
      PROVE  \E n \in Node : Abstract!Learn(n)
  <2>1. log' = log
    BY <1>5 DEF Values
  <2>2. PICK n \in Node : \A x \in Node : x # n => next(x) = known(x)
    BY <1>3
  <2> HIDE DEF log, committed, known, next
  <2>3. \A x \in Node : x # n => committed'[x] = committed[x]
    BY <1>1, <1>2, <2>1, <2>2
  <2>4. committed' = [committed EXCEPT ![n] = SubSeq(log, 1, next(n))]
    BY <1>2, <1>4, <2>1, <2>3
  <2>5. next(n) \in Len(committed[n])..Len(log)
    BY <1>1, <1>2, <2>1
  <2>6. committed[n] = SubSeq(log, 1, Len(committed[n]))
    BY <1>1
  <2> QED BY <2>1, <2>4, <2>5, <2>6 DEF Abstract!Learn, log, committed
<1>6. ASSUME NEW v \in Value, NEW e \in Entry, e.data = v,
             Log(TheLeader)' = Append(Log(TheLeader), e),
             \A x \in Node : next(x) = known(x)
      PROVE  Abstract!Accept(v)
  <2> DEFINE own == Log(TheLeader)
             more == Append(own, e)
  <2>1. own \in Seq(Entry) /\ Len(own) \in Nat /\ more \in Seq(Entry)
    BY LedTypes, AppendProperties
  <2>2. StartOf(own, own) /\ StartOf(own, more)
    BY <2>1, StartProperties
  <2>3. Values(more) = Append(log, v)
    BY <1>6, <2>1, ValuesAppend
  <2>4. log' = Values(more)
    BY <1>6 DEF Values
  <2>5. Len(log) = Len(own)
    BY <2>1, ValuesProperties
  <2>6. ASSUME NEW x \in Node
        PROVE  committed'[x] = committed[x]
    <3> DEFINE c == known(x)
    <3>1. c \in Nat /\ c <= Len(own) /\ committed[x] = SubSeq(log, 1, c)
          /\ committed'[x] = SubSeq(log', 1, c)
      BY <1>1, <1>2, <1>6, <2>5
    <3> HIDE DEF c, own, more
    <3>2. /\ Values(Truncate(own, c)) = SubSeq(Values(own), 1, c)
          /\ Values(Truncate(own, c)) = SubSeq(Values(more), 1, c)
      BY <2>1, <2>2, <3>1, ValuesDecided
    <3> QED BY <2>4, <3>1, <3>2 DEF own
  <2>7. committed' = committed
    BY <1>4, <2>6
  <2> QED BY <2>3, <2>4, <2>7 DEF Abstract!Accept
<1> QED BY <1>5, <1>6 DEF Replicates, Abstract!Next

\* The implementation of one log: whatever messages are lost, the leader's log
\* takes proposals at its end and nowhere else, and what a node decides is a
\* prefix of it and only grows (stepProp(), maybeCommit(), maybeAppend()).
THEOREM LogIsReplicated ==
  ASSUME IsFiniteSet(Node), Faults \subseteq {"lose"}, \E l : Electable = {l}
  PROVE  Spec => ImplementsReplicatedLog
<1>1. TheLeader \in Node /\ Electable = {TheLeader}
  BY TheLeaderStands
<1>2. Init => Abstract!Init
  BY <1>1, AbstractInit
<1>3. TypeOK /\ TypeOK' /\ NoVotes /\ AppliedWithinCommit /\ Led /\ [Next]_vars =>
        [Abstract!Next]_<<Values(Log(TheLeader)), [n \in Node |-> Values(Decided(n))]>>
  BY <1>1, NextReplicates, AbstractStep
<1> QED BY <1>2, <1>3, OneLeads, TypeCorrect, AlwaysQuiet, AppliedCorrect, PTL
        DEF Spec, ImplementsReplicatedLog, Abstract!Spec
-----------------------------------------------------------------------------
=============================================================================
