-------------------------------- MODULE Wire --------------------------------
(***************************************************************************)
(* Messages between two Raft objects (raft/raft.cc): one is filled in by   *)
(* its accessors, serialized by tryPopSendbuf() and, with others, a stream *)
(* of bytes without any mark between messages.  tryPushRecvbuf() parses    *)
(* whatever number of bytes popData() happens to return, and nobody looks  *)
(* at the result of ParseFromString().                                     *)
(***************************************************************************)
EXTENDS RaftPb

CONSTANT MaxSent  \* bound on the messages of a behaviour

VARIABLES
  msg,       \* the message that is being filled in
  sent,      \* the messages sent so far, one after the other ...
  stream,    \* ... and their bytes
  received,  \* what was parsed: [from, to: the piece of the stream; msg]
  budget     \* calls left of accessors and of tryPushRecvbuf() (a bound)

wireVars == <<msg, sent, stream, received, budget>>

WireInit(n) ==
  /\ msg = NewMessage
  /\ sent = <<>>
  /\ stream = <<>>
  /\ received = <<>>
  /\ budget = n

\* A handler fills in a message.  Bounds: what is sent is sent before the first
\* bytes are received, which makes no difference to a stream; the last call is
\* left to tryPushRecvbuf().
Edit ==
  /\ budget > 1
  /\ received = <<>>
  /\ msg' \in MessageEdits(msg) \ {msg}
  /\ budget' = budget - 1
  /\ UNCHANGED <<sent, stream, received>>

\* tryPopSendbuf(): the front of the queue is moved out and serialized.
PopSendbuf ==
  /\ Len(sent) < MaxSent
  /\ received = <<>>
  /\ msg # NewMessage
  /\ LET moved == Swap(NewMessage, msg)
     IN  /\ sent' = Append(sent, moved.this)
         /\ stream' = stream \o SerializeMessage(moved.this)
         /\ msg' = moved.other
  /\ UNCHANGED <<received, budget>>

\* The first byte that was not yet received.
Unread == IF received = <<>> THEN 1 ELSE Last(received).to + 1

\* tryPushRecvbuf() of the bytes up to the k-th; with none it does nothing.
PushRecvbuf ==
  /\ budget > 0
  /\ budget' = budget - 1
  /\ \E k \in Unread..Len(stream) :
       received' = Append(received,
         [from |-> Unread, to |-> k,
          msg |-> ParseMessage(NewMessage, SubSeq(stream, Unread, k)).msg])
  /\ UNCHANGED <<msg, sent, stream>>

WireNext == Edit \/ PopSendbuf \/ PushRecvbuf
-----------------------------------------------------------------------------
\* The bytes of the first n messages.
EndOf(n) == Total([i \in 1..n |-> SizeOfMessage(sent[i])])

\* Messages i to j merged into one.
AsOne(i, j) ==
  LET merged[k \in i - 1..j] ==
        IF k = i - 1 THEN NewMessage ELSE MergeMessage(merged[k - 1], sent[k])
  IN  merged[j]

\* What may be left of message `all' when its bytes are cut after some that
\* say `some': every field as it was before the cut or as it was meant.
CutField(f, m, some, all) ==
  \/ m[f] \in {some[f], all[f]}
  \/ f = "context" /\ IsPrefix(m[f], all[f])
  \/ f = "entries" /\ LET n == Len(m[f])
                      IN  /\ n <= Len(all[f])
                          /\ \A i \in 1..n - 1 : m[f][i] = all[f][i]
                          /\ n > 0 => \A g \in DOMAIN NewEntry :
                               \/ m[f][n][g] \in {NewEntry[g], all[f][n][g]}
                               \/ g = "data" /\ IsPrefix(m[f][n][g], all[f][n][g])
  \/ f = "snapshot" /\ all[f] # None

Cut(m, some, all) == \A f \in DOMAIN NewMessage : CutField(f, m, some, all)

\* Bytes that begin where a message begins are read as the messages in them
\* merged into one (tryPushRecvbuf(), raft.cc:949); when the last message is cut
\* off, what is there of it is merged as well, and no field gets a value that
\* nobody sent.  Wherever the bytes begin, the result is an object of the class.
ParsedIsMerged ==
  \A r \in Range(received) : r.msg \in MessageClass /\ \A i \in 1..Len(sent) :
    r.from = EndOf(i - 1) + 1 =>
      \A j \in i - 1..Len(sent) :
        /\ r.to = EndOf(j) => r.msg = AsOne(i, j)
        /\ EndOf(j) < r.to /\ j < Len(sent) /\ r.to < EndOf(j + 1) =>
             Cut(r.msg, AsOne(i, j), AsOne(i, j + 1))

\* The bytes of a string that is 0 in memory.
HasNul(s) == 0 \in Range(s)

\* The numbers of a ConfState are packed, a 0 as well; a sub-message that is
\* there though it says nothing has length 0.
HasZero(c) == c # None /\ 0 \in Range(c.nodes) \cup Range(c.learners)
HoldsNul(m) ==
  \/ HasNul(m.context)
  \/ \E e \in Range(m.entries) : e = NewEntry \/ HasNul(e.data)
  \/ /\ m.snapshot # None
     /\ LET d == m.snapshot.metadata
        IN  \/ m.snapshot = NewSnapshot \/ HasNul(m.snapshot.data)
            \/ /\ d # None
               /\ \/ d = NewSnapshotMetadata \/ d.conf_state = NewConfState
                  \/ HasZero(d.conf_state)

\* handleRead() copies a message up to its first NUL (epoll.cc:74), and so do
\* the readers of the log file: that loses nothing of a message without a NUL
\* in its strings, an empty entry, an empty part of the snapshot or a member 0,
\* whatever its other numbers are.
NulIsInData == HasNul(SerializeMessage(msg)) <=> HoldsNul(msg)
=============================================================================
