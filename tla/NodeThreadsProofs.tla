------------------------- MODULE NodeThreadsProofs -------------------------
(***************************************************************************)
(* Proofs about the threads of a node, for any peers, widths and bounds.   *)
(* What storageLog() writes is followed through its steps, what is due     *)
(* through the flag Ready, and the two queues of what is to be bound       *)
(* through the order in which the ids were announced.                      *)
(***************************************************************************)
EXTENDS NodeThreads, SequenceTheorems,
        WellFoundedInduction, TLAPS

Place == {"check", "block", "asleep", "guard", "copy", "apply", "clear", "ready", "reply",
          "push", "spin"}

PcType == pc \in [Waiter \cup {"step"} -> Place]

\* Nothing is applied or due that is not committed; the log of a follower is
\* numbered by its places.
LogsType ==
  /\ entries \in Seq(Nat)
  /\ commitIndex \in Nat /\ lastApplied \in Nat /\ due \in Nat
  /\ storing \in [at : Nat, front : BOOLEAN, again : BOOLEAN, astray : BOOLEAN]
  /\ Ready \in BOOLEAN /\ wiped \in BOOLEAN
  /\ lastApplied <= commitIndex /\ due <= commitIndex
  /\ ~leads => Numbered

Waiting == pc["persist"] \in {"check", "block", "asleep"}

\* What is due has been applied when the persist thread is about to clear
\* Ready, if Ready was not set again, and from then on until it is set.
DueInv ==
  /\ Waiting /\ ~Ready /\ ~wiped => due <= lastApplied
  /\ At("persist", "clear") /\ ~storing.again => due <= lastApplied

\* Each place up to n has been written or missed.
Covered(n) == \A k \in 1..n : k \in stored \cup missed

\* What is committed behind the end of the log is missed.
PastEnd == commitIndex > Len(entries) => (lastApplied + 1)..commitIndex \subseteq missed

\* What the search has found: the place of what is applied, or nothing, because
\* nothing is applied yet or the log does not reach that far.
Found ==
  \/ storing.astray
  \/ storing.at = Len(entries) + 1 /\ (lastApplied = 0 \/ lastApplied > Len(entries))
  \/ storing.at = lastApplied /\ lastApplied <= Len(entries)

\* And where the copy starts.
Start ==
  \/ storing.astray
  \/ storing.front /\ (lastApplied = 0 \/ lastApplied > Len(entries))
  \/ ~storing.front /\ storing.at = lastApplied

\* What storageLog() has found and written, at each of its steps.
StoredInv ==
  Numbered =>
    /\ Covered(lastApplied) /\ PastEnd
    /\ At("persist", "guard") => Found
    /\ At("persist", "copy") => lastApplied < commitIndex /\ Start
    /\ At("persist", "apply") => storing.astray \/ Covered(commitIndex)

LogsInv == PcType /\ LogsType /\ DueInv /\ StoredInv

\* The descriptors that have been bound.
Bounds == Len(owner) - Len(unknownfd)

\* Descriptors wait in the order in which they were accepted.
DescriptorsInOrder ==
  /\ owner \in Seq(Peer) /\ unknownfd \in Seq(Nat)
  /\ Len(unknownfd) <= Len(owner)
  /\ \A i \in 1..Len(unknownfd) : unknownfd[i] = Bounds + i

\* The ids that wait are the last ones that were announced, and the others are
\* bound, each to the descriptor that was accepted in the place in which it was
\* announced.
IdsInOrder ==
  /\ announced \in Seq(1..Len(owner)) /\ unknownid \in Seq(Peer)
  /\ Len(announced) = Bounds + Len(unknownid)
  /\ \A i \in 1..Len(unknownid) : unknownid[i] = owner[announced[Bounds + i]]
  /\ \A p \in DOMAIN peersfd :
       peersfd[p] \in 1..Bounds /\ p = Narrow(owner[announced[peersfd[p]]])

\* The messages on their way; an id comes over a connection there is.
Sent ==
  {[kind |-> k, from |-> 0] : k \in {"append", "commit", "prop"}}
    \cup {[kind |-> "node", from |-> f] : f \in 1..Len(owner)}

MessagesInv == recvbuf \in Seq(Sent) /\ handed \in Seq(Sent) /\ recvmsgs \in Seq(Sent)

PairInv == DescriptorsInOrder /\ IdsInOrder /\ MessagesInv

ThreadsInv == LogsInv /\ PairInv
-----------------------------------------------------------------------------
(* Where the threads are *)

\* A notification makes a thread that sleeps look again, and nothing else.
LEMMA NotifiedOnly ==
  ASSUME NEW pcs \in [Waiter \cup {"step"} -> Place], NEW t \in Waiter \cup {"step"}
  PROVE  /\ Notified(pcs, t) \in [Waiter \cup {"step"} -> Place]
         /\ \A u \in Waiter \cup {"step"} :
              \/ Notified(pcs, t)[u] = pcs[u]
              \/ pcs[u] = "asleep" /\ Notified(pcs, t)[u] = "check"
BY DEF Notified, Place

\* The persist thread stays where it is, or keeps waiting.
PersistStays ==
  PcType' /\ (pc["persist"]' = pc["persist"] \/ (Waiting /\ Waiting'))

\* A thread other than the persist thread goes on.
LEMMA GotoStays ==
  ASSUME PcType, NEW t \in {"send", "step"}, NEW where \in Place, Goto(t, where)
  PROVE  PersistStays
BY DEF PcType, Goto, PersistStays, Waiter

\* A waiter goes on waiting.
LEMMA WaitsStays ==
  ASSUME PcType, NEW t \in Waiter, Waits(t) \/ WakeUp(t)
  PROVE  PersistStays
<1>1. PICK where \in {"block", "asleep", "check"} :
        Goto(t, where) /\ pc[t] \in {"check", "block", "asleep"}
  BY DEF Waits, Check, FallAsleep, WakeUp, At
<1> QED BY <1>1 DEF PcType, Goto, PersistStays, Waiter, Place, Waiting

\* So does the notification of one.
LEMMA NotifyStays ==
  ASSUME PcType, NEW t \in Waiter, Notify(t)
  PROVE  PersistStays
<1>1. /\ pc' \in [Waiter \cup {"step"} -> Place]
      /\ \A u \in Waiter \cup {"step"} :
           pc'[u] = pc[u] \/ (pc[u] = "asleep" /\ pc'[u] = "check")
  BY NotifiedOnly DEF PcType, Notify
<1>2. pc'["persist"] = pc["persist"] \/ (pc["persist"] = "asleep" /\ pc'["persist"] = "check")
  BY <1>1 DEF Waiter
<1> QED BY <1>1, <1>2 DEF PersistStays, PcType, Waiting

\* And a step of the step thread with a notification.
LEMMA GotoAndNotifyStays ==
  ASSUME PcType, NEW where \in Place, NEW t \in Waiter, GotoAndNotify("step", where, t)
  PROVE  PersistStays /\ pc["step"]' = where
<1> DEFINE pcs == [pc EXCEPT !["step"] = where]
<1>1. pcs \in [Waiter \cup {"step"} -> Place] /\ pcs["step"] = where
      /\ pcs["persist"] = pc["persist"]
  BY DEF PcType, Waiter
<1>2. pc' = Notified(pcs, t)
  BY DEF GotoAndNotify
<1> HIDE DEF pcs
<1>3. /\ pc' \in [Waiter \cup {"step"} -> Place]
      /\ \A u \in Waiter \cup {"step"} :
           pc'[u] = pcs[u] \/ (pcs[u] = "asleep" /\ pc'[u] = "check")
  BY <1>1, <1>2, NotifiedOnly
<1>4. pc'["persist"] = pc["persist"] \/ (pc["persist"] = "asleep" /\ pc'["persist"] = "check")
  BY <1>1, <1>3 DEF Waiter
<1>5. pc'["step"] = where
  <2>1. pc' = IF pcs[t] = "asleep" THEN [pcs EXCEPT ![t] = "check"] ELSE pcs
    BY <1>2 DEF Notified
  <2>2. t # "step"
    BY DEF Waiter
  <2> QED BY <2>1, <2>2, <1>1 DEF Waiter
<1> QED BY <1>3, <1>4, <1>5 DEF PersistStays, PcType, Waiting

\* A step of the persist thread.
LEMMA PersistGoes ==
  ASSUME PcType, NEW where \in Place, Goto("persist", where)
  PROVE  PcType' /\ pc["persist"]' = where
BY DEF PcType, Goto, Waiter
-----------------------------------------------------------------------------
(* The log and what is stored of it *)

\* What leaves the log alone keeps the invariant.
LEMMA LogsKept ==
  ASSUME LogsInv, UNCHANGED logs, UNCHANGED leads, PersistStays
  PROVE  LogsInv'
<1>1. PcType' /\ LogsType'
  BY DEF LogsInv, logs, PersistStays, LogsType, Numbered
<1>2. DueInv'
  BY DEF LogsInv, logs, PersistStays, DueInv, Waiting, At
<1>3. StoredInv'
  <2>1. \A where \in {"apply", "guard", "copy"} :
          pc["persist"]' = where <=> pc["persist"] = where
    BY DEF PersistStays, Waiting
  <2> QED
    BY <2>1 DEF LogsInv, logs, StoredInv, Numbered, Covered, PastEnd, Found, Start, At
<1> QED BY <1>1, <1>2, <1>3 DEF LogsInv

\* An append leaves what is committed alone, and numbers what it brings.
LEMMA FollowerAppends ==
  ASSUME LogsType, Numbered, NEW e \in Appended
  PROVE  /\ e \in Seq(Nat) /\ Len(e) >= commitIndex /\ commitIndex <= Len(entries)
         /\ \A i \in 1..Len(e) : e[i] = i
<1>1. Len(entries) \in Nat /\ entries \in Seq(Nat) /\ commitIndex \in Nat
      /\ \A i \in 1..Len(entries) : entries[i] = i
  BY DEF LogsType, Numbered
<1>2. PICK i \in commitIndex..Len(entries) :
        e = SubSeq(entries, 1, i) \/ e = Append(SubSeq(entries, 1, i), i + 1)
  BY DEF Appended
<1> DEFINE s == SubSeq(entries, 1, i)
<1>3. s \in Seq(Nat) /\ Len(s) = i /\ \A j \in 1..i : s[j] = j
  BY <1>1
<1>4. i \in Nat /\ i + 1 \in Nat
  BY <1>1
<1>5. e = s \/ e = Append(s, i + 1)
  BY <1>2
<1> HIDE DEF s
<1>6. CASE e = s
  BY <1>1, <1>3, <1>4, <1>6
<1>7. CASE e = Append(s, i + 1)
  <2>1. e \in Seq(Nat) /\ Len(e) = i + 1 /\ e[i + 1] = i + 1
        /\ \A j \in 1..i : e[j] = s[j]
    BY <1>3, <1>4, <1>7
  <2> QED BY <1>1, <1>3, <1>4, <2>1
<1> QED BY <1>5, <1>6, <1>7

\* Numbers, away from the sequences whose lengths they are.
LEMMA Numbers ==
  ASSUME NEW a \in Nat, NEW n \in Nat
  PROVE  /\ a + 1 = n + 1 => a = n
         /\ n + 1 >= n
         /\ a > n => a # n
OBVIOUS

\* What a message makes of the log: it does not shrink below what is committed,
\* what is numbered now was numbered before, and a log that does not reach what
\* is applied does not grow and stay numbered.
LEMMA LogGrows ==
  ASSUME LogsType, NEW m, entries' \in NewEntries(m) \/ UNCHANGED entries,
         UNCHANGED <<lastApplied, leads>>
  PROVE  /\ entries' \in Seq(Nat)
         /\ Len(entries') >= Len(entries) \/ Len(entries') >= commitIndex
         /\ ~leads => Numbered'
         /\ Numbered' => Numbered
         /\ Numbered' /\ lastApplied > Len(entries) => Len(entries') = Len(entries)
<1>1. /\ Len(entries) \in Nat /\ entries \in Seq(Nat) /\ DOMAIN entries = 1..Len(entries)
      /\ commitIndex \in Nat /\ lastApplied \in Nat /\ lastApplied <= commitIndex
      /\ ~leads => Numbered
  BY DEF LogsType
<1>2. CASE UNCHANGED entries
  BY <1>1, <1>2 DEF Numbered
<1>3. CASE m.kind = "append" /\ ~leads /\ entries' \in Appended
  <2>1. Numbered
    BY <1>1, <1>3
  <2>2. /\ entries' \in Seq(Nat) /\ Len(entries') >= commitIndex
        /\ commitIndex <= Len(entries)
        /\ \A i \in 1..Len(entries') : entries'[i] = i
    BY <1>3, <2>1, FollowerAppends
  <2>3. Numbered'
    BY <2>2 DEF Numbered
  <2> QED BY <1>1, <2>1, <2>2, <2>3
<1>4. CASE leads /\ entries' = Append(entries, lastApplied + 1)
  <2> DEFINE e == Append(entries, lastApplied + 1)
  <2>0. /\ e \in Seq(Nat) /\ Len(e) = Len(entries) + 1
        /\ e[Len(entries) + 1] = lastApplied + 1
        /\ \A i \in 1..Len(entries) : e[i] = entries[i]
        /\ DOMAIN e = 1..(Len(entries) + 1)
    BY <1>1
  <2> HIDE DEF e
  <2>1. /\ entries' \in Seq(Nat) /\ Len(entries') = Len(entries) + 1
        /\ entries'[Len(entries) + 1] = lastApplied + 1
        /\ \A i \in 1..Len(entries) : entries'[i] = entries[i]
    BY <1>4, <2>0 DEF e
  <2>2. DOMAIN entries' = 1..(Len(entries) + 1)
    BY <1>4, <2>0 DEF e
  <2>3. Numbered' => Numbered /\ lastApplied = Len(entries)
    <3> SUFFICES ASSUME Numbered' PROVE Numbered /\ lastApplied = Len(entries)
      OBVIOUS
    <3>1. \A i \in 1..(Len(entries) + 1) : entries'[i] = i
      BY <2>2 DEF Numbered
    <3>2. \A i \in 1..Len(entries) : entries[i] = i
      <4> TAKE i \in 1..Len(entries)
      <4>1. i \in 1..(Len(entries) + 1)
        BY <1>1
      <4> QED BY <2>1, <3>1, <4>1
    <3>3. Len(entries) + 1 \in 1..(Len(entries) + 1)
      BY <1>1
    <3>4. lastApplied + 1 = Len(entries) + 1
      BY <2>1, <3>1, <3>3
    <3>5. lastApplied = Len(entries)
      BY <1>1, <3>4, Numbers, Zenon
    <3> QED BY <1>1, <3>2, <3>5 DEF Numbered
  <2>4. /\ Len(entries') >= Len(entries)
        /\ lastApplied > Len(entries) => lastApplied # Len(entries)
    BY <1>1, <2>1, Numbers, Zenon
  <2> QED BY <1>4, <2>1, <2>3, <2>4, Zenon
<1> QED BY <1>2, <1>3, <1>4 DEF NewEntries

\* The step thread takes a message.  What storageLog() has found stays right, or
\* what it misses for that is noted.
LEMMA StepNodeLogs ==
  ASSUME LogsInv, StepNode
  PROVE  LogsInv'
<1>1. PICK m : /\ entries' \in NewEntries(m) \/ UNCHANGED entries
               /\ commitIndex' \in NewCommit(m)
               /\ Goto("step", "ready") \/ Goto("step", "reply")
  BY DEF StepNode
<1>2. /\ missed' = missed \cup Missed
      /\ storing' = [storing EXCEPT !.astray = @ \/ Astray]
      /\ UNCHANGED <<lastApplied, Ready, stored, due, wiped, leads>>
  BY DEF StepNode, given
<1>3. PersistStays /\ pc["persist"]' = pc["persist"]
  <2>1. PICK where \in Place : Goto("step", where)
    BY <1>1 DEF Place
  <2>2. pc["persist"]' = pc["persist"]
    BY <2>1 DEF Goto, LogsInv, PcType, Waiter
  <2> QED BY <2>1, <2>2, GotoStays DEF LogsInv
<1>4. /\ entries \in Seq(Nat) /\ Len(entries) \in Nat
      /\ commitIndex \in Nat /\ lastApplied \in Nat /\ lastApplied <= commitIndex
  BY DEF LogsInv, LogsType
<1>5. /\ entries' \in Seq(Nat) /\ Len(entries') \in Nat
      /\ Len(entries') >= Len(entries) \/ Len(entries') >= commitIndex
      /\ ~leads => Numbered'
      /\ Numbered' => Numbered
      /\ Numbered' /\ lastApplied > Len(entries) => Len(entries') = Len(entries)
  BY <1>1, <1>2, LogGrows DEF LogsInv
<1>6. commitIndex' \in Nat /\ commitIndex' >= commitIndex
  BY <1>1, <1>4, ThreadsAssumption DEF NewCommit
<1>7. /\ storing' \in [at : Nat, front : BOOLEAN, again : BOOLEAN, astray : BOOLEAN]
      /\ storing'.at = storing.at /\ storing'.front = storing.front
      /\ storing'.again = storing.again
      /\ storing'.astray = (storing.astray \/ Astray)
  <2>1. Astray \in BOOLEAN
    BY DEF Astray
  <2>2. storing \in [at : Nat, front : BOOLEAN, again : BOOLEAN, astray : BOOLEAN]
    BY DEF LogsInv, LogsType
  <2> QED BY <1>2, <2>1, <2>2
<1>8. LogsType'
  BY <1>2, <1>4, <1>5, <1>6, <1>7 DEF LogsInv, LogsType
<1>9. DueInv'
  BY <1>2, <1>3, <1>7 DEF LogsInv, DueInv, Waiting, At
<1>10. StoredInv'
  <2> SUFFICES ASSUME Numbered'
               PROVE  /\ Covered(lastApplied)' /\ PastEnd'
                      /\ At("persist", "guard")' => Found'
                      /\ At("persist", "copy")' => (lastApplied < commitIndex)' /\ Start'
                      /\ At("persist", "apply")' => storing'.astray \/ Covered(commitIndex)'
    BY DEF StoredInv
  <2>1. /\ Numbered /\ Covered(lastApplied) /\ PastEnd
        /\ At("persist", "guard") => Found
        /\ At("persist", "copy") => lastApplied < commitIndex /\ Start
        /\ At("persist", "apply") => storing.astray \/ Covered(commitIndex)
    BY <1>5 DEF LogsInv, StoredInv
  <2>2. \A where : At("persist", where)' <=> At("persist", where)
    BY <1>3 DEF At
  <2>3. Covered(lastApplied)'
    BY <1>2, <2>1 DEF Covered
  <2>4. PastEnd'
    <3> SUFFICES ASSUME commitIndex' > Len(entries')
                 PROVE  (lastApplied + 1)..commitIndex' \subseteq missed'
      BY <1>2 DEF PastEnd
    <3>1. CASE commitIndex' > commitIndex
      BY <1>2, <3>1 DEF Missed
    <3>2. CASE commitIndex' = commitIndex
      <4>1. commitIndex > Len(entries)
        BY <1>4, <1>5, <3>2
      <4> QED BY <1>2, <2>1, <3>2, <4>1 DEF PastEnd
    <3> QED BY <1>4, <1>6, <3>1, <3>2
  <2>5. ASSUME At("persist", "guard")'
        PROVE  Found'
    <3>1. At("persist", "guard") /\ Found
      BY <2>1, <2>2, <2>5
    <3>2. CASE storing.astray \/ Astray
      BY <1>7, <3>2 DEF Found
    <3>3. CASE ~Astray /\ storing.at = Len(entries) + 1
               /\ (lastApplied = 0 \/ lastApplied > Len(entries))
      <4>1. Len(entries') = Len(entries)
        BY <3>1, <3>3 DEF Astray
      <4> QED BY <1>2, <1>7, <3>3, <4>1 DEF Found
    <3>4. CASE storing.at = lastApplied /\ lastApplied <= Len(entries)
      <4>1. lastApplied <= Len(entries')
        BY <1>4, <1>5, <3>4
      <4> QED BY <1>2, <1>7, <3>4, <4>1 DEF Found
    <3> QED BY <3>1, <3>2, <3>3, <3>4 DEF Found
  <2>6. ASSUME At("persist", "copy")'
        PROVE  (lastApplied < commitIndex)' /\ Start'
    <3>1. lastApplied < commitIndex /\ Start
      BY <2>1, <2>2, <2>6
    <3>2. Start'
      BY <1>2, <1>5, <1>7, <3>1 DEF Start
    <3> QED BY <1>2, <1>4, <1>6, <3>1, <3>2
  <2>7. ASSUME At("persist", "apply")'
        PROVE  storing'.astray \/ Covered(commitIndex)'
    <3>1. At("persist", "apply") /\ (storing.astray \/ Covered(commitIndex))
      BY <2>1, <2>2, <2>7
    <3>2. (commitIndex + 1)..commitIndex' \subseteq missed'
      BY <1>2, <3>1 DEF Missed
    <3>3. CASE Covered(commitIndex)
      <4> SUFFICES ASSUME NEW k \in 1..commitIndex'
                   PROVE  k \in stored' \cup missed'
        BY DEF Covered
      <4>1. CASE k \in 1..commitIndex
        BY <1>2, <3>3, <4>1 DEF Covered
      <4>2. CASE k \in (commitIndex + 1)..commitIndex'
        BY <3>2, <4>2
      <4> QED BY <1>4, <1>6, <4>1, <4>2
    <3> QED BY <1>7, <3>1, <3>3
  <2> QED BY <2>3, <2>4, <2>5, <2>6, <2>7
<1> QED BY <1>3, <1>8, <1>9, <1>10 DEF LogsInv, PersistStays

\* Ready is set: what is committed is due.
LEMMA SetReadyLogs ==
  ASSUME LogsInv, SetReady
  PROVE  LogsInv'
<1>1. PersistStays
  BY GotoAndNotifyStays DEF SetReady, LogsInv, Place, Waiter
<1>2. /\ Ready' = TRUE /\ due' = commitIndex
      /\ UNCHANGED <<entries, commitIndex, lastApplied, stored, missed, wiped, leads>>
  BY DEF SetReady, given
<1>3. /\ storing' \in [at : Nat, front : BOOLEAN, again : BOOLEAN, astray : BOOLEAN]
      /\ storing'.at = storing.at /\ storing'.again = Storing
      /\ storing'.front = storing.front /\ storing'.astray = storing.astray
  <2>1. Storing \in BOOLEAN /\ storing' = [storing EXCEPT !.again = Storing]
    BY DEF SetReady, Storing
  <2>2. storing \in [at : Nat, front : BOOLEAN, again : BOOLEAN, astray : BOOLEAN]
    BY DEF LogsInv, LogsType
  <2> QED BY <2>1, <2>2
<1>4. LogsType'
  BY <1>2, <1>3 DEF LogsInv, LogsType, Numbered
<1>5. \A where \in {"apply", "guard", "copy", "clear"} :
        pc["persist"]' = where <=> pc["persist"] = where
  BY <1>1 DEF PersistStays, Waiting
<1>6. DueInv'
  BY <1>2, <1>3, <1>5 DEF DueInv, At, Storing
<1>7. StoredInv'
  BY <1>2, <1>3, <1>5 DEF LogsInv, StoredInv, Numbered, Covered, PastEnd, Found, Start, At
<1> QED BY <1>1, <1>4, <1>6, <1>7 DEF LogsInv, PersistStays

\* A set of numbers has a least one.
LEMMA LeastOf ==
  ASSUME NEW S \in SUBSET Nat, S # {}
  PROVE  \E i \in S : \A j \in S : i <= j
<1>1. PICK i \in S : \A j \in S : <<j, i>> \notin OpToRel(<, Nat)
  BY NatLessThanWellFounded, WFMin, Zenon
<1>2. \A j \in S : ~(j < i)
  BY <1>1, Zenon DEF OpToRel
<1> QED BY <1>2

\* storageLog() looks for the entry numbered lastApplied: when entries are
\* numbered by their places, it finds that place, or nothing when nothing is
\* applied or the log does not reach that far.
LEMMA StorageLocateLogs ==
  ASSUME LogsInv, StorageLocate
  PROVE  LogsInv'
<1> DEFINE there == {i \in DOMAIN entries : entries[i] = lastApplied}
           at == IF there = {} THEN Len(entries) + 1
                 ELSE CHOOSE i \in there : \A j \in there : i <= j
<1>1. /\ Begins("persist") /\ Goto("persist", "guard")
      /\ storing' = [storing EXCEPT !.again = FALSE, !.astray = FALSE, !.at = at]
      /\ UNCHANGED <<entries, commitIndex, lastApplied, Ready, stored, missed, due, wiped, leads>>
  BY DEF StorageLocate, given
<1>2. PcType' /\ pc["persist"]' = "guard" /\ pc["persist"] = "check"
  BY <1>1, PersistGoes DEF LogsInv, Place, Begins, At
<1>3. /\ there \subseteq Nat \ {0} /\ DOMAIN entries = 1..Len(entries) /\ Len(entries) \in Nat
      /\ lastApplied \in Nat
  BY DEF LogsInv, LogsType
<1>4. at \in Nat
  <2>1. CASE there = {}
    BY <2>1, <1>3
  <2>2. CASE there # {}
    <3>1. PICK i \in there : \A j \in there : i <= j
      BY <1>3, <2>2, LeastOf
    <3>2. at \in there
      BY <3>1, <2>2
    <3> QED BY <3>2, <1>3
  <2> QED BY <2>1, <2>2
<1>5. Numbered => \/ at = Len(entries) + 1 /\ (lastApplied = 0 \/ lastApplied > Len(entries))
                  \/ at = lastApplied /\ lastApplied <= Len(entries)
  <2> SUFFICES ASSUME Numbered
               PROVE  \/ at = Len(entries) + 1 /\ (lastApplied = 0 \/ lastApplied > Len(entries))
                      \/ at = lastApplied /\ lastApplied <= Len(entries)
    OBVIOUS
  <2>1. \A i \in there : i = lastApplied
    BY DEF Numbered
  <2>2. CASE there = {}
    <3>1. lastApplied \notin 1..Len(entries)
      BY <2>2, <1>3 DEF Numbered
    <3> QED BY <3>1, <2>2, <1>3
  <2>3. CASE there # {}
    <3>1. there = {lastApplied} /\ lastApplied \in 1..Len(entries)
      BY <2>1, <2>3, <1>3
    <3> HIDE DEF there
    <3>2. \A j \in there : lastApplied <= j
      BY <3>1, <1>3
    <3> QED BY <3>1, <3>2, <1>3
  <2> QED BY <2>2, <2>3
<1> HIDE DEF at, there
<1>6. /\ storing' \in [at : Nat, front : BOOLEAN, again : BOOLEAN, astray : BOOLEAN]
      /\ storing'.at = at /\ storing'.again = FALSE
  BY <1>1, <1>4 DEF LogsInv, LogsType
<1>7. LogsType'
  BY <1>1, <1>6 DEF LogsInv, LogsType, Numbered
<1>8. DueInv'
  BY <1>2 DEF DueInv, Waiting, At
<1>9. StoredInv'
  BY <1>1, <1>2, <1>5, <1>6 DEF LogsInv, StoredInv, Numbered, Covered, PastEnd, Found, At
<1> QED BY <1>2, <1>7, <1>8, <1>9 DEF LogsInv

\* Each place that is written or missed up to one, and from there to another.
LEMMA CoveredMore ==
  ASSUME NEW i \in Nat, NEW j \in Nat, Covered(i), (i + 1)..j \subseteq stored \cup missed
  PROVE  Covered(j)
<1> SUFFICES ASSUME NEW k \in 1..j PROVE k \in stored \cup missed
  BY DEF Covered
<1>1. CASE k \in 1..i
  BY <1>1 DEF Covered
<1>2. CASE k \in (i + 1)..j
  BY <1>2
<1> QED BY <1>1, <1>2

\* It copies unless there is nothing to copy or the log is too short.
LEMMA StorageGuardLogs ==
  ASSUME LogsInv, StorageGuard
  PROVE  LogsInv'
<1>1. /\ pc["persist"] = "guard"
      /\ storing' = [storing EXCEPT !.front = storing.at = Len(entries) + 1]
      /\ Goto("persist", IF /\ lastApplied < commitIndex
                            /\ commitIndex - lastApplied <= Len(entries)
                         THEN "copy" ELSE "apply")
      /\ UNCHANGED <<entries, commitIndex, lastApplied, Ready, stored, missed, due, wiped, leads>>
  BY DEF StorageGuard, At, given
<1>2. /\ Len(entries) \in Nat /\ commitIndex \in Nat /\ lastApplied \in Nat
      /\ lastApplied <= commitIndex
  BY DEF LogsInv, LogsType
<1>3. /\ storing' \in [at : Nat, front : BOOLEAN, again : BOOLEAN, astray : BOOLEAN]
      /\ storing'.at = storing.at /\ storing'.astray = storing.astray
      /\ storing'.front = (storing.at = Len(entries) + 1)
  BY <1>1 DEF LogsInv, LogsType
<1>4. LogsType'
  BY <1>1, <1>3 DEF LogsInv, LogsType, Numbered
<1>5. Numbered => Covered(lastApplied) /\ PastEnd /\ Found
  BY <1>1 DEF LogsInv, StoredInv, At
<1>6. CASE lastApplied < commitIndex /\ commitIndex - lastApplied <= Len(entries)
  <2>1. PcType' /\ pc["persist"]' = "copy"
    BY <1>1, <1>6, PersistGoes DEF LogsInv, Place
  <2>2. Numbered => Start'
    BY <1>1, <1>2, <1>3, <1>5 DEF Found, Start
  <2>3. StoredInv'
    BY <1>1, <1>5, <1>6, <2>1, <2>2 DEF StoredInv, Numbered, Covered, PastEnd, At
  <2>4. DueInv'
    BY <2>1 DEF DueInv, Waiting, At
  <2> QED BY <1>4, <2>1, <2>3, <2>4 DEF LogsInv
<1>7. CASE ~(lastApplied < commitIndex /\ commitIndex - lastApplied <= Len(entries))
  <2>1. PcType' /\ pc["persist"]' = "apply"
    BY <1>1, <1>7, PersistGoes DEF LogsInv, Place
  <2>2. lastApplied = commitIndex \/ commitIndex > Len(entries)
    BY <1>2, <1>7
  <2>3. Numbered => Covered(commitIndex)
    BY <1>2, <1>5, <2>2, CoveredMore DEF PastEnd
  <2>4. StoredInv'
    BY <1>1, <1>5, <2>1, <2>3 DEF StoredInv, Numbered, Covered, PastEnd, At
  <2>5. DueInv'
    BY <2>1 DEF DueInv, Waiting, At
  <2> QED BY <1>4, <2>1, <2>4, <2>5 DEF LogsInv
<1> QED BY <1>6, <1>7

\* It copies what has been committed and not applied, as far as the log goes.
LEMMA StorageCopyLogs ==
  ASSUME LogsInv, StorageCopy
  PROVE  LogsInv'
<1>1. /\ pc["persist"] = "copy"
      /\ UNCHANGED <<entries, commitIndex, lastApplied, Ready, storing, missed, due, wiped, leads>>
      /\ \/ Goto("persist", "apply") /\ stored' = stored \cup (Batch \cap DOMAIN entries)
         \/ UNCHANGED <<pc, stored>>
  BY DEF StorageCopy, At, given
<1>2. CASE UNCHANGED <<pc, stored>>
  BY <1>1, <1>2, LogsKept DEF LogsInv, PersistStays, PcType, logs
<1>3. CASE Goto("persist", "apply") /\ stored' = stored \cup (Batch \cap DOMAIN entries)
  <2>1. PcType' /\ pc["persist"]' = "apply"
    BY <1>3, PersistGoes DEF LogsInv, Place
  <2>2. LogsType'
    BY <1>1 DEF LogsInv, LogsType, Numbered
  <2>3. DueInv'
    BY <2>1 DEF DueInv, Waiting, At
  <2>4. /\ Len(entries) \in Nat /\ commitIndex \in Nat /\ lastApplied \in Nat
        /\ lastApplied <= commitIndex /\ DOMAIN entries = 1..Len(entries)
    BY DEF LogsInv, LogsType
  <2>5. StoredInv'
    <3> SUFFICES ASSUME Numbered, ~storing.astray
                 PROVE  Covered(commitIndex)'
      BY <1>1, <1>3, <2>1 DEF LogsInv, StoredInv, Numbered, Covered, PastEnd, At
    <3>1. Covered(lastApplied) /\ PastEnd /\ Start
      BY <1>1 DEF LogsInv, StoredInv, At
    <3>2. CASE commitIndex > Len(entries)
      <4>1. Covered(commitIndex)
        BY <2>4, <3>1, <3>2, CoveredMore DEF PastEnd
      <4> QED BY <1>1, <1>3, <4>1 DEF Covered
    <3>3. CASE commitIndex <= Len(entries)
      <4>1. (lastApplied + 1)..commitIndex \subseteq Batch \cap DOMAIN entries
        <5>1. lastApplied + (commitIndex - lastApplied) = commitIndex
          BY <2>4
        <5>2. storing.front \/ storing.at = lastApplied
          BY <3>1 DEF Start
        <5>3. Batch = 1..commitIndex \/ Batch = (lastApplied + 1)..commitIndex
          BY <5>1, <5>2 DEF Batch
        <5> QED BY <2>4, <3>3, <5>3
      <4> SUFFICES ASSUME NEW k \in 1..commitIndex
                   PROVE  k \in stored' \cup missed'
        BY <1>1 DEF Covered
      <4>2. CASE k \in 1..lastApplied
        BY <1>1, <1>3, <3>1, <4>2 DEF Covered
      <4>3. CASE k \in (lastApplied + 1)..commitIndex
        BY <1>3, <4>1, <4>3
      <4> QED BY <2>4, <4>2, <4>3
    <3> QED BY <2>4, <3>2, <3>3
  <2> QED BY <2>1, <2>2, <2>3, <2>5 DEF LogsInv
<1> QED BY <1>1, <1>2, <1>3

\* What is committed counts as applied.
LEMMA AppliedToLogs ==
  ASSUME LogsInv, AppliedTo
  PROVE  LogsInv'
<1>1. /\ pc["persist"] = "apply" /\ Goto("persist", "clear")
      /\ UNCHANGED <<entries, commitIndex, Ready, storing, stored, due, wiped, leads>>
      /\ missed' = missed \cup (IF storing.astray THEN (lastApplied + 1)..commitIndex ELSE {})
      /\ lastApplied' = commitIndex
  BY DEF AppliedTo, At, LogsInv, LogsType, given
<1>2. PcType' /\ pc["persist"]' = "clear"
  BY <1>1, PersistGoes DEF LogsInv, Place
<1>3. /\ commitIndex \in Nat /\ lastApplied \in Nat /\ lastApplied <= commitIndex
  BY DEF LogsInv, LogsType
<1>4. LogsType'
  BY <1>1 DEF LogsInv, LogsType, Numbered
<1>5. DueInv'
  BY <1>1, <1>2 DEF DueInv, Waiting, At, LogsInv, LogsType
<1>6. StoredInv'
  <2> SUFFICES ASSUME Numbered PROVE Covered(commitIndex)' /\ PastEnd'
    BY <1>1, <1>2 DEF StoredInv, Numbered, Covered, At
  <2>1. Covered(lastApplied) /\ (storing.astray \/ Covered(commitIndex))
    BY <1>1 DEF LogsInv, StoredInv, At
  <2>2. PastEnd'
    BY <1>1, <1>3 DEF PastEnd
  <2>3. CASE Covered(commitIndex)
    BY <1>1, <2>2, <2>3 DEF Covered
  <2>4. CASE storing.astray
    <3>1. (lastApplied + 1)..commitIndex \subseteq missed'
      BY <1>1, <2>4
    <3> SUFFICES ASSUME NEW k \in 1..commitIndex
                 PROVE  k \in stored' \cup missed'
      BY <1>1, <2>2 DEF Covered
    <3>2. CASE k \in 1..lastApplied
      BY <1>1, <2>1, <3>2 DEF Covered
    <3>3. CASE k \in (lastApplied + 1)..commitIndex
      BY <3>1, <3>3
    <3> QED BY <1>3, <3>2, <3>3
  <2> QED BY <2>1, <2>3, <2>4
<1> QED BY <1>2, <1>4, <1>5, <1>6 DEF LogsInv

\* Ready is cleared: if it had been set again meanwhile, it is wiped.
LEMMA ClearReadyLogs ==
  ASSUME LogsInv, ClearReady
  PROVE  LogsInv'
<1>1. /\ pc["persist"] = "clear" /\ Goto("persist", "check")
      /\ UNCHANGED <<entries, commitIndex, lastApplied, stored, missed, due, leads>>
      /\ Ready' = FALSE /\ wiped' = (wiped \/ storing.again) /\ storing' = NotStoring
  BY DEF ClearReady, At, given
<1>2. PcType' /\ pc["persist"]' = "check"
  BY <1>1, PersistGoes DEF LogsInv, Place
<1>3. storing' \in [at : Nat, front : BOOLEAN, again : BOOLEAN, astray : BOOLEAN]
      /\ wiped' \in BOOLEAN
  BY <1>1 DEF NotStoring, LogsInv, LogsType
<1>4. LogsType'
  BY <1>1, <1>3 DEF LogsInv, LogsType, Numbered
<1>5. DueInv'
  BY <1>1, <1>2 DEF LogsInv, DueInv, Waiting, At
<1>6. StoredInv'
  BY <1>1, <1>2 DEF LogsInv, StoredInv, Numbered, Covered, PastEnd, At
<1> QED BY <1>2, <1>4, <1>5, <1>6 DEF LogsInv

\* Every step keeps what the invariant says of the log.
LEMMA LogsNext ==
  ASSUME LogsInv, [Next]_vars
  PROVE  LogsInv'
<1> USE DEF LogsInv
<1>1. CASE UNCHANGED pc /\ UNCHANGED logs /\ UNCHANGED given
  BY <1>1, LogsKept DEF PersistStays, PcType, given
<1>2. ASSUME NEW t \in Waiter, Waits(t) \/ WakeUp(t)
      PROVE  LogsInv'
  BY <1>2, WaitsStays, LogsKept DEF Waits, Check, FallAsleep, WakeUp, Stays, given
<1>3. CASE Notify("send") /\ UNCHANGED logs /\ UNCHANGED given
  BY <1>3, NotifyStays, LogsKept DEF Waiter, given
<1>4. CASE StepPushed
  <2>1. PersistStays
    BY <1>4, GotoAndNotifyStays DEF StepPushed, Place, Waiter
  <2> QED BY <1>4, <2>1, LogsKept DEF StepPushed, given
<1>5. ASSUME NEW where \in Place, Goto("send", where), UNCHANGED logs, UNCHANGED given
      PROVE  LogsInv'
  BY <1>5, GotoStays, LogsKept DEF given
<1> USE <1>1, <1>3
<1>6. CASE UNCHANGED vars
  BY <1>6 DEF vars, logs
<1>7. CASE Environment
  <2>1. CASE ArrivesNode \/ ArrivesOther
    BY <2>1 DEF ArrivesNode, ArrivesOther, Arrives
  <2>2. CASE Propose \/ Sticks \/ Recovers \/ \E p \in Peer : Accept(p)
    BY <2>2 DEF Propose, Accept, Sticks, Recovers
  <2> QED BY <1>7, <1>2, <2>1, <2>2 DEF Environment
<1>8. CASE Receives
  BY <1>8 DEF Receives, PopData, TryPushRecvbuf
<1>9. CASE Sends
  <2>1. CASE Waits("send")
    BY <2>1, <1>2 DEF Waiter
  <2>2. CASE TryPopSendbuf \/ PushData
    <3>1. UNCHANGED logs /\ UNCHANGED given
          /\ (UNCHANGED pc \/ \E where \in Place : Goto("send", where))
      BY <2>2 DEF TryPopSendbuf, PushData, Place
    <3> QED BY <3>1, <1>5
  <2> QED BY <1>9, <2>1, <2>2 DEF Sends
<1>10. CASE Steps
  BY <1>10, <1>4, StepNodeLogs, SetReadyLogs DEF Steps
<1>11. CASE Binds \/ Written
  BY <1>11 DEF Binds, Bind, Written
<1>12. CASE Persists
  BY <1>12, <1>2, StorageLocateLogs, StorageGuardLogs, StorageCopyLogs, AppliedToLogs,
     ClearReadyLogs DEF Persists, Waiter
<1>13. CASE Tick
  BY <1>13 DEF Tick
<1> QED BY <1>6, <1>7, <1>8, <1>9, <1>10, <1>11, <1>12, <1>13 DEF Next, Ended

\* It holds at all times.
LEMMA LogsAlways == Spec => []LogsInv
<1>1. ASSUME Init PROVE LogsInv
  <2>1. PcType /\ pc["persist"] = "check"
    BY <1>1 DEF Init, PcType, Place, Waiter
  <2>2. LogsType
    <3>1. entries \in Seq(Nat) /\ Len(entries) = 0 /\ Numbered
      BY <1>1 DEF Init, Numbered
    <3>2. storing \in [at : Nat, front : BOOLEAN, again : BOOLEAN, astray : BOOLEAN]
      BY <1>1 DEF Init, NotStoring
    <3>3. /\ commitIndex = 0 /\ lastApplied = 0 /\ due = 0
          /\ Ready = FALSE /\ wiped = FALSE
      BY <1>1 DEF Init
    <3>4. /\ commitIndex \in Nat /\ lastApplied \in Nat /\ due \in Nat
          /\ lastApplied <= commitIndex /\ due <= commitIndex
      BY <3>3
    <3> QED BY <3>1, <3>2, <3>3, <3>4, Zenon DEF LogsType
  <2>3. Covered(lastApplied) /\ PastEnd
    BY <1>1 DEF Init, Covered, PastEnd
  <2> QED BY <1>1, <2>1, <2>2, <2>3 DEF LogsInv, DueInv, StoredInv, At, Init
<1> QED BY <1>1, LogsNext, PTL DEF Spec
-----------------------------------------------------------------------------
(* What is applied *)

\* Whatever the step thread appends, truncates and commits at any step of
\* storageLog(), each place that counts as applied has been written, save those
\* that a commit gave it no chance to write (Node::run(), storageLog(),
\* commitTo()).
THEOREM AppliedIsStored == Spec => []AppliedWasStored
<1>1. LogsInv => AppliedWasStored
  BY DEF LogsInv, StoredInv, Covered, AppliedWasStored
<1> QED BY <1>1, LogsAlways, PTL

\* What was committed when entries were last added is applied when the persist
\* thread waits again with Ready clear, unless Ready was wiped (node.cc:253).
THEOREM DueGetsApplied == Spec => []DueIsApplied
<1>1. LogsInv => DueIsApplied
  BY DEF LogsInv, LogsType, DueInv, Waiting, DueIsApplied
<1> QED BY <1>1, LogsAlways, PTL
-----------------------------------------------------------------------------
(* Who is behind a descriptor *)

\* What leaves the queues alone keeps the invariant.
LEMMA PairKept ==
  ASSUME PairInv, UNCHANGED binding, MessagesInv'
  PROVE  PairInv'
BY DEF PairInv, binding, DescriptorsInOrder, IdsInOrder, Bounds

\* Messages may be moved, or one that there is may be added.
LEMMA MessagesMove ==
  ASSUME PairInv, UNCHANGED owner,
         recvbuf' \in Seq(Sent) /\ handed' \in Seq(Sent) /\ recvmsgs' \in Seq(Sent)
  PROVE  MessagesInv'
BY DEF MessagesInv, Sent

\* A sequence over a set is one over a larger set.
LEMMA SeqInSeq ==
  ASSUME NEW S, NEW T, S \subseteq T, NEW s \in Seq(S)
  PROVE  s \in Seq(T)
OBVIOUS

\* A connection is accepted: its descriptor is the newest.
LEMMA AcceptPair ==
  ASSUME PairInv, NEW p \in Peer, Accept(p)
  PROVE  PairInv'
<1> DEFINE f == Len(owner) + 1
<1>1. /\ owner' = Append(owner, p) /\ unknownfd' = Append(unknownfd, f)
      /\ UNCHANGED <<unknownid, peersfd, announced, recvbuf, handed, recvmsgs>>
  BY DEF Accept
<1>2. /\ owner \in Seq(Peer) /\ unknownfd \in Seq(Nat)
      /\ Len(owner) \in Nat /\ Len(unknownfd) \in Nat /\ Len(unknownfd) <= Len(owner)
      /\ \A i \in 1..Len(unknownfd) : unknownfd[i] = Bounds + i
  BY DEF PairInv, DescriptorsInOrder
<1>3. /\ owner' \in Seq(Peer) /\ Len(owner') = Len(owner) + 1
      /\ \A i \in 1..Len(owner) : owner'[i] = owner[i]
  BY <1>1, <1>2
<1>4. /\ unknownfd' \in Seq(Nat) /\ Len(unknownfd') = Len(unknownfd) + 1
      /\ \A i \in 1..Len(unknownfd) : unknownfd'[i] = unknownfd[i]
      /\ unknownfd'[Len(unknownfd) + 1] = f
  BY <1>1, <1>2
<1>5. Bounds' = Bounds /\ Bounds \in Nat /\ Bounds + Len(unknownfd) = Len(owner)
  BY <1>2, <1>3, <1>4 DEF Bounds
<1>6. DescriptorsInOrder'
  <2>1. ASSUME NEW i \in 1..Len(unknownfd')
        PROVE  unknownfd'[i] = Bounds' + i
    <3>1. CASE i \in 1..Len(unknownfd)
      BY <3>1, <1>2, <1>4, <1>5
    <3>2. CASE i = Len(unknownfd) + 1
      BY <3>2, <1>2, <1>4, <1>5
    <3> QED BY <3>1, <3>2, <1>2, <1>4
  <2> QED BY <2>1, <1>2, <1>3, <1>4 DEF DescriptorsInOrder
<1>7. IdsInOrder'
  <2>1. /\ announced \in Seq(1..Len(owner)) /\ unknownid \in Seq(Peer)
        /\ Len(announced) = Bounds + Len(unknownid)
        /\ \A i \in 1..Len(unknownid) : unknownid[i] = owner[announced[Bounds + i]]
        /\ \A q \in DOMAIN peersfd :
             peersfd[q] \in 1..Bounds /\ q = Narrow(owner[announced[peersfd[q]]])
    BY DEF PairInv, IdsInOrder
  <2>2. /\ Len(unknownid) \in Nat
        /\ \A i \in 1..Len(announced) : announced[i] \in 1..Len(owner)
    BY <2>1
  <2>a. Len(announced) = Bounds + Len(unknownid) /\ Len(unknownid) \in Nat
    BY <2>1, <2>2, Zenon
  <2>3. announced \in Seq(1..Len(owner'))
    <3>1. 1..Len(owner) \subseteq 1..Len(owner')
      BY <1>2, <1>3
    <3> DEFINE Now == 1..Len(owner)
               Then == 1..Len(owner')
    <3>2. announced \in Seq(Now) /\ Now \subseteq Then
      BY <2>1, <3>1
    <3> HIDE DEF Now, Then
    <3>3. announced \in Seq(Then)
      BY <3>2, SeqInSeq
    <3> QED BY <3>3 DEF Then
  <2>4. \A j \in 1..Len(announced) : owner'[announced[j]] = owner[announced[j]]
    BY <1>3, <2>2
  <2>5. \A i \in 1..Len(unknownid) : unknownid[i] = owner'[announced[Bounds + i]]
    <3> TAKE i \in 1..Len(unknownid)
    <3>1. Bounds + i \in 1..Len(announced)
      BY <1>5, <2>a
    <3> QED BY <2>1, <2>4, <3>1
  <2>6. \A q \in DOMAIN peersfd : q = Narrow(owner'[announced[peersfd[q]]])
    <3> TAKE q \in DOMAIN peersfd
    <3>1. peersfd[q] \in 1..Bounds /\ q = Narrow(owner[announced[peersfd[q]]])
      BY <2>1, Zenon
    <3>2. peersfd[q] \in 1..Len(announced)
      BY <1>5, <2>a, <3>1
    <3>3. owner'[announced[peersfd[q]]] = owner[announced[peersfd[q]]]
      BY <2>4, <3>2
    <3> QED BY <3>1, <3>3
  <2> QED BY <1>1, <1>5, <2>1, <2>3, <2>5, <2>6 DEF IdsInOrder
<1>8. MessagesInv'
  <2>1. Sent \subseteq Sent'
    <3>1. 1..Len(owner) \subseteq 1..Len(owner')
      BY <1>2, <1>3
    <3> QED BY <3>1 DEF Sent
  <2> QED BY <1>1, <2>1 DEF PairInv, MessagesInv
<1> QED BY <1>6, <1>7, <1>8 DEF PairInv

\* A peer's id is queued, with the descriptor over which it came.
LEMMA StepNodePair ==
  ASSUME PairInv, StepNode
  PROVE  PairInv'
<1> DEFINE m == Head(recvmsgs)
<1>1. /\ recvmsgs # <<>> /\ recvmsgs' = Tail(recvmsgs)
      /\ UNCHANGED <<recvbuf, handed, owner, unknownfd, peersfd>>
      /\ IF m.kind = "node"
         THEN /\ unknownid' = Append(unknownid, owner[m.from])
              /\ announced' = Append(announced, m.from)
         ELSE UNCHANGED <<unknownid, announced>>
  BY DEF StepNode
<1>2. recvmsgs \in Seq(Sent) /\ m \in Sent
  BY <1>1, EmptySeq DEF PairInv, MessagesInv
<1>3. MessagesInv'
  BY <1>1, <1>2, MessagesMove DEF PairInv, MessagesInv
<1>4. CASE m.kind # "node"
  BY <1>1, <1>3, <1>4, PairKept DEF binding
<1>5. CASE m.kind = "node"
  <2>1. m.from \in 1..Len(owner)
    BY <1>2, <1>5 DEF Sent
  <2> DEFINE f == m.from
  <2>2. unknownid' = Append(unknownid, owner[f]) /\ announced' = Append(announced, f)
    BY <1>1, <1>5
  <2> HIDE DEF m, f
  <2>3. DescriptorsInOrder' /\ Bounds' = Bounds
    BY <1>1 DEF PairInv, DescriptorsInOrder, Bounds
  <2>4. /\ announced \in Seq(1..Len(owner)) /\ unknownid \in Seq(Peer)
        /\ Len(announced) = Bounds + Len(unknownid)
        /\ \A i \in 1..Len(unknownid) : unknownid[i] = owner[announced[Bounds + i]]
        /\ \A q \in DOMAIN peersfd :
             peersfd[q] \in 1..Bounds /\ q = Narrow(owner[announced[peersfd[q]]])
    BY DEF PairInv, IdsInOrder
  <2>5. /\ Len(owner) \in Nat /\ owner \in Seq(Peer) /\ Bounds \in Nat
        /\ Len(unknownid) \in Nat /\ Len(announced) \in Nat
        /\ f \in 1..Len(owner) /\ owner[f] \in Peer
    BY <2>1, <2>4 DEF PairInv, DescriptorsInOrder, Bounds, f
  <2>6. /\ unknownid' \in Seq(Peer) /\ Len(unknownid') = Len(unknownid) + 1
        /\ \A i \in 1..Len(unknownid) : unknownid'[i] = unknownid[i]
        /\ unknownid'[Len(unknownid) + 1] = owner[f]
    BY <2>2, <2>4, <2>5
  <2>7. /\ announced' \in Seq(1..Len(owner)) /\ Len(announced') = Len(announced) + 1
        /\ \A i \in 1..Len(announced) : announced'[i] = announced[i]
        /\ announced'[Len(announced) + 1] = f
    BY <2>2, <2>4, <2>5
  <2>8. \A i \in 1..Len(unknownid') : unknownid'[i] = owner[announced'[Bounds + i]]
    <3> SUFFICES ASSUME NEW i \in 1..Len(unknownid')
                 PROVE  unknownid'[i] = owner[announced'[Bounds + i]]
      OBVIOUS
    <3>1. CASE i \in 1..Len(unknownid)
      <4>1. Bounds + i \in 1..Len(announced)
        BY <2>4, <2>5, <3>1
      <4> QED BY <2>4, <2>6, <2>7, <3>1, <4>1
    <3>2. CASE i = Len(unknownid) + 1
      <4>1. Bounds + i = Len(announced) + 1
        BY <2>4, <2>5, <3>2
      <4> QED BY <2>6, <2>7, <3>2, <4>1
    <3> QED BY <2>5, <2>6, <3>1, <3>2
  <2>9. \A q \in DOMAIN peersfd :
          peersfd[q] \in 1..Bounds /\ q = Narrow(owner[announced'[peersfd[q]]])
    <3>1. \A j \in 1..Bounds : announced'[j] = announced[j]
      <4> TAKE j \in 1..Bounds
      <4>1. j \in 1..Len(announced)
        BY <2>4, <2>5
      <4> QED BY <2>7, <4>1
    <3> QED BY <2>4, <3>1
  <2>10. Len(announced') = Bounds + Len(unknownid')
    BY <2>4, <2>5, <2>6, <2>7
  <2>11. IdsInOrder'
    BY <1>1, <2>3, <2>6, <2>7, <2>8, <2>9, <2>10 DEF IdsInOrder
  <2> QED BY <1>3, <2>3, <2>11 DEF PairInv
<1> QED BY <1>4, <1>5

\* The oldest id is bound to the oldest descriptor.
LEMMA BindPair ==
  ASSUME PairInv, Bind
  PROVE  PairInv'
<1>1. /\ unknownfd # <<>> /\ unknownid # <<>>
      /\ peersfd' = Bound(Narrow(Head(unknownid)), Head(unknownfd))
      /\ unknownid' = Tail(unknownid) /\ unknownfd' = Tail(unknownfd)
      /\ UNCHANGED <<owner, announced, recvbuf, handed, recvmsgs>>
  BY DEF Bind
<1>2. /\ owner \in Seq(Peer) /\ unknownfd \in Seq(Nat)
      /\ Len(owner) \in Nat /\ Len(unknownfd) \in Nat \ {0} /\ Len(unknownfd) <= Len(owner)
      /\ \A i \in 1..Len(unknownfd) : unknownfd[i] = Bounds + i
  BY <1>1, EmptySeq DEF PairInv, DescriptorsInOrder
<1>3. /\ unknownfd' \in Seq(Nat) /\ Len(unknownfd') = Len(unknownfd) - 1
      /\ \A i \in 1..Len(unknownfd') : unknownfd'[i] = unknownfd[i + 1]
  BY <1>1, <1>2
<1>4. Bounds \in Nat /\ Bounds' = Bounds + 1 /\ Bounds + Len(unknownfd) = Len(owner)
  BY <1>1, <1>2, <1>3 DEF Bounds
<1>5. Head(unknownfd) = Bounds + 1
  BY <1>2
<1>6. DescriptorsInOrder'
  <2>1. ASSUME NEW i \in 1..Len(unknownfd')
        PROVE  unknownfd'[i] = Bounds' + i
    BY <1>2, <1>3, <1>4
  <2> QED BY <2>1, <1>1, <1>2, <1>3 DEF DescriptorsInOrder
<1>7. IdsInOrder'
  <2>1. /\ announced \in Seq(1..Len(owner)) /\ unknownid \in Seq(Peer)
        /\ Len(announced) = Bounds + Len(unknownid)
        /\ \A i \in 1..Len(unknownid) : unknownid[i] = owner[announced[Bounds + i]]
        /\ \A q \in DOMAIN peersfd :
             peersfd[q] \in 1..Bounds /\ q = Narrow(owner[announced[peersfd[q]]])
    BY DEF PairInv, IdsInOrder
  <2>2. Len(unknownid) \in Nat \ {0}
    BY <1>1, <2>1, EmptySeq
  <2>3. /\ unknownid' \in Seq(Peer) /\ Len(unknownid') = Len(unknownid) - 1
        /\ \A i \in 1..Len(unknownid') : unknownid'[i] = unknownid[i + 1]
    BY <1>1, <2>1, <2>2
  <2>4. Head(unknownid) = owner[announced[Bounds + 1]]
    BY <2>1, <2>2
  <2>5. Len(announced) = Bounds' + Len(unknownid')
    BY <1>4, <2>1, <2>2, <2>3
  <2>6. \A i \in 1..Len(unknownid') : unknownid'[i] = owner[announced[Bounds' + i]]
    <3> SUFFICES ASSUME NEW i \in 1..Len(unknownid')
                 PROVE  unknownid'[i] = owner[announced[Bounds' + i]]
      OBVIOUS
    <3>0. i \in Nat /\ Len(unknownid') = Len(unknownid) - 1
      BY <2>2, <2>3
    <3>1. i + 1 \in 1..Len(unknownid) /\ Bounds' + i = Bounds + (i + 1)
      BY <1>4, <2>2, <3>0
    <3> QED BY <3>1, <2>1, <2>3
  <2>7. \A q \in DOMAIN peersfd' :
          peersfd'[q] \in 1..Bounds' /\ q = Narrow(owner[announced[peersfd'[q]]])
    <3> SUFFICES ASSUME NEW q \in DOMAIN peersfd'
                 PROVE  peersfd'[q] \in 1..Bounds' /\ q = Narrow(owner[announced[peersfd'[q]]])
      OBVIOUS
    <3>1. CASE q = Narrow(Head(unknownid))
      <4>1. peersfd'[q] = Bounds + 1
        BY <1>1, <1>5, <3>1 DEF Bound
      <4> QED BY <4>1, <1>4, <2>4, <3>1
    <3>2. CASE q # Narrow(Head(unknownid))
      <4>1. q \in DOMAIN peersfd /\ peersfd'[q] = peersfd[q]
        BY <1>1, <3>2 DEF Bound
      <4> QED BY <4>1, <1>4, <2>1
    <3> QED BY <3>1, <3>2
  <2> QED BY <1>1, <2>1, <2>3, <2>5, <2>6, <2>7 DEF IdsInOrder
<1>8. MessagesInv'
  BY <1>1, MessagesMove DEF PairInv, MessagesInv
<1> QED BY <1>6, <1>7, <1>8 DEF PairInv

\* A message arrives.
LEMMA ArrivesPair ==
  ASSUME PairInv, NEW m \in Sent, Arrives(m)
  PROVE  PairInv'
<1>1. UNCHANGED binding /\ UNCHANGED <<handed, recvmsgs>>
      /\ (recvbuf' = Append(recvbuf, m) \/ recvbuf' = recvbuf)
  BY DEF Arrives
<1>2. recvbuf' \in Seq(Sent)
  BY <1>1 DEF PairInv, MessagesInv
<1>3. MessagesInv'
  BY <1>1, <1>2, MessagesMove DEF PairInv, MessagesInv, binding
<1> QED BY <1>1, <1>3, PairKept

\* Every step keeps the pairing.
LEMMA PairNext ==
  ASSUME PairInv, [Next]_vars
  PROVE  PairInv'
<1>1. CASE \E p \in Peer : Accept(p)
  BY <1>1, AcceptPair
<1>2. CASE StepNode
  BY <1>2, StepNodePair
<1>3. CASE Bind
  BY <1>3, BindPair
<1>4. CASE UNCHANGED binding /\ UNCHANGED <<recvbuf, handed, recvmsgs>>
  <2>1. MessagesInv'
    BY <1>4, MessagesMove DEF PairInv, MessagesInv, binding
  <2> QED BY <1>4, <2>1, PairKept
<1>5. CASE ArrivesNode \/ ArrivesOther
  <2>1. owner \in Seq(Peer)
    BY DEF PairInv, DescriptorsInOrder
  <2>2. ASSUME ArrivesNode PROVE PairInv'
    <3>1. PICK f \in DOMAIN owner : Arrives([kind |-> "node", from |-> f])
      BY <2>2 DEF ArrivesNode
    <3>0. f \in 1..Len(owner)
      BY <2>1
    <3>2. [kind |-> "node", from |-> f] \in Sent
      BY <3>0 DEF Sent
    <3> QED BY <3>1, <3>2, ArrivesPair
  <2>3. ASSUME ArrivesOther PROVE PairInv'
    <3>1. PICK k \in {"append", "commit"} : Arrives([kind |-> k, from |-> 0])
      BY <2>3 DEF ArrivesOther
    <3>2. [kind |-> k, from |-> 0] \in Sent
      BY DEF Sent
    <3> QED BY <3>1, <3>2, ArrivesPair
  <2> QED BY <1>5, <2>2, <2>3
<1>6. CASE Propose
  <2>1. [kind |-> "prop", from |-> 0] \in Sent
    BY DEF Sent
  <2>2. UNCHANGED binding /\ UNCHANGED <<recvbuf, handed>>
        /\ recvmsgs' = Append(recvmsgs, [kind |-> "prop", from |-> 0])
    BY <1>6 DEF Propose
  <2>3. recvmsgs' \in Seq(Sent)
    BY <2>1, <2>2 DEF PairInv, MessagesInv
  <2>4. MessagesInv'
    BY <2>2, <2>3, MessagesMove DEF PairInv, MessagesInv, binding
  <2> QED BY <2>2, <2>4, PairKept
<1>7. CASE Receives
  <2>1. recvbuf \in Seq(Sent) /\ handed \in Seq(Sent) /\ recvmsgs \in Seq(Sent)
    BY DEF PairInv, MessagesInv
  <2>2. UNCHANGED binding
    BY <1>7 DEF Receives, PopData, TryPushRecvbuf
  <2>3. recvbuf' \in Seq(Sent) /\ handed' \in Seq(Sent) /\ recvmsgs' \in Seq(Sent)
    <3>1. CASE PopData
      BY <2>1, <3>1 DEF PopData
    <3>2. CASE TryPushRecvbuf
      <4>1. handed # <<>> /\ recvmsgs' = Append(recvmsgs, handed[Len(handed)])
            /\ handed' = <<>> /\ recvbuf' = recvbuf
        BY <3>2 DEF TryPushRecvbuf
      <4>2. handed[Len(handed)] \in Sent
        BY <2>1, <4>1, EmptySeq
      <4> QED BY <2>1, <4>1, <4>2
    <3> QED BY <1>7, <3>1, <3>2 DEF Receives
  <2>4. MessagesInv'
    BY <2>2, <2>3, MessagesMove DEF binding
  <2> QED BY <2>2, <2>4, PairKept
<1> USE <1>4
<1>8. CASE UNCHANGED vars
  BY <1>8 DEF vars, binding
<1>9. CASE Sticks \/ Recovers \/ Written \/ \E t \in Waiter : WakeUp(t)
  BY <1>9 DEF Sticks, Recovers, Written, WakeUp, Stays
<1>10. CASE Sends \/ Persists
  BY <1>10 DEF Sends, Persists, Waits, Check, FallAsleep, Stays, TryPopSendbuf, PushData,
     StorageLocate, StorageGuard, StorageCopy, AppliedTo, ClearReady
<1>11. CASE SetReady \/ StepPushed \/ Tick
  BY <1>11 DEF SetReady, StepPushed, Tick
<1> QED BY <1>1, <1>2, <1>3, <1>5, <1>6, <1>7, <1>8, <1>9, <1>10, <1>11
        DEF Next, Environment, Steps, Binds, Ended

\* The f-th descriptor is bound to the f-th id that was announced, as an int32_t
\* has it, for any peers and widths (the bind thread of Node::run(),
\* pushUnknownid(), popUnknownid()).
THEOREM PairingIsRight == Spec => []PairedRightly
<1>1. ASSUME Init PROVE PairInv
  <2>1. /\ owner = <<>> /\ unknownfd = <<>> /\ unknownid = <<>>
        /\ announced = <<>> /\ DOMAIN peersfd = {}
        /\ recvbuf = <<>> /\ handed = <<>> /\ recvmsgs = <<>>
    BY <1>1 DEF Init
  <2>2. /\ owner \in Seq(Peer) /\ unknownid \in Seq(Peer) /\ unknownfd \in Seq(Nat)
        /\ Len(owner) = 0 /\ Len(unknownid) = 0 /\ Len(unknownfd) = 0 /\ Bounds = 0
        /\ announced \in Seq(1..Len(owner)) /\ Len(announced) = 0
    BY <2>1 DEF Bounds
  <2>3. DescriptorsInOrder /\ IdsInOrder /\ MessagesInv
    BY <2>1, <2>2 DEF DescriptorsInOrder, IdsInOrder, MessagesInv
  <2> QED BY <2>3 DEF PairInv
<1>2. PairInv => PairedRightly
  <2> SUFFICES ASSUME PairInv, NEW p \in DOMAIN peersfd
               PROVE  /\ peersfd[p] \in DOMAIN announced
                      /\ announced[peersfd[p]] \in DOMAIN owner
                      /\ p = Narrow(owner[announced[peersfd[p]]])
    BY DEF PairedRightly
  <2>1. /\ announced \in Seq(1..Len(owner)) /\ owner \in Seq(Peer)
        /\ Len(announced) = Bounds + Len(unknownid) /\ Len(unknownid) \in Nat
        /\ peersfd[p] \in 1..Bounds /\ p = Narrow(owner[announced[peersfd[p]]])
        /\ Bounds \in Nat
    BY DEF PairInv, IdsInOrder, DescriptorsInOrder, Bounds
  <2>2. peersfd[p] \in 1..Len(announced)
    BY <2>1
  <2> QED BY <2>1, <2>2
<1> QED BY <1>1, <1>2, PairNext, PTL DEF Spec
=============================================================================
