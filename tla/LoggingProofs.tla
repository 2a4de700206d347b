---------------------------- MODULE LoggingProofs ----------------------------
(***************************************************************************)
(* Proofs about logging, for any number of threads, messages, flushes and  *)
(* loggers, a queue of any size, any rotation, pattern and text.           *)
(*                                                                         *)
(* First the lock-free queue.  Positions between dequeuePos and dequeuePos *)
(* + Size have a cell each; QInv says what the sequence number of a cell   *)
(* can be in each part of this window, and who may be in the cell.         *)
(*                                                                         *)
(* Then the asynchronous logger.  Its clients and its worker use the queue *)
(* as QNext allows, so what is proved of the queue holds of the logger's.  *)
(* A message that was logged and not discarded is followed from the client *)
(* that brings it over the queue and the worker's hands to what was        *)
(* consumed, and the message that ends the worker is shown to come last.   *)
(*                                                                         *)
(* Last the console loggers: a pattern is compiled one character at a time *)
(* into formatters that show together what its parts mean; the writer goes *)
(* through a format, part by part, and writes what the parts mean of the   *)
(* arguments; and the mutex of a sink keeps the pieces of a line together. *)
(***************************************************************************)
EXTENDS AsyncLog, Loggers, RecursionLemmas, FiniteSetTheorems

-----------------------------------------------------------------------------
(* The queue: what its cells hold *)

Stamp(p) == cell[Index(p)].sequence

\* The positions won by a producer and not yet by a consumer, and those that
\* can be won next.
Won(p) == dequeuePos <= p /\ p < enqueuePos
Free(p) == enqueuePos <= p /\ p < dequeuePos + Size

InRange == dequeuePos <= enqueuePos /\ enqueuePos <= dequeuePos + Size

\* A taken cell waits for its writer or is published; a free one is handed over
\* or still has its reader of the last round.
Stamped ==
  \A p \in Nat :
    /\ Won(p) => Stamp(p) \in {p, p + 1}
    /\ Free(p) => Stamp(p) \in {p, p - Size + 1}

Inside ==
  \A t \in Thread :
    /\ At(t, "writing") => Won(op[t].pos) /\ Stamp(op[t].pos) = op[t].pos
    /\ At(t, "reading") => /\ Free(op[t].pos + Size)
                          /\ Stamp(op[t].pos) = op[t].pos + 1

\* A thread that aims at a position is behind the counter or up to date; if it
\* is about to claim an up-to-date one, the cell still is as it has seen it.
Aimed ==
  \A t \in Thread :
    /\ op[t].pc \in {"enqueue", "enqueue_claim"} => op[t].pos <= enqueuePos
    /\ op[t].pc \in {"dequeue", "dequeue_claim"} => op[t].pos <= dequeuePos
    /\ At(t, "enqueue_claim") /\ op[t].pos = enqueuePos => Stamp(enqueuePos) = enqueuePos
    /\ At(t, "dequeue_claim") /\ op[t].pos = dequeuePos =>
         Stamp(dequeuePos) = dequeuePos + 1

Single ==
  \A t, u \in InCell : op[t].pc = op[u].pc /\ op[t].pos = op[u].pos => t = u

Carried ==
  \A t \in Thread : op[t].pc \in {"enqueue", "enqueue_claim", "writing"} => op[t].item \in Item

QInv == QTypeOK /\ InRange /\ Stamped /\ Inside /\ Aimed /\ Single /\ Carried
-----------------------------------------------------------------------------
(* Remainders *)

\* Quotient and remainder by a size.
LEMMA Division ==
  ASSUME NEW p \in Nat, NEW s \in Nat, s >= 2
  PROVE  /\ p \div s \in Nat /\ p % s \in 0..(s - 1)
         /\ p = s * (p \div s) + (p % s)
OBVIOUS

\* A multiple that is not 0 is at least the divisor.
LEMMA AtLeastOnce ==
  ASSUME NEW k \in Int, NEW s \in Nat, s >= 2
  PROVE  (k >= 1 => s * k >= s) /\ (k <= -1 => s * k <= -s)
OBVIOUS

\* Quotient and remainder are unique, written for two multiples that are less
\* than one divisor apart.
LEMMA CloseMultiples ==
  ASSUME NEW a \in Int, NEW b \in Int, NEW s \in Nat, s >= 2,
         s * (b - a) < s, s * (b - a) > -s
  PROVE  a = b
<1>1. ~(b - a >= 1)
  BY AtLeastOnce
<1>2. ~(b - a <= -1)
  BY AtLeastOnce
<1> QED BY <1>1, <1>2

\* A position and the one a round later have one cell (mpmc_bounded_q.h:87 and
\* 129).
LEMMA NextRound ==
  ASSUME NEW p \in Nat
  PROVE  Index(p + Size) = Index(p)
<1> DEFINE a == p \div Size  b == (p + Size) \div Size
           r == p % Size     q == (p + Size) % Size
<1>1. a \in Nat /\ r \in 0..(Size - 1) /\ p = Size * a + r
  BY Division, SizeAssumption
<1>2. p + Size \in Nat
  BY SizeAssumption
<1>3. b \in Nat /\ q \in 0..(Size - 1) /\ p + Size = Size * b + q
  BY <1>2, Division, SizeAssumption
<1>4. Index(p + Size) = q /\ Index(p) = r
  BY DEF Index
<1> HIDE DEF a, b, r, q
<1>5. Size * (b - (a + 1)) = r - q
  BY <1>1, <1>3, SizeAssumption
<1>6. a + 1 = b
  BY <1>1, <1>3, <1>5, CloseMultiples, SizeAssumption
<1> QED BY <1>1, <1>3, <1>4, <1>6, SizeAssumption

\* Two positions of one window have different cells.
LEMMA OwnCell ==
  ASSUME NEW d \in Nat, NEW p \in Nat, NEW q \in Nat,
         d <= p, p < d + Size, d <= q, q < d + Size, Index(p) = Index(q)
  PROVE  p = q
<1> DEFINE a == p \div Size  b == q \div Size  r == p % Size
<1>1. a \in Nat /\ r \in 0..(Size - 1) /\ p = Size * a + r
  BY Division, SizeAssumption
<1>2. b \in Nat /\ q = Size * b + r
  BY Division, SizeAssumption DEF Index
<1> HIDE DEF a, b, r
<1>3. Size * (b - a) = q - p
  BY <1>1, <1>2, SizeAssumption
<1>4. a = b
  BY <1>1, <1>2, <1>3, CloseMultiples, SizeAssumption
<1> QED BY <1>1, <1>2, <1>4, SizeAssumption

\* Every position has a cell in the ring (buffer_mask_).
LEMMA CellIndex ==
  ASSUME NEW p \in Nat
  PROVE  Index(p) \in 0..(Size - 1)
BY Division, SizeAssumption DEF Index
-----------------------------------------------------------------------------
(* The invariant *)

PCs == {"idle", "done", "failed", "enqueue", "enqueue_claim", "writing",
        "dequeue", "dequeue_claim", "reading", "front", "same", "different"}

QueueCall == [pc : PCs, pos : Nat, item : Item \cup {Nothing}]

\* Only thread t moves.
Alone(t) == op' \in [Thread -> QueueCall] /\ \A u \in Thread \ {t} : op'[u] = op[u]

\* The constructor stamps each cell with its own index: all positions of the
\* first round are free.
LEMMA InitInv == QInit => QInv
<1> SUFFICES ASSUME QInit PROVE QInv
  OBVIOUS
<1>1. QTypeOK
  BY SizeAssumption DEF QInit, QTypeOK, Idle
<1>2. InRange /\ Inside /\ Aimed /\ Single /\ Carried
  BY SizeAssumption DEF QInit, InRange, Inside, Aimed, Single, Carried, InCell, At, Idle
<1>3. ASSUME NEW p \in Nat, p < Size PROVE Index(p) = p
  BY <1>3, SizeAssumption, CellIndex, Division DEF Index
<1>4. Stamped
  BY <1>3, SizeAssumption DEF QInit, Stamped, Won, Free, Stamp
<1> QED BY <1>1, <1>2, <1>4 DEF QInv

\* A step that leaves the ring alone, whatever it makes of the thread's own
\* variables, as long as what it aims at is right.
LEMMA LocalInv ==
  ASSUME QInv, NEW t \in Thread, Alone(t), UNCHANGED <<cell, enqueuePos, dequeuePos>>,
         op'[t].pc \notin {"writing", "reading"},
         op'[t].pc \in {"enqueue", "enqueue_claim"} =>
           op'[t].pos <= enqueuePos /\ op'[t].item \in Item,
         op'[t].pc \in {"dequeue", "dequeue_claim"} => op'[t].pos <= dequeuePos,
         op'[t].pc = "enqueue_claim" => Stamp(op'[t].pos) = op'[t].pos,
         op'[t].pc = "dequeue_claim" => Stamp(op'[t].pos) = op'[t].pos + 1
  PROVE  QInv'
<1>1. QTypeOK'
  BY DEF QInv, QTypeOK, Alone, QueueCall, PCs
<1>2. InRange' /\ Stamped'
  BY DEF QInv, InRange, Stamped, Won, Free, Stamp
<1>3. Inside'
  BY DEF QInv, Inside, Alone, At, Won, Free, Stamp
<1>4. Aimed'
  BY DEF QInv, Aimed, Alone, At, Stamp
<1>5. Single'
  BY DEF QInv, Single, InCell, Alone
<1>6. Carried'
  BY DEF QInv, Carried, Alone
<1> QED BY <1>1, <1>2, <1>3, <1>4, <1>5, <1>6 DEF QInv

\* A call that begins, one whose result is taken, and is_empty().
LEMMA CallInv ==
  ASSUME QInv, NEW t \in Thread,
         Acknowledge(t) \/ DequeueCall(t) \/ EmptyCall(t) \/ EmptyStep(t)
           \/ (op[t].item \in Item /\ Retry(t)) \/ \E x \in Item : EnqueueCall(t, x)
  PROVE  QInv'
<1>1. UNCHANGED <<cell, enqueuePos, dequeuePos>>
  BY DEF Acknowledge, DequeueCall, EmptyCall, EmptyStep, EmptyBack, EmptyFront, Retry, EnqueueCall
<1>2. /\ Alone(t) /\ op'[t] \in QueueCall
      /\ op'[t].pc \notin {"writing", "reading", "enqueue_claim", "dequeue_claim"}
      /\ op'[t].pc = "enqueue" => op'[t].pos = enqueuePos /\ op'[t].item \in Item
      /\ op'[t].pc = "dequeue" => op'[t].pos = dequeuePos
  <2>1. op \in [Thread -> QueueCall] /\ enqueuePos \in Nat /\ dequeuePos \in Nat
    BY DEF QInv, QTypeOK, QueueCall, PCs
  <2>2. CASE Acknowledge(t)
    BY <2>1, <2>2 DEF Acknowledge, Idle, Alone, QueueCall, PCs
  <2>3. CASE DequeueCall(t)
    BY <2>1, <2>3 DEF DequeueCall, Aim, At, Alone, QueueCall, PCs
  <2>4. CASE EmptyCall(t)
    BY <2>1, <2>4 DEF EmptyCall, Aim, At, Alone, QueueCall, PCs
  <2>5. CASE EmptyBack(t)
    BY <2>1, <2>5 DEF EmptyBack, Goto, At, Alone, QueueCall, PCs
  <2>6. CASE EmptyFront(t)
    BY <2>1, <2>6 DEF EmptyFront, Goto, Aim, At, Alone, QueueCall, PCs
  <2>7. CASE op[t].item \in Item /\ Retry(t)
    BY <2>1, <2>7 DEF Retry, Aim, At, Alone, QueueCall, PCs
  <2>8. CASE \E x \in Item : EnqueueCall(t, x)
    BY <2>1, <2>8 DEF EnqueueCall, At, Alone, QueueCall, PCs
  <2> QED BY <2>2, <2>3, <2>4, <2>5, <2>6, <2>7, <2>8 DEF EmptyStep
<1>3. enqueuePos \in Nat /\ dequeuePos \in Nat /\ op'[t].pos \in Nat
  BY <1>2 DEF QInv, QTypeOK, QueueCall
<1>4. /\ op'[t].pc \in {"enqueue", "enqueue_claim"} =>
           op'[t].pos <= enqueuePos /\ op'[t].item \in Item
      /\ op'[t].pc \in {"dequeue", "dequeue_claim"} => op'[t].pos <= dequeuePos
  BY <1>2, <1>3
<1> QED BY <1>1, <1>2, <1>4, LocalInv

\* A look at the cell: the same number is what Aimed remembers of a claim.
LEMMA LookInv ==
  ASSUME QInv, NEW t \in Thread,
         EnqueueLook(t) \/ EnqueueMiss(t) \/ DequeueLook(t) \/ DequeueMiss(t)
  PROVE  QInv'
<1>1. UNCHANGED <<cell, enqueuePos, dequeuePos>>
  BY DEF EnqueueLook, EnqueueMiss, DequeueLook, DequeueMiss
<1>2. /\ op \in [Thread -> QueueCall] /\ enqueuePos \in Nat /\ dequeuePos \in Nat
      /\ op[t].pc \in {"enqueue", "enqueue_claim"} => op[t].pos <= enqueuePos /\ op[t].item \in Item
      /\ op[t].pc \in {"dequeue", "dequeue_claim"} => op[t].pos <= dequeuePos
  BY DEF QInv, QTypeOK, QueueCall, PCs, Aimed, Carried
<1>3. CellOf(t).sequence \in Nat
  BY <1>2, CellIndex DEF QInv, QTypeOK, CellOf, QueueCall
<1>4. CASE EnqueueLook(t)
  <2>1. /\ Alone(t) /\ op'[t].pc \in {"enqueue", "enqueue_claim", "failed"}
        /\ op'[t].pos \in {op[t].pos, enqueuePos} /\ op'[t].item = op[t].item
        /\ op'[t].pc = "enqueue_claim" =>
             op'[t].pos = op[t].pos /\ CellOf(t).sequence - op[t].pos = 0
    BY <1>2, <1>4 DEF EnqueueLook, Goto, Aim, At, Alone, QueueCall, PCs
  <2>2. op'[t].pc = "enqueue_claim" => Stamp(op'[t].pos) = op'[t].pos
    BY <1>2, <1>3, <2>1 DEF Stamp, CellOf, QueueCall
  <2> QED BY <1>1, <1>2, <1>4, <2>1, <2>2, LocalInv DEF EnqueueLook, At
<1>5. CASE DequeueLook(t)
  <2>1. /\ Alone(t) /\ op'[t].pc \in {"dequeue", "dequeue_claim", "failed"}
        /\ op'[t].pos \in {op[t].pos, dequeuePos}
        /\ op'[t].pc = "dequeue_claim" =>
             op'[t].pos = op[t].pos /\ CellOf(t).sequence - (op[t].pos + 1) = 0
    BY <1>2, <1>5 DEF DequeueLook, Goto, Aim, At, Alone, QueueCall, PCs
  <2>2. op'[t].pc = "dequeue_claim" => Stamp(op'[t].pos) = op'[t].pos + 1
    BY <1>2, <1>3, <2>1 DEF Stamp, CellOf, QueueCall
  <2> QED BY <1>1, <1>2, <1>5, <2>1, <2>2, LocalInv DEF DequeueLook, At
<1>6. CASE EnqueueMiss(t)
  <2>1. /\ Alone(t) /\ op'[t].pc = "enqueue" /\ op'[t].pos = enqueuePos
        /\ op'[t].item = op[t].item
    BY <1>2, <1>6 DEF EnqueueMiss, Aim, At, Alone, QueueCall, PCs
  <2> QED BY <1>1, <1>2, <1>6, <2>1, LocalInv DEF EnqueueMiss, At
<1>7. CASE DequeueMiss(t)
  <2>1. Alone(t) /\ op'[t].pc = "dequeue" /\ op'[t].pos = dequeuePos
    BY <1>2, <1>7 DEF DequeueMiss, Aim, At, Alone, QueueCall, PCs
  <2> QED BY <1>1, <1>2, <1>7, <2>1, LocalInv
<1> QED BY <1>4, <1>5, <1>6, <1>7

\* A free cell that is handed over leaves room in the window.
LEMMA HandedOver ==
  ASSUME QInv, Stamp(enqueuePos) = enqueuePos
  PROVE  enqueuePos < dequeuePos + Size
<1>1. enqueuePos \in Nat /\ dequeuePos \in Nat /\ InRange
  BY DEF QInv, QTypeOK
<1>2. enqueuePos # dequeuePos + Size
  <2> SUFFICES ASSUME enqueuePos = dequeuePos + Size PROVE FALSE
    OBVIOUS
  <2>1. Won(dequeuePos) /\ Stamp(dequeuePos) = Stamp(enqueuePos)
    BY <1>1, NextRound, SizeAssumption DEF Won, Stamp
  <2>2. Stamp(dequeuePos) \in {dequeuePos, dequeuePos + 1}
    BY <1>1, <2>1 DEF QInv, Stamped
  <2> QED BY <1>1, <2>1, <2>2, SizeAssumption
<1> QED BY <1>1, <1>2, SizeAssumption DEF InRange

\* Who wins a position has it to itself: its cell is free, or full.
LEMMA ClaimedCell ==
  ASSUME QInv, NEW t \in Thread
  PROVE  /\ EnqueueClaim(t) => /\ op[t].pos = enqueuePos /\ enqueuePos < dequeuePos + Size
                               /\ Stamp(enqueuePos) = enqueuePos
         /\ DequeueClaim(t) => /\ op[t].pos = dequeuePos /\ dequeuePos < enqueuePos
                               /\ Stamp(dequeuePos) = dequeuePos + 1
<1>1. enqueuePos \in Nat /\ dequeuePos \in Nat /\ InRange
  BY DEF QInv, QTypeOK
<1>2. ASSUME EnqueueClaim(t)
      PROVE  /\ op[t].pos = enqueuePos /\ enqueuePos < dequeuePos + Size
             /\ Stamp(enqueuePos) = enqueuePos
  <2>1. op[t].pos = enqueuePos /\ Stamp(enqueuePos) = enqueuePos
    BY <1>2 DEF EnqueueClaim, QInv, Aimed, At
  <2> QED BY <2>1, HandedOver
<1>3. ASSUME DequeueClaim(t)
      PROVE  /\ op[t].pos = dequeuePos /\ dequeuePos < enqueuePos
             /\ Stamp(dequeuePos) = dequeuePos + 1
  <2>1. op[t].pos = dequeuePos /\ Stamp(dequeuePos) = dequeuePos + 1
    BY <1>3 DEF DequeueClaim, QInv, Aimed, At
  <2>2. dequeuePos # enqueuePos
    <3> SUFFICES ASSUME dequeuePos = enqueuePos PROVE FALSE
      OBVIOUS
    <3>1. Free(dequeuePos)
      BY <1>1, SizeAssumption DEF Free
    <3>2. Stamp(dequeuePos) \in {dequeuePos, dequeuePos - Size + 1}
      BY <1>1, <3>1 DEF QInv, Stamped
    <3> QED BY <1>1, <2>1, <3>2, SizeAssumption
  <2> QED BY <1>1, <2>1, <2>2 DEF InRange
<1> QED BY <1>2, <1>3

\* The exchange of enqueue_pos_ succeeds.
LEMMA EnqueueClaimInv ==
  ASSUME QInv, NEW t \in Thread, EnqueueClaim(t)
  PROVE  QInv'
<1>1. /\ cell' = cell /\ dequeuePos' = dequeuePos /\ enqueuePos' = enqueuePos + 1
      /\ op[t].pos = enqueuePos /\ enqueuePos < dequeuePos + Size
      /\ Stamp(enqueuePos) = enqueuePos
      /\ enqueuePos \in Nat /\ dequeuePos \in Nat /\ dequeuePos <= enqueuePos
  BY ClaimedCell DEF EnqueueClaim, QInv, QTypeOK, InRange
<1>2. /\ Alone(t) /\ op'[t].pc = "writing" /\ op[t].pc = "enqueue_claim"
      /\ op'[t].pos = op[t].pos /\ op'[t].item = op[t].item
  BY DEF EnqueueClaim, At, Goto, Alone, QInv, QTypeOK, QueueCall, PCs
<1>3. QTypeOK'
  BY <1>1, <1>2 DEF QInv, QTypeOK, Alone, QueueCall, PCs
<1>4. InRange'
  BY <1>1, SizeAssumption DEF InRange
<1>5. \A p \in Nat : Stamp(p)' = Stamp(p)
  BY <1>1 DEF Stamp
<1>6. Stamped'
  BY <1>1, <1>5, SizeAssumption DEF QInv, Stamped, Won, Free
<1>7. ASSUME NEW u \in Thread, At(u, "reading")
      PROVE  op[u].pos + Size # enqueuePos
  <2>1. Stamp(op[u].pos + Size) = op[u].pos + 1 /\ op[u].pos \in Nat
    BY <1>7, NextRound DEF QInv, Inside, QTypeOK, Stamp
  <2> QED BY <1>1, <2>1, SizeAssumption
<1>8. Inside'
  <2> SUFFICES ASSUME NEW u \in Thread
               PROVE  /\ At(u, "writing")' => (Won(op[u].pos) /\ Stamp(op[u].pos) = op[u].pos)'
                      /\ At(u, "reading")' => /\ Free(op[u].pos + Size)'
                                              /\ (Stamp(op[u].pos) = op[u].pos + 1)'
    BY DEF Inside
  <2>1. op[u].pos \in Nat /\ op'[u].pos = op[u].pos
    BY <1>2 DEF QInv, QTypeOK, Alone
  <2>2. Stamp(op[u].pos)' = Stamp(op[u].pos)
    BY <1>1, <2>1 DEF Stamp
  <2>3. CASE u = t
    BY <1>1, <1>2, <2>1, <2>2, <2>3 DEF At, Won
  <2>4. CASE u # t
    <3>1. op'[u] = op[u]
      BY <1>2, <2>4 DEF Alone
    <3> QED BY <1>1, <1>7, <2>1, <2>2, <3>1, SizeAssumption DEF QInv, Inside, At, Won, Free
  <2> QED BY <2>3, <2>4
<1>9. Aimed'
  <2> SUFFICES ASSUME NEW u \in Thread
               PROVE  (/\ op[u].pc \in {"enqueue", "enqueue_claim"} => op[u].pos <= enqueuePos
                       /\ op[u].pc \in {"dequeue", "dequeue_claim"} => op[u].pos <= dequeuePos
                       /\ At(u, "enqueue_claim") /\ op[u].pos = enqueuePos =>
                            Stamp(enqueuePos) = enqueuePos
                       /\ At(u, "dequeue_claim") /\ op[u].pos = dequeuePos =>
                            Stamp(dequeuePos) = dequeuePos + 1)'
    BY DEF Aimed
  <2>1. op[u].pos \in Nat
    BY DEF QInv, QTypeOK
  <2>2. CASE u = t
    BY <1>2, <2>2 DEF At
  <2>3. CASE u # t
    <3>1. op'[u] = op[u]
      BY <1>2, <2>3 DEF Alone
    <3> QED BY <1>1, <2>1, <3>1 DEF QInv, Aimed, At, Stamp
  <2> QED BY <2>2, <2>3
<1>10. ASSUME NEW u \in Thread, At(u, "writing") PROVE op[u].pos # enqueuePos
  BY <1>1, <1>10 DEF QInv, Inside, Won
<1>11. Single'
  BY <1>1, <1>2, <1>10 DEF QInv, Single, InCell, Alone, At
<1>12. Carried'
  BY <1>2 DEF QInv, Carried, Alone
<1> QED BY <1>3, <1>4, <1>6, <1>8, <1>9, <1>11, <1>12 DEF QInv

\* The exchange of dequeue_pos_ succeeds.
LEMMA DequeueClaimInv ==
  ASSUME QInv, NEW t \in Thread, DequeueClaim(t)
  PROVE  QInv'
<1>1. /\ cell' = cell /\ enqueuePos' = enqueuePos /\ dequeuePos' = dequeuePos + 1
      /\ op[t].pos = dequeuePos /\ dequeuePos < enqueuePos
      /\ Stamp(dequeuePos) = dequeuePos + 1
      /\ enqueuePos \in Nat /\ dequeuePos \in Nat /\ enqueuePos <= dequeuePos + Size
  BY ClaimedCell DEF DequeueClaim, QInv, QTypeOK, InRange
<1>2. /\ Alone(t) /\ op'[t].pc = "reading" /\ op[t].pc = "dequeue_claim"
      /\ op'[t].pos = op[t].pos
  BY DEF DequeueClaim, At, Goto, Alone, QInv, QTypeOK, QueueCall, PCs
<1>3. QTypeOK'
  BY <1>1, <1>2 DEF QInv, QTypeOK, Alone, QueueCall, PCs
<1>4. InRange'
  BY <1>1, SizeAssumption DEF InRange
<1>5. \A p \in Nat : Stamp(p)' = Stamp(p)
  BY <1>1 DEF Stamp
<1>6. Stamp(dequeuePos + Size) = dequeuePos + 1
  BY <1>1, NextRound DEF Stamp
<1>7. Stamped'
  <2> SUFFICES ASSUME NEW p \in Nat
               PROVE  /\ Won(p)' => Stamp(p) \in {p, p + 1}
                      /\ Free(p)' => Stamp(p) \in {p, p - Size + 1}
    BY <1>5 DEF Stamped
  <2>1. Won(p)' => Won(p)
    BY <1>1 DEF Won
  <2>2. Free(p)' => Free(p) \/ p = dequeuePos + Size
    BY <1>1, SizeAssumption DEF Free
  <2>3. p = dequeuePos + Size => Stamp(p) = p - Size + 1
    BY <1>1, <1>6, SizeAssumption
  <2> QED BY <2>1, <2>2, <2>3 DEF QInv, Stamped
<1>8. ASSUME NEW u \in Thread, At(u, "writing") PROVE op[u].pos # dequeuePos
  BY <1>1, <1>8 DEF QInv, Inside
<1>9. Inside'
  <2> SUFFICES ASSUME NEW u \in Thread
               PROVE  /\ At(u, "writing")' => (Won(op[u].pos) /\ Stamp(op[u].pos) = op[u].pos)'
                      /\ At(u, "reading")' => /\ Free(op[u].pos + Size)'
                                              /\ (Stamp(op[u].pos) = op[u].pos + 1)'
    BY DEF Inside
  <2>1. op[u].pos \in Nat /\ op'[u].pos = op[u].pos
    BY <1>2 DEF QInv, QTypeOK, Alone
  <2>2. Stamp(op[u].pos)' = Stamp(op[u].pos)
    BY <1>1, <2>1 DEF Stamp
  <2>3. CASE u = t
    BY <1>1, <1>2, <2>1, <2>2, <2>3, SizeAssumption DEF At, Free
  <2>4. CASE u # t
    <3>1. op'[u] = op[u]
      BY <1>2, <2>4 DEF Alone
    <3> QED BY <1>1, <1>8, <2>1, <2>2, <3>1, SizeAssumption DEF QInv, Inside, At, Won, Free
  <2> QED BY <2>3, <2>4
<1>10. Aimed'
  <2> SUFFICES ASSUME NEW u \in Thread
               PROVE  (/\ op[u].pc \in {"enqueue", "enqueue_claim"} => op[u].pos <= enqueuePos
                       /\ op[u].pc \in {"dequeue", "dequeue_claim"} => op[u].pos <= dequeuePos
                       /\ At(u, "enqueue_claim") /\ op[u].pos = enqueuePos =>
                            Stamp(enqueuePos) = enqueuePos
                       /\ At(u, "dequeue_claim") /\ op[u].pos = dequeuePos =>
                            Stamp(dequeuePos) = dequeuePos + 1)'
    BY DEF Aimed
  <2>1. op[u].pos \in Nat
    BY DEF QInv, QTypeOK
  <2>2. CASE u = t
    BY <1>2, <2>2 DEF At
  <2>3. CASE u # t
    <3>1. op'[u] = op[u]
      BY <1>2, <2>3 DEF Alone
    <3> QED BY <1>1, <2>1, <3>1 DEF QInv, Aimed, At, Stamp
  <2> QED BY <2>2, <2>3
<1>11. ASSUME NEW u \in Thread, At(u, "reading") PROVE op[u].pos # dequeuePos
  <2>1. op[u].pos \in Nat /\ op[u].pos + Size < dequeuePos + Size
    BY <1>11 DEF QInv, Inside, Free, QTypeOK
  <2> QED BY <1>1, <2>1, SizeAssumption
<1>12. Single'
  BY <1>1, <1>2, <1>11 DEF QInv, Single, InCell, Alone, At
<1>13. Carried'
  BY <1>2 DEF QInv, Carried, Alone
<1> QED BY <1>3, <1>4, <1>7, <1>9, <1>10, <1>12, <1>13 DEF QInv

NewStamp(p) == cell'[Index(p)].sequence

\* A step that hands over the cell of position q of the window, and no other.
LEMMA OneCell ==
  ASSUME QInv, NEW q \in Nat, dequeuePos <= q, q < dequeuePos + Size, NEW item, NEW s \in Nat,
         cell' = [cell EXCEPT ![Index(q)] = [sequence |-> s, data |-> item]]
  PROVE  /\ NewStamp(q) = s
         /\ cell'[Index(q)].data = item
         /\ \A p \in Nat : dequeuePos <= p /\ p < dequeuePos + Size /\ p # q =>
              NewStamp(p) = Stamp(p) /\ cell'[Index(p)] = cell[Index(p)]
<1>1. /\ cell \in [0..(Size - 1) -> [sequence : Nat, data : Item \cup {Nothing}]]
      /\ dequeuePos \in Nat
  BY DEF QInv, QTypeOK
<1>2. \A p \in Nat : Index(p) \in 0..(Size - 1)
  BY CellIndex
<1>3. \A p \in Nat : Index(p) = Index(q) => cell'[Index(p)] = [sequence |-> s, data |-> item]
  BY <1>1, <1>2
<1>4. \A p \in Nat : Index(p) # Index(q) => cell'[Index(p)] = cell[Index(p)]
  BY <1>1, <1>2
<1>5. \A p \in Nat : dequeuePos <= p /\ p < dequeuePos + Size /\ p # q => Index(p) # Index(q)
  BY <1>1, OwnCell
<1> QED BY <1>3, <1>4, <1>5 DEF Stamp, NewStamp

\* The producer hands its cell to the consumer of the position.
LEMMA EnqueueWriteInv ==
  ASSUME QInv, NEW t \in Thread, EnqueueWrite(t)
  PROVE  QInv'
<1>0. PICK q \in Nat, x \in Item : q = op[t].pos /\ x = op[t].item
  BY DEF EnqueueWrite, QInv, QTypeOK, Carried, At
<1>1. /\ enqueuePos \in Nat /\ dequeuePos \in Nat
      /\ dequeuePos <= q /\ q < enqueuePos /\ enqueuePos <= dequeuePos + Size
      /\ At(t, "writing") /\ Stamp(q) = q
      /\ enqueuePos' = enqueuePos /\ dequeuePos' = dequeuePos
      /\ cell' = [cell EXCEPT ![Index(q)] = [sequence |-> q + 1, data |-> x]]
  BY <1>0 DEF EnqueueWrite, QInv, QTypeOK, InRange, Inside, Won, At
<1>2. Alone(t) /\ op'[t].pc = "done" /\ op[t].pc = "writing"
  BY DEF EnqueueWrite, At, Alone, QInv, QTypeOK, QueueCall, PCs
<1>3. QTypeOK'
  <2>1. [sequence |-> q + 1, data |-> x] \in [sequence : Nat, data : Item \cup {Nothing}]
    OBVIOUS
  <2>2. cell' \in [0..(Size - 1) -> [sequence : Nat, data : Item \cup {Nothing}]]
    BY <1>1, <2>1 DEF QInv, QTypeOK
  <2> QED BY <1>1, <1>2, <2>2 DEF QTypeOK, Alone, QueueCall, PCs
<1>4. InRange'
  BY <1>1 DEF QInv, InRange
<1>5. q < dequeuePos + Size /\ q + 1 \in Nat
  BY <1>1, SizeAssumption
<1>6. /\ NewStamp(q) = q + 1
      /\ \A p \in Nat : dequeuePos <= p /\ p < dequeuePos + Size /\ p # q =>
           NewStamp(p) = Stamp(p)
  BY <1>1, <1>5, OneCell
<1>7. Stamped'
  <2> SUFFICES ASSUME NEW p \in Nat
               PROVE  /\ Won(p) => NewStamp(p) \in {p, p + 1}
                      /\ Free(p) => NewStamp(p) \in {p, p - Size + 1}
    BY <1>1 DEF Stamped, Won, Free, Stamp, NewStamp
  <2>1. CASE p = q
    BY <1>1, <1>6, <2>1 DEF Free
  <2>2. CASE p # q
    BY <1>1, <1>6, <2>2, SizeAssumption DEF QInv, Stamped, Won, Free
  <2> QED BY <2>1, <2>2
<1>8. Inside'
  <2> SUFFICES ASSUME NEW u \in Thread
               PROVE  /\ At(u, "writing")' => (Won(op[u].pos) /\ Stamp(op[u].pos) = op[u].pos)'
                      /\ At(u, "reading")' => /\ Free(op[u].pos + Size)'
                                              /\ (Stamp(op[u].pos) = op[u].pos + 1)'
    BY DEF Inside
  <2>1. CASE u = t
    BY <1>2, <2>1 DEF At
  <2>2. CASE u # t
    <3>1. PICK r \in Nat : op'[u] = op[u] /\ r = op[u].pos /\ r + Size \in Nat
      BY <1>2, <2>2, SizeAssumption DEF Alone, QInv, QTypeOK
    <3>2. ASSUME At(u, "writing") PROVE Won(r) /\ Stamp(r) = r /\ NewStamp(r) = Stamp(r)
      <4>1. Won(r) /\ Stamp(r) = r /\ r # q
        BY <1>0, <1>2, <2>2, <3>1, <3>2 DEF QInv, Inside, Single, InCell, At
      <4>2. dequeuePos <= r /\ r < dequeuePos + Size
        BY <1>1, <3>1, <4>1, SizeAssumption DEF Won
      <4> QED BY <1>6, <3>1, <4>1, <4>2
    <3>3. ASSUME At(u, "reading")
          PROVE  Free(r + Size) /\ Stamp(r) = r + 1 /\ NewStamp(r) = Stamp(r)
      <4>1. Free(r + Size) /\ Stamp(r) = r + 1
        BY <3>1, <3>3 DEF QInv, Inside
      <4>2. dequeuePos <= r + Size /\ r + Size < dequeuePos + Size /\ r + Size # q
        BY <1>1, <3>1, <4>1, SizeAssumption DEF Free, QInv, InRange
      <4>3. NewStamp(r + Size) = Stamp(r + Size)
        BY <1>6, <3>1, <4>2
      <4>4. Index(r + Size) = Index(r)
        BY <3>1, NextRound
      <4> QED BY <4>1, <4>3, <4>4 DEF Stamp, NewStamp
    <3> QED BY <1>1, <3>1, <3>2, <3>3 DEF At, Won, Free, Stamp, NewStamp
  <2> QED BY <2>1, <2>2
<1>9. Stamp(enqueuePos) = enqueuePos => NewStamp(enqueuePos) = enqueuePos
  BY <1>1, <1>6, HandedOver
<1>10. Stamp(dequeuePos) = dequeuePos + 1 => NewStamp(dequeuePos) = dequeuePos + 1
  BY <1>1, <1>6, SizeAssumption
<1>11. Aimed'
  BY <1>1, <1>2, <1>9, <1>10 DEF QInv, Aimed, At, Stamp, NewStamp, Alone
<1>12. Single'
  BY <1>2 DEF QInv, Single, InCell, Alone
<1>13. Carried'
  BY <1>2 DEF QInv, Carried, Alone
<1> QED BY <1>3, <1>4, <1>7, <1>8, <1>11, <1>12, <1>13 DEF QInv

\* The consumer hands its cell to the producer of the next round.
LEMMA DequeueReadInv ==
  ASSUME QInv, NEW t \in Thread, DequeueRead(t)
  PROVE  QInv'
<1>0. PICK q \in Nat : q = op[t].pos + Size
  BY SizeAssumption DEF QInv, QTypeOK
<1>1. /\ op[t].pos \in Nat /\ enqueuePos \in Nat /\ dequeuePos \in Nat
      /\ dequeuePos <= q /\ enqueuePos <= q /\ q < dequeuePos + Size
      /\ enqueuePos' = enqueuePos /\ dequeuePos' = dequeuePos
  BY <1>0, SizeAssumption DEF DequeueRead, QInv, QTypeOK, InRange, Inside, Free, At
<1>2. Index(q) = Index(op[t].pos)
  BY <1>0, <1>1, NextRound
<1>3. /\ Stamp(q) = q - Size + 1
      /\ cell' = [cell EXCEPT ![Index(q)] = [sequence |-> q, data |-> Nothing]]
  <2>1. Stamp(q) = op[t].pos + 1
    BY <1>2 DEF DequeueRead, QInv, Inside, At, Stamp
  <2>2. cell' = [cell EXCEPT ![Index(q)] = [sequence |-> op[t].pos + Size, data |-> Nothing]]
    BY <1>2 DEF DequeueRead
  <2> QED BY <1>0, <1>1, <2>1, <2>2, SizeAssumption
<1>4. /\ Alone(t) /\ op'[t].pc = "done" /\ op[t].pc = "reading"
  <2>1. CellOf(t).data \in Item \cup {Nothing}
    BY <1>1, CellIndex DEF CellOf, QInv, QTypeOK
  <2> QED BY <2>1 DEF DequeueRead, At, Alone, QInv, QTypeOK, QueueCall, PCs
<1>5. \A u \in Thread : op[u].pos + Size = q => op[u].pos = op[t].pos
  BY <1>0, <1>1, SizeAssumption DEF QInv, QTypeOK
<1>6. QTypeOK'
  BY <1>1, <1>3, <1>4 DEF QInv, QTypeOK, Alone, QueueCall, PCs
<1>7. InRange'
  BY <1>1 DEF QInv, InRange
<1>8. /\ NewStamp(q) = q
      /\ \A p \in Nat : dequeuePos <= p /\ p < dequeuePos + Size /\ p # q =>
           NewStamp(p) = Stamp(p)
  BY <1>1, <1>3, OneCell
<1>9. Stamped'
  <2> SUFFICES ASSUME NEW p \in Nat
               PROVE  /\ Won(p) => NewStamp(p) \in {p, p + 1}
                      /\ Free(p) => NewStamp(p) \in {p, p - Size + 1}
    BY <1>1 DEF Stamped, Won, Free, Stamp, NewStamp
  <2>1. CASE p = q
    BY <1>1, <1>8, <2>1 DEF Won
  <2>2. CASE p # q
    BY <1>1, <1>8, <2>2, SizeAssumption DEF QInv, Stamped, Won, Free, InRange
  <2> QED BY <2>1, <2>2
<1>10. Inside'
  <2> SUFFICES ASSUME NEW u \in Thread
               PROVE  /\ At(u, "writing")' => (Won(op[u].pos) /\ Stamp(op[u].pos) = op[u].pos)'
                      /\ At(u, "reading")' => /\ Free(op[u].pos + Size)'
                                              /\ (Stamp(op[u].pos) = op[u].pos + 1)'
    BY DEF Inside
  <2>1. CASE u = t
    BY <1>4, <2>1 DEF At
  <2>2. CASE u # t
    <3>1. PICK r \in Nat : op'[u] = op[u] /\ r = op[u].pos /\ r + Size \in Nat
      BY <1>4, <2>2, SizeAssumption DEF Alone, QInv, QTypeOK
    <3>2. ASSUME At(u, "writing") PROVE Won(r) /\ Stamp(r) = r /\ NewStamp(r) = Stamp(r)
      <4>1. Won(r) /\ Stamp(r) = r
        BY <3>1, <3>2 DEF QInv, Inside
      <4>2. dequeuePos <= r /\ r < dequeuePos + Size /\ r # q
        BY <1>1, <3>1, <4>1, SizeAssumption DEF Won, QInv, InRange
      <4> QED BY <1>8, <3>1, <4>1, <4>2
    <3>3. ASSUME At(u, "reading")
          PROVE  Free(r + Size) /\ Stamp(r) = r + 1 /\ NewStamp(r) = Stamp(r)
      <4>1. Free(r + Size) /\ Stamp(r) = r + 1 /\ r + Size # q
        BY <1>4, <1>5, <2>2, <3>1, <3>3 DEF QInv, Inside, Single, InCell, At
      <4>2. dequeuePos <= r + Size /\ r + Size < dequeuePos + Size
        BY <1>1, <3>1, <4>1, SizeAssumption DEF Free, QInv, InRange
      <4>3. NewStamp(r + Size) = Stamp(r + Size)
        BY <1>8, <3>1, <4>1, <4>2
      <4>4. Index(r + Size) = Index(r)
        BY <3>1, NextRound
      <4> QED BY <4>1, <4>3, <4>4 DEF Stamp, NewStamp
    <3> QED BY <1>1, <3>1, <3>2, <3>3 DEF At, Won, Free, Stamp, NewStamp
  <2> QED BY <2>1, <2>2
<1>11. Stamp(enqueuePos) = enqueuePos => NewStamp(enqueuePos) = enqueuePos
  <2> SUFFICES ASSUME Stamp(enqueuePos) = enqueuePos PROVE NewStamp(enqueuePos) = enqueuePos
    OBVIOUS
  <2>1. dequeuePos <= enqueuePos /\ enqueuePos < dequeuePos + Size
    BY HandedOver DEF QInv, InRange
  <2> QED BY <1>1, <1>8, <2>1
<1>12. Stamp(dequeuePos) = dequeuePos + 1 => NewStamp(dequeuePos) = dequeuePos + 1
  BY <1>1, <1>3, <1>8, SizeAssumption
<1>13. Aimed'
  BY <1>1, <1>4, <1>11, <1>12 DEF QInv, Aimed, At, Stamp, NewStamp, Alone
<1>14. Single'
  BY <1>4 DEF QInv, Single, InCell, Alone
<1>15. Carried'
  BY <1>4 DEF QInv, Carried, Alone
<1> QED BY <1>6, <1>7, <1>9, <1>10, <1>13, <1>14, <1>15 DEF QInv

\* Every step of every thread.
LEMMA NextInv == QInv /\ [QNext]_qvars => QInv'
<1> SUFFICES ASSUME QInv, [QNext]_qvars PROVE QInv'
  OBVIOUS
<1>1. CASE UNCHANGED qvars
  BY <1>1 DEF qvars, QInv, QTypeOK, InRange, Stamped, Inside, Aimed, Single, Carried, InCell,
     At, Won, Free, Stamp
<1>2. CASE QNext
  <2>1. PICK t \in Thread :
          \/ QueueStep(t) \/ Acknowledge(t) \/ (op[t].item \in Item /\ Retry(t))
          \/ DequeueCall(t) \/ EmptyCall(t) \/ \E x \in Item : EnqueueCall(t, x)
    BY <1>2 DEF QNext
  <2> QED BY <2>1, CallInv, LookInv, EnqueueClaimInv, DequeueClaimInv, EnqueueWriteInv,
          DequeueReadInv DEF QueueStep, EnqueueStep, DequeueStep
<1> QED BY <1>1, <1>2

\* QInv holds of every reachable state of the queue.
LEMMA Invariance == QSpec => []QInv
BY InitInv, NextInv, PTL DEF QSpec

-----------------------------------------------------------------------------
(* What it implies *)

\* The thread that has won a position is alone in its cell until it hands the
\* cell on: the data is never touched by two threads at once
\* (mpmc_bounded_q.h:87 and 129).
THEOREM QueueAlone == QSpec => []AloneInCell
<1>1. QInv => AloneInCell
  <2> SUFFICES ASSUME QInv, NEW t \in InCell, NEW u \in InCell,
                      Index(op[t].pos) = Index(op[u].pos)
               PROVE  t = u
    BY DEF AloneInCell
  <2>1. /\ t \in Thread /\ u \in Thread /\ op[t].pos \in Nat /\ op[u].pos \in Nat
        /\ op[t].pos + Size \in Nat /\ op[u].pos + Size \in Nat
        /\ enqueuePos \in Nat /\ dequeuePos \in Nat /\ InRange
        /\ op[t].pc \in {"writing", "reading"} /\ op[u].pc \in {"writing", "reading"}
    BY SizeAssumption DEF QInv, QTypeOK, InCell
  <2>2. Stamp(op[t].pos) = Stamp(op[u].pos)
    BY DEF Stamp
  <2>3. CASE At(t, "writing") /\ At(u, "writing")
    <3>1. Stamp(op[t].pos) = op[t].pos /\ Stamp(op[u].pos) = op[u].pos
      BY <2>1, <2>3 DEF QInv, Inside
    <3> QED BY <2>2, <2>3, <3>1 DEF QInv, Single, At
  <2>4. CASE At(t, "reading") /\ At(u, "reading")
    <3>1. Stamp(op[t].pos) = op[t].pos + 1 /\ Stamp(op[u].pos) = op[u].pos + 1
      BY <2>1, <2>4 DEF QInv, Inside
    <3>2. op[t].pos + 1 = op[u].pos + 1 /\ op[t].pos \in Nat /\ op[u].pos \in Nat
      BY <2>1, <2>2, <3>1
    <3>3. op[t].pos = op[u].pos
      BY <3>2
    <3> QED BY <2>4, <3>3 DEF QInv, Single, At
  <2>5. ASSUME NEW v \in Thread, NEW w \in Thread, At(v, "writing"), At(w, "reading"),
               Index(op[v].pos) = Index(op[w].pos)
        PROVE  FALSE
    <3> DEFINE p == op[v].pos  q == op[w].pos + Size
    <3>1. op[v].pos \in Nat /\ op[w].pos \in Nat
      BY DEF QInv, QTypeOK
    <3>2. p \in Nat /\ q \in Nat /\ Won(p) /\ Free(q) /\ Index(q) = Index(p)
      BY <2>5, <3>1, NextRound, SizeAssumption DEF QInv, Inside
    <3> HIDE DEF p, q
    <3>3. /\ dequeuePos <= p /\ p < dequeuePos + Size /\ p < q
          /\ dequeuePos <= q /\ q < dequeuePos + Size
      BY <2>1, <3>2, SizeAssumption DEF Won, Free, InRange
    <3>4. p = q
      BY <2>1, <3>2, <3>3, OwnCell
    <3> QED BY <3>2, <3>3, <3>4
  <2> QED BY <2>1, <2>2, <2>3, <2>4, <2>5 DEF At
<1> QED BY <1>1, Invariance, PTL
-----------------------------------------------------------------------------
(* Sequences given by their elements *)

\* A function with one more element at its end is an Append.
LEMMA Appended ==
  ASSUME NEW S, NEW n \in Nat, NEW f \in [1..n -> S], NEW g \in [1..(n + 1) -> S],
         \A k \in 1..n : g[k] = f[k]
  PROVE  Len(f) = n /\ g = Append(f, g[n + 1])
<1>1. f \in Seq(S) /\ g \in Seq(S) /\ Len(f) = n /\ Len(g) = n + 1
  OBVIOUS
<1>2. g[n + 1] \in S
  OBVIOUS
<1>3. /\ Append(f, g[n + 1]) \in Seq(S)
      /\ Len(Append(f, g[n + 1])) = n + 1
      /\ \A k \in 1..n : Append(f, g[n + 1])[k] = f[k]
      /\ Append(f, g[n + 1])[n + 1] = g[n + 1]
  BY <1>1, <1>2, AppendProperties
<1>4. \A k \in 1..(n + 1) : Append(f, g[n + 1])[k] = g[k]
  BY <1>3
<1> QED BY <1>1, <1>3, <1>4, SeqEqual

\* The same for an element taken from the front (the pop of a claim).
LEMMA Shifted ==
  ASSUME NEW S, NEW n \in Nat, NEW f \in [1..(n + 1) -> S], NEW g \in [1..n -> S],
         \A k \in 1..n : g[k] = f[k + 1]
  PROVE  f # <<>> /\ Head(f) = f[1] /\ g = Tail(f)
<1>1. f \in Seq(S) /\ g \in Seq(S) /\ Len(f) = n + 1 /\ Len(g) = n
  OBVIOUS
<1>2. f # <<>>
  BY <1>1
<1>3. /\ Tail(f) \in Seq(S) /\ Len(Tail(f)) = n
      /\ \A k \in 1..n : Tail(f)[k] = f[k + 1]
  BY <1>1, <1>2, HeadTailProperties
<1> QED BY <1>1, <1>2, <1>3, SeqEqual
-----------------------------------------------------------------------------
(* The mapping, as an operator of the queue's variables *)

WritersIn(o, p) == {t \in Thread : o[t].pc = "writing" /\ o[t].pos = p}

ItemIn(o, c, p) ==
  IF WritersIn(o, p) = {} THEN c[Index(p)].data
  ELSE o[CHOOSE t \in Thread : t \in WritersIn(o, p)].item

HeldIn(o, c, t) ==
  CASE o[t].pc = "reading" -> c[Index(o[t].pos)].data
    [] o[t].pc = "done" -> o[t].item
    [] OTHER -> Nothing

Contents(o, c, e, d) == [k \in 1..(e - d) |-> ItemIn(o, c, d + k - 1)]
Hands(o, c) == [t \in Thread |-> HeldIn(o, c, t)]

\* What somebody is writing is the item of the position.
LEMMA OneWriter ==
  ASSUME NEW o, NEW c, NEW p, NEW t \in Thread, WritersIn(o, p) = {t}
  PROVE  ItemIn(o, c, p) = o[t].item
BY DEF ItemIn

\* Threads that do not write at a position, and other cells, make no difference.
LEMMA SameItem ==
  ASSUME NEW o, NEW c, NEW n, NEW m, NEW p, NEW t \in Thread,
         \A u \in Thread \ {t} : n[u] = o[u],
         t \notin WritersIn(o, p), t \notin WritersIn(n, p),
         m[Index(p)] = c[Index(p)]
  PROVE  ItemIn(n, m, p) = ItemIn(o, c, p)
<1>1. WritersIn(n, p) = WritersIn(o, p)
  BY DEF WritersIn
<1>2. CASE WritersIn(o, p) = {}
  BY <1>1, <1>2 DEF ItemIn
<1>3. CASE WritersIn(o, p) # {}
  <2> DEFINE u == CHOOSE u \in Thread : u \in WritersIn(o, p)
  <2>1. u \in Thread /\ u \in WritersIn(o, p)
    BY <1>3 DEF WritersIn
  <2>2. ItemIn(n, m, p) = n[u].item /\ ItemIn(o, c, p) = o[u].item
    BY <1>1, <1>3 DEF ItemIn
  <2> HIDE DEF u
  <2> QED BY <2>1, <2>2
<1> QED BY <1>2, <1>3

\* What a position holds is an item or nothing.
LEMMA ItemType ==
  ASSUME NEW o \in [Thread -> QueueCall],
         NEW c \in [0..(Size - 1) -> [sequence : Nat, data : Item \cup {Nothing}]],
         NEW p \in Nat
  PROVE  ItemIn(o, c, p) \in Item \cup {Nothing}
<1>1. CASE WritersIn(o, p) = {}
  BY <1>1, CellIndex DEF ItemIn
<1>2. CASE WritersIn(o, p) # {}
  <2>1. PICK u \in Thread : ItemIn(o, c, p) = o[u].item
    BY <1>2 DEF ItemIn, WritersIn
  <2> QED BY <2>1 DEF QueueCall
<1> QED BY <1>1, <1>2

\* The contents are a sequence as long as the positions won and not yet left.
LEMMA ContentsType ==
  ASSUME NEW o \in [Thread -> QueueCall],
         NEW c \in [0..(Size - 1) -> [sequence : Nat, data : Item \cup {Nothing}]],
         NEW e \in Nat, NEW d \in Nat, d <= e
  PROVE  e - d \in Nat /\ Contents(o, c, e, d) \in [1..(e - d) -> Item \cup {Nothing}]
<1>1. ASSUME NEW k \in 1..(e - d) PROVE ItemIn(o, c, d + k - 1) \in Item \cup {Nothing}
  <2>1. d + k - 1 \in Nat
    OBVIOUS
  <2> QED BY <2>1, ItemType
<1>2. e - d \in Nat
  OBVIOUS
<1>3. Contents(o, c, e, d) \in [1..(e - d) -> Item \cup {Nothing}]
  BY <1>1 DEF Contents
<1> QED BY <1>2, <1>3

\* The queue of the positions in between is the same when their items are.
LEMMA SameContents ==
  ASSUME NEW o, NEW c, NEW n, NEW m, NEW e \in Nat, NEW d \in Nat,
         \A p \in Nat : d <= p /\ p < e => ItemIn(n, m, p) = ItemIn(o, c, p)
  PROVE  Contents(n, m, e, d) = Contents(o, c, e, d)
<1>1. \A k \in 1..(e - d) : ItemIn(n, m, d + k - 1) = ItemIn(o, c, d + k - 1)
  <2> SUFFICES ASSUME NEW k \in 1..(e - d)
               PROVE  ItemIn(n, m, d + k - 1) = ItemIn(o, c, d + k - 1)
    OBVIOUS
  <2>1. d + k - 1 \in Nat /\ d <= d + k - 1 /\ d + k - 1 < e
    OBVIOUS
  <2> QED BY <2>1
<1> QED BY <1>1 DEF Contents

\* What threads hold is the same when the cells of readers are.
LEMMA SameHands ==
  ASSUME NEW t \in Thread, \A u \in Thread \ {t} : op'[u] = op[u],
         \A u \in Thread \ {t} : At(u, "reading") =>
           cell'[Index(op[u].pos)].data = cell[Index(op[u].pos)].data,
         HeldIn(op', cell', t) = HeldIn(op, cell, t)
  PROVE  Hands(op', cell') = Hands(op, cell)
<1>1. \A u \in Thread : HeldIn(op', cell', u) = HeldIn(op, cell, u)
  BY DEF HeldIn, At
<1> QED BY <1>1 DEF Hands

Stutters ==
  /\ Contents(op', cell', enqueuePos', dequeuePos') = Contents(op, cell, enqueuePos, dequeuePos)
  /\ Hands(op', cell') = Hands(op, cell)

\* Steps outside the cells, as long as they do not touch what is held.
LEMMA LocalStutters ==
  ASSUME NEW t \in Thread, QInv, Alone(t), UNCHANGED <<cell, enqueuePos, dequeuePos>>,
         op[t].pc # "writing", op'[t].pc # "writing",
         HeldIn(op', cell', t) = HeldIn(op, cell, t)
  PROVE  Stutters
<1>1. enqueuePos \in Nat /\ dequeuePos \in Nat
  BY DEF QInv, QTypeOK
<1>2. \A p \in Nat : ItemIn(op', cell', p) = ItemIn(op, cell, p)
  <2> SUFFICES ASSUME NEW p \in Nat PROVE ItemIn(op', cell', p) = ItemIn(op, cell, p)
    OBVIOUS
  <2>1. t \notin WritersIn(op, p) /\ t \notin WritersIn(op', p)
    BY DEF WritersIn
  <2> QED BY <2>1, SameItem DEF Alone
<1>3. Contents(op', cell', enqueuePos, dequeuePos) = Contents(op, cell, enqueuePos, dequeuePos)
  BY <1>1, <1>2, SameContents
<1>4. Hands(op', cell') = Hands(op, cell)
  BY SameHands DEF Alone
<1> QED BY <1>3, <1>4 DEF Stutters

\* Nothing is held outside "reading" and "done"; EmptyFront() ends in "done".
EmptyHanded ==
  \A t \in Thread : op[t].pc \in {"idle", "front", "same", "different"} => op[t].item = Nothing

\* Calls of is_empty() never come with an item.
LEMMA EmptyHandedInv ==
  ASSUME QInv, EmptyHanded, [QNext]_qvars
  PROVE  EmptyHanded'
<1>1. op \in [Thread -> QueueCall]
  BY DEF QInv, QTypeOK, QueueCall, PCs
<1>2. CASE UNCHANGED qvars
  BY <1>2 DEF qvars, EmptyHanded
<1>3. CASE QNext
  <2>1. PICK t \in Thread :
          \/ QueueStep(t) \/ Acknowledge(t) \/ (op[t].item \in Item /\ Retry(t))
          \/ DequeueCall(t) \/ EmptyCall(t) \/ \E x \in Item : EnqueueCall(t, x)
    BY <1>3 DEF QNext
  <2>2. \A u \in Thread \ {t} : op'[u] = op[u]
    BY <1>1, <2>1 DEF QueueStep, EnqueueStep, DequeueStep, EmptyStep, Acknowledge, Retry,
       DequeueCall, EmptyCall, EnqueueCall, EnqueueLook, EnqueueClaim, EnqueueMiss,
       EnqueueWrite, DequeueLook, DequeueClaim, DequeueMiss, DequeueRead, EmptyBack,
       EmptyFront, Goto, Aim
  <2>3. op'[t].pc \in {"idle", "front", "same", "different"} => op'[t].item = Nothing
    BY <1>1, <2>1 DEF EmptyHanded, QueueStep, EnqueueStep, DequeueStep, EmptyStep,
       Acknowledge, Retry, DequeueCall, EmptyCall, EnqueueCall, EnqueueLook, EnqueueClaim,
       EnqueueMiss, EnqueueWrite, DequeueLook, DequeueClaim, DequeueMiss, DequeueRead,
       EmptyBack, EmptyFront, Goto, Aim, At, Idle, QueueCall
  <2> QED BY <2>2, <2>3 DEF EmptyHanded
<1> QED BY <1>2, <1>3

\* Calls, looks, misses and is_empty() change neither contents nor hands.
LEMMA CallStutters ==
  ASSUME QInv, EmptyHanded, NEW t \in Thread,
         \/ op[t].pc = "failed" /\ Acknowledge(t)
         \/ op[t].item = Nothing /\ Acknowledge(t)
         \/ DequeueCall(t) \/ EmptyCall(t) \/ EmptyStep(t) \/ Retry(t)
         \/ EnqueueLook(t) \/ EnqueueMiss(t) \/ DequeueLook(t) \/ DequeueMiss(t)
         \/ \E x \in Item : EnqueueCall(t, x)
  PROVE  Stutters
<1>1. op \in [Thread -> QueueCall] /\ enqueuePos \in Nat /\ dequeuePos \in Nat
  BY DEF QInv, QTypeOK, QueueCall, PCs
<1>2. UNCHANGED <<cell, enqueuePos, dequeuePos>>
  BY DEF Acknowledge, DequeueCall, EmptyCall, EmptyStep, EmptyBack, EmptyFront, Retry,
     EnqueueCall, EnqueueLook, EnqueueMiss, DequeueLook, DequeueMiss
<1>3. /\ op' \in [Thread -> QueueCall] /\ \A u \in Thread \ {t} : op'[u] = op[u]
      /\ op[t].pc # "writing" /\ op'[t].pc # "writing"
      /\ op[t].pc # "reading" /\ op'[t].pc # "reading"
      /\ op[t].pc = "done" => op[t].item = Nothing
      /\ op'[t].pc = "done" => op'[t].item = Nothing
  <2>1. CASE op[t].pc = "failed" /\ Acknowledge(t)
    BY <1>1, <2>1 DEF Acknowledge, Idle, QueueCall, PCs
  <2>2. CASE op[t].item = Nothing /\ Acknowledge(t)
    BY <1>1, <2>2 DEF Acknowledge, Idle, QueueCall, PCs
  <2>3. CASE DequeueCall(t) \/ EmptyCall(t)
    BY <1>1, <2>3 DEF DequeueCall, EmptyCall, Aim, At, QueueCall, PCs
  <2>4. CASE EmptyStep(t)
    BY <1>1, <2>4 DEF EmptyStep, EmptyBack, EmptyFront, EmptyHanded, Aim, Goto, At, QueueCall, PCs
  <2>5. CASE Retry(t) \/ EnqueueMiss(t) \/ DequeueMiss(t)
    BY <1>1, <2>5 DEF Retry, EnqueueMiss, DequeueMiss, Aim, At, QueueCall, PCs
  <2>6. CASE EnqueueLook(t)
    BY <1>1, <2>6 DEF EnqueueLook, Goto, Aim, At, QueueCall, PCs
  <2>7. CASE DequeueLook(t)
    BY <1>1, <2>7 DEF DequeueLook, Goto, Aim, At, QueueCall, PCs
  <2>8. CASE \E x \in Item : EnqueueCall(t, x)
    BY <1>1, <2>8 DEF EnqueueCall, At, QueueCall, PCs
  <2> QED BY <2>1, <2>2, <2>3, <2>4, <2>5, <2>6, <2>7, <2>8
<1>4. HeldIn(op', cell', t) = HeldIn(op, cell, t)
  BY <1>3 DEF HeldIn
<1> QED BY <1>2, <1>3, <1>4, LocalStutters DEF Alone

\* The data has gone into the cell: the position holds the same item.
LEMMA WriteStutters ==
  ASSUME QInv, QInv', NEW t \in Thread, EnqueueWrite(t)
  PROVE  Stutters
<1>1. PICK q \in Nat, x \in Item : q = op[t].pos /\ x = op[t].item
  BY DEF EnqueueWrite, QInv, QTypeOK, Carried, At
<1>2. /\ enqueuePos \in Nat /\ dequeuePos \in Nat
      /\ dequeuePos <= q /\ q < enqueuePos /\ enqueuePos <= dequeuePos + Size
      /\ enqueuePos' = enqueuePos /\ dequeuePos' = dequeuePos
      /\ cell' = [cell EXCEPT ![Index(q)] = [sequence |-> q + 1, data |-> x]]
      /\ op[t].pc = "writing" /\ op'[t].pc = "done" /\ op'[t].item = Nothing
      /\ \A u \in Thread \ {t} : op'[u] = op[u]
  BY <1>1 DEF EnqueueWrite, QInv, QTypeOK, InRange, Inside, Won, At
<1>3. q < dequeuePos + Size /\ q + 1 \in Nat
  BY <1>2, SizeAssumption
<1>4. /\ cell'[Index(q)].data = x
      /\ \A p \in Nat : dequeuePos <= p /\ p < dequeuePos + Size /\ p # q =>
           cell'[Index(p)] = cell[Index(p)]
  <2>1. PICK n \in Nat : n = q + 1
    BY <1>3
  <2>2. cell' = [cell EXCEPT ![Index(q)] = [sequence |-> n, data |-> x]]
    BY <1>2, <2>1
  <2>3. dequeuePos <= q
    BY <1>2
  <2> QED BY ONLY QInv, <1>3, <2>2, <2>3, OneCell
<1>5. WritersIn(op, q) = {t} /\ WritersIn(op', q) = {}
  BY <1>1, <1>2 DEF WritersIn, QInv, Single, InCell
<1>6. ItemIn(op, cell, q) = x /\ ItemIn(op', cell', q) = x
  <2>1. ItemIn(op, cell, q) = op[t].item
    BY <1>5, OneWriter
  <2>2. ItemIn(op', cell', q) = cell'[Index(q)].data
    BY <1>5 DEF ItemIn
  <2> QED BY <1>1, <1>4, <2>1, <2>2
<1>7. \A p \in Nat : dequeuePos <= p /\ p < enqueuePos =>
        ItemIn(op', cell', p) = ItemIn(op, cell, p)
  <2> SUFFICES ASSUME NEW p \in Nat, dequeuePos <= p, p < enqueuePos, p # q
               PROVE  ItemIn(op', cell', p) = ItemIn(op, cell, p)
    BY <1>6
  <2>1. cell'[Index(p)] = cell[Index(p)]
    BY <1>2, <1>4, SizeAssumption
  <2>2. t \notin WritersIn(op, p) /\ t \notin WritersIn(op', p)
    BY <1>1, <1>2 DEF WritersIn
  <2>3. \A u \in Thread \ {t} : op'[u] = op[u]
    BY <1>2
  <2> QED BY <2>1, <2>2, <2>3, SameItem
<1>8. Contents(op', cell', enqueuePos, dequeuePos) = Contents(op, cell, enqueuePos, dequeuePos)
  <2>1. enqueuePos \in Nat /\ dequeuePos \in Nat
    BY <1>2
  <2> QED BY <1>7, <2>1, SameContents
<1>9. ASSUME NEW u \in Thread \ {t}, At(u, "reading")
      PROVE  cell'[Index(op[u].pos)].data = cell[Index(op[u].pos)].data
  <2>1. PICK r \in Nat : r = op[u].pos /\ Free(r + Size) /\ r + Size \in Nat
    BY <1>9, SizeAssumption DEF QInv, QTypeOK, Inside
  <2>2. dequeuePos <= r + Size /\ r + Size < dequeuePos + Size /\ r + Size # q
    BY <1>2, <2>1, SizeAssumption DEF Free
  <2>3. cell'[Index(r + Size)] = cell[Index(r + Size)]
    BY <1>4, <2>1, <2>2
  <2>4. Index(r + Size) = Index(r)
    BY NextRound
  <2> QED BY <2>1, <2>3, <2>4
<1>10. HeldIn(op', cell', t) = HeldIn(op, cell, t)
  BY <1>2 DEF HeldIn
<1>11. Hands(op', cell') = Hands(op, cell)
  BY <1>2, <1>9, <1>10, SameHands
<1> QED BY <1>2, <1>8, <1>11 DEF Stutters

\* The data has come out of the cell: the thread holds the same item.
LEMMA ReadStutters ==
  ASSUME QInv, NEW t \in Thread, DequeueRead(t)
  PROVE  Stutters
<1>1. PICK q \in Nat : q = op[t].pos + Size
  BY SizeAssumption DEF QInv, QTypeOK
<1>2. /\ op[t].pos \in Nat /\ enqueuePos \in Nat /\ dequeuePos \in Nat
      /\ dequeuePos <= enqueuePos /\ enqueuePos <= q /\ q < dequeuePos + Size
      /\ enqueuePos' = enqueuePos /\ dequeuePos' = dequeuePos
      /\ op[t].pc = "reading" /\ op'[t].pc = "done" /\ op'[t].item = cell[Index(op[t].pos)].data
      /\ \A u \in Thread \ {t} : op'[u] = op[u]
  BY <1>1 DEF DequeueRead, QInv, QTypeOK, InRange, Inside, Free, At, CellOf
<1>3. Index(q) = Index(op[t].pos)
  BY <1>1, <1>2, NextRound
<1>4. cell' = [cell EXCEPT ![Index(q)] = [sequence |-> q, data |-> Nothing]]
  <2>1. cell' = [cell EXCEPT ![Index(q)] = [sequence |-> op[t].pos + Size, data |-> Nothing]]
    BY <1>3 DEF DequeueRead
  <2> QED BY <1>1, <2>1
<1>5. dequeuePos <= q
  BY <1>2
<1>6. \A p \in Nat : dequeuePos <= p /\ p < dequeuePos + Size /\ p # q =>
        cell'[Index(p)] = cell[Index(p)]
  BY <1>2, <1>4, <1>5, OneCell
<1>7. \A p \in Nat : dequeuePos <= p /\ p < enqueuePos =>
        ItemIn(op', cell', p) = ItemIn(op, cell, p)
  <2> SUFFICES ASSUME NEW p \in Nat, dequeuePos <= p, p < enqueuePos
               PROVE  ItemIn(op', cell', p) = ItemIn(op, cell, p)
    OBVIOUS
  <2>1. cell'[Index(p)] = cell[Index(p)]
    BY <1>2, <1>6, SizeAssumption
  <2>2. t \notin WritersIn(op, p) /\ t \notin WritersIn(op', p)
    BY <1>2 DEF WritersIn
  <2>3. \A u \in Thread \ {t} : op'[u] = op[u]
    BY <1>2
  <2> QED BY <2>1, <2>2, <2>3, SameItem
<1>8. Contents(op', cell', enqueuePos, dequeuePos) = Contents(op, cell, enqueuePos, dequeuePos)
  <2>1. enqueuePos \in Nat /\ dequeuePos \in Nat
    BY <1>2
  <2> QED BY <1>7, <2>1, SameContents
<1>9. ASSUME NEW u \in Thread \ {t}, At(u, "reading")
      PROVE  cell'[Index(op[u].pos)].data = cell[Index(op[u].pos)].data
  <2>1. PICK r \in Nat : r = op[u].pos /\ Free(r + Size) /\ r + Size \in Nat
    BY <1>9, SizeAssumption DEF QInv, QTypeOK, Inside
  <2>2. r # op[t].pos
    BY <1>2, <1>9, <2>1 DEF QInv, Single, InCell, At
  <2>3. dequeuePos <= r + Size /\ r + Size < dequeuePos + Size /\ r + Size # q
    BY <1>1, <1>2, <2>1, <2>2, SizeAssumption DEF Free
  <2>4. cell'[Index(r + Size)] = cell[Index(r + Size)]
    BY <1>6, <2>1, <2>3
  <2>5. Index(r + Size) = Index(r)
    BY NextRound
  <2> QED BY <2>1, <2>4, <2>5
<1>10. HeldIn(op', cell', t) = HeldIn(op, cell, t)
  BY <1>2 DEF HeldIn
<1>11. Hands(op', cell') = Hands(op, cell)
  BY <1>2, <1>9, <1>10, SameHands
<1> QED BY <1>2, <1>8, <1>11 DEF Stutters

\* Winning a position to write at: the item is behind the others.
LEMMA ClaimPuts ==
  ASSUME QInv, QInv', NEW t \in Thread, EnqueueClaim(t)
  PROVE  /\ op[t].item \in Item
         /\ Len(Contents(op, cell, enqueuePos, dequeuePos)) < Size
         /\ Contents(op', cell', enqueuePos', dequeuePos') =
              Append(Contents(op, cell, enqueuePos, dequeuePos), op[t].item)
         /\ Hands(op', cell') = Hands(op, cell)
<1>1. PICK e \in Nat, d \in Nat, x \in Item :
        e = enqueuePos /\ d = dequeuePos /\ x = op[t].item
  BY DEF EnqueueClaim, QInv, QTypeOK, Carried, At
<1>2. /\ op[t].pos = e /\ d <= e /\ e < d + Size
      /\ enqueuePos' = e + 1 /\ dequeuePos' = d /\ cell' = cell
      /\ op[t].pc = "enqueue_claim"
  BY <1>1, ClaimedCell DEF EnqueueClaim, QInv, InRange, At
<1>3. /\ op \in [Thread -> QueueCall] /\ op' \in [Thread -> QueueCall]
      /\ cell \in [0..(Size - 1) -> [sequence : Nat, data : Item \cup {Nothing}]]
  BY DEF QInv, QTypeOK, QueueCall, PCs
<1>4. /\ \A u \in Thread \ {t} : op'[u] = op[u]
      /\ op'[t].pc = "writing" /\ op'[t].pos = e /\ op'[t].item = x
  BY <1>1, <1>2, <1>3 DEF EnqueueClaim, Goto, QueueCall
<1>5. \A p \in Nat : d <= p /\ p < e => ItemIn(op', cell, p) = ItemIn(op, cell, p)
  <2> SUFFICES ASSUME NEW p \in Nat, d <= p, p < e
               PROVE  ItemIn(op', cell, p) = ItemIn(op, cell, p)
    OBVIOUS
  <2>1. t \notin WritersIn(op, p) /\ t \notin WritersIn(op', p)
    BY <1>2, <1>4 DEF WritersIn
  <2>2. \A u \in Thread \ {t} : op'[u] = op[u]
    BY <1>4
  <2> QED BY <2>1, <2>2, SameItem
<1>6. ItemIn(op', cell, e) = x
  <2>1. WritersIn(op', e) = {t}
    BY <1>4 DEF WritersIn, QInv, Single, InCell
  <2> QED BY <1>4, <2>1, OneWriter
<1> DEFINE n == e - d
           f == Contents(op, cell, e, d)
           g == Contents(op', cell, e + 1, d)
           S == Item \cup {Nothing}
<1>7. /\ n \in Nat /\ (e + 1) - d = n + 1 /\ n < Size
      /\ f \in [1..n -> S] /\ g \in [1..(n + 1) -> S]
  <2>1. e + 1 \in Nat /\ d <= e + 1 /\ (e + 1) - d = n + 1 /\ n < Size
    BY <1>2, SizeAssumption
  <2>2. n \in Nat /\ f \in [1..n -> S]
    BY <1>2, <1>3, ContentsType
  <2>3. g \in [1..((e + 1) - d) -> S]
    BY <1>3, <2>1, ContentsType
  <2> QED BY <2>1, <2>2, <2>3
<1>8. \A k \in 1..n : g[k] = f[k]
  <2> SUFFICES ASSUME NEW k \in 1..n PROVE g[k] = f[k]
    OBVIOUS
  <2>1. d + k - 1 \in Nat /\ d <= d + k - 1 /\ d + k - 1 < e
    BY <1>7
  <2>2. g[k] = ItemIn(op', cell, d + k - 1) /\ f[k] = ItemIn(op, cell, d + k - 1)
    BY <1>7 DEF Contents
  <2> QED BY <1>5, <2>1, <2>2
<1>9. g[n + 1] = x
  <2>1. n + 1 \in 1..((e + 1) - d) /\ d + (n + 1) - 1 = e
    BY <1>7
  <2>2. g[n + 1] = ItemIn(op', cell, d + (n + 1) - 1)
    BY <2>1 DEF Contents
  <2> QED BY <1>6, <2>1, <2>2
<1>10. Len(f) = n /\ g = Append(f, x)
  <2> HIDE DEF n, f, g, S
  <2> QED BY <1>7, <1>8, <1>9, Appended
<1>11. Hands(op', cell') = Hands(op, cell)
  <2>1. HeldIn(op', cell', t) = HeldIn(op, cell, t)
    BY <1>2, <1>4 DEF HeldIn
  <2> QED BY <1>2, <1>4, <2>1, SameHands
<1>12. Len(f) < Size
  BY <1>7, <1>10
<1> QED BY <1>1, <1>2, <1>10, <1>11, <1>12

\* Winning a position to read at: the first item is in the thread's hands.
LEMMA ClaimGets ==
  ASSUME QInv, NEW t \in Thread, DequeueClaim(t)
  PROVE  /\ Contents(op, cell, enqueuePos, dequeuePos) # <<>>
         /\ Hands(op, cell)[t] = Nothing
         /\ Contents(op', cell', enqueuePos', dequeuePos') =
              Tail(Contents(op, cell, enqueuePos, dequeuePos))
         /\ Hands(op', cell') =
              [Hands(op, cell) EXCEPT ![t] = Head(Contents(op, cell, enqueuePos, dequeuePos))]
<1>1. PICK e \in Nat, d \in Nat : e = enqueuePos /\ d = dequeuePos
  BY DEF QInv, QTypeOK
<1>2. /\ op[t].pos = d /\ d < e /\ cell[Index(d)].sequence = d + 1
      /\ enqueuePos' = e /\ dequeuePos' = d + 1 /\ cell' = cell
      /\ op[t].pc = "dequeue_claim"
  BY <1>1, ClaimedCell DEF DequeueClaim, At, Stamp
<1>3. /\ op \in [Thread -> QueueCall]
      /\ cell \in [0..(Size - 1) -> [sequence : Nat, data : Item \cup {Nothing}]]
  BY DEF QInv, QTypeOK, QueueCall, PCs
<1>4. /\ \A u \in Thread \ {t} : op'[u] = op[u]
      /\ op'[t].pc = "reading" /\ op'[t].pos = d /\ op' \in [Thread -> QueueCall]
  BY <1>1, <1>2, <1>3 DEF DequeueClaim, Goto, QueueCall, PCs
<1>5. \A p \in Nat : ItemIn(op', cell, p) = ItemIn(op, cell, p)
  <2> SUFFICES ASSUME NEW p \in Nat PROVE ItemIn(op', cell, p) = ItemIn(op, cell, p)
    OBVIOUS
  <2>1. t \notin WritersIn(op, p) /\ t \notin WritersIn(op', p)
    BY <1>2, <1>4 DEF WritersIn
  <2>2. \A u \in Thread \ {t} : op'[u] = op[u]
    BY <1>4
  <2> QED BY <2>1, <2>2, SameItem
<1>6. ItemIn(op, cell, d) = cell[Index(d)].data
  <2>1. ASSUME NEW u \in Thread, op[u].pc = "writing", op[u].pos = d PROVE FALSE
    BY <1>1, <1>2, <2>1 DEF QInv, Inside, At, Stamp
  <2>2. WritersIn(op, d) = {}
    BY <2>1 DEF WritersIn
  <2> QED BY <2>2 DEF ItemIn
<1> DEFINE n == e - (d + 1)
           f == Contents(op, cell, e, d)
           g == Contents(op', cell, e, d + 1)
           S == Item \cup {Nothing}
<1>7. /\ n \in Nat /\ e - d = n + 1
      /\ f \in [1..(n + 1) -> S] /\ g \in [1..n -> S]
  <2>1. d + 1 \in Nat /\ d + 1 <= e /\ d <= e /\ e - d = n + 1
    BY <1>2
  <2>2. n \in Nat /\ g \in [1..n -> S]
    BY <1>4, <1>3, <2>1, ContentsType
  <2>3. f \in [1..(e - d) -> S]
    BY <1>3, <2>1, ContentsType
  <2> QED BY <2>1, <2>2, <2>3
<1>8. \A k \in 1..n : g[k] = f[k + 1]
  <2> SUFFICES ASSUME NEW k \in 1..n PROVE g[k] = f[k + 1]
    OBVIOUS
  <2>1. k + 1 \in 1..(e - d) /\ (d + 1) + k - 1 = d + (k + 1) - 1 /\ (d + 1) + k - 1 \in Nat
    BY <1>7
  <2>2. g[k] = ItemIn(op', cell, (d + 1) + k - 1) /\ f[k + 1] = ItemIn(op, cell, d + (k + 1) - 1)
    BY <2>1 DEF Contents
  <2> QED BY <1>5, <2>1, <2>2
<1>9. f[1] = cell[Index(d)].data
  <2>1. 1 \in 1..(e - d) /\ d + 1 - 1 = d
    BY <1>7
  <2>2. f[1] = ItemIn(op, cell, d + 1 - 1)
    BY <2>1 DEF Contents
  <2> QED BY <1>6, <2>1, <2>2
<1>10. f # <<>> /\ Head(f) = f[1] /\ g = Tail(f)
  <2> HIDE DEF n, f, g, S
  <2> QED BY <1>7, <1>8, Shifted
<1>11. \A u \in Thread \ {t} : HeldIn(op', cell, u) = HeldIn(op, cell, u)
  BY <1>4 DEF HeldIn
<1>12. HeldIn(op, cell, t) = Nothing /\ HeldIn(op', cell, t) = cell[Index(d)].data
  BY <1>2, <1>4 DEF HeldIn
<1>13. /\ Hands(op, cell)[t] = Nothing
       /\ Hands(op', cell) = [Hands(op, cell) EXCEPT ![t] = f[1]]
  BY <1>9, <1>11, <1>12 DEF Hands
<1> QED BY <1>1, <1>2, <1>10, <1>13

\* Handing the item to the caller.
LEMMA DoneReleases ==
  ASSUME QInv, NEW t \in Thread, Acknowledge(t), op[t].pc = "done", op[t].item # Nothing
  PROVE  /\ Hands(op, cell)[t] # Nothing
         /\ Hands(op', cell') = [Hands(op, cell) EXCEPT ![t] = Nothing]
         /\ Contents(op', cell', enqueuePos', dequeuePos') =
              Contents(op, cell, enqueuePos, dequeuePos)
<1>1. /\ enqueuePos \in Nat /\ dequeuePos \in Nat
      /\ enqueuePos' = enqueuePos /\ dequeuePos' = dequeuePos /\ cell' = cell
      /\ op \in [Thread -> QueueCall]
  BY DEF Acknowledge, QInv, QTypeOK, QueueCall, PCs
<1>2. op'[t].pc = "idle" /\ \A u \in Thread \ {t} : op'[u] = op[u]
  BY <1>1 DEF Acknowledge, Idle
<1>3. \A p \in Nat : ItemIn(op', cell, p) = ItemIn(op, cell, p)
  <2> SUFFICES ASSUME NEW p \in Nat PROVE ItemIn(op', cell, p) = ItemIn(op, cell, p)
    OBVIOUS
  <2>1. t \notin WritersIn(op, p) /\ t \notin WritersIn(op', p)
    BY <1>2 DEF WritersIn
  <2> QED BY <1>2, <2>1, SameItem
<1>4. Contents(op', cell, enqueuePos, dequeuePos) = Contents(op, cell, enqueuePos, dequeuePos)
  BY <1>1, <1>3, SameContents
<1>5. /\ \A u \in Thread \ {t} : HeldIn(op', cell, u) = HeldIn(op, cell, u)
      /\ HeldIn(op, cell, t) = op[t].item /\ HeldIn(op', cell, t) = Nothing
  BY <1>2 DEF HeldIn
<1>6. /\ Hands(op, cell)[t] # Nothing
      /\ Hands(op', cell) = [Hands(op, cell) EXCEPT ![t] = Nothing]
  BY <1>5 DEF Hands
<1> QED BY <1>1, <1>4, <1>6

\* The mapping of the INSTANCE is Contents and Hands, before and after a step.
LEMMA Mapping ==
  /\ [k \in 1..(enqueuePos - dequeuePos) |-> ItemAt(dequeuePos + k - 1)] =
       Contents(op, cell, enqueuePos, dequeuePos)
  /\ [t \in Thread |-> Held(t)] = Hands(op, cell)
BY DEF ItemAt, Writers, Held, CellOf, At, Contents, ItemIn, WritersIn, Hands, HeldIn

\* The same after the step.
LEMMA NextMapping ==
  /\ [k \in 1..(enqueuePos - dequeuePos) |-> ItemAt(dequeuePos + k - 1)]' =
       Contents(op', cell', enqueuePos', dequeuePos')
  /\ [t \in Thread |-> Held(t)]' = Hands(op', cell')
BY DEF ItemAt, Writers, Held, CellOf, At, Contents, ItemIn, WritersIn, Hands, HeldIn

\* The queue begins empty, and nobody holds anything.
LEMMA FifoInit == QInit => Fifo!Init
<1> SUFFICES ASSUME QInit PROVE Fifo!Init
  OBVIOUS
<1>1. enqueuePos = 0 /\ dequeuePos = 0 /\ op = [t \in Thread |-> Idle]
  BY DEF QInit
<1>2. Contents(op, cell, enqueuePos, dequeuePos) = <<>>
  BY <1>1 DEF Contents
<1>3. Hands(op, cell) = [t \in Thread |-> Nothing]
  BY <1>1 DEF Hands, HeldIn, Idle
<1> QED BY <1>2, <1>3, Mapping DEF Fifo!Init

\* Every step is a Put, a Get, a Release or a stutter.
LEMMA FifoStep ==
  ASSUME QInv, QInv', EmptyHanded, [QNext]_qvars
  PROVE  [Fifo!Next]_<<[k \in 1..(enqueuePos - dequeuePos) |-> ItemAt(dequeuePos + k - 1)],
                       [t \in Thread |-> Held(t)]>>
<1> DEFINE fifo == [k \in 1..(enqueuePos - dequeuePos) |-> ItemAt(dequeuePos + k - 1)]
           held == [t \in Thread |-> Held(t)]
<1>1. ASSUME Stutters PROVE UNCHANGED <<fifo, held>>
  BY <1>1, Mapping, NextMapping DEF Stutters
<1>2. CASE UNCHANGED qvars
  <2>1. Stutters
    BY <1>2 DEF qvars, Stutters
  <2> QED BY <1>1, <2>1
<1>3. CASE QNext
  <2>1. PICK t \in Thread :
          \/ QueueStep(t) \/ Acknowledge(t) \/ (op[t].item \in Item /\ Retry(t))
          \/ DequeueCall(t) \/ EmptyCall(t) \/ \E x \in Item : EnqueueCall(t, x)
    BY <1>3 DEF QNext
  <2>2. CASE EnqueueClaim(t)
    <3>1. Fifo!Put(op[t].item) /\ op[t].item \in Item
      BY <2>2, ClaimPuts, Mapping, NextMapping DEF Fifo!Put
    <3> QED BY <3>1 DEF Fifo!Next
  <2>3. CASE DequeueClaim(t)
    <3>1. Fifo!Get(t)
      BY <2>3, ClaimGets, Mapping, NextMapping DEF Fifo!Get
    <3> QED BY <3>1 DEF Fifo!Next
  <2>4. CASE EnqueueWrite(t)
    BY <1>1, <2>4, WriteStutters
  <2>5. CASE DequeueRead(t)
    BY <1>1, <2>5, ReadStutters
  <2>6. CASE Acknowledge(t) /\ op[t].pc = "done" /\ op[t].item # Nothing
    <3>1. Fifo!Release(t)
      BY <2>6, DoneReleases, Mapping, NextMapping DEF Fifo!Release
    <3> QED BY <3>1 DEF Fifo!Next
  <2>7. CASE Acknowledge(t) /\ (op[t].pc = "failed" \/ op[t].item = Nothing)
    BY <1>1, <2>7, CallStutters
  <2>8. CASE DequeueCall(t) \/ EmptyCall(t) \/ EmptyStep(t) \/ Retry(t)
               \/ EnqueueLook(t) \/ EnqueueMiss(t) \/ DequeueLook(t) \/ DequeueMiss(t)
               \/ \E x \in Item : EnqueueCall(t, x)
    BY <1>1, <2>8, CallStutters
  <2> QED BY <2>1, <2>2, <2>3, <2>4, <2>5, <2>6, <2>7, <2>8
          DEF QueueStep, EnqueueStep, DequeueStep, Acknowledge
<1> QED BY <1>2, <1>3

\* The ring is a bounded first-in first-out queue for any number of threads, any
\* items and any size from 2: winning a position is when an item goes in or
\* comes out (enqueue(), dequeue()), and Fifo!Put needs room, which is what the
\* window of positions gives.
THEOREM QueueIsFifo == QSpec => ImplementsBoundedFifo
<1>1. QInit => EmptyHanded
  BY DEF QInit, EmptyHanded, Idle
<1>2. QInv /\ EmptyHanded /\ [QNext]_qvars => EmptyHanded'
  BY EmptyHandedInv
<1>3. QInv /\ QInv' /\ EmptyHanded /\ [QNext]_qvars =>
        [Fifo!Next]_<<[k \in 1..(enqueuePos - dequeuePos) |-> ItemAt(dequeuePos + k - 1)],
                      [t \in Thread |-> Held(t)]>>
  BY FifoStep
<1> QED BY <1>1, <1>2, <1>3, Invariance, FifoInit, PTL
        DEF QSpec, ImplementsBoundedFifo, Fifo!Spec

-----------------------------------------------------------------------------
(* Who calls what *)

CallerPlace == {"free", "log", "urgent", "flush_on", "flush", "wait", "ending", "join", "gone"}

\* What push_msg() may be called with.
MayBring(where) ==
  CASE where = "log" -> 1..Messages \cup {FlushMsg}
    [] where = "urgent" -> 1..Messages
    [] where = "flush" -> {FlushMsg}
    [] where = "ending" -> {TerminateMsg}
    [] OTHER -> {}

Pushes == {"enqueue", "enqueue_claim", "writing", "failed"}
PushPlace == {"log", "urgent", "flush", "ending"}

\* A client is in a call of enqueue() while it pushes, of is_empty() while it
\* waits, and in none otherwise.
CallFits(where, call) ==
  /\ where \in PushPlace =>
       \/ call.pc \in Pushes /\ call.item \in MayBring(where)
       \/ call.pc = "done" /\ call.item = Nothing
  /\ where = "wait" =>
       /\ call.pc \in {"idle", "front", "same", "different", "done", "failed"}
       /\ call.item = Nothing
  /\ where \in {"free", "flush_on", "join", "gone"} =>
       call.pc = "idle" /\ call.item = Nothing

ClientCalls ==
  /\ caller \in [Client -> CallerPlace]
  /\ \A c \in Client : CallFits(caller[c], op[c])

\* The worker is in a call of dequeue() or in none.
WorkerCalls ==
  /\ op[Worker].pc \in {"idle", "dequeue", "dequeue_claim", "reading", "done", "failed"}
  /\ op[Worker].pc # "done" => op[Worker].item = Nothing

CountsType ==
  /\ logged \in 0..Messages /\ discarded \in Nat
  /\ policy \in {"block_retry", "discard_log_msg"}
  /\ worker \in {"run", "exited"}
  /\ flushRequested \in BOOLEAN /\ terminateRequested \in BOOLEAN
  /\ consumed \in Seq(1..Messages)

CallsInv == QInv /\ EmptyHanded /\ ClientCalls /\ WorkerCalls /\ CountsType
-----------------------------------------------------------------------------
(* Where a message is *)

Queued == Contents(op, cell, enqueuePos, dequeuePos)
InHand == HeldIn(op, cell, Worker)

\* The clients with a message that is not in the queue yet.
Bringing == {c \in Client : op[c].pc \in Pushes \ {"writing"} /\ op[c].item # Nothing}

Elements(s) == {s[k] : k \in DOMAIN s}

Present ==
  Elements(consumed) \cup Elements(Queued) \cup {InHand} \cup {op[c].item : c \in Bringing}

\* All of n messages but at most d are in p.
Kept(p, n, d) ==
  \E lost \in SUBSET (1..n) :
    /\ IsFiniteSet(lost) /\ Cardinality(lost) <= d
    /\ 1..n \subseteq lost \cup p

KeptInv == Kept(Present, logged, discarded)

\* The last reference is dropped by one client, when the others are gone.
LastInv ==
  \A c \in Client : caller[c] \in {"ending", "join"} =>
    \A d \in Client \ {c} : caller[d] = "gone"

\* From the moment "terminate" is in the queue nobody brings anything.
Closed ==
  \/ TerminateMsg \in Elements(Queued) \cup {InHand}
  \/ terminateRequested

NoneComes ==
  \A c \in Client : caller[c] \in {"ending", "join", "gone"} /\ c \notin Bringing

EndInv ==
  /\ Closed => NoneComes
  /\ \A k \in DOMAIN Queued : Queued[k] = TerminateMsg => k = Len(Queued)
  /\ InHand = TerminateMsg \/ terminateRequested => Queued = <<>>
  /\ terminateRequested => InHand = Nothing

\* The worker leaves when it was told to, and flushes before.
LeavesInv ==
  /\ worker = "exited" => terminateRequested /\ unflushed = 0
  /\ terminateRequested /\ worker = "run" => flushRequested
-----------------------------------------------------------------------------
(* The files *)

SizesInv ==
  /\ currentSize \in Nat /\ failures \in Nat /\ WriterIsOpen
  /\ content \in [FileIndex -> Seq(1..Messages)]

\* Where file i ends in what was consumed: each file but file 0 is full, as long
\* as there is enough to fill it with.
CutAt(start, i) ==
  IF (i - 1) * MaxSize < start THEN start - (i - 1) * MaxSize ELSE 0

FullCuts(cut) ==
  \A i \in 1..(MaxFiles + 1) : cut[i] = CutAt(cut[1], i)

FilesInv ==
  failures = 0 =>
    /\ open /\ 0 \in exists
    /\ currentSize <= MaxSize
    /\ \E cut \in [0..(MaxFiles + 1) -> 0..Len(consumed)] :
         /\ HoldEnd(consumed, cut) /\ FullCuts(cut)
         /\ currentSize = Len(consumed) - cut[1]
         /\ cut[1] > 0 => currentSize > 0
-----------------------------------------------------------------------------
(* The steps of a call *)

\* The messages, and the two that are not text.
LEMMA Messages3 ==
  /\ Messages \in Nat /\ 1..Messages \subseteq Item
  /\ FlushMsg \in Item /\ TerminateMsg \in Item
  /\ FlushMsg \notin 1..Messages /\ TerminateMsg \notin 1..Messages
  /\ FlushMsg # TerminateMsg /\ Nothing \notin Item
  /\ Worker \in Thread /\ Client \subseteq Thread /\ Worker \notin Client
  /\ Thread = Client \cup {Worker}
BY AsyncAssumption, ItemAssumption DEF FlushMsg, TerminateMsg

\* Where a step of a call leads, and that it keeps the item but where one is
\* moved into or out of a cell.
Moves(t) ==
  /\ \A u \in Thread \ {t} : op'[u] = op[u]
  /\ op[t].pc \notin {"idle", "done", "failed"}
  /\ op[t].pc = "enqueue" => op'[t].pc \in {"enqueue", "enqueue_claim", "failed"}
  /\ op[t].pc = "enqueue_claim" => op'[t].pc \in {"enqueue", "writing"}
  /\ op[t].pc = "writing" => op'[t].pc = "done" /\ op'[t].item = Nothing
  /\ op[t].pc = "dequeue" => op'[t].pc \in {"dequeue", "dequeue_claim", "failed"}
  /\ op[t].pc = "dequeue_claim" => op'[t].pc \in {"dequeue", "reading"}
  /\ op[t].pc = "reading" => op'[t].pc = "done"
  /\ op[t].pc = "front" => op'[t].pc \in {"same", "different"}
  /\ op[t].pc \in {"same", "different"} => op'[t].pc \in {"front", "done", "failed"}
  /\ op[t].pc \notin {"writing", "reading"} => op'[t].item = op[t].item

\* Every step of the queue does that.
LEMMA StepMoves ==
  ASSUME QInv, NEW t \in Thread, QueueStep(t)
  PROVE  Moves(t)
<1>1. op \in [Thread -> QueueCall]
  BY DEF QInv, QTypeOK, QueueCall, PCs
<1>2. CASE EnqueueLook(t)
  BY <1>1, <1>2 DEF EnqueueLook, Moves, At, Goto, Aim, QueueCall
<1>3. CASE EnqueueClaim(t) \/ EnqueueMiss(t) \/ EnqueueWrite(t)
  BY <1>1, <1>3 DEF EnqueueClaim, EnqueueMiss, EnqueueWrite, Moves, At, Goto, Aim, QueueCall
<1>4. CASE DequeueLook(t)
  BY <1>1, <1>4 DEF DequeueLook, Moves, At, Goto, Aim, QueueCall
<1>5. CASE DequeueClaim(t) \/ DequeueMiss(t) \/ DequeueRead(t)
  BY <1>1, <1>5 DEF DequeueClaim, DequeueMiss, DequeueRead, Moves, At, Goto, Aim, QueueCall
<1>6. CASE EmptyStep(t)
  BY <1>1, <1>6 DEF EmptyStep, EmptyBack, EmptyFront, Moves, At, Goto, Aim, QueueCall
<1> QED BY <1>2, <1>3, <1>4, <1>5, <1>6 DEF QueueStep, EnqueueStep, DequeueStep

\* A call that begins or ends, or is repeated.
LEMMA CallMoves ==
  ASSUME QInv, NEW t \in Thread
  PROVE  /\ Acknowledge(t) =>
              /\ op[t].pc \in {"done", "failed"}
              /\ op'[t].pc = "idle" /\ op'[t].item = Nothing
              /\ \A u \in Thread \ {t} : op'[u] = op[u]
         /\ Retry(t) =>
              /\ op[t].pc = "failed" /\ op'[t].pc = "enqueue" /\ op'[t].item = op[t].item
              /\ \A u \in Thread \ {t} : op'[u] = op[u]
         /\ DequeueCall(t) =>
              /\ op[t].pc = "idle" /\ op'[t].pc = "dequeue" /\ op'[t].item = op[t].item
              /\ \A u \in Thread \ {t} : op'[u] = op[u]
         /\ EmptyCall(t) =>
              /\ op[t].pc = "idle" /\ op'[t].pc = "front" /\ op'[t].item = op[t].item
              /\ \A u \in Thread \ {t} : op'[u] = op[u]
         /\ \A x : EnqueueCall(t, x) =>
              /\ op[t].pc = "idle" /\ op'[t].pc = "enqueue" /\ op'[t].item = x
              /\ \A u \in Thread \ {t} : op'[u] = op[u]
<1>1. op \in [Thread -> QueueCall]
  BY DEF QInv, QTypeOK, QueueCall, PCs
<1> QED BY <1>1 DEF Acknowledge, Retry, DequeueCall, EmptyCall, EnqueueCall, Idle, At, Aim, QueueCall

\* Every step of the logger is a step of the queue or leaves it alone: what a
\* client repeats is an item, and what it brings is one.
LEMMA UsesQueue ==
  ASSUME CallsInv, [Next]_vars
  PROVE  [QNext]_qvars
<1>1. CASE UNCHANGED vars
  BY <1>1 DEF vars
<1>2. ASSUME NEW t \in Thread, InQueue(t) PROVE QNext
  BY <1>2 DEF InQueue, QNext
<1>3. ASSUME NEW c \in Client, Log(c) PROVE QNext
  <2>1. logged' \in Item
    BY <1>3, Messages3 DEF Log, CallsInv, CountsType
  <2> QED BY <1>3, <2>1, Messages3 DEF Log, QNext
<1>4. ASSUME NEW c \in Client, FlushOn(c) \/ Flush(c) PROVE QNext
  BY <1>4, Messages3 DEF FlushOn, Flush, QNext
<1>5. ASSUME NEW c \in Client, Drop(c) PROVE [QNext]_qvars
  BY <1>5, Messages3 DEF Drop, QNext
<1>6. ASSUME NEW c \in Client, Pushed(c) PROVE QNext
  <2>1. CASE Acknowledge(c)
    BY <2>1, Messages3 DEF QNext
  <2>2. CASE Retry(c)
    <3>1. caller[c] \in PushPlace
      BY <1>6 DEF Pushed, Afterwards, PushPlace
    <3>2. op[c].item \in MayBring(caller[c])
      BY <2>2, <3>1, CallMoves, Messages3 DEF CallsInv, ClientCalls, CallFits
    <3>3. MayBring(caller[c]) \subseteq Item
      BY Messages3 DEF MayBring
    <3> QED BY <2>2, <3>2, <3>3, Messages3 DEF QNext
  <2> QED BY <1>6, <2>1, <2>2 DEF Pushed
<1>7. ASSUME NEW c \in Client, WaitEmpty(c) PROVE QNext
  BY <1>7, Messages3 DEF WaitEmpty, QNext
<1>8. ASSUME NEW c \in Client, Join(c) PROVE UNCHANGED qvars
  BY <1>8 DEF Join
<1>9. ASSUME Fetch \/ Handle \/ Pause PROVE QNext
  BY <1>9, Messages3 DEF Fetch, Handle, Pause, QNext
<1> QED BY <1>1, <1>2, <1>3, <1>4, <1>5, <1>6, <1>7, <1>8, <1>9 DEF Next

\* A step of the queue leaves a client in the call it is in.
LEMMA StepFits ==
  ASSUME NEW c \in Thread, Moves(c), NEW where \in CallerPlace, CallFits(where, op[c])
  PROVE  CallFits(where, op'[c])
<1>1. where \in PushPlace \/ where = "wait"
  BY DEF Moves, CallFits, CallerPlace, PushPlace
<1>2. CASE where \in PushPlace
  <2>1. op[c].pc \in Pushes /\ op[c].item \in MayBring(where)
    BY <1>2 DEF Moves, CallFits
  <2>2. CASE op[c].pc = "writing"
    BY <1>2, <2>2 DEF Moves, CallFits, PushPlace
  <2>3. CASE op[c].pc \in {"enqueue", "enqueue_claim"}
    <3>1. op'[c].pc \in Pushes /\ op'[c].item = op[c].item
      BY <2>3 DEF Moves, Pushes
    <3> QED BY <1>2, <2>1, <3>1 DEF CallFits, PushPlace
  <2> QED BY <2>1, <2>2, <2>3 DEF Pushes, Moves
<1>3. CASE where = "wait"
  BY <1>3 DEF Moves, CallFits, PushPlace
<1> QED BY <1>1, <1>2, <1>3

\* A client's own step: the others are as they were.
LEMMA ClientFits ==
  ASSUME CallsInv, NEW c \in Client, NEW where \in CallerPlace,
         caller' = [caller EXCEPT ![c] = where], CallFits(where, op'[c]),
         \A u \in Thread \ {c} : op'[u] = op[u]
  PROVE  ClientCalls' /\ WorkerCalls'
<1>1. caller \in [Client -> CallerPlace] /\ Worker \in Thread \ {c} /\ Client \subseteq Thread
  BY Messages3 DEF CallsInv, ClientCalls
<1>2. caller' \in [Client -> CallerPlace]
  BY <1>1
<1>3. ASSUME NEW d \in Client PROVE CallFits(caller'[d], op'[d])
  <2>1. CASE d = c
    BY <1>1, <2>1
  <2>2. CASE d # c
    BY <1>1, <2>2 DEF CallsInv, ClientCalls
  <2> QED BY <2>1, <2>2
<1>4. op'[Worker] = op[Worker]
  BY <1>1
<1> QED BY <1>2, <1>3, <1>4 DEF ClientCalls, WorkerCalls, CallsInv

\* The worker's: no client is touched.
LEMMA WorkerFits ==
  ASSUME CallsInv, UNCHANGED caller, \A u \in Thread \ {Worker} : op'[u] = op[u]
  PROVE  ClientCalls'
<1>1. \A c \in Client : c \in Thread \ {Worker}
  BY Messages3
<1>2. \A c \in Client : op'[c] = op[c]
  BY <1>1
<1> QED BY <1>2 DEF ClientCalls, CallsInv

\* The queue's own steps and each action of the logger keep all of it.
LEMMA QueueFits ==
  ASSUME CallsInv, NEW t \in Thread, InQueue(t)
  PROVE  ClientCalls' /\ WorkerCalls'
<1>1. Moves(t) /\ UNCHANGED caller
  BY StepMoves DEF CallsInv, InQueue, clientVars
<1>2. CASE t = Worker
  <2>1. ClientCalls'
    BY <1>1, <1>2, WorkerFits DEF Moves
  <2>2. WorkerCalls'
    BY <1>1, <1>2 DEF Moves, WorkerCalls, CallsInv
  <2> QED BY <2>1, <2>2
<1>3. CASE t # Worker
  <2>1. t \in Client
    BY <1>3, Messages3
  <2>2. caller[t] \in CallerPlace /\ caller \in [Client -> CallerPlace] /\ CallFits(caller[t], op[t])
    BY <2>1 DEF CallsInv, ClientCalls
  <2>3. caller' = [caller EXCEPT ![t] = caller[t]]
    BY <1>1, <2>2
  <2>4. CallFits(caller[t], op'[t])
    BY <1>1, <2>2, StepFits
  <2> QED BY <1>1, <2>1, <2>2, <2>3, <2>4, ClientFits DEF Moves
<1> QED BY <1>2, <1>3

\* What a client does leads from a call that fits its place to one that fits the
\* next.
LEMMA CallerFits ==
  ASSUME CallsInv, NEW c \in Client,
         Log(c) \/ FlushOn(c) \/ Flush(c) \/ Drop(c) \/ Pushed(c) \/ WaitEmpty(c) \/ Join(c)
  PROVE  ClientCalls' /\ WorkerCalls'
<1>1. /\ c \in Thread /\ QInv /\ CallFits(caller[c], op[c])
      /\ caller \in [Client -> CallerPlace] /\ caller[c] \in CallerPlace
  BY Messages3 DEF CallsInv, ClientCalls
<1>2. CASE Log(c)
  <2>1. PICK where \in {"log", "urgent"} : caller' = [caller EXCEPT ![c] = where]
    BY <1>2 DEF Log, CallerGoes
  <2>2. EnqueueCall(c, logged') /\ logged' \in 1..Messages
    BY <1>2, Messages3 DEF Log, CallsInv, CountsType
  <2>3. CallFits(where, op'[c]) /\ \A u \in Thread \ {c} : op'[u] = op[u]
    BY <1>1, <2>1, <2>2, CallMoves DEF CallFits, PushPlace, Pushes, MayBring
  <2> QED BY <2>1, <2>3, ClientFits DEF CallerPlace
<1>3. CASE FlushOn(c) \/ Flush(c)
  <2>1. PICK where \in {"log", "flush"} : caller' = [caller EXCEPT ![c] = where]
    BY <1>3 DEF FlushOn, Flush, CallerGoes
  <2>2. EnqueueCall(c, FlushMsg)
    BY <1>3 DEF FlushOn, Flush
  <2>3. CallFits(where, op'[c]) /\ \A u \in Thread \ {c} : op'[u] = op[u]
    BY <1>1, <2>1, <2>2, CallMoves DEF CallFits, PushPlace, Pushes, MayBring
  <2> QED BY <2>1, <2>3, ClientFits DEF CallerPlace
<1>4. CASE Drop(c) /\ EnqueueCall(c, TerminateMsg) /\ CallerGoes(c, "ending")
  <2>1. CallFits("ending", op'[c]) /\ \A u \in Thread \ {c} : op'[u] = op[u]
    BY <1>1, <1>4, CallMoves DEF CallFits, PushPlace, Pushes, MayBring
  <2> QED BY <1>4, <2>1, ClientFits DEF CallerPlace, CallerGoes
<1>5. CASE (Drop(c) /\ CallerGoes(c, "gone") /\ UNCHANGED qvars) \/ Join(c)
  <2>1. op' = op /\ caller' = [caller EXCEPT ![c] = "gone"] /\ caller[c] \in {"free", "join"}
    BY <1>5 DEF Drop, Join, CallerGoes, CallerAt, qvars
  <2>2. CallFits("gone", op'[c])
    BY <1>1, <2>1 DEF CallFits, PushPlace
  <2> QED BY <2>1, <2>2, ClientFits DEF CallerPlace
<1>6. CASE Pushed(c) /\ Acknowledge(c)
  <2>1. PICK where \in {"free", "flush_on", "wait", "join"} : caller' = [caller EXCEPT ![c] = where]
    <3>1. CASE CallerGoes(c, Afterwards[caller[c]])
      <4>1. caller[c] \in {"log", "urgent", "flush", "ending"}
        BY <1>6 DEF Pushed, Afterwards
      <4>2. Afterwards[caller[c]] \in {"free", "flush_on", "wait", "join"}
        BY <4>1 DEF Afterwards
      <4> QED BY <3>1, <4>2 DEF CallerGoes
    <3>2. CASE Retry(c)
      BY <1>1, <1>6, <3>2, CallMoves
    <3> QED BY <1>6, <3>1, <3>2 DEF Pushed
  <2>2. op'[c].pc = "idle" /\ op'[c].item = Nothing /\ \A u \in Thread \ {c} : op'[u] = op[u]
    BY <1>1, <1>6, CallMoves
  <2>3. CallFits(where, op'[c])
    BY <2>1, <2>2 DEF CallFits, PushPlace
  <2> QED BY <2>1, <2>2, <2>3, ClientFits DEF CallerPlace
<1>7. CASE Pushed(c) /\ Retry(c) /\ UNCHANGED caller
  <2>1. /\ op[c].pc = "failed" /\ op'[c].pc = "enqueue" /\ op'[c].item = op[c].item
        /\ \A u \in Thread \ {c} : op'[u] = op[u]
    BY <1>1, <1>7, CallMoves
  <2>2. caller[c] \in PushPlace
    BY <1>7 DEF Pushed, Afterwards, PushPlace
  <2>3. CallFits(caller[c], op'[c])
    BY <1>1, <2>1, <2>2 DEF CallFits, PushPlace, Pushes
  <2>4. caller' = [caller EXCEPT ![c] = caller[c]]
    BY <1>1, <1>7
  <2> QED BY <1>1, <2>1, <2>3, <2>4, ClientFits
<1>8. CASE WaitEmpty(c)
  <2>1. PICK where \in {"free", "wait"} : caller' = [caller EXCEPT ![c] = where]
    BY <1>1, <1>8 DEF WaitEmpty, CallerGoes, CallerAt
  <2>2. /\ caller[c] = "wait"
        /\ \/ EmptyCall(c) /\ UNCHANGED caller
           \/ Acknowledge(c)
    BY <1>8 DEF WaitEmpty, CallerAt
  <2>3. op[c].item = Nothing
    BY <1>1, <2>2 DEF CallFits
  <2>4. CASE EmptyCall(c) /\ UNCHANGED caller
    <3>1. where = "wait"
      BY <1>1, <2>1, <2>2, <2>4
    <3>2. CallFits(where, op'[c]) /\ \A u \in Thread \ {c} : op'[u] = op[u]
      BY <1>1, <2>3, <2>4, <3>1, CallMoves DEF CallFits, PushPlace
    <3> QED BY <2>1, <3>1, <3>2, ClientFits DEF CallerPlace
  <2>5. CASE Acknowledge(c)
    <3>1. CallFits(where, op'[c]) /\ \A u \in Thread \ {c} : op'[u] = op[u]
      BY <1>1, <2>1, <2>5, CallMoves DEF CallFits, PushPlace
    <3> QED BY <2>1, <3>1, ClientFits DEF CallerPlace
  <2> QED BY <2>2, <2>4, <2>5
<1>9. Drop(c) => \/ EnqueueCall(c, TerminateMsg) /\ CallerGoes(c, "ending")
                 \/ CallerGoes(c, "gone") /\ UNCHANGED qvars
  BY DEF Drop
<1>10. Pushed(c) => Acknowledge(c) \/ (Retry(c) /\ UNCHANGED caller)
  BY DEF Pushed
<1> QED BY <1>2, <1>3, <1>4, <1>5, <1>6, <1>7, <1>8, <1>9, <1>10

\* What the worker does touches no client, and it only ever dequeues.
LEMMA ServerFits ==
  ASSUME CallsInv, Fetch \/ Handle \/ Pause
  PROVE  ClientCalls' /\ WorkerCalls'
<1>1. Worker \in Thread /\ QInv /\ UNCHANGED caller
  BY Messages3 DEF CallsInv, Fetch, Handle, Pause, clientVars
<1>2. /\ \A u \in Thread \ {Worker} : op'[u] = op[u]
      /\ op'[Worker].pc \in {"idle", "dequeue"} /\ op'[Worker].item = Nothing
  <2>1. CASE DequeueCall(Worker)
    BY <1>1, <2>1, CallMoves DEF CallsInv, WorkerCalls
  <2>2. CASE Acknowledge(Worker)
    BY <1>1, <2>2, CallMoves
  <2> QED BY <2>1, <2>2 DEF Fetch, Handle, Pause
<1> QED BY <1>1, <1>2, WorkerFits DEF WorkerCalls

\* Messages are counted as they are logged and consumed as they are taken.
LEMMA CountsStep ==
  ASSUME CallsInv, [Next]_vars
  PROVE  CountsType'
<1>1. CountsType /\ Messages \in Nat
  BY Messages3 DEF CallsInv
<1>2. CASE UNCHANGED <<clientVars, workerVars>>
  BY <1>1, <1>2 DEF CountsType, clientVars, workerVars
<1>3. ASSUME NEW c \in Client, Log(c) PROVE CountsType'
  BY <1>1, <1>3 DEF Log, CountsType, workerVars
<1>4. ASSUME NEW c \in Client, FlushOn(c) \/ Flush(c) \/ Drop(c) \/ WaitEmpty(c) \/ Join(c)
      PROVE  CountsType'
  BY <1>1, <1>4 DEF FlushOn, Flush, Drop, WaitEmpty, Join, CountsType, workerVars
<1>5. ASSUME NEW c \in Client, Pushed(c) PROVE CountsType'
  BY <1>1, <1>5 DEF Pushed, CountsType, workerVars
<1>6. CASE Fetch \/ Pause
  BY <1>1, <1>6 DEF Fetch, Pause, CountsType, clientVars, workerVars
<1>7. CASE Handle
  <2>1. consumed' \in Seq(1..Messages)
    <3>1. CASE op[Worker].item \in 1..Messages
      <4>1. consumed' = Append(consumed, op[Worker].item) /\ consumed \in Seq(1..Messages)
        BY <1>1, <1>7, <3>1 DEF Handle, CountsType
      <4> QED BY <3>1, <4>1
    <3>2. CASE op[Worker].item \notin 1..Messages
      BY <1>1, <1>7, <3>2 DEF Handle, CountsType
    <3> QED BY <3>1, <3>2
  <2>2. UNCHANGED <<logged, discarded, policy, worker>>
    BY <1>7 DEF Handle, clientVars
  <2>3. flushRequested' \in BOOLEAN /\ terminateRequested' \in BOOLEAN
    BY <1>7 DEF Handle
  <2> QED BY <1>1, <2>1, <2>2, <2>3 DEF CountsType
<1> QED BY <1>2, <1>3, <1>4, <1>5, <1>6, <1>7 DEF Next, InQueue, vars

\* Every step keeps the queue's invariant, the callers' places and the counts.
LEMMA CallsKept ==
  ASSUME CallsInv, [Next]_vars
  PROVE  CallsInv'
<1>1. QInv' /\ EmptyHanded'
  <2>1. QInv /\ EmptyHanded /\ [QNext]_qvars
    BY UsesQueue DEF CallsInv
  <2>2. QInv'
    BY <2>1, NextInv
  <2>3. EmptyHanded'
    BY <2>1, EmptyHandedInv
  <2> QED BY <2>2, <2>3
<1>2. CountsType'
  BY CountsStep
<1>3. ClientCalls' /\ WorkerCalls'
  <2>1. CASE UNCHANGED vars
    <3>1. UNCHANGED <<op, caller>>
      BY <2>1 DEF vars, qvars, clientVars
    <3> QED BY <3>1 DEF CallsInv, ClientCalls, WorkerCalls
  <2>2. CASE Next
    BY <2>2, QueueFits, CallerFits, ServerFits DEF Next
  <2> QED BY <2>1, <2>2
<1> QED BY <1>1, <1>2, <1>3 DEF CallsInv

\* At first everybody is free and no call is under way.
LEMMA CallsStart == Init => CallsInv
<1> SUFFICES ASSUME Init PROVE CallsInv
  OBVIOUS
<1>1. QInit /\ caller = [c \in Client |-> "free"]
  BY DEF Init
<1>2. QInv
  BY <1>1, InitInv
<1>3. \A t \in Thread : op[t].pc = "idle" /\ op[t].item = Nothing
  BY <1>1 DEF QInit, Idle
<1>4. EmptyHanded
  BY <1>3 DEF EmptyHanded
<1>5. ClientCalls /\ WorkerCalls
  BY <1>1, <1>3, Messages3 DEF ClientCalls, CallFits, WorkerCalls, CallerPlace, PushPlace
<1>6. CountsType
  <2>1. logged = 0 /\ discarded = 0 /\ consumed = <<>> /\ Messages \in Nat
    BY Messages3 DEF Init
  <2>2. /\ policy \in {"block_retry", "discard_log_msg"}
        /\ worker \in {"run", "exited"}
        /\ flushRequested \in BOOLEAN /\ terminateRequested \in BOOLEAN
    BY DEF Init
  <2>3. consumed \in Seq(1..Messages)
    BY <2>1
  <2> QED BY <2>1, <2>2, <2>3 DEF CountsType
<1> QED BY <1>2, <1>4, <1>5, <1>6 DEF CallsInv

\* The queue and its callers are as the invariant says in every reachable state.
LEMMA CallsAlways == Spec => []CallsInv
<1>1. CallsInv /\ [Next]_vars => CallsInv'
  BY CallsKept
<1> QED BY <1>1, CallsStart, PTL DEF Spec

\* The queue of the asynchronous logger is a bounded queue, whatever its clients
\* and its worker do between them (async_log_helper.h, mpmc_bounded_q.h).
THEOREM LoggerQueueIsFifo == Spec => ImplementsBoundedFifo
<1>1. Init => Fifo!Init
  BY FifoInit DEF Init
<1>2. CallsInv /\ CallsInv' /\ [Next]_vars =>
        [Fifo!Next]_<<[k \in 1..(enqueuePos - dequeuePos) |-> ItemAt(dequeuePos + k - 1)],
                      [t \in Thread |-> Held(t)]>>
  <2> SUFFICES ASSUME CallsInv, CallsInv', [Next]_vars
               PROVE  [Fifo!Next]_<<[k \in 1..(enqueuePos - dequeuePos) |->
                                       ItemAt(dequeuePos + k - 1)],
                                    [t \in Thread |-> Held(t)]>>
    OBVIOUS
  <2>1. [QNext]_qvars
    BY UsesQueue
  <2>2. QInv /\ QInv' /\ EmptyHanded
    BY DEF CallsInv
  <2> QED BY <2>1, <2>2, FifoStep
<1> QED BY <1>1, <1>2, CallsAlways, PTL DEF Spec, ImplementsBoundedFifo, Fifo!Spec
-----------------------------------------------------------------------------
(* The sink *)

\* What changes the sink: a message that the worker writes, and a flush.
LEMMA SinkSteps ==
  ASSUME CallsInv, [Next]_vars
  PROVE  \/ UNCHANGED <<sinkVars, consumed>>
         \/ SinkFlush /\ UNCHANGED consumed
         \/ \E m \in 1..Messages : SinkIt(m) /\ consumed' = Append(consumed, m)
<1>1. CASE UNCHANGED <<sinkVars, workerVars>>
  BY <1>1 DEF workerVars
<1>2. CASE Pause
  BY <1>2 DEF Pause
<1>3. CASE Handle
  BY <1>3 DEF Handle
<1>4. UNCHANGED vars \/ (\E t \in Thread : InQueue(t)) \/ Fetch => UNCHANGED <<sinkVars, workerVars>>
  BY DEF vars, InQueue, Fetch
<1>5. ASSUME NEW c \in Client,
             \/ Log(c) \/ FlushOn(c) \/ Flush(c) \/ Drop(c)
             \/ Pushed(c) \/ WaitEmpty(c) \/ Join(c)
      PROVE  UNCHANGED <<sinkVars, workerVars>>
  BY <1>5 DEF Log, FlushOn, Flush, Drop, Pushed, WaitEmpty, Join
<1> QED BY <1>1, <1>2, <1>3, <1>4, <1>5 DEF Next

\* Renaming moves what the files hold.
LEMMA ShiftedType ==
  ASSUME content \in [FileIndex -> Seq(1..Messages)], NEW k \in Nat
  PROVE  ShiftedContent(k) \in [FileIndex -> Seq(1..Messages)]
<1>1. ASSUME NEW i \in FileIndex PROVE i > k => i - 1 \in FileIndex
  BY RotationAssumption DEF FileIndex
<1> QED BY <1>1 DEF ShiftedContent

\* The size is counted before a rotation can fail, so a file that is not open
\* is one that is to be rotated.
LEMMA SizesStep ==
  ASSUME CallsInv, SizesInv, [Next]_vars
  PROVE  SizesInv'
<1>1. /\ MaxSize \in Nat /\ currentSize \in Nat /\ failures \in Nat
      /\ ~crashed /\ (~open => currentSize > MaxSize)
  BY RotationAssumption DEF SizesInv, WriterIsOpen
<1>2. CASE UNCHANGED sinkVars
  BY <1>2 DEF sinkVars, SizesInv, WriterIsOpen
<1>3. CASE SinkFlush
  BY <1>3 DEF SinkFlush, SizesInv, WriterIsOpen
<1>4. ASSUME NEW m \in 1..Messages, SinkIt(m) PROVE SizesInv'
  <2>1. CASE currentSize + 1 > MaxSize /\ Rotate(m)
    <3>1. content' \in [FileIndex -> Seq(1..Messages)]
      <4>1. content' = [ShiftedContent(0) EXCEPT ![0] = <<m>>]
        BY <2>1 DEF Rotate
      <4>2. ShiftedContent(0) \in [FileIndex -> Seq(1..Messages)]
        BY ShiftedType DEF SizesInv
      <4>3. <<m>> \in Seq(1..Messages)
        OBVIOUS
      <4> QED BY <4>1, <4>2, <4>3
    <3> QED BY <1>1, <2>1, <3>1, RotationAssumption DEF Rotate, SizesInv, WriterIsOpen
  <2>2. CASE /\ currentSize + 1 > MaxSize /\ (RotateFails \/ ReopenFails)
             /\ currentSize' = currentSize + 1 /\ UNCHANGED crashed
    <3>1. ~open' /\ failures' = failures + 1
      BY <2>2 DEF RotateFails, ReopenFails, Close, Fails
    <3>2. PICK k \in Nat : content' = ShiftedContent(k)
      BY <2>2 DEF RotateFails, ReopenFails
    <3>3. content' \in [FileIndex -> Seq(1..Messages)]
      BY <3>2, ShiftedType DEF SizesInv
    <3> QED BY <1>1, <2>2, <3>1, <3>3 DEF SizesInv, WriterIsOpen
  <2>3. CASE /\ ~(currentSize + 1 > MaxSize)
             /\ Write(m) /\ currentSize' = currentSize + 1
    <3>1. open /\ ~crashed' /\ open' = open /\ failures' = failures
      BY <1>1, <2>3 DEF Write
    <3>2. content' = [content EXCEPT ![0] = Append(content[0], m)]
      BY <2>3, <3>1 DEF Write
    <3>3. 0 \in FileIndex /\ content \in [FileIndex -> Seq(1..Messages)]
      BY RotationAssumption DEF FileIndex, SizesInv
    <3>4. Append(content[0], m) \in Seq(1..Messages)
      BY <3>3
    <3>5. content' \in [FileIndex -> Seq(1..Messages)]
      BY <3>2, <3>3, <3>4
    <3> QED BY <1>1, <2>3, <3>1, <3>5 DEF SizesInv, WriterIsOpen
  <2> QED BY <1>4, <2>1, <2>2, <2>3 DEF SinkIt
<1> QED BY <1>2, <1>3, <1>4, SinkSteps

\* The sink begins with an open, empty file.
LEMMA SizesStart == Init => SizesInv
<1>1. <<>> \in Seq(1..Messages)
  OBVIOUS
<1> QED BY <1>1 DEF Init, SinkInit, SizesInv, WriterIsOpen

\* In every reachable state.
LEMMA SizesAlways == Spec => []SizesInv
<1>1. CallsInv /\ SizesInv /\ [Next]_vars => SizesInv'
  BY SizesStep
<1> QED BY <1>1, SizesStart, CallsAlways, PTL DEF Spec

\* Nothing is written through a null pointer, however rotations fail: the file
\* is opened again before the next message goes to it (file_sinks.h:92,
\* file_helper.h).
THEOREM WriterStaysOpen == Spec => []WriterIsOpen
<1>1. SizesInv => WriterIsOpen
  BY DEF SizesInv
<1> QED BY <1>1, SizesAlways, PTL
-----------------------------------------------------------------------------
(* What the files hold *)

\* A message more does not change what lies before it ...
LEMMA PartStays ==
  ASSUME NEW S, NEW s \in Seq(S), NEW x \in S, NEW a \in Nat, NEW b \in Nat,
         a <= b, b <= Len(s)
  PROVE  SubSeq(Append(s, x), a + 1, b) = SubSeq(s, a + 1, b)
<1>1. /\ Append(s, x) \in Seq(S) /\ Len(Append(s, x)) = Len(s) + 1
      /\ \A i \in 1..Len(s) : Append(s, x)[i] = s[i]
  BY AppendProperties
<1>2. \A i \in (a + 1)..b : s[i] \in S /\ Append(s, x)[i] = s[i]
  BY <1>1
<1>3. \A i \in (a + 1)..b : Append(s, x)[i] \in S
  BY <1>2
<1>4. a + 1 \in Int /\ b \in Int
  OBVIOUS
<1> DEFINE p == SubSeq(s, a + 1, b)
           q == SubSeq(Append(s, x), a + 1, b)
<1>5. /\ p \in Seq(S) /\ Len(p) = (IF a + 1 <= b THEN b - (a + 1) + 1 ELSE 0)
      /\ \A i \in 1..(b - (a + 1) + 1) : p[i] = s[(a + 1) + i - 1]
  BY <1>2, <1>4, SubSeqProperties
<1>6. /\ q \in Seq(S) /\ Len(q) = (IF a + 1 <= b THEN b - (a + 1) + 1 ELSE 0)
      /\ \A i \in 1..(b - (a + 1) + 1) : q[i] = Append(s, x)[(a + 1) + i - 1]
  BY <1>3, <1>4, SubSeqProperties
<1> HIDE DEF p, q
<1>7. Len(p) = b - a /\ Len(q) = b - a
  BY <1>5, <1>6
<1>8. ASSUME NEW i \in 1..(b - a) PROVE p[i] = q[i]
  <2>1. p[i] = s[a + i] /\ q[i] = Append(s, x)[a + i]
    BY <1>5, <1>6
  <2>2. a + i \in (a + 1)..b
    OBVIOUS
  <2> QED BY <1>2, <2>1, <2>2
<1>9. p = q
  BY <1>5, <1>6, <1>7, <1>8, SeqEqual
<1> QED BY <1>9 DEF p, q

\* ... and comes after it.
LEMMA PartGrows ==
  ASSUME NEW S, NEW s \in Seq(S), NEW x \in S, NEW a \in 0..Len(s)
  PROVE  SubSeq(Append(s, x), a + 1, Len(s) + 1) = Append(SubSeq(s, a + 1, Len(s)), x)
<1> DEFINE t == Append(s, x)
<1>1. /\ t \in Seq(S) /\ Len(t) = Len(s) + 1 /\ t[Len(s) + 1] = x /\ Len(s) \in Nat
  BY AppendProperties
<1>2. SubSeq(t, a + 1, Len(s)) = SubSeq(s, a + 1, Len(s))
  BY PartStays
<1> HIDE DEF t
<1>3. PICK i \in 1..Len(t) : i = a + 1
  BY <1>1
<1>4. PICK j \in i..Len(t) : j = Len(s) + 1
  BY <1>1, <1>3
<1>5. PICK k \in Nat : k = Len(s)
  BY <1>1
<1>6. \A l \in 1..Len(t) : \A r \in l..Len(t) :
        SubSeq(t, l, r) = SubSeq(t, l, r - 1) \o <<t[r]>>
  BY <1>1, SubSeqRecursiveSecond, Zenon
<1>7. SubSeq(t, i, j) = SubSeq(t, i, j - 1) \o <<t[j]>>
  BY <1>6, Zenon
<1>8. j - 1 = k /\ t[j] = x
  BY <1>1, <1>4, <1>5
<1>9. SubSeq(t, i, j) = SubSeq(t, i, k) \o <<x>>
  BY <1>7, <1>8, Zenon
<1>10. SubSeq(t, i, k) = SubSeq(s, i, k)
  BY <1>2, <1>3, <1>5
<1>11. SubSeq(s, i, k) \in Seq(S)
  <2>1. \A l \in i..k : s[l] \in S
    BY <1>5
  <2> QED BY <2>1, SubSeqProperties
<1>12. SubSeq(t, i, j) = Append(SubSeq(s, i, k), x)
  BY <1>9, <1>10, <1>11, AppendIsConcat, Zenon
<1> QED BY <1>3, <1>4, <1>5, <1>12 DEF t

\* Rotation makes file i of file i - 1, with the same cut.
LEMMA CutShift ==
  ASSUME NEW n \in Nat, MaxSize <= n, NEW i \in Nat, i >= 2
  PROVE  CutAt(n - MaxSize, i - 1) = CutAt(n, i)
<1>1. PICK m \in Nat : m = MaxSize
  BY RotationAssumption
<1>2. PICK a \in Nat : a = i - 2
  OBVIOUS
<1>3. (i - 1 - 1) * MaxSize = a * m /\ (i - 1) * MaxSize = (a + 1) * m
  BY <1>1, <1>2
<1>4. a * m \in Nat /\ (a + 1) * m = a * m + m
  OBVIOUS
<1>5. PICK b \in Nat : b = a * m
  BY <1>4
<1>6. (i - 1 - 1) * MaxSize = b /\ (i - 1) * MaxSize = b + m
  BY <1>3, <1>4, <1>5
<1> QED BY <1>1, <1>6 DEF CutAt

\* The message that makes the file too long goes to a new one, and each file is
\* named after the next: the last is dropped.
LEMMA RotateHolds ==
  ASSUME CallsInv, SizesInv, FilesInv, NEW m \in 1..Messages, Rotate(m),
         currentSize + 1 > MaxSize, consumed' = Append(consumed, m)
  PROVE  FilesInv'
<1> SUFFICES ASSUME failures = 0
             PROVE  /\ open' /\ 0 \in exists' /\ currentSize' <= MaxSize
                    /\ \E cut \in [0..(MaxFiles + 1) -> 0..Len(consumed')] :
                         /\ HoldEnd(consumed, cut)' /\ FullCuts(cut)
                         /\ currentSize' = Len(consumed') - cut[1]
                         /\ cut[1] > 0 => currentSize' > 0
  <2>1. failures' = failures
    BY DEF Rotate
  <2> QED BY <2>1 DEF FilesInv, FullCuts, CutAt
<1>1. /\ MaxSize \in Nat \ {0} /\ MaxFiles \in Nat /\ currentSize \in Nat
      /\ consumed \in Seq(1..Messages)
      /\ content \in [FileIndex -> Seq(1..Messages)]
  BY RotationAssumption DEF SizesInv, CallsInv, CountsType
<1>2. PICK n \in Nat : n = Len(consumed)
  BY <1>1
<1>3. PICK cut \in [0..(MaxFiles + 1) -> 0..n] :
        /\ HoldEnd(consumed, cut) /\ FullCuts(cut)
        /\ currentSize = n - cut[1]
  BY <1>2 DEF FilesInv
<1>4. /\ currentSize <= MaxSize /\ cut[0] = n
      /\ 1 \in 0..(MaxFiles + 1) /\ cut[1] \in 0..n
  BY <1>1, <1>2, <1>3 DEF FilesInv, HoldEnd
<1>5. currentSize = MaxSize /\ cut[1] = n - MaxSize /\ MaxSize <= n
  BY <1>1, <1>3, <1>4
<1>6. /\ open' /\ currentSize' = 1 /\ exists' = ShiftedExists(0) \cup {0}
      /\ content' = [ShiftedContent(0) EXCEPT ![0] = <<m>>]
  BY DEF Rotate
<1>7. Len(consumed') = n + 1 /\ consumed' \in Seq(1..Messages)
  BY <1>1, <1>2, AppendProperties
<1>13. \A a \in Nat, b \in Nat : a <= b /\ b <= n =>
         SubSeq(consumed', a + 1, b) = SubSeq(consumed, a + 1, b)
  <2>1. consumed \in Seq(1..Messages)
    BY <1>1
  <2>2. \A a \in Nat, b \in Nat : a <= b /\ b <= Len(consumed) =>
          SubSeq(Append(consumed, m), a + 1, b) = SubSeq(consumed, a + 1, b)
    <3> DEFINE T == 1..Messages
    <3>1. consumed \in Seq(T) /\ m \in T
      BY <2>1
    <3> HIDE DEF T
    <3> SUFFICES ASSUME NEW a \in Nat, NEW b \in Nat, a <= b, b <= Len(consumed)
                 PROVE  SubSeq(Append(consumed, m), a + 1, b) = SubSeq(consumed, a + 1, b)
      OBVIOUS
    <3> QED BY <3>1, PartStays
  <2> QED BY <1>2, <2>2
<1> DEFINE new == [i \in 0..(MaxFiles + 1) |-> IF i = 0 THEN n + 1 ELSE cut[i - 1]]
<1>8. /\ new \in [0..(MaxFiles + 1) -> 0..(n + 1)]
      /\ new[0] = n + 1 /\ new[1] = n
      /\ \A i \in 1..(MaxFiles + 1) : new[i] = cut[i - 1]
  <2>1. ASSUME NEW i \in 0..(MaxFiles + 1), i # 0
        PROVE  i - 1 \in 0..(MaxFiles + 1) /\ cut[i - 1] \in 0..n
    BY <1>1, <2>1
  <2> QED BY <1>1, <1>4, <2>1
<1> HIDE DEF new
<1>9. FullCuts(new)
  <2> SUFFICES ASSUME NEW i \in 1..(MaxFiles + 1) PROVE new[i] = CutAt(n, i)
    BY <1>8 DEF FullCuts
  <2>1. CASE i = 1
    <3>1. (i - 1) * MaxSize = 0
      BY <1>1, <2>1
    <3> QED BY <1>8, <2>1, <3>1 DEF CutAt
  <2>2. CASE i >= 2
    <3>1. i - 1 \in 1..(MaxFiles + 1) /\ i \in Nat
      BY <1>1, <2>2
    <3>2. cut[i - 1] = CutAt(n - MaxSize, i - 1)
      BY <1>3, <1>5, <3>1 DEF FullCuts
    <3> QED BY <1>5, <1>8, <2>2, <3>1, <3>2, CutShift
  <2> QED BY <1>1, <2>1, <2>2
<1>10. HoldEnd(consumed, new)'
  <2>1. new[0] = Len(consumed')
    BY <1>7, <1>8
  <2>2. ASSUME NEW i \in FileIndex
        PROVE  IF i \in exists'
               THEN /\ new[i + 1] <= new[i]
                    /\ content'[i] = SubSeq(consumed', new[i + 1] + 1, new[i])
               ELSE new[i + 1] = new[i]
    <3>1. CASE i = 0
      <4>1. new[i + 1] = n /\ new[i] = n + 1
        BY <1>8, <3>1
      <4>2. content'[i] = <<m>>
        BY <1>1, <1>6, <3>1 DEF FileIndex, ShiftedContent
      <4>3. SubSeq(consumed', n + 1, n + 1) = Append(SubSeq(consumed, n + 1, n), m)
        BY <1>1, <1>2, PartGrows
      <4>4. SubSeq(consumed, n + 1, n) = <<>>
        BY SubSeqEmpty
      <4>5. Append(<<>>, m) = <<m>>
        OBVIOUS
      <4>6. content'[i] = SubSeq(consumed', n + 1, n + 1)
        BY <4>2, <4>3, <4>4, <4>5
      <4>7. i \in exists' /\ n <= n + 1
        BY <1>6, <3>1
      <4> QED BY <4>1, <4>6, <4>7, Zenon
    <3>2. CASE i > 0
      <4>1. /\ i - 1 \in FileIndex /\ i \in 1..MaxFiles
            /\ i \in 1..(MaxFiles + 1) /\ i + 1 \in 1..(MaxFiles + 1)
            /\ i - 1 \in 0..(MaxFiles + 1) /\ i \in 0..(MaxFiles + 1)
            /\ i - 1 + 1 = i /\ i + 1 - 1 = i
        BY <1>1, <3>2 DEF FileIndex
      <4>2. new[i + 1] = cut[i] /\ new[i] = cut[i - 1] /\ cut[i] \in Nat /\ cut[i - 1] \in 0..n
        BY <1>8, <4>1
      <4>3. content'[i] = content[i - 1]
        BY <1>1, <1>6, <3>2, <4>1 DEF ShiftedContent
      <4>4. i \in exists' <=> i - 1 \in exists
        BY <1>1, <1>6, <3>2, <4>1 DEF ShiftedExists
      <4>5. IF i - 1 \in exists
            THEN /\ cut[i] <= cut[i - 1]
                 /\ content[i - 1] = SubSeq(consumed, cut[i] + 1, cut[i - 1])
            ELSE cut[i] = cut[i - 1]
        BY <1>3, <4>1 DEF HoldEnd
      <4>6. CASE i - 1 \in exists
        <5>1. SubSeq(consumed', cut[i] + 1, cut[i - 1]) = SubSeq(consumed, cut[i] + 1, cut[i - 1])
          <6>1. cut[i] <= cut[i - 1] /\ cut[i - 1] <= n /\ cut[i - 1] \in Nat
            BY <4>2, <4>5, <4>6
          <6> QED BY <1>13, <4>2, <6>1
        <5> QED BY <4>2, <4>3, <4>4, <4>5, <4>6, <5>1
      <4>7. CASE i - 1 \notin exists
        BY <4>2, <4>4, <4>5, <4>7
      <4> QED BY <4>6, <4>7
    <3>3. i = 0 \/ i > 0
      BY <1>1 DEF FileIndex
    <3> QED BY <3>1, <3>2, <3>3, Zenon
  <2> QED BY <2>1, <2>2 DEF HoldEnd
<1>11. currentSize' = Len(consumed') - new[1] /\ currentSize' > 0 /\ currentSize' <= MaxSize
  BY <1>1, <1>6, <1>7, <1>8
<1>12. 0 \in exists'
  BY <1>6
<1> QED BY <1>6, <1>7, <1>8, <1>9, <1>10, <1>11, <1>12

\* A message that fits goes to the end of file 0.
LEMMA WriteHolds ==
  ASSUME CallsInv, SizesInv, FilesInv, NEW m \in 1..Messages, Write(m),
         currentSize + 1 <= MaxSize, currentSize' = currentSize + 1,
         consumed' = Append(consumed, m)
  PROVE  FilesInv'
<1> SUFFICES ASSUME failures = 0
             PROVE  /\ open' /\ 0 \in exists' /\ currentSize' <= MaxSize
                    /\ \E cut \in [0..(MaxFiles + 1) -> 0..Len(consumed')] :
                         /\ HoldEnd(consumed, cut)' /\ FullCuts(cut)
                         /\ currentSize' = Len(consumed') - cut[1]
                         /\ cut[1] > 0 => currentSize' > 0
  <2>1. failures' = failures
    BY DEF Write
  <2> QED BY <2>1 DEF FilesInv, FullCuts, CutAt
<1>1. /\ MaxSize \in Nat \ {0} /\ MaxFiles \in Nat /\ currentSize \in Nat
      /\ consumed \in Seq(1..Messages)
      /\ content \in [FileIndex -> Seq(1..Messages)]
  BY RotationAssumption DEF SizesInv, CallsInv, CountsType
<1>2. PICK n \in Nat : n = Len(consumed)
  BY <1>1
<1>3. PICK cut \in [0..(MaxFiles + 1) -> 0..n] :
        /\ HoldEnd(consumed, cut) /\ FullCuts(cut)
        /\ currentSize = n - cut[1]
  BY <1>2 DEF FilesInv
<1>4. open /\ 0 \in exists
  BY DEF FilesInv
<1>5. /\ open' /\ exists' = exists
      /\ content' = [content EXCEPT ![0] = Append(content[0], m)]
  BY <1>4 DEF Write
<1>6. Len(consumed') = n + 1 /\ consumed' \in Seq(1..Messages)
  BY <1>1, <1>2, AppendProperties
<1>7. \A a \in Nat, b \in Nat : a <= b /\ b <= n =>
        SubSeq(consumed', a + 1, b) = SubSeq(consumed, a + 1, b)
  <2> DEFINE T == 1..Messages
  <2>1. consumed \in Seq(T) /\ m \in T
    BY <1>1
  <2> HIDE DEF T
  <2> SUFFICES ASSUME NEW a \in Nat, NEW b \in Nat, a <= b, b <= n
               PROVE  SubSeq(consumed', a + 1, b) = SubSeq(consumed, a + 1, b)
    OBVIOUS
  <2> QED BY <1>2, <2>1, PartStays
<1> DEFINE new == [cut EXCEPT ![0] = n + 1]
<1>8. /\ new \in [0..(MaxFiles + 1) -> 0..(n + 1)] /\ new[0] = n + 1
      /\ \A i \in 1..(MaxFiles + 1) : new[i] = cut[i] /\ cut[i] \in 0..n
      /\ 1 \in 1..(MaxFiles + 1)
  BY <1>1
<1> HIDE DEF new
<1>9. FullCuts(new)
  BY <1>3, <1>8 DEF FullCuts
<1>10. HoldEnd(consumed, new)'
  <2>1. new[0] = Len(consumed')
    BY <1>6, <1>8
  <2>2. ASSUME NEW i \in FileIndex
        PROVE  IF i \in exists'
               THEN /\ new[i + 1] <= new[i]
                    /\ content'[i] = SubSeq(consumed', new[i + 1] + 1, new[i])
               ELSE new[i + 1] = new[i]
    <3>1. IF i \in exists
          THEN /\ cut[i + 1] <= cut[i]
               /\ content[i] = SubSeq(consumed, cut[i + 1] + 1, cut[i])
          ELSE cut[i + 1] = cut[i]
      BY <1>3 DEF HoldEnd
    <3>2. i \in 0..MaxFiles /\ i + 1 \in 1..(MaxFiles + 1)
      BY <1>1 DEF FileIndex
    <3>3. CASE i = 0
      <4>1. cut[i] = n /\ cut[i + 1] \in 0..n /\ new[i + 1] = cut[i + 1] /\ new[i] = n + 1
        BY <1>2, <1>3, <1>8, <3>2, <3>3 DEF HoldEnd
      <4>2. PICK a \in 0..n : a = cut[i + 1]
        BY <4>1
      <4>3. content[0] = SubSeq(consumed, a + 1, n)
        BY <1>4, <3>1, <3>3, <4>1, <4>2
      <4>4. content'[i] = Append(content[0], m)
        BY <1>1, <1>5, <3>3
      <4>5. SubSeq(consumed', a + 1, n + 1) = Append(SubSeq(consumed, a + 1, n), m)
        BY <1>1, <1>2, PartGrows
      <4>6. content'[i] = SubSeq(consumed', a + 1, n + 1)
        BY <4>3, <4>4, <4>5
      <4>7. i \in exists' /\ a <= n + 1
        BY <1>4, <1>5, <3>3
      <4> QED BY <4>1, <4>2, <4>6, <4>7, Zenon
    <3>4. CASE i > 0
      <4>1. i \in 1..(MaxFiles + 1)
        BY <1>1, <3>2, <3>4
      <4>2. /\ new[i] = cut[i] /\ new[i + 1] = cut[i + 1]
            /\ cut[i] \in 0..n /\ cut[i + 1] \in 0..n
        BY <1>8, <3>2, <4>1
      <4>3. content'[i] = content[i] /\ exists' = exists
        BY <1>1, <1>5, <3>4
      <4>4. CASE i \in exists
        <5>1. cut[i + 1] <= cut[i] /\ cut[i] <= n /\ cut[i] \in Nat /\ cut[i + 1] \in Nat
          BY <3>1, <4>2, <4>4
        <5>2. SubSeq(consumed', cut[i + 1] + 1, cut[i]) = SubSeq(consumed, cut[i + 1] + 1, cut[i])
          BY <1>7, <5>1
        <5> QED BY <3>1, <4>2, <4>3, <4>4, <5>1, <5>2
      <4>5. CASE i \notin exists
        BY <3>1, <4>2, <4>3, <4>5
      <4> QED BY <4>4, <4>5
    <3>5. i = 0 \/ i > 0
      BY <3>2
    <3> QED BY <3>3, <3>4, <3>5, Zenon
  <2> QED BY <2>1, <2>2 DEF HoldEnd
<1>11. currentSize' = Len(consumed') - new[1] /\ currentSize' > 0 /\ currentSize' <= MaxSize
  <2>1. new[1] = cut[1] /\ cut[1] \in 0..n
    BY <1>8
  <2> QED BY <1>1, <1>3, <1>6, <2>1
<1> QED BY <1>4, <1>5, <1>6, <1>8, <1>9, <1>10, <1>11

\* A message that is written is added to the end of file 0, or begins a new one;
\* a flush moves nothing.
LEMMA FilesStep ==
  ASSUME CallsInv, SizesInv, FilesInv, [Next]_vars
  PROVE  FilesInv'
<1>1. CASE UNCHANGED <<sinkVars, consumed>>
  BY <1>1 DEF sinkVars, FilesInv, HoldEnd, FullCuts, CutAt
<1>2. CASE SinkFlush /\ UNCHANGED consumed
  BY <1>2 DEF SinkFlush, FilesInv, HoldEnd, FullCuts, CutAt
<1>3. ASSUME NEW m \in 1..Messages, SinkIt(m), consumed' = Append(consumed, m)
      PROVE  FilesInv'
  <2>1. CASE currentSize + 1 > MaxSize /\ Rotate(m)
    BY <1>3, <2>1, RotateHolds
  <2>2. CASE RotateFails \/ ReopenFails
    <3>1. failures' = failures + 1 /\ failures \in Nat
      BY <2>2 DEF RotateFails, ReopenFails, Fails, SizesInv
    <3>2. failures' # 0
      BY <3>1
    <3> QED BY <3>2 DEF FilesInv
  <2>3. CASE /\ ~(currentSize + 1 > MaxSize)
             /\ Write(m) /\ currentSize' = currentSize + 1
    <3>1. currentSize + 1 <= MaxSize
      BY <2>3, RotationAssumption DEF SizesInv
    <3> QED BY <1>3, <2>3, <3>1, WriteHolds
  <2> QED BY <1>3, <2>1, <2>2, <2>3 DEF SinkIt
<1> QED BY <1>1, <1>2, <1>3, SinkSteps

\* At first the one file holds the nothing that was consumed.
LEMMA FilesStart == Init => FilesInv
<1> SUFFICES ASSUME Init PROVE FilesInv
  OBVIOUS
<1>1. /\ content = [i \in FileIndex |-> <<>>] /\ exists = {0} /\ open
      /\ currentSize = 0 /\ consumed = <<>>
  BY DEF Init, SinkInit
<1>2. MaxSize \in Nat \ {0} /\ MaxFiles \in Nat
  BY RotationAssumption
<1> DEFINE cut == [i \in 0..(MaxFiles + 1) |-> 0]
<1>3. Len(consumed) = 0
  BY <1>1
<1>4. /\ cut \in [0..(MaxFiles + 1) -> 0..Len(consumed)]
      /\ \A i \in 0..(MaxFiles + 1) : cut[i] = 0
  BY <1>3
<1> HIDE DEF cut
<1>5. 0 \in 0..(MaxFiles + 1) /\ 1 \in 0..(MaxFiles + 1)
      /\ \A i \in FileIndex : i \in 0..(MaxFiles + 1) /\ i + 1 \in 0..(MaxFiles + 1)
  BY <1>2 DEF FileIndex
<1>6. SubSeq(consumed, 1, 0) = <<>>
  BY SubSeqEmpty
<1>7. ASSUME NEW i \in FileIndex
      PROVE  IF i \in exists
             THEN /\ cut[i + 1] <= cut[i]
                  /\ content[i] = SubSeq(consumed, cut[i + 1] + 1, cut[i])
             ELSE cut[i + 1] = cut[i]
  <2>1. cut[i] = 0 /\ cut[i + 1] = 0 /\ content[i] = <<>>
    BY <1>1, <1>4, <1>5
  <2> QED BY <1>6, <2>1
<1>8. HoldEnd(consumed, cut)
  BY <1>3, <1>4, <1>5, <1>7 DEF HoldEnd
<1>9. FullCuts(cut)
  <2> SUFFICES ASSUME NEW i \in 1..(MaxFiles + 1) PROVE cut[i] = CutAt(cut[1], i)
    BY DEF FullCuts
  <2>1. (i - 1) * MaxSize >= 0
    <3>1. PICK k \in Nat : k = i - 1
      OBVIOUS
    <3>2. PICK m \in Nat : m = MaxSize
      BY <1>2
    <3>3. k * m \in Nat
      OBVIOUS
    <3> QED BY <3>1, <3>2, <3>3
  <2>2. cut[i] = 0 /\ cut[1] = 0
    BY <1>2, <1>4, <1>5
  <2>3. ~((i - 1) * MaxSize < 0)
    BY <1>2, <2>1
  <2> QED BY <2>2, <2>3 DEF CutAt
<1>10. cut[1] = 0
  BY <1>4, <1>5
<1>11. currentSize <= MaxSize /\ currentSize = Len(consumed) - cut[1] /\ ~(cut[1] > 0)
  BY <1>1, <1>2, <1>3, <1>10
<1> QED BY <1>1, <1>4, <1>8, <1>9, <1>11 DEF FilesInv

\* Without a failure the files hold the end of what was consumed, each but the
\* first as much as it may.
LEMMA FilesAlways == Spec => []FilesInv
<1>1. CallsInv /\ SizesInv /\ FilesInv /\ [Next]_vars => FilesInv'
  BY FilesStep
<1> QED BY <1>1, FilesStart, CallsAlways, SizesAlways, PTL DEF Spec
-----------------------------------------------------------------------------
(* The messages on their way *)

\* No message moves through the queue.
QueuedSame == Queued' = Queued /\ InHand' = InHand

\* How a step of the queue moves a message: out of a client's hands into the
\* queue, out of the queue into the worker's, or not at all.
LEMMA QueueMoves ==
  ASSUME CallsInv, CallsInv', NEW t \in Thread, QueueStep(t)
  PROVE  \/ /\ t \in Client /\ op[t].pc = "enqueue_claim" /\ op'[t].pc = "writing"
            /\ op[t].item \in Item
            /\ Queued' = Append(Queued, op[t].item) /\ InHand' = InHand
         \/ /\ t = Worker /\ Queued # <<>> /\ InHand = Nothing
            /\ Queued' = Tail(Queued) /\ InHand' = Head(Queued)
         \/ QueuedSame /\ op'[t].pc # "writing"
<1>1. QInv /\ QInv' /\ EmptyHanded /\ Worker \in Thread /\ Moves(t)
  BY StepMoves, Messages3 DEF CallsInv
<1>2. ASSUME Stutters PROVE QueuedSame
  BY <1>1, <1>2 DEF Stutters, QueuedSame, Queued, InHand, Hands
<1>3. CASE EnqueueClaim(t)
  <2>1. t # Worker
    BY <1>3 DEF EnqueueClaim, At, CallsInv, WorkerCalls
  <2>2. t \in Client
    BY <2>1, Messages3
  <2>3. /\ op[t].item \in Item
        /\ Queued' = Append(Queued, op[t].item)
        /\ Hands(op', cell') = Hands(op, cell)
    BY <1>1, <1>3, ClaimPuts DEF Queued
  <2>4. InHand' = InHand
    BY <1>1, <2>3 DEF InHand, Hands
  <2>5. op[t].pc = "enqueue_claim" /\ op'[t].pc = "writing"
    <3>1. op \in [Thread -> QueueCall]
      BY <1>1 DEF QInv, QTypeOK, QueueCall, PCs
    <3> QED BY <1>3, <3>1 DEF EnqueueClaim, At, Goto, QueueCall
  <2> QED BY <2>2, <2>3, <2>4, <2>5
<1>4. CASE DequeueClaim(t)
  <2>1. t = Worker
    <3>1. ASSUME t \in Client PROVE FALSE
      <4>1. CallFits(caller[t], op[t]) /\ op[t].pc = "dequeue_claim" /\ caller[t] \in CallerPlace
        BY <1>4, <3>1 DEF DequeueClaim, At, CallsInv, ClientCalls
      <4> QED BY <4>1 DEF CallFits, CallerPlace, PushPlace, Pushes
    <3> QED BY <3>1, Messages3
  <2>2. /\ Queued # <<>> /\ Hands(op, cell)[t] = Nothing
        /\ Queued' = Tail(Queued)
        /\ Hands(op', cell') = [Hands(op, cell) EXCEPT ![t] = Head(Queued)]
    BY <1>1, <1>4, ClaimGets DEF Queued
  <2>3. InHand = Nothing /\ InHand' = Head(Queued)
    BY <1>1, <2>1, <2>2 DEF InHand, Hands
  <2> QED BY <2>1, <2>2, <2>3
<1>5. CASE EnqueueWrite(t)
  <2>1. Stutters
    BY <1>1, <1>5, WriteStutters
  <2>2. op[t].pc = "writing"
    BY <1>5 DEF EnqueueWrite, At
  <2> QED BY <1>1, <1>2, <2>1, <2>2 DEF Moves
<1>6. CASE DequeueRead(t)
  <2>1. Stutters
    BY <1>1, <1>6, ReadStutters
  <2>2. op[t].pc = "reading"
    BY <1>6 DEF DequeueRead, At
  <2> QED BY <1>1, <1>2, <2>1, <2>2 DEF Moves
<1>7. CASE EmptyStep(t) \/ EnqueueLook(t) \/ EnqueueMiss(t) \/ DequeueLook(t) \/ DequeueMiss(t)
  <2>1. Stutters
    BY <1>1, <1>7, CallStutters
  <2>2. op'[t].pc # "writing"
    <3>1. op \in [Thread -> QueueCall]
      BY <1>1 DEF QInv, QTypeOK, QueueCall, PCs
    <3>2. CASE EmptyStep(t)
      <4>1. op[t].pc \in {"front", "same", "different"}
        BY <3>2 DEF EmptyStep, EmptyBack, EmptyFront, At
      <4> QED BY <1>1, <4>1 DEF Moves
    <3>3. CASE EnqueueLook(t) \/ DequeueLook(t) \/ DequeueMiss(t)
      <4>1. op[t].pc \in {"enqueue", "dequeue", "dequeue_claim"}
        BY <3>3 DEF EnqueueLook, DequeueLook, DequeueMiss, At
      <4> QED BY <1>1, <4>1 DEF Moves
    <3>4. CASE EnqueueMiss(t)
      BY <3>1, <3>4 DEF EnqueueMiss, Aim, QueueCall
    <3> QED BY <1>7, <3>2, <3>3, <3>4
  <2> QED BY <1>2, <2>1, <2>2
<1> QED BY <1>3, <1>4, <1>5, <1>6, <1>7 DEF QueueStep, EnqueueStep, DequeueStep

\* The callers move nothing into the queue or out of it.
LEMMA CallerMoves ==
  ASSUME CallsInv, NEW c \in Client,
         Log(c) \/ FlushOn(c) \/ Flush(c) \/ Drop(c) \/ Pushed(c) \/ WaitEmpty(c) \/ Join(c)
  PROVE  QueuedSame
<1>1. /\ QInv /\ EmptyHanded /\ c \in Thread /\ Worker \in Thread
      /\ CallFits(caller[c], op[c]) /\ caller[c] \in CallerPlace
  BY Messages3 DEF CallsInv, ClientCalls
<1>2. ASSUME Stutters PROVE QueuedSame
  BY <1>1, <1>2 DEF Stutters, QueuedSame, Queued, InHand, Hands
<1>3. CASE UNCHANGED qvars
  BY <1>3 DEF qvars, QueuedSame, Queued, InHand
<1>4. ASSUME NEW x \in Item, EnqueueCall(c, x) PROVE QueuedSame
  BY <1>1, <1>2, <1>4, CallStutters
<1>5. CASE EmptyCall(c) \/ Retry(c)
  BY <1>1, <1>2, <1>5, CallStutters
<1>6. CASE Acknowledge(c)
  <2>1. op[c].pc = "failed" \/ (op[c].pc = "done" /\ op[c].item = Nothing)
    <3>1. op[c].pc \in {"done", "failed"}
      BY <1>6 DEF Acknowledge
    <3> QED BY <1>1, <3>1 DEF CallFits, CallerPlace, PushPlace, Pushes
  <2> QED BY <1>1, <1>2, <1>6, <2>1, CallStutters
<1>7. Log(c) => logged' \in Item /\ EnqueueCall(c, logged')
  BY Messages3 DEF Log, CallsInv, CountsType
<1>8. FlushOn(c) \/ Flush(c) => EnqueueCall(c, FlushMsg)
  BY DEF FlushOn, Flush
<1>9. Drop(c) => EnqueueCall(c, TerminateMsg) \/ UNCHANGED qvars
  BY DEF Drop
<1>10. Pushed(c) => Acknowledge(c) \/ Retry(c)
  BY DEF Pushed
<1>11. WaitEmpty(c) => EmptyCall(c) \/ Acknowledge(c)
  BY DEF WaitEmpty
<1>12. Join(c) => UNCHANGED qvars
  BY DEF Join
<1> QED BY <1>3, <1>4, <1>5, <1>6, <1>7, <1>8, <1>9, <1>10, <1>11, <1>12, Messages3

\* The worker lets go of what it has in its hands when it handles it.
LEMMA ServerMoves ==
  ASSUME CallsInv, Fetch \/ Handle \/ Pause
  PROVE  /\ Queued' = Queued
         /\ Handle => InHand = op[Worker].item /\ InHand' = Nothing
         /\ ~Handle => InHand' = InHand /\ InHand = Nothing
<1>1. QInv /\ EmptyHanded /\ Worker \in Thread
  BY Messages3 DEF CallsInv
<1>2. ASSUME Stutters PROVE QueuedSame
  BY <1>1, <1>2 DEF Stutters, QueuedSame, Queued, InHand, Hands
<1>3. CASE Fetch
  <2>1. op[Worker].pc = "idle" /\ DequeueCall(Worker)
    BY <1>3 DEF Fetch, DequeueCall, At
  <2>2. QueuedSame
    BY <1>1, <1>2, <2>1, CallStutters
  <2>3. InHand = Nothing /\ ~Handle
    BY <2>1 DEF InHand, HeldIn, Handle, At
  <2> QED BY <2>2, <2>3 DEF QueuedSame
<1>4. CASE Pause
  <2>1. op[Worker].pc = "failed" /\ Acknowledge(Worker)
    BY <1>4 DEF Pause, At
  <2>2. QueuedSame
    BY <1>1, <1>2, <2>1, CallStutters
  <2>3. InHand = Nothing /\ ~Handle
    BY <2>1 DEF InHand, HeldIn, Handle, At
  <2> QED BY <2>2, <2>3 DEF QueuedSame
<1>5. CASE Handle
  <2>1. op[Worker].pc = "done" /\ Acknowledge(Worker)
    BY <1>5 DEF Handle, At
  <2>2. InHand = op[Worker].item
    BY <2>1 DEF InHand, HeldIn
  <2>3. op'[Worker].pc = "idle"
    BY <1>1, <2>1, CallMoves
  <2>4. InHand' = Nothing
    BY <2>3 DEF InHand, HeldIn
  <2>5. Queued' = Queued
    <3>1. CASE op[Worker].item = Nothing
      <4>1. Stutters
        BY <1>1, <2>1, <3>1, CallStutters
      <4> QED BY <1>2, <4>1 DEF QueuedSame
    <3>2. CASE op[Worker].item # Nothing
      BY <1>1, <2>1, <3>2, DoneReleases DEF Queued
    <3> QED BY <3>1, <3>2
  <2> QED BY <1>5, <2>2, <2>4, <2>5
<1> QED BY <1>3, <1>4, <1>5
-----------------------------------------------------------------------------
(* No message is lost on the way *)

\* Fewer are missing when more is present, and when one more is counted as
\* discarded one more may be missing.
LEMMA KeptMore ==
  ASSUME NEW p, NEW q, NEW n \in Nat, NEW d \in Nat, Kept(p, n, d), p \cap (1..n) \subseteq q
  PROVE  Kept(q, n, d)
<1>1. PICK lost \in SUBSET (1..n) :
        /\ IsFiniteSet(lost) /\ Cardinality(lost) <= d /\ 1..n \subseteq lost \cup p
  BY DEF Kept
<1>2. 1..n \subseteq lost \cup q
  BY <1>1
<1> QED BY <1>1, <1>2 DEF Kept

\* One more is logged, and it is there.
LEMMA KeptOne ==
  ASSUME NEW p, NEW q, NEW n \in Nat, NEW d \in Nat, Kept(p, n, d), p \cap (1..n) \subseteq q, n + 1 \in q
  PROVE  Kept(q, n + 1, d)
<1>1. PICK lost \in SUBSET (1..n) :
        /\ IsFiniteSet(lost) /\ Cardinality(lost) <= d /\ 1..n \subseteq lost \cup p
  BY DEF Kept
<1>2. 1..(n + 1) \subseteq lost \cup q /\ lost \in SUBSET (1..(n + 1))
  <2>1. 1..(n + 1) = 1..n \cup {n + 1}
    OBVIOUS
  <2> QED BY <1>1, <2>1
<1> QED BY <1>1, <1>2 DEF Kept

\* One that is not there any more is counted.
LEMMA KeptLess ==
  ASSUME NEW p, NEW q, NEW x, NEW n \in Nat, NEW d \in Nat, Kept(p, n, d),
         (p \cap (1..n)) \ {x} \subseteq q
  PROVE  Kept(q, n, d + 1)
<1>1. PICK lost \in SUBSET (1..n) :
        /\ IsFiniteSet(lost) /\ Cardinality(lost) <= d /\ 1..n \subseteq lost \cup p
  BY DEF Kept
<1>2. CASE x \in 1..n
  <2>1. /\ IsFiniteSet(lost \cup {x})
        /\ Cardinality(lost \cup {x}) = (IF x \in lost THEN Cardinality(lost) ELSE Cardinality(lost) + 1)
    BY <1>1, FS_AddElement
  <2>2. Cardinality(lost) \in Nat
    BY <1>1, FS_CardinalityType
  <2>3. Cardinality(lost \cup {x}) <= d + 1
    BY <1>1, <2>1, <2>2
  <2>4. 1..n \subseteq (lost \cup {x}) \cup q /\ lost \cup {x} \in SUBSET (1..n)
    BY <1>1, <1>2
  <2> QED BY <2>1, <2>3, <2>4 DEF Kept
<1>3. CASE x \notin 1..n
  <2>1. Cardinality(lost) \in Nat
    BY <1>1, FS_CardinalityType
  <2>2. Cardinality(lost) <= d + 1
    BY <1>1, <2>1
  <2>3. 1..n \subseteq lost \cup q
    BY <1>1, <1>3
  <2> QED BY <1>1, <2>2, <2>3 DEF Kept
<1> QED BY <1>2, <1>3

\* What a step of one thread does to what the others bring.
LEMMA OthersBring ==
  ASSUME NEW t \in Thread, \A u \in Thread \ {t} : op'[u] = op[u]
  PROVE  \A c \in Client \ {t} :
           /\ op'[c] = op[c]
           /\ c \in Bringing' <=> c \in Bringing
<1> SUFFICES ASSUME NEW c \in Client \ {t}
             PROVE  op'[c] = op[c] /\ (c \in Bringing' <=> c \in Bringing)
  OBVIOUS
<1>1. op'[c] = op[c]
  BY Messages3
<1> QED BY <1>1 DEF Bringing

\* What is queued is a sequence.
LEMMA QueuedTypes ==
  ASSUME CallsInv, CallsInv'
  PROVE  Queued \in Seq(Item \cup {Nothing}) /\ Queued' \in Seq(Item \cup {Nothing})
<1>1. /\ op \in [Thread -> QueueCall] /\ op' \in [Thread -> QueueCall]
      /\ cell \in [0..(Size - 1) -> [sequence : Nat, data : Item \cup {Nothing}]]
      /\ cell' \in [0..(Size - 1) -> [sequence : Nat, data : Item \cup {Nothing}]]
      /\ enqueuePos \in Nat /\ enqueuePos' \in Nat
      /\ dequeuePos \in Nat /\ dequeuePos' \in Nat
      /\ dequeuePos <= enqueuePos /\ dequeuePos' <= enqueuePos'
  BY DEF CallsInv, QInv, QTypeOK, InRange, QueueCall, PCs
<1>2. /\ enqueuePos - dequeuePos \in Nat
      /\ Queued \in [1..(enqueuePos - dequeuePos) -> Item \cup {Nothing}]
  BY <1>1, ContentsType DEF Queued
<1>3. /\ enqueuePos' - dequeuePos' \in Nat
      /\ Queued' \in [1..(enqueuePos' - dequeuePos') -> Item \cup {Nothing}]
  BY <1>1, ContentsType DEF Queued
<1>4. Queued \in Seq(Item \cup {Nothing})
  BY <1>2
<1>5. Queued' \in Seq(Item \cup {Nothing})
  BY <1>3
<1> QED BY <1>4, <1>5

\* The elements of a sequence that grows or loses its head.
LEMMA ElementsOf ==
  ASSUME NEW S, NEW s \in Seq(S)
  PROVE  /\ \A x \in S : Elements(Append(s, x)) = Elements(s) \cup {x}
         /\ s # <<>> => Elements(s) = {Head(s)} \cup Elements(Tail(s))
<1>1. ASSUME NEW x \in S PROVE Elements(Append(s, x)) = Elements(s) \cup {x}
  <2>1. /\ Append(s, x) \in Seq(S) /\ Len(Append(s, x)) = Len(s) + 1
        /\ \A i \in 1..Len(s) : Append(s, x)[i] = s[i]
        /\ Append(s, x)[Len(s) + 1] = x
        /\ Len(s) \in Nat
    BY AppendProperties
  <2>2. DOMAIN s = 1..Len(s) /\ DOMAIN Append(s, x) = 1..(Len(s) + 1)
    BY <2>1
  <2>3. 1..(Len(s) + 1) = 1..Len(s) \cup {Len(s) + 1}
    BY <2>1
  <2> QED BY <2>1, <2>2, <2>3 DEF Elements
<1>2. ASSUME s # <<>> PROVE Elements(s) = {Head(s)} \cup Elements(Tail(s))
  <2>1. /\ Tail(s) \in Seq(S) /\ Len(Tail(s)) = Len(s) - 1 /\ Head(s) = s[1]
        /\ \A i \in 1..Len(Tail(s)) : Tail(s)[i] = s[i + 1]
        /\ Len(s) \in Nat /\ Len(s) >= 1
    BY <1>2, HeadTailProperties
  <2>2. DOMAIN s = 1..Len(s) /\ DOMAIN Tail(s) = 1..(Len(s) - 1)
    BY <2>1
  <2>3. ASSUME NEW x \in Elements(s) PROVE x = Head(s) \/ x \in Elements(Tail(s))
    <3>1. PICK k \in 1..Len(s) : s[k] = x
      BY <2>2 DEF Elements
    <3>2. CASE k = 1
      BY <2>1, <3>1, <3>2
    <3>3. CASE k # 1
      <4>1. k - 1 \in 1..(Len(s) - 1) /\ (k - 1) + 1 = k
        BY <2>1, <3>3
      <4>2. Tail(s)[k - 1] = x
        BY <2>1, <3>1, <4>1
      <4> QED BY <2>2, <4>1, <4>2 DEF Elements
    <3> QED BY <3>2, <3>3
  <2>4. ASSUME NEW x \in Elements(Tail(s)) PROVE x \in Elements(s)
    <3>1. PICK k \in 1..(Len(s) - 1) : Tail(s)[k] = x
      BY <2>2 DEF Elements
    <3>2. k + 1 \in 1..Len(s) /\ s[k + 1] = x
      BY <2>1, <3>1
    <3> QED BY <2>2, <3>2 DEF Elements
  <2>5. Head(s) \in Elements(s)
    BY <2>1, <2>2 DEF Elements
  <2> QED BY <2>3, <2>4, <2>5
<1> QED BY <1>1, <1>2

\* What is brought, by anyone.
Brought == {op[c].item : c \in Bringing}

\* A step of the queue passes a message on.
LEMMA QueueKeeps ==
  ASSUME CallsInv, CallsInv', KeptInv, NEW t \in Thread, InQueue(t)
  PROVE  KeptInv'
<1>1. /\ logged \in Nat /\ discarded \in Nat
      /\ 1..logged \subseteq Item /\ Nothing \notin 1..logged
  BY Messages3 DEF CallsInv, CountsType
<1>2. UNCHANGED <<logged, discarded, consumed>>
  BY DEF InQueue, clientVars, workerVars
<1>3. QueueStep(t) /\ Moves(t) /\ \A c \in Client \ {t} : op'[c] = op[c] /\ (c \in Bringing' <=> c \in Bringing)
  <2>1. QueueStep(t) /\ Moves(t)
    BY StepMoves DEF InQueue, CallsInv
  <2> QED BY <2>1, OthersBring DEF Moves
<1>4. Queued \in Seq(Item \cup {Nothing}) /\ Queued' \in Seq(Item \cup {Nothing})
  BY QueuedTypes
<1>5. SUFFICES Present \cap (1..logged) \subseteq Present'
  <2>1. Kept(Present, logged, discarded) /\ logged' = logged /\ discarded' = discarded
    BY <1>2 DEF KeptInv
  <2>2. Kept(Present', logged, discarded)
    BY <1>1, <1>5, <2>1, KeptMore
  <2> QED BY <2>1, <2>2 DEF KeptInv
<1>6. Present = Elements(consumed) \cup Elements(Queued) \cup {InHand} \cup Brought
  BY DEF Present, Brought
<1>7. Present' = Elements(consumed) \cup Elements(Queued') \cup {InHand'} \cup Brought'
  BY <1>2 DEF Present, Brought, Elements
<1>8. Brought \ {op[t].item} \subseteq Brought'
  BY <1>3 DEF Brought, Bringing
<1>9. CASE /\ t \in Client /\ op[t].item \in Item
           /\ Queued' = Append(Queued, op[t].item) /\ InHand' = InHand
  <2>1. Elements(Queued') = Elements(Queued) \cup {op[t].item}
    BY <1>4, <1>9, ElementsOf
  <2> QED BY <1>6, <1>7, <1>8, <1>9, <2>1
<1>10. CASE /\ t = Worker /\ Queued # <<>> /\ InHand = Nothing
            /\ Queued' = Tail(Queued) /\ InHand' = Head(Queued)
  <2>1. Elements(Queued) = {InHand'} \cup Elements(Queued')
    BY <1>4, <1>10, ElementsOf
  <2>2. Brought \subseteq Brought'
    BY <1>3, <1>10, Messages3 DEF Brought, Bringing
  <2> QED BY <1>1, <1>6, <1>7, <1>10, <2>1, <2>2
<1>11. CASE QueuedSame /\ op'[t].pc # "writing"
  <2>1. Brought \subseteq Brought'
    <3>1. ASSUME NEW c \in Bringing PROVE op[c].item \in Brought'
      <4>1. CASE c # t
        BY <1>3, <3>1, <4>1 DEF Brought, Bringing
      <4>2. CASE c = t
        <5>1. op[t].pc \in {"enqueue", "enqueue_claim"} /\ op[t].item # Nothing
          BY <1>3, <3>1, <4>2 DEF Bringing, Moves, Pushes
        <5>2. op'[t].pc \in Pushes \ {"writing"} /\ op'[t].item = op[t].item
          BY <1>3, <1>11, <5>1 DEF Moves, Pushes
        <5>3. t \in Client
          BY <4>2 DEF Bringing
        <5>4. t \in Bringing'
          BY <5>1, <5>2, <5>3 DEF Bringing
        <5> QED BY <4>2, <5>2, <5>4 DEF Brought
      <4> QED BY <4>1, <4>2
    <3> QED BY <3>1 DEF Brought
  <2> QED BY <1>6, <1>7, <1>11, <2>1 DEF QueuedSame
<1> QED BY <1>3, <1>9, <1>10, <1>11, QueueMoves

\* A caller brings what it logs; what it discards is counted.
LEMMA CallerKeeps ==
  ASSUME CallsInv, KeptInv, NEW c \in Client,
         Log(c) \/ FlushOn(c) \/ Flush(c) \/ Drop(c) \/ Pushed(c) \/ WaitEmpty(c) \/ Join(c)
  PROVE  KeptInv'
<1>1. /\ logged \in Nat /\ discarded \in Nat
      /\ Nothing \notin 1..logged /\ Nothing \notin Item /\ c \in Thread /\ QInv
  BY Messages3 DEF CallsInv, CountsType
<1>2. /\ Kept(Present, logged, discarded)
      /\ Present = Elements(consumed) \cup Elements(Queued) \cup {InHand} \cup Brought
  BY DEF KeptInv, Present, Brought
<1>3. UNCHANGED consumed
  BY DEF Log, FlushOn, Flush, Drop, Pushed, WaitEmpty, Join, workerVars
<1>4. Present' = Elements(consumed) \cup Elements(Queued) \cup {InHand} \cup Brought'
  <2>1. QueuedSame
    BY CallerMoves
  <2> QED BY <1>3, <2>1 DEF Present, Brought, Elements, QueuedSame
<1>5. CallFits(caller[c], op[c]) /\ caller[c] \in CallerPlace
  BY DEF CallsInv, ClientCalls
<1>6. ASSUME Brought \subseteq Brought', UNCHANGED <<logged, discarded>>
      PROVE  KeptInv'
  <2>1. Present \cap (1..logged) \subseteq Present'
    BY <1>2, <1>4, <1>6
  <2>2. Kept(Present', logged, discarded)
    BY <1>1, <1>2, <2>1, KeptMore
  <2> QED BY <1>6, <2>2 DEF KeptInv
<1>7. ASSUME c \notin Bringing, \A d \in Client \ {c} : op'[d] = op[d] /\ (d \in Bringing' <=> d \in Bringing)
      PROVE  Brought \subseteq Brought'
  BY <1>7 DEF Brought, Bringing
<1>8. ASSUME NEW x \in Item, EnqueueCall(c, x)
      PROVE  Brought \subseteq Brought' /\ x \in Brought'
  <2>1. /\ op[c].pc = "idle" /\ op'[c].pc = "enqueue" /\ op'[c].item = x
        /\ \A u \in Thread \ {c} : op'[u] = op[u]
    BY <1>1, <1>8, CallMoves
  <2>2. c \notin Bringing /\ c \in Bringing'
    BY <1>1, <2>1 DEF Bringing, Pushes
  <2>3. Brought \subseteq Brought'
    BY <1>1, <1>7, <2>1, <2>2, OthersBring
  <2> QED BY <2>1, <2>2, <2>3 DEF Brought
<1>9. CASE Log(c)
  <2>1. logged' = logged + 1 /\ discarded' = discarded /\ EnqueueCall(c, logged + 1)
        /\ logged + 1 \in Item
    BY <1>9, Messages3 DEF Log, CallsInv, CountsType
  <2>2. Brought \subseteq Brought' /\ logged + 1 \in Brought'
    BY <1>8, <2>1
  <2>3. Present \cap (1..logged) \subseteq Present' /\ logged + 1 \in Present'
    BY <1>2, <1>4, <2>2
  <2>4. Kept(Present', logged + 1, discarded)
    BY <1>1, <1>2, <2>3, KeptOne
  <2> QED BY <2>1, <2>4 DEF KeptInv
<1>10. CASE FlushOn(c) \/ Flush(c) \/ (Drop(c) /\ EnqueueCall(c, TerminateMsg))
  <2>1. PICK x \in Item : EnqueueCall(c, x)
    BY <1>10, Messages3 DEF FlushOn, Flush
  <2>2. UNCHANGED <<logged, discarded>>
    BY <1>10 DEF FlushOn, Flush, Drop
  <2> QED BY <1>6, <1>8, <2>1, <2>2
<1>11. CASE (Drop(c) /\ UNCHANGED qvars) \/ Join(c)
  <2>1. op' = op /\ UNCHANGED <<logged, discarded>>
    BY <1>11 DEF Drop, Join, qvars
  <2>2. Brought' = Brought
    BY <2>1 DEF Brought, Bringing
  <2> QED BY <1>6, <2>1, <2>2
<1>12. CASE Pushed(c) /\ Acknowledge(c)
  <2>1. /\ op[c].pc \in {"done", "failed"}
        /\ \A d \in Client \ {c} : op'[d] = op[d] /\ (d \in Bringing' <=> d \in Bringing)
    BY <1>1, <1>12, CallMoves, OthersBring
  <2>2. logged' = logged
    BY <1>12 DEF Pushed
  <2>3. CASE op[c].pc = "done"
    <3>1. c \notin Bringing
      BY <2>3 DEF Bringing, Pushes
    <3>2. discarded' = discarded
      BY <1>12, <2>3 DEF Pushed, At
    <3> QED BY <1>6, <1>7, <2>1, <2>2, <3>1, <3>2
  <2>4. CASE op[c].pc = "failed"
    <3>1. Brought \ {op[c].item} \subseteq Brought'
      BY <2>1 DEF Brought, Bringing
    <3>2. (Present \cap (1..logged)) \ {op[c].item} \subseteq Present'
      BY <1>2, <1>4, <3>1
    <3>3. Kept(Present', logged, discarded + 1)
      BY <1>1, <1>2, <3>2, KeptLess
    <3>4. discarded' = discarded + 1
      <4>1. op'[c].pc = "idle"
        BY <1>1, <1>12, CallMoves
      <4>2. ~Retry(c)
        BY <1>1, <4>1, CallMoves
      <4> QED BY <1>12, <2>4, <4>2 DEF Pushed, At
    <3> QED BY <2>2, <3>3, <3>4 DEF KeptInv
  <2> QED BY <2>1, <2>3, <2>4
<1>13. CASE Pushed(c) /\ Retry(c) /\ UNCHANGED discarded
  <2>1. /\ op[c].pc = "failed" /\ op'[c].pc = "enqueue" /\ op'[c].item = op[c].item
        /\ \A d \in Client \ {c} : op'[d] = op[d] /\ (d \in Bringing' <=> d \in Bringing)
    BY <1>1, <1>13, CallMoves, OthersBring
  <2>2. logged' = logged
    BY <1>13 DEF Pushed
  <2>3. c \in Bringing => c \in Bringing'
    BY <2>1 DEF Bringing, Pushes
  <2>4. Brought \subseteq Brought'
    <3>1. ASSUME NEW d \in Bringing PROVE d \in Bringing' /\ op'[d].item = op[d].item
      <4>1. d \in Client
        BY DEF Bringing
      <4> QED BY <2>1, <2>3, <3>1, <4>1
    <3> QED BY <3>1 DEF Brought
  <2> QED BY <1>6, <1>13, <2>2, <2>4
<1>14. CASE WaitEmpty(c)
  <2>1. (EmptyCall(c) \/ Acknowledge(c)) /\ UNCHANGED <<logged, discarded>> /\ caller[c] = "wait"
    BY <1>14 DEF WaitEmpty, CallerAt
  <2>2. op[c].item = Nothing
    BY <1>5, <2>1 DEF CallFits
  <2>3. c \notin Bringing
    BY <2>2 DEF Bringing
  <2>4. \A d \in Client \ {c} : op'[d] = op[d] /\ (d \in Bringing' <=> d \in Bringing)
    BY <1>1, <2>1, CallMoves, OthersBring
  <2> QED BY <1>6, <1>7, <2>1, <2>3, <2>4
<1>15. Drop(c) => EnqueueCall(c, TerminateMsg) \/ UNCHANGED qvars
  BY DEF Drop
<1>16. Pushed(c) => Acknowledge(c) \/ (Retry(c) /\ UNCHANGED discarded)
  BY DEF Pushed
<1> QED BY <1>9, <1>10, <1>11, <1>12, <1>13, <1>14, <1>15, <1>16

\* The worker consumes a message it has in its hands.
LEMMA ServerKeeps ==
  ASSUME CallsInv, KeptInv, Fetch \/ Handle \/ Pause
  PROVE  KeptInv'
<1>1. /\ logged \in Nat /\ discarded \in Nat /\ 1..logged \subseteq 1..Messages
      /\ Nothing \notin 1..logged /\ consumed \in Seq(1..Messages)
  BY Messages3 DEF CallsInv, CountsType
<1>2. UNCHANGED <<logged, discarded>>
  BY DEF Fetch, Handle, Pause, clientVars
<1>3. SUFFICES Present \cap (1..logged) \subseteq Present'
  <2>1. Kept(Present, logged, discarded)
    BY DEF KeptInv
  <2>2. Kept(Present', logged, discarded)
    BY <1>1, <1>3, <2>1, KeptMore
  <2> QED BY <1>2, <2>2 DEF KeptInv
<1>4. /\ Present = Elements(consumed) \cup Elements(Queued) \cup {InHand} \cup Brought
      /\ Present' = Elements(consumed') \cup Elements(Queued') \cup {InHand'} \cup Brought'
  BY DEF Present, Brought, Elements
<1>5. \A u \in Thread \ {Worker} : op'[u] = op[u]
  <2>1. Worker \in Thread /\ QInv
    BY Messages3 DEF CallsInv
  <2> QED BY <2>1, CallMoves DEF Fetch, Handle, Pause
<1>6. Brought' = Brought
  <2>1. \A c \in Client : op'[c] = op[c]
    BY <1>5, Messages3
  <2> QED BY <2>1 DEF Brought, Bringing
<1>7. CASE Handle
  <2>1. Queued' = Queued /\ InHand = op[Worker].item
    BY <1>7, ServerMoves
  <2>2. CASE op[Worker].item \in 1..Messages
    <3>1. consumed' = Append(consumed, InHand) /\ InHand \in 1..Messages
      BY <1>7, <2>1, <2>2 DEF Handle
    <3>2. Elements(consumed') = Elements(consumed) \cup {InHand}
      <4> DEFINE T == 1..Messages
      <4>1. consumed \in Seq(T) /\ InHand \in T
        BY <1>1, <3>1
      <4> HIDE DEF T
      <4> QED BY <3>1, <4>1, ElementsOf
    <3> QED BY <1>4, <1>6, <2>1, <3>2
  <2>3. CASE op[Worker].item \notin 1..Messages
    <3>1. consumed' = consumed /\ InHand \notin 1..logged
      BY <1>1, <1>7, <2>1, <2>3 DEF Handle
    <3> QED BY <1>4, <1>6, <2>1, <3>1
  <2> QED BY <2>2, <2>3
<1>8. CASE ~Handle
  <2>1. Queued' = Queued /\ InHand' = InHand
    BY <1>8, ServerMoves
  <2>2. consumed' = consumed
    BY <1>8 DEF Fetch, Pause, workerVars
  <2> QED BY <1>4, <1>6, <2>1, <2>2
<1> QED BY <1>7, <1>8

\* Every step keeps the messages.
LEMMA KeptStep ==
  ASSUME CallsInv, CallsInv', KeptInv, [Next]_vars
  PROVE  KeptInv'
<1>1. CASE UNCHANGED vars
  <2>1. UNCHANGED <<op, cell, enqueuePos, dequeuePos, consumed, logged, discarded>>
    BY <1>1 DEF vars, qvars, clientVars, workerVars
  <2>2. Queued' = Queued /\ InHand' = InHand /\ Bringing' = Bringing
    BY <2>1 DEF Queued, InHand, Bringing, Contents, ItemIn, WritersIn, HeldIn
  <2>3. Present' = Present
    BY <2>1, <2>2 DEF Present, Elements
  <2> QED BY <2>1, <2>3 DEF KeptInv
<1>2. CASE Next
  BY <1>2, QueueKeeps, CallerKeeps, ServerKeeps DEF Next
<1> QED BY <1>1, <1>2

\* Nothing has been logged yet.
LEMMA KeptStart == Init => KeptInv
<1> SUFFICES ASSUME Init PROVE KeptInv
  OBVIOUS
<1>1. logged = 0 /\ discarded = 0
  BY DEF Init
<1>2. 1..0 = {} /\ IsFiniteSet({}) /\ Cardinality({}) = 0
  BY FS_EmptySet
<1>3. Kept(Present, 0, 0)
  BY <1>2 DEF Kept
<1> QED BY <1>1, <1>3 DEF KeptInv

\* Every message that was logged, but those that were discarded, is somewhere
\* between its client and what the worker has consumed.
LEMMA KeptAlways == Spec => []KeptInv
<1>1. CallsInv /\ CallsInv' /\ KeptInv /\ [Next]_vars => KeptInv'
  BY KeptStep
<1> QED BY <1>1, CallsAlways, KeptStart, PTL DEF Spec
-----------------------------------------------------------------------------
(* The last reference *)

\* Only the client that drops the last reference goes on to "ending", and then
\* no other client is left to leave it.
LEMMA LastStep ==
  ASSUME CallsInv, LastInv, [Next]_vars
  PROVE  LastInv'
<1>1. caller \in [Client -> CallerPlace]
  BY DEF CallsInv, ClientCalls
<1>2. CASE UNCHANGED caller
  BY <1>2 DEF LastInv
<1>3. ASSUME NEW c \in Client, NEW where \in CallerPlace \ {"ending", "join"},
             caller[c] \notin {"ending", "join", "gone"}, CallerGoes(c, where)
      PROVE  LastInv'
  BY <1>1, <1>3 DEF LastInv, CallerGoes
<1>4. ASSUME NEW c \in Client, NEW where \in {"join", "gone"},
             caller[c] \in {"ending", "join"}, CallerGoes(c, where)
      PROVE  LastInv'
  BY <1>1, <1>4 DEF LastInv, CallerGoes
<1>5. ASSUME NEW c \in Client, Drop(c) PROVE LastInv'
  <2>1. CASE CallerGoes(c, "ending") /\ Holders = {c}
    <3>1. ASSUME NEW d \in Client \ {c} PROVE caller[d] = "gone"
      <4>1. caller[d] \in {"gone", "ending", "join"}
        BY <2>1, <3>1 DEF Holders
      <4>2. caller[c] = "free"
        BY <1>5 DEF Drop, CallerAt
      <4> QED BY <4>1, <4>2 DEF LastInv
    <3> QED BY <1>1, <2>1, <3>1 DEF LastInv, CallerGoes
  <2>2. CASE CallerGoes(c, "gone")
    BY <1>3, <1>5, <2>2 DEF Drop, CallerAt, CallerPlace
  <2> QED BY <1>5, <2>1, <2>2 DEF Drop
<1>6. ASSUME NEW c \in Client, Log(c) \/ FlushOn(c) \/ Flush(c) \/ WaitEmpty(c) PROVE LastInv'
  <2>1. \/ UNCHANGED caller
        \/ \E where \in CallerPlace \ {"ending", "join"} : CallerGoes(c, where)
    BY <1>6 DEF Log, FlushOn, Flush, WaitEmpty, CallerPlace
  <2>2. caller[c] \notin {"ending", "join", "gone"}
    BY <1>6 DEF Log, FlushOn, Flush, WaitEmpty, CallerAt
  <2> QED BY <1>2, <1>3, <2>1, <2>2
<1>7. ASSUME NEW c \in Client, Pushed(c) PROVE LastInv'
  <2>1. caller[c] \in {"log", "urgent", "flush", "ending"}
    BY <1>7 DEF Pushed, Afterwards
  <2>2. UNCHANGED caller \/ CallerGoes(c, Afterwards[caller[c]])
    BY <1>7 DEF Pushed
  <2>3. CASE caller[c] = "ending"
    <3>1. Afterwards[caller[c]] = "join"
      BY <2>3 DEF Afterwards
    <3> QED BY <1>2, <1>4, <2>2, <2>3, <3>1
  <2>4. CASE caller[c] # "ending"
    <3>1. Afterwards[caller[c]] \in {"free", "flush_on", "wait"}
      BY <2>1, <2>4 DEF Afterwards
    <3>2. Afterwards[caller[c]] \in CallerPlace \ {"ending", "join"}
      BY <3>1 DEF CallerPlace
    <3>3. caller[c] \notin {"ending", "join", "gone"}
      BY <2>1, <2>4
    <3> QED BY <1>2, <1>3, <2>2, <3>2, <3>3
  <2> QED BY <2>3, <2>4
<1>8. ASSUME NEW c \in Client, Join(c) PROVE LastInv'
  BY <1>4, <1>8 DEF Join, CallerAt
<1>9. UNCHANGED vars \/ (\E t \in Thread : InQueue(t)) \/ Fetch \/ Handle \/ Pause => UNCHANGED caller
  BY DEF vars, InQueue, Fetch, Handle, Pause, clientVars
<1> QED BY <1>2, <1>5, <1>6, <1>7, <1>8, <1>9 DEF Next

\* Who sends "terminate" is the last one.
LEMMA LastAlways == Spec => []LastInv
<1>1. Init => LastInv
  BY DEF Init, LastInv
<1>2. CallsInv /\ LastInv /\ [Next]_vars => LastInv'
  BY LastStep
<1> QED BY <1>1, <1>2, CallsAlways, PTL DEF Spec
-----------------------------------------------------------------------------
(* The end *)

\* When nobody comes any more, a step that leaves the callers and what they bring
\* alone leaves it so.
LEMMA NoneStays ==
  ASSUME NoneComes, UNCHANGED caller, Bringing' \subseteq Bringing
  PROVE  NoneComes'
BY DEF NoneComes

\* A message is put into the queue by one who brings it, so "terminate" is not
\* there yet; with "terminate" itself the last client's call is over.
LEMMA EndPut ==
  ASSUME CallsInv, CallsInv', LastInv, EndInv, UNCHANGED <<caller, terminateRequested>>,
         NEW t \in Client, \A d \in Client \ {t} : op'[d] = op[d] /\ (d \in Bringing' <=> d \in Bringing),
         op[t].pc = "enqueue_claim", op'[t].pc = "writing", op[t].item \in Item,
         Queued' = Append(Queued, op[t].item), InHand' = InHand
  PROVE  EndInv'
<1>1. t \in Bringing /\ t \notin Bringing'
  BY Messages3 DEF Bringing, Pushes
<1>2. ~Closed
  BY <1>1 DEF EndInv, NoneComes
<1>3. Queued \in Seq(Item \cup {Nothing}) /\ op[t].item \in Item \cup {Nothing}
  BY QueuedTypes
<1>4. Elements(Queued') = Elements(Queued) \cup {op[t].item}
  BY <1>3, ElementsOf
<1>5. CallFits(caller[t], op[t]) /\ caller[t] \in CallerPlace
  BY DEF CallsInv, ClientCalls
<1>6. op[t].item = TerminateMsg => NoneComes'
  <2> SUFFICES ASSUME op[t].item = TerminateMsg PROVE NoneComes'
    OBVIOUS
  <2>1. caller[t] \in PushPlace /\ op[t].item \in MayBring(caller[t])
    BY <1>5, Messages3 DEF CallFits, CallerPlace, PushPlace
  <2>2. caller[t] = "ending"
    BY <2>1, Messages3 DEF MayBring, PushPlace
  <2>3. ASSUME NEW d \in Client \ {t} PROVE caller[d] = "gone" /\ d \notin Bringing'
    <3>1. caller[d] = "gone" /\ CallFits(caller[d], op[d])
      BY <2>2 DEF LastInv, CallsInv, ClientCalls
    <3>2. d \notin Bringing
      BY <3>1 DEF CallFits, Bringing
    <3> QED BY <3>1, <3>2
  <2> QED BY <1>1, <2>2, <2>3 DEF NoneComes
<1>7. Closed' => op[t].item = TerminateMsg
  BY <1>2, <1>4 DEF Closed, Elements
<1>8. ASSUME NEW k \in DOMAIN Queued', Queued'[k] = TerminateMsg PROVE k = Len(Queued')
  <2>1. /\ Append(Queued, op[t].item) \in Seq(Item \cup {Nothing})
        /\ Len(Append(Queued, op[t].item)) = Len(Queued) + 1
        /\ \A i \in 1..Len(Queued) : Append(Queued, op[t].item)[i] = Queued[i]
        /\ Len(Queued) \in Nat /\ DOMAIN Queued = 1..Len(Queued)
    BY <1>3, AppendProperties
  <2>2. k \in 1..(Len(Queued) + 1) /\ Len(Queued') = Len(Queued) + 1
    BY <1>8, <2>1
  <2>3. k \notin 1..Len(Queued)
    BY <1>2, <1>8, <2>1 DEF Closed, Elements
  <2> QED BY <2>1, <2>2, <2>3
<1>9. InHand' # TerminateMsg /\ ~terminateRequested'
  BY <1>2 DEF Closed
<1> QED BY <1>6, <1>7, <1>8, <1>9 DEF EndInv

\* The worker takes the head: "terminate" only when it is the last.
LEMMA EndTaken ==
  ASSUME CallsInv, CallsInv', EndInv, UNCHANGED <<caller, terminateRequested>>,
         Bringing' \subseteq Bringing,
         Queued # <<>>, Queued' = Tail(Queued), InHand' = Head(Queued)
  PROVE  EndInv'
<1>1. Queued \in Seq(Item \cup {Nothing})
  BY QueuedTypes
<1>2. /\ Elements(Queued) = {InHand'} \cup Elements(Queued')
      /\ ~terminateRequested'
  BY <1>1, ElementsOf DEF EndInv
<1>3. Closed' => NoneComes'
  <2>1. Closed' => Closed
    BY <1>2 DEF Closed, Elements
  <2> QED BY <2>1, NoneStays DEF EndInv
<1>4. /\ Tail(Queued) \in Seq(Item \cup {Nothing}) /\ Len(Tail(Queued)) = Len(Queued) - 1
      /\ Head(Queued) = Queued[1] /\ Len(Queued) \in Nat /\ Len(Queued) >= 1
      /\ \A i \in 1..Len(Tail(Queued)) : Tail(Queued)[i] = Queued[i + 1]
      /\ DOMAIN Queued = 1..Len(Queued)
  BY <1>1, HeadTailProperties
<1>5. DOMAIN Tail(Queued) = 1..(Len(Queued) - 1)
  BY <1>4
<1>6. ASSUME NEW k \in DOMAIN Queued', Queued'[k] = TerminateMsg PROVE k = Len(Queued')
  <2>1. k \in 1..(Len(Queued) - 1) /\ Queued[k + 1] = TerminateMsg /\ k + 1 \in DOMAIN Queued
    BY <1>4, <1>5, <1>6
  <2>2. k + 1 = Len(Queued)
    BY <2>1 DEF EndInv
  <2> QED BY <1>4, <2>1, <2>2
<1>7. InHand' = TerminateMsg => Queued' = <<>>
  <2> SUFFICES ASSUME InHand' = TerminateMsg PROVE Queued' = <<>>
    OBVIOUS
  <2>1. Queued[1] = TerminateMsg /\ 1 \in DOMAIN Queued
    BY <1>4
  <2>2. 1 = Len(Queued)
    BY <2>1 DEF EndInv
  <2>3. Len(Tail(Queued)) = 0
    BY <1>4, <2>2
  <2> QED BY <1>4, <2>3, EmptySeq
<1> QED BY <1>2, <1>3, <1>6, <1>7 DEF EndInv

\* Where nothing moves through the queue it is enough that nobody new comes.
LEMMA EndSame ==
  ASSUME EndInv, QueuedSame, UNCHANGED terminateRequested, NoneComes => NoneComes'
  PROVE  EndInv'
BY DEF EndInv, QueuedSame, Closed, Elements

\* A step of the queue.
LEMMA EndQueue ==
  ASSUME CallsInv, CallsInv', LastInv, EndInv, NEW t \in Thread, InQueue(t)
  PROVE  EndInv'
<1>1. UNCHANGED <<caller, terminateRequested>>
  BY DEF InQueue, clientVars, workerVars
<1>2. QueueStep(t) /\ Moves(t) /\ \A c \in Client \ {t} : op'[c] = op[c] /\ (c \in Bringing' <=> c \in Bringing)
  <2>1. QueueStep(t) /\ Moves(t)
    BY StepMoves DEF InQueue, CallsInv
  <2> QED BY <2>1, OthersBring DEF Moves
<1>3. CASE /\ t \in Client /\ op[t].pc = "enqueue_claim" /\ op'[t].pc = "writing"
           /\ op[t].item \in Item
           /\ Queued' = Append(Queued, op[t].item) /\ InHand' = InHand
  BY <1>1, <1>2, <1>3, EndPut
<1>4. CASE /\ t = Worker /\ Queued # <<>> /\ InHand = Nothing
           /\ Queued' = Tail(Queued) /\ InHand' = Head(Queued)
  <2>1. Bringing' \subseteq Bringing
    BY <1>2, <1>4, Messages3 DEF Bringing
  <2> QED BY <1>1, <1>4, <2>1, EndTaken
<1>5. CASE QueuedSame /\ op'[t].pc # "writing"
  <2>1. ASSUME t \in Client, t \in Bringing' PROVE t \in Bringing
    <3>1. CallFits(caller[t], op[t]) /\ caller[t] \in CallerPlace /\ EmptyHanded
      BY <2>1 DEF CallsInv, ClientCalls
    <3>2. /\ op'[t].pc \in {"enqueue", "enqueue_claim", "failed"} /\ op'[t].item # Nothing
      BY <2>1 DEF Bringing, Pushes
    <3>3. op[t].pc \in Pushes \cup {"front", "same", "different"}
      BY <1>2, <3>1 DEF CallFits, CallerPlace, PushPlace, Moves, Pushes
    <3>4. op[t].pc \notin {"front", "same", "different"}
      <4>1. ASSUME op[t].pc \in {"front", "same", "different"} PROVE FALSE
        <5>1. op[t].item = Nothing
          BY <3>1, <4>1 DEF EmptyHanded
        <5>2. op'[t].item = op[t].item
          BY <1>2, <4>1 DEF Moves
        <5> QED BY <3>2, <5>1, <5>2
      <4> QED BY <4>1
    <3>5. op[t].pc # "writing"
      BY <1>2, <3>2 DEF Moves
    <3>6. op'[t].item = op[t].item
      BY <1>2, <3>3, <3>4, <3>5 DEF Moves, Pushes
    <3> QED BY <2>1, <3>2, <3>3, <3>4, <3>5, <3>6 DEF Bringing
  <2>2. Bringing' \subseteq Bringing
    BY <1>2, <2>1 DEF Bringing
  <2> QED BY <1>1, <1>5, <2>2, EndSame, NoneStays
<1> QED BY <1>2, <1>3, <1>4, <1>5, QueueMoves

\* A step of a client: one that brings something is none of those that are left
\* when nobody comes any more.
LEMMA EndCaller ==
  ASSUME CallsInv, EndInv, NEW c \in Client,
         Log(c) \/ FlushOn(c) \/ Flush(c) \/ Drop(c) \/ Pushed(c) \/ WaitEmpty(c) \/ Join(c)
  PROVE  EndInv'
<1>1. QueuedSame /\ UNCHANGED terminateRequested
  <2>1. UNCHANGED terminateRequested
    BY DEF Log, FlushOn, Flush, Drop, Pushed, WaitEmpty, Join, workerVars
  <2> QED BY <2>1, CallerMoves
<1>2. ASSUME NoneComes PROVE NoneComes'
  <2>1. /\ c \in Thread /\ QInv /\ caller \in [Client -> CallerPlace]
        /\ caller[c] \in {"ending", "join", "gone"} /\ c \notin Bringing
        /\ CallFits(caller[c], op[c])
    BY <1>2, Messages3 DEF CallsInv, ClientCalls, NoneComes
  <2>2. CASE Join(c)
    <3>1. op' = op /\ caller' = [caller EXCEPT ![c] = "gone"]
      BY <2>2 DEF Join, CallerGoes, qvars
    <3>2. Bringing' = Bringing
      BY <3>1 DEF Bringing
    <3> QED BY <1>2, <2>1, <3>1, <3>2 DEF NoneComes
  <2>3. CASE Pushed(c)
    <3>1. caller[c] = "ending"
      BY <2>1, <2>3 DEF Pushed, Afterwards
    <3>2. ~Retry(c)
      <4>1. ASSUME Retry(c) PROVE FALSE
        <5>1. op[c].pc = "failed"
          BY <2>1, <4>1, CallMoves
        <5>2. op[c].item # Nothing
          BY <2>1, <3>1, <5>1, Messages3 DEF CallFits, PushPlace, MayBring
        <5> QED BY <2>1, <5>1, <5>2 DEF Bringing, Pushes
      <4> QED BY <4>1
    <3>3. Acknowledge(c) /\ CallerGoes(c, "join")
      <4>1. Afterwards[caller[c]] = "join"
        BY <3>1 DEF Afterwards
      <4> QED BY <2>3, <3>2, <4>1 DEF Pushed
    <3>4. /\ op'[c].pc = "idle"
          /\ \A d \in Client \ {c} : op'[d] = op[d] /\ (d \in Bringing' <=> d \in Bringing)
      BY <2>1, <3>3, CallMoves, OthersBring
    <3>5. Bringing' \subseteq Bringing
      <4>1. c \notin Bringing'
        BY <3>4 DEF Bringing, Pushes
      <4> QED BY <3>4, <4>1 DEF Bringing
    <3>6. caller' = [caller EXCEPT ![c] = "join"]
      BY <3>3 DEF CallerGoes
    <3> QED BY <1>2, <2>1, <3>5, <3>6 DEF NoneComes
  <2>4. ~(Log(c) \/ FlushOn(c) \/ Flush(c) \/ Drop(c) \/ WaitEmpty(c))
    BY <2>1 DEF Log, FlushOn, Flush, Drop, WaitEmpty, CallerAt
  <2> QED BY <2>2, <2>3, <2>4
<1> QED BY <1>1, <1>2, EndSame

\* A step of the worker: it is told to end by the message in its hands.
LEMMA EndServer ==
  ASSUME CallsInv, EndInv, Fetch \/ Handle \/ Pause
  PROVE  EndInv'
<1>1. /\ Queued' = Queued
      /\ Handle => InHand = op[Worker].item /\ InHand' = Nothing
      /\ ~Handle => InHand' = InHand /\ InHand = Nothing
  BY ServerMoves
<1>2. UNCHANGED caller
  BY DEF Fetch, Handle, Pause, clientVars
<1>3. Bringing' = Bringing
  <2>1. Worker \in Thread /\ QInv
    BY Messages3 DEF CallsInv
  <2>2. \A u \in Thread \ {Worker} : op'[u] = op[u]
    BY <2>1, CallMoves DEF Fetch, Handle, Pause
  <2>3. \A c \in Client : op'[c] = op[c]
    BY <2>2, Messages3
  <2> QED BY <2>3 DEF Bringing
<1>4. NoneComes => NoneComes'
  BY <1>2, <1>3, NoneStays
<1>5. CASE Handle
  <2>1. terminateRequested' = (terminateRequested \/ InHand = TerminateMsg)
    BY <1>1, <1>5 DEF Handle
  <2>2. InHand' = Nothing /\ InHand' # TerminateMsg
    BY <1>1, <1>5, Messages3
  <2>3. Closed' => Closed
    BY <1>1, <2>1, <2>2 DEF Closed, Elements
  <2> QED BY <1>1, <1>4, <2>1, <2>2, <2>3 DEF EndInv
<1>6. CASE ~Handle
  <2>1. UNCHANGED terminateRequested
    BY <1>6 DEF Fetch, Pause, workerVars
  <2>2. QueuedSame
    BY <1>1, <1>6 DEF QueuedSame
  <2> QED BY <1>4, <2>1, <2>2, EndSame
<1> QED BY <1>5, <1>6

\* Every step keeps "terminate" the last message.
LEMMA EndStep ==
  ASSUME CallsInv, CallsInv', LastInv, EndInv, [Next]_vars
  PROVE  EndInv'
<1>1. CASE UNCHANGED vars
  <2>1. UNCHANGED <<op, cell, enqueuePos, dequeuePos, caller, terminateRequested>>
    BY <1>1 DEF vars, qvars, clientVars, workerVars
  <2>2. QueuedSame /\ Bringing' = Bringing
    BY <2>1 DEF QueuedSame, Queued, InHand, Bringing, Contents, ItemIn, WritersIn, HeldIn
  <2> QED BY <2>1, <2>2, EndSame, NoneStays
<1>2. CASE Next
  BY <1>2, EndQueue, EndCaller, EndServer DEF Next
<1> QED BY <1>1, <1>2

\* At first the queue is empty and nobody has asked for the end.
LEMMA EndStart == Init => EndInv
<1> SUFFICES ASSUME Init PROVE EndInv
  OBVIOUS
<1>1. /\ ~terminateRequested /\ enqueuePos = 0 /\ dequeuePos = 0
      /\ \A t \in Thread : op[t].pc = "idle"
  BY DEF Init, QInit, Idle
<1>2. InHand = Nothing /\ InHand # TerminateMsg
  BY <1>1, Messages3 DEF InHand, HeldIn
<1>3. DOMAIN Queued = {}
  <2>1. DOMAIN Queued = 1..(0 - 0)
    BY <1>1 DEF Queued, Contents
  <2> QED BY <2>1
<1> QED BY <1>1, <1>2, <1>3 DEF EndInv, Closed, Elements

\* In every reachable state "terminate" is the last message.
LEMMA EndAlways == Spec => []EndInv
<1>1. CallsInv /\ CallsInv' /\ LastInv /\ EndInv /\ [Next]_vars => EndInv'
  BY EndStep
<1> QED BY <1>1, CallsAlways, LastAlways, EndStart, PTL DEF Spec

\* The worker flushes before it leaves, because "terminate" asks for a flush too.
LEMMA LeavesAlways == Spec => []LeavesInv
<1>1. Init => LeavesInv
  BY DEF Init, LeavesInv
<1>2. LeavesInv /\ [Next]_vars => LeavesInv'
  <2> SUFFICES ASSUME LeavesInv, [Next]_vars PROVE LeavesInv'
    OBVIOUS
  <2>1. CASE UNCHANGED <<sinkVars, workerVars>>
    BY <2>1 DEF LeavesInv, sinkVars, workerVars
  <2>2. CASE Handle
    <3>1. /\ worker = "run" /\ worker' = "run"
          /\ flushRequested' = (flushRequested \/ op[Worker].item \in {FlushMsg, TerminateMsg})
          /\ terminateRequested' = (terminateRequested \/ op[Worker].item = TerminateMsg)
      BY <2>2 DEF Handle
    <3> QED BY <3>1 DEF LeavesInv
  <2>3. CASE Pause
    <3>1. /\ worker = "run" /\ terminateRequested' = terminateRequested
          /\ worker' = IF terminateRequested THEN "exited" ELSE worker
          /\ unflushed' = 0 \/ ~flushRequested
      BY <2>3 DEF Pause, SinkFlush
    <3> QED BY <3>1 DEF LeavesInv
  <2>4. UNCHANGED vars \/ (\E t \in Thread : InQueue(t)) \/ Fetch => UNCHANGED <<sinkVars, workerVars>>
    BY DEF vars, InQueue, Fetch
  <2>5. ASSUME NEW c \in Client,
               \/ Log(c) \/ FlushOn(c) \/ Flush(c) \/ Drop(c)
               \/ Pushed(c) \/ WaitEmpty(c) \/ Join(c)
        PROVE  UNCHANGED <<sinkVars, workerVars>>
    BY <2>5 DEF Log, FlushOn, Flush, Drop, Pushed, WaitEmpty, Join
  <2> QED BY <2>1, <2>2, <2>3, <2>4, <2>5 DEF Next
<1> QED BY <1>1, <1>2, PTL DEF Spec

\* The elements of a sequence are no more than its length.
LEMMA ElementsCount ==
  ASSUME NEW S, NEW s \in Seq(S)
  PROVE  IsFiniteSet(Elements(s)) /\ Cardinality(Elements(s)) <= Len(s)
<1>1. IsFiniteSet(1..Len(s)) /\ Cardinality(1..Len(s)) = Len(s)
  <2>1. Len(s) \in Nat
    OBVIOUS
  <2>2. Cardinality(1..Len(s)) = IF 1 > Len(s) THEN 0 ELSE Len(s) - 1 + 1
    BY <2>1, FS_Interval
  <2> QED BY <2>1, <2>2, FS_Interval
<1>2. DOMAIN s = 1..Len(s)
  OBVIOUS
<1>3. s \in Surjection(1..Len(s), Elements(s))
  BY <1>2 DEF Surjection, Elements
<1> QED BY <1>1, <1>3, FS_Surjection

\* When the logger is gone, every message that was logged and not discarded has
\* been taken by the worker, and the files hold the last of them on disk: the
\* destructor of the logger waits for all of it (async_log_helper.h, ~async_log_helper).
THEOREM NothingIsLost == Spec => []NothingLostAtExit
<1> SUFFICES ASSUME CallsInv, KeptInv, EndInv, LeavesInv, FilesInv, SizesInv
             PROVE  NothingLostAtExit
  BY CallsAlways, KeptAlways, EndAlways, LeavesAlways, FilesAlways, SizesAlways, PTL
<1> SUFFICES ASSUME worker = "exited"
             PROVE  /\ Len(consumed) + discarded >= logged
                    /\ failures = 0 =>
                         /\ unflushed = 0
                         /\ \E cut \in [0..(MaxFiles + 1) -> 0..Len(consumed)] :
                              /\ HoldEnd(consumed, cut)
                              /\ Len(consumed) - cut[MaxFiles + 1]
                                   >= Least(Len(consumed), MaxFiles * MaxSize + 1)
  BY DEF NothingLostAtExit
<1>1. terminateRequested /\ unflushed = 0
  BY DEF LeavesInv
<1>2. /\ consumed \in Seq(1..Messages) /\ Len(consumed) \in Nat
      /\ logged \in Nat /\ discarded \in Nat /\ Nothing \notin 1..logged
  BY Messages3 DEF CallsInv, CountsType
<1>3. Len(consumed) + discarded >= logged
  <2>1. Queued = <<>> /\ InHand = Nothing /\ Bringing = {}
    BY <1>1 DEF EndInv, Closed, NoneComes, Bringing
  <2>2. Present = Elements(consumed) \cup {Nothing}
    BY <2>1 DEF Present, Elements
  <2>3. PICK lost \in SUBSET (1..logged) :
          /\ IsFiniteSet(lost) /\ Cardinality(lost) <= discarded
          /\ 1..logged \subseteq lost \cup Present
    BY DEF KeptInv, Kept
  <2>4. 1..logged \subseteq lost \cup Elements(consumed)
    BY <1>2, <2>2, <2>3
  <2>5. /\ IsFiniteSet(Elements(consumed)) /\ Cardinality(Elements(consumed)) <= Len(consumed)
    <3> DEFINE T == 1..Messages
    <3>1. consumed \in Seq(T)
      BY <1>2
    <3> HIDE DEF T
    <3> QED BY <3>1, ElementsCount
  <2>6. /\ IsFiniteSet(lost \cup Elements(consumed))
        /\ Cardinality(lost \cup Elements(consumed))
             = Cardinality(lost) + Cardinality(Elements(consumed))
                 - Cardinality(lost \cap Elements(consumed))
    BY <2>3, <2>5, FS_Union
  <2>7. /\ Cardinality(lost) \in Nat /\ Cardinality(Elements(consumed)) \in Nat
        /\ Cardinality(lost \cap Elements(consumed)) \in Nat
    BY <2>3, <2>5, FS_Intersection, FS_CardinalityType
  <2>8. Cardinality(1..logged) = logged
    <3>1. Cardinality(1..logged) = IF 1 > logged THEN 0 ELSE logged - 1 + 1
      BY <1>2, FS_Interval
    <3> QED BY <1>2, <3>1
  <2>9. Cardinality(1..logged) <= Cardinality(lost \cup Elements(consumed))
    BY <2>4, <2>6, FS_Subset
  <2> QED BY <1>2, <2>3, <2>5, <2>6, <2>7, <2>8, <2>9
<1>4. ASSUME failures = 0
      PROVE  \E cut \in [0..(MaxFiles + 1) -> 0..Len(consumed)] :
               /\ HoldEnd(consumed, cut)
               /\ Len(consumed) - cut[MaxFiles + 1]
                    >= Least(Len(consumed), MaxFiles * MaxSize + 1)
  <2>1. PICK cut \in [0..(MaxFiles + 1) -> 0..Len(consumed)] :
          /\ HoldEnd(consumed, cut) /\ FullCuts(cut)
          /\ currentSize = Len(consumed) - cut[1]
          /\ cut[1] > 0 => currentSize > 0
    BY <1>4 DEF FilesInv
  <2>2. PICK n \in Nat : n = MaxFiles * MaxSize
    BY RotationAssumption
  <2>3. cut[MaxFiles + 1] = IF n < cut[1] THEN cut[1] - n ELSE 0
    <3>1. MaxFiles + 1 \in 1..(MaxFiles + 1) /\ (MaxFiles + 1) - 1 = MaxFiles
      BY RotationAssumption
    <3>2. cut[MaxFiles + 1] = CutAt(cut[1], MaxFiles + 1)
      BY <2>1, <3>1 DEF FullCuts
    <3> QED BY <2>2, <3>1, <3>2 DEF CutAt
  <2>4. cut[1] \in 0..Len(consumed)
    BY <2>1, RotationAssumption
  <2>5. Len(consumed) - cut[MaxFiles + 1] >= Least(Len(consumed), n + 1)
    BY <1>2, <2>1, <2>3, <2>4 DEF Least
  <2> QED BY <2>1, <2>2, <2>5
<1> QED BY <1>1, <1>3, <1>4

-----------------------------------------------------------------------------
(* Compiling a pattern *)

\* The strings; those that a pattern or a line may contain by itself are named.
Sign ==
  STRING \cup {"chars", "%", "b", "D", "T", "time", "eol", "warn"}
    \cup {"{", "}", ":", "d", "s", "-", "0", "1", "2", "3", "4", "5", "6", "7", "8", "9"}

Formatter == [shows : Sign, chars : Seq(Sign)]
Compiled == [made : Seq(Formatter), chars : Seq(Sign), flag : BOOLEAN]
Start == [made |-> <<>>, chars |-> <<>>, flag |-> FALSE]

\* A flag becomes one or two formatters.
LEMMA HandleFlagType ==
  ASSUME NEW flag \in Sign
  PROVE  HandleFlag(flag) \in Seq(Formatter)
<1>0. "b" \in Sign /\ "D" \in Sign /\ "T" \in Sign /\ "%" \in Sign /\ "chars" \in Sign
  BY Zenon DEF Sign
<1>1. \A g \in Sign : FlagFormatter(g) \in Formatter
  BY DEF FlagFormatter, Formatter
<1>2. \A g \in Sign : CharsFormatter(<<g>>) \in Formatter
  BY <1>0 DEF CharsFormatter, Formatter
<1>3. \A x \in Formatter, y \in Formatter : <<x>> \in Seq(Formatter) /\ <<x, y>> \in Seq(Formatter)
  OBVIOUS
<1>4. <<FlagFormatter("b")>> \in Seq(Formatter) /\ <<FlagFormatter("D")>> \in Seq(Formatter)
      /\ <<FlagFormatter("T")>> \in Seq(Formatter) /\ <<FlagFormatter(flag)>> \in Seq(Formatter)
      /\ <<CharsFormatter(<<"%">>), CharsFormatter(<<flag>>)>> \in Seq(Formatter)
  BY <1>0, <1>1, <1>2, <1>3, Zenon
<1> QED BY <1>4, Zenon DEF HandleFlag

\* The characters since the last flag become a formatter.
LEMMA WithCharsType ==
  ASSUME NEW s \in Compiled
  PROVE  WithChars(s) \in Seq(Formatter)
<1>0. "chars" \in Sign
  BY Zenon DEF Sign
<1>1. CharsFormatter(s.chars) \in Formatter /\ s.made \in Seq(Formatter)
  BY <1>0 DEF CharsFormatter, Formatter, Compiled
<1> QED BY <1>1 DEF WithChars

\* One character more.
LEMMA CompileStepType ==
  ASSUME NEW s \in Compiled, NEW c \in Sign
  PROVE  CompileStep(s, c) \in Compiled
<1>1. s.made \in Seq(Formatter) /\ s.chars \in Seq(Sign) /\ s.flag \in BOOLEAN
      /\ s = [made |-> s.made, chars |-> s.chars, flag |-> s.flag]
  BY DEF Compiled
<1>2. s.made \o HandleFlag(c) \in Seq(Formatter)
  BY <1>1, HandleFlagType
<1>3. WithChars(s) \in Seq(Formatter)
  BY WithCharsType
<1>4. Append(s.chars, c) \in Seq(Sign) /\ <<>> \in Seq(Sign)
  BY <1>1
<1> QED BY <1>1, <1>2, <1>3, <1>4 DEF CompileStep, Compiled

\* f is what the compiler has made after each character.
CompilerRun(f, p) ==
  /\ f[0] = Start
  /\ \A n \in 1..Len(p) : f[n] = CompileStep(f[n - 1], p[n])

\* The compiler can run.
LEMMA CompilerRuns ==
  ASSUME NEW p \in Seq(Sign)
  PROVE  \E f \in [0..Len(p) -> Compiled] : CompilerRun(f, p)
<1> DEFINE N == Len(p)
           D == [n \in 1..N |-> [s \in Compiled |-> CompileStep(s, p[n])]]
<1>0. N \in Nat /\ p \in [1..N -> Sign]
  OBVIOUS
<1>1. D \in [1..N -> [Compiled -> Compiled]]
  BY <1>0, CompileStepType
<1>2. Start \in Compiled
  BY DEF Start, Compiled
<1> HIDE DEF N
<1>3. PICK f \in [0..N -> Compiled] : Recurs(f, Start, N, D)
  <2> HIDE DEF D
  <2> QED BY <1>0, <1>1, <1>2, RecursionExists
<1>4. \A n \in 1..N : f[n] = CompileStep(f[n - 1], p[n])
  <2> SUFFICES ASSUME NEW n \in 1..N PROVE f[n] = CompileStep(f[n - 1], p[n])
    OBVIOUS
  <2>1. f[n - 1] \in Compiled
    BY <1>0
  <2>2. D[n][f[n - 1]] = CompileStep(f[n - 1], p[n])
    BY <2>1, Zenon
  <2> QED BY <2>2, <1>3 DEF Recurs
<1>5. CompilerRun(f, p)
  BY <1>3, <1>4 DEF CompilerRun, Recurs, N
<1> QED BY <1>5 DEF N

\* It ends with what Compiling() returns, however the run is described.
LEMMA CompilerResult ==
  ASSUME NEW p \in Seq(Sign), NEW f, CompilerRun(f, p)
  PROVE  Compiling(p) = f[Len(p)]
<1> DEFINE N == Len(p)
           Right(g) == g = [i \in 0..N |-> IF i = 0 THEN Start ELSE CompileStep(g[i - 1], p[i])]
           F == [i \in 0..N |-> f[i]]
           h == CHOOSE g : Right(g)
<1>0. N \in Nat
  OBVIOUS
<1>1. Compiling(p) = h[N]
  BY DEF Compiling, Start
<1>2. Right(F)
  <2>1. \A i \in 0..N : F[i] = IF i = 0 THEN Start ELSE CompileStep(F[i - 1], p[i])
    <3> SUFFICES ASSUME NEW i \in 0..N
                 PROVE  F[i] = IF i = 0 THEN Start ELSE CompileStep(F[i - 1], p[i])
      OBVIOUS
    <3>1. CASE i = 0
      BY <3>1, <1>0 DEF CompilerRun
    <3>2. CASE i # 0
      <4>1. i \in 1..N /\ i - 1 \in 0..N
        BY <3>2, <1>0
      <4>2. F[i - 1] = f[i - 1] /\ F[i] = f[i]
        BY <4>1
      <4>3. f[i] = CompileStep(f[i - 1], p[i])
        BY <4>1 DEF CompilerRun
      <4> HIDE DEF F
      <4> QED BY <4>2, <4>3, <3>2
    <3> QED BY <3>1, <3>2
  <2>2. F = [i \in 0..N |-> F[i]]
    OBVIOUS
  <2> HIDE DEF F, N
  <2> QED BY <2>1, <2>2
<1> HIDE DEF F
<1>3. Right(h)
  BY <1>2, Zenon
<1> HIDE DEF h
<1>4. h[0] = Start /\ \A n \in 1..N : h[n] = CompileStep(h[n - 1], p[n])
  <2>1. \A i \in 0..N : h[i] = IF i = 0 THEN Start ELSE CompileStep(h[i - 1], p[i])
    BY <1>3, Zenon
  <2>2. 0 \in 0..N /\ \A n \in 1..N : n \in 0..N /\ n # 0
    BY <1>0
  <2> QED BY <2>1, <2>2, Zenon
<1> HIDE DEF Right
<1> DEFINE A == {n \in 0..N : f[n] = h[n]}
<1>5. 0 \in A
  BY <1>4, <1>0 DEF CompilerRun
<1>6. \A n \in 0..N - 1 : n \in A => n + 1 \in A
  <2> SUFFICES ASSUME NEW n \in 0..N - 1, n \in A PROVE n + 1 \in A
    OBVIOUS
  <2>1. PICK m : m = n + 1
    OBVIOUS
  <2>2. m \in 1..N /\ m - 1 = n /\ m \in 0..N
    BY <1>0, <2>1
  <2>3. f[m] = CompileStep(f[n], p[m]) /\ h[m] = CompileStep(h[n], p[m])
    BY <2>2, <1>4 DEF CompilerRun
  <2>4. f[m] = h[m]
    BY <2>3
  <2> QED BY <2>1, <2>2, <2>4
<1> HIDE DEF A
<1>7. N \in A
  <2>1. \A n \in 0..N : n \in A
    BY <1>0, <1>5, <1>6, UpTo
  <2> QED BY <2>1, <1>0
<1> QED BY <1>1, <1>7 DEF A

\* Nothing is compiled yet.
LEMMA CompilingEmpty == Compiling(<<>>) = Start
<1>1. PICK p : p = <<>>
  OBVIOUS
<1>2. p \in Seq(Sign) /\ Len(p) = 0
  BY <1>1
<1>3. PICK f \in [0..Len(p) -> Compiled] : CompilerRun(f, p)
  BY <1>2, CompilerRuns, Zenon
<1>4. Compiling(p) = f[0] /\ f[0] = Start
  BY <1>2, <1>3, CompilerResult DEF CompilerRun
<1> QED BY <1>1, <1>4

\* What the compiler has made of some characters.
LEMMA CompilingType ==
  ASSUME NEW p \in Seq(Sign)
  PROVE  Compiling(p) \in Compiled
<1>1. PICK f \in [0..Len(p) -> Compiled] : CompilerRun(f, p)
  BY CompilerRuns, Zenon
<1>2. Len(p) \in 0..Len(p)
  OBVIOUS
<1> QED BY <1>1, <1>2, CompilerResult

\* The compiler goes on with every character.
LEMMA CompilingAppend ==
  ASSUME NEW p \in Seq(Sign), NEW c \in Sign
  PROVE  Compiling(Append(p, c)) = CompileStep(Compiling(p), c)
<1> DEFINE q == Append(p, c)
           N == Len(p)
<1>0. N \in Nat /\ q \in Seq(Sign) /\ Len(q) = N + 1 /\ q[N + 1] = c
      /\ \A n \in 1..N : q[n] = p[n]
  OBVIOUS
<1> HIDE DEF q, N
<1>1. PICK f \in [0..Len(q) -> Compiled] : CompilerRun(f, q)
  BY <1>0, CompilerRuns, Zenon
<1>2. CompilerRun(f, p)
  <2>1. \A n \in 1..N : f[n] = CompileStep(f[n - 1], p[n])
    <3> SUFFICES ASSUME NEW n \in 1..N PROVE f[n] = CompileStep(f[n - 1], p[n])
      OBVIOUS
    <3>1. n \in 1..Len(q) /\ q[n] = p[n]
      BY <1>0
    <3> QED BY <3>1, <1>1 DEF CompilerRun
  <2> QED BY <2>1, <1>1 DEF CompilerRun, N
<1>3. Compiling(p) = f[N]
  BY <1>2, CompilerResult DEF N
<1>4. Compiling(q) = f[N + 1]
  BY <1>0, <1>1, CompilerResult
<1>5. f[N + 1] = CompileStep(f[N], c)
  <2>1. PICK m : m = N + 1
    OBVIOUS
  <2>2. m \in 1..Len(q) /\ m - 1 = N /\ q[m] = c
    BY <1>0, <2>1
  <2>3. f[m] = CompileStep(f[N], c)
    BY <2>2, <1>1 DEF CompilerRun
  <2> QED BY <2>1, <2>3
<1> QED BY <1>3, <1>4, <1>5 DEF q

\* Characters that begin no flag are kept together.
LEMMA CompilingChars ==
  ASSUME NEW p \in Seq(Sign), ~Compiling(p).flag, NEW chars \in Seq(Sign \ {"%"})
  PROVE  Compiling(p \o chars) =
           [made |-> Compiling(p).made, chars |-> Compiling(p).chars \o chars, flag |-> FALSE]
<1> DEFINE s == Compiling(p)
           T == Sign \ {"%"}
           A == {t \in Seq(T) : Compiling(p \o t) = [made |-> s.made, chars |-> s.chars \o t, flag |-> FALSE]}
<1>0. s \in Compiled
  BY CompilingType
<1>1. s.chars \in Seq(Sign) /\ s = [made |-> s.made, chars |-> s.chars, flag |-> FALSE]
  BY <1>0 DEF Compiled
<1>2. <<>> \in A
  <2>1. p \o <<>> = p /\ s.chars \o <<>> = s.chars /\ <<>> \in Seq(T)
    BY <1>1
  <2>2. [made |-> s.made, chars |-> s.chars \o <<>>, flag |-> FALSE] = s
    BY <1>1, <2>1
  <2> QED BY <2>1, <2>2
<1>3. \A t \in Seq(T), x \in T : t \in A => Append(t, x) \in A
  <2> SUFFICES ASSUME NEW t \in Seq(T), NEW x \in T, t \in A PROVE Append(t, x) \in A
    OBVIOUS
  <2>1. t \in Seq(Sign) /\ x \in Sign /\ x # "%"
    OBVIOUS
  <2>2. /\ p \o Append(t, x) = Append(p \o t, x) /\ p \o t \in Seq(Sign)
        /\ Append(t, x) \in Seq(T)
    BY <2>1, AppendAssociative
  <2>3. s.chars \o Append(t, x) = Append(s.chars \o t, x)
    BY <1>1, <2>1, AppendAssociative
  <2>4. Compiling(p \o t) = [made |-> s.made, chars |-> s.chars \o t, flag |-> FALSE]
    BY <1>1
  <2> DEFINE pt == p \o t
  <2>5. Compiling(Append(pt, x)) = CompileStep(Compiling(pt), x)
    BY <2>1, <2>2, CompilingAppend
  <2> HIDE DEF pt, s
  <2>6. CompileStep([made |-> s.made, chars |-> s.chars \o t, flag |-> FALSE], x)
        = [made |-> s.made, chars |-> Append(s.chars \o t, x), flag |-> FALSE]
    BY <2>1 DEF CompileStep
  <2>7. Compiling(p \o Append(t, x)) = [made |-> s.made, chars |-> s.chars \o Append(t, x), flag |-> FALSE]
    BY <2>2, <2>3, <2>4, <2>5, <2>6 DEF pt
  <2> QED BY <2>2, <2>7
<1> HIDE DEF A
<1>4. chars \in A
  <2> HIDE DEF T
  <2>1. \A t \in Seq(T) : t \in A
    BY <1>2, <1>3, ByAppending, Zenon
  <2> QED BY <2>1 DEF T
<1> QED BY <1>4 DEF A

\* A flag is handled, after what stood before it.
LEMMA CompilingFlag ==
  ASSUME NEW p \in Seq(Sign), ~Compiling(p).flag, NEW g \in Sign
  PROVE  Compiling(p \o <<"%", g>>) =
           [made |-> WithChars(Compiling(p)) \o HandleFlag(g), chars |-> <<>>, flag |-> FALSE]
<1> DEFINE s == Compiling(p)
           q == Append(p, "%")
<1>1. "%" \in Sign
  BY Zenon DEF Sign
<1>2. p \o <<"%", g>> = Append(q, g) /\ q \in Seq(Sign)
  BY <1>1
<1>3. Compiling(q) = CompileStep(s, "%")
  BY <1>1, CompilingAppend
<1> HIDE DEF q
<1>4. Compiling(Append(q, g)) = CompileStep(Compiling(q), g)
  BY <1>2, CompilingAppend
<1> HIDE DEF s
<1>5. CompileStep(s, "%") = [made |-> WithChars(s), chars |-> <<>>, flag |-> TRUE]
  BY DEF CompileStep, s
<1>6. CompileStep([made |-> WithChars(s), chars |-> <<>>, flag |-> TRUE], g)
      = [made |-> WithChars(s) \o HandleFlag(g), chars |-> <<>>, flag |-> FALSE]
  BY DEF CompileStep
<1> QED BY <1>2, <1>3, <1>4, <1>5, <1>6 DEF s
-----------------------------------------------------------------------------
(* What the formatters show *)

Msgs == [name : Sign, level : Sign, text : Seq(Sign)]
ShownBy(formatters, msg) == FlattenSeq(PiecesOf(formatters, msg))

\* What a formatter adds to a line is characters.
LEMMA PieceType ==
  ASSUME NEW f \in Formatter, NEW msg \in Msgs
  PROVE  Piece(f, msg) \in Seq(Sign)
<1>1. "time" \in Sign
  BY Zenon DEF Sign
<1>2. msg.name \in Sign /\ msg.level \in Sign /\ msg.text \in Seq(Sign)
      /\ f.shows \in Sign /\ f.chars \in Seq(Sign)
  BY DEF Msgs, Formatter
<1>3. <<msg.name>> \in Seq(Sign) /\ <<msg.level>> \in Seq(Sign) /\ <<f.shows>> \in Seq(Sign)
      /\ <<"time", msg.name, msg.level>> \o msg.text \in Seq(Sign)
  BY <1>1, <1>2
<1> QED BY <1>2, <1>3, Zenon DEF Piece, OriginPiece, FullPiece

\* Formatters show one after the other.
LEMMA PiecesConcat ==
  ASSUME NEW a \in Seq(Formatter), NEW b \in Seq(Formatter), NEW msg \in Msgs
  PROVE  /\ PiecesOf(a, msg) \in Seq(Seq(Sign))
         /\ ShownBy(a, msg) \in Seq(Sign)
         /\ ShownBy(a \o b, msg) = ShownBy(a, msg) \o ShownBy(b, msg)
<1>1. \A c \in Seq(Formatter) :
        /\ PiecesOf(c, msg) \in Seq(Seq(Sign)) /\ Len(PiecesOf(c, msg)) = Len(c)
        /\ \A i \in 1..Len(c) : PiecesOf(c, msg)[i] = Piece(c[i], msg)
  <2> SUFFICES ASSUME NEW c \in Seq(Formatter)
               PROVE  /\ PiecesOf(c, msg) \in Seq(Seq(Sign)) /\ Len(PiecesOf(c, msg)) = Len(c)
                      /\ \A i \in 1..Len(c) : PiecesOf(c, msg)[i] = Piece(c[i], msg)
    OBVIOUS
  <2>1. \A i \in DOMAIN c : c[i] \in Formatter /\ Piece(c[i], msg) \in Seq(Sign)
    BY PieceType
  <2> QED BY <2>1 DEF PiecesOf
<1> DEFINE A == PiecesOf(a, msg)
           B == PiecesOf(b, msg)
           C == PiecesOf(a \o b, msg)
<1>2. a \o b \in Seq(Formatter) /\ Len(a \o b) = Len(a) + Len(b)
      /\ \A i \in 1..Len(a) + Len(b) :
           (a \o b)[i] = IF i <= Len(a) THEN a[i] ELSE b[i - Len(a)]
  OBVIOUS
<1>3. A \in Seq(Seq(Sign)) /\ B \in Seq(Seq(Sign)) /\ C \in Seq(Seq(Sign))
      /\ Len(A) = Len(a) /\ Len(B) = Len(b) /\ Len(C) = Len(a) + Len(b)
  BY <1>1, <1>2
<1>4. \A i \in 1..Len(a) : C[i] = A[i]
  <2> SUFFICES ASSUME NEW i \in 1..Len(a) PROVE C[i] = A[i]
    OBVIOUS
  <2>1. i \in 1..Len(a \o b) /\ (a \o b)[i] = a[i]
    BY <1>2
  <2> QED BY <2>1, <1>1, <1>2
<1>5. \A i \in 1..Len(b) : C[i + Len(a)] = B[i]
  <2> SUFFICES ASSUME NEW i \in 1..Len(b) PROVE C[i + Len(a)] = B[i]
    OBVIOUS
  <2>1. PICK k : k = i + Len(a)
    OBVIOUS
  <2>2. k \in 1..Len(a \o b) /\ (a \o b)[k] = b[i]
    BY <2>1, <1>2
  <2> QED BY <2>1, <2>2, <1>1, <1>2
<1> HIDE DEF A, B, C
<1>6. C = A \o B
  <2> DEFINE D == A \o B
  <2>1. D \in Seq(Seq(Sign)) /\ Len(D) = Len(C)
        /\ \A i \in 1..Len(C) : D[i] = IF i <= Len(a) THEN A[i] ELSE B[i - Len(a)]
    BY <1>3
  <2>2. \A i \in 1..Len(C) : C[i] = D[i]
    <3> SUFFICES ASSUME NEW i \in 1..Len(C) PROVE C[i] = D[i]
      OBVIOUS
    <3>1. CASE i <= Len(a)
      <4>1. i \in 1..Len(a)
        BY <3>1
      <4> QED BY <4>1, <3>1, <2>1, <1>4
    <3>2. CASE ~(i <= Len(a))
      <4>1. PICK k : k = i - Len(a)
        OBVIOUS
      <4>2. k \in 1..Len(b) /\ k + Len(a) = i
        BY <3>2, <4>1, <1>3
      <4> HIDE DEF D
      <4> QED BY <4>1, <4>2, <3>2, <2>1, <1>5
    <3> QED BY <3>1, <3>2
  <2> HIDE DEF D
  <2>3. C = D
    BY <2>1, <2>2, <1>3, SeqEqual
  <2> QED BY <2>3 DEF D
<1>7. FlattenSeq(A) \in Seq(Sign) /\ FlattenSeq(A \o B) = FlattenSeq(A) \o FlattenSeq(B)
  BY <1>3, FlattenType, FlattenConcat
<1> QED BY <1>3, <1>6, <1>7 DEF A, B, C, ShownBy

\* One formatter shows its piece.
LEMMA ShownByOne ==
  ASSUME NEW f \in Formatter, NEW msg \in Msgs
  PROVE  ShownBy(<<f>>, msg) = Piece(f, msg)
<1>1. PiecesOf(<<f>>, msg) = <<Piece(f, msg)>>
  BY DEF PiecesOf
<1>2. Piece(f, msg) \in Seq(Sign)
  BY PieceType
<1> QED BY <1>1, <1>2, FlattenOne DEF ShownBy

\* The formatters of a flag show what the flag means.
LEMMA ShownByFlag ==
  ASSUME NEW g \in STRING, g # "chars", NEW msg \in Msgs
  PROVE  ShownBy(HandleFlag(g), msg) = PartMeant([shows |-> g, chars |-> <<>>], msg)
<1> DEFINE part == [shows |-> g, chars |-> <<>>]
<1>0. g \in Sign /\ "b" \in Sign /\ "D" \in Sign /\ "T" \in Sign /\ "%" \in Sign /\ "chars" \in Sign
  BY Zenon DEF Sign
<1>1. \A f \in Sign : FlagFormatter(f) \in Formatter /\ CharsFormatter(<<f>>) \in Formatter
  BY <1>0 DEF FlagFormatter, CharsFormatter, Formatter
<1>2. part.shows = g /\ part = FlagFormatter(g)
  BY DEF FlagFormatter
<1>3. \A f \in {"b", "D", "T"} : Piece(FlagFormatter(f), msg) = <<f>>
  BY DEF Piece, FlagFormatter
<1>4. \A f \in Sign : Piece(CharsFormatter(<<f>>), msg) = <<f>>
  BY DEF Piece, CharsFormatter
<1>5. DOMAIN OtherName = {"h", "x", "X"}
      /\ OtherName["h"] = "b" /\ OtherName["x"] = "D" /\ OtherName["X"] = "T"
  BY DEF OtherName
<1>6. \A f \in Sign : ShownBy(<<FlagFormatter(f)>>, msg) = Piece(FlagFormatter(f), msg)
                      /\ ShownBy(<<CharsFormatter(<<f>>)>>, msg) = Piece(CharsFormatter(<<f>>), msg)
  BY <1>1, ShownByOne
<1> HIDE DEF part
<1>7. CASE g \in {"h", "x", "X"}
  <2>1. HandleFlag(g) = <<FlagFormatter(OtherName[g])>> /\ OtherName[g] \in {"b", "D", "T"}
    BY <1>5, <1>7 DEF HandleFlag
  <2>2. PartMeant(part, msg) = <<OtherName[g]>>
    BY <1>2, <1>5, <1>7 DEF PartMeant
  <2> QED BY <2>1, <2>2, <1>0, <1>3, <1>6 DEF part
<1>8. CASE g \in Flags \ {"h", "x", "X"}
  <2>1. HandleFlag(g) = <<FlagFormatter(g)>>
    BY <1>8 DEF HandleFlag
  <2>2. PartMeant(part, msg) = Piece(FlagFormatter(g), msg)
    BY <1>2, <1>5, <1>8 DEF PartMeant
  <2> QED BY <2>1, <2>2, <1>0, <1>6 DEF part
<1>9. CASE g \notin Flags \cup {"h", "x", "X"}
  <2> DEFINE P == CharsFormatter(<<"%">>)
             G == CharsFormatter(<<g>>)
  <2>1. HandleFlag(g) = <<P, G>>
    BY <1>9 DEF HandleFlag
  <2>2. PartMeant(part, msg) = <<"%", g>>
    BY <1>2, <1>5, <1>9 DEF PartMeant
  <2>3. P \in Formatter /\ G \in Formatter /\ Piece(P, msg) = <<"%">> /\ Piece(G, msg) = <<g>>
    BY <1>0, <1>1, <1>4
  <2>4. ShownBy(<<P>>, msg) = <<"%">> /\ ShownBy(<<G>>, msg) = <<g>>
    BY <2>3, <1>0, <1>6
  <2> HIDE DEF P, G
  <2>5. <<P, G>> = <<P>> \o <<G>> /\ <<P>> \in Seq(Formatter) /\ <<G>> \in Seq(Formatter)
    BY <2>3, PairIsConcat
  <2>6. ShownBy(<<P>> \o <<G>>, msg) = ShownBy(<<P>>, msg) \o ShownBy(<<G>>, msg)
    BY <2>5, PiecesConcat
  <2>7. <<"%">> \o <<g>> = <<"%", g>>
    BY <1>0, PairIsConcat
  <2> QED BY <2>1, <2>2, <2>4, <2>5, <2>6, <2>7, Zenon DEF part
<1> QED BY <1>7, <1>8, <1>9

\* A part of a pattern is characters that show themselves, or a flag.
LEMMA PartCases ==
  ASSUME NEW part \in PatternPart, NEW msg \in Msgs
  PROVE  \/ /\ part.chars \in Seq(Sign \ {"%"}) /\ PartSpelled(part) = part.chars
            /\ PartMeant(part, msg) = part.chars
         \/ /\ part.shows \in STRING /\ PartSpelled(part) = <<"%", part.shows>>
            /\ PartMeant(part, msg) = ShownBy(HandleFlag(part.shows), msg)
<1>1. CASE part \in [shows : {"chars"}, chars : Seq(STRING \ {"%"})]
  <2>1. part.shows = "chars" /\ part.chars \in Seq(STRING \ {"%"})
    BY <1>1
  <2>2. part.chars \in Seq(Sign \ {"%"})
    <3>1. STRING \ {"%"} \subseteq Sign \ {"%"}
      BY Zenon DEF Sign
    <3>2. PICK a : a = STRING \ {"%"}
      OBVIOUS
    <3>3. PICK b : b = Sign \ {"%"}
      OBVIOUS
    <3>4. part.chars \in Seq(b)
      BY <2>1, <3>1, <3>2, <3>3, SeqMonotonic
    <3> QED BY <3>4, <3>3
  <2>3. DOMAIN OtherName = {"h", "x", "X"}
    BY DEF OtherName
  <2>4. PartMeant(part, msg) = part.chars
    BY <2>1, <2>3 DEF PartMeant, Piece
  <2> QED BY <2>1, <2>2, <2>4 DEF PartSpelled
<1>2. CASE part \in [shows : STRING \ {"chars"}, chars : {<<>>}]
  <2>1. part.shows \in STRING /\ part.shows # "chars" /\ part = [shows |-> part.shows, chars |-> <<>>]
    BY <1>2
  <2>2. PICK g \in STRING : g = part.shows
    BY <2>1
  <2>3. part = [shows |-> g, chars |-> <<>>] /\ g # "chars"
    BY <2>1, <2>2
  <2>4. PartMeant(part, msg) = ShownBy(HandleFlag(g), msg)
    BY <2>3, ShownByFlag
  <2> QED BY <2>1, <2>2, <2>4 DEF PartSpelled
<1> QED BY <1>1, <1>2 DEF PatternPart

Meant(parts, msg) == FlattenSeq([i \in DOMAIN parts |-> PartMeant(parts[i], msg)])

\* What a part is spelled and means is characters.
LEMMA PartTypes ==
  ASSUME NEW part \in PatternPart, NEW msg \in Msgs
  PROVE  PartSpelled(part) \in Seq(Sign) /\ PartMeant(part, msg) \in Seq(Sign)
<1>1. \A c \in Seq(Sign \ {"%"}) : c \in Seq(Sign)
  OBVIOUS
<1>2. \A g \in STRING : g \in Sign /\ "%" \in Sign
  BY Zenon DEF Sign
<1>3. \A g \in STRING : <<"%", g>> \in Seq(Sign) /\ ShownBy(HandleFlag(g), msg) \in Seq(Sign)
  <2> SUFFICES ASSUME NEW g \in STRING
               PROVE  <<"%", g>> \in Seq(Sign) /\ ShownBy(HandleFlag(g), msg) \in Seq(Sign)
    OBVIOUS
  <2>1. HandleFlag(g) \in Seq(Formatter)
    BY <1>2, HandleFlagType
  <2>2. ShownBy(HandleFlag(g), msg) \in Seq(Sign)
    BY <2>1, PiecesConcat
  <2> QED BY <1>2, <2>2
<1> QED BY <1>1, <1>3, PartCases

\* One part more.
LEMMA PartsAppend ==
  ASSUME NEW parts \in Seq(PatternPart), NEW part \in PatternPart, NEW msg \in Msgs
  PROVE  /\ PatternSpelled(parts) \in Seq(Sign) /\ Meant(parts, msg) \in Seq(Sign)
         /\ PatternSpelled(Append(parts, part)) = PatternSpelled(parts) \o PartSpelled(part)
         /\ Meant(Append(parts, part), msg) = Meant(parts, msg) \o PartMeant(part, msg)
<1>1. PICK f : f = [p \in PatternPart |-> PartSpelled(p)]
  OBVIOUS
<1>2. PICK g : g = [p \in PatternPart |-> PartMeant(p, msg)]
  OBVIOUS
<1>3. f \in [PatternPart -> Seq(Sign)] /\ g \in [PatternPart -> Seq(Sign)]
  BY <1>1, <1>2, PartTypes
<1>4. PICK P : P = PatternPart
  OBVIOUS
<1>5. PICK S : S = Sign
  OBVIOUS
<1>6. ASSUME NEW ps \in Seq(P)
      PROVE  PatternSpelled(ps) = Spread(f, ps) /\ Meant(ps, msg) = Spread(g, ps)
  <2>1. \A i \in DOMAIN ps : ps[i] \in P
    OBVIOUS
  <2>2. [i \in DOMAIN ps |-> PartSpelled(ps[i])] = [i \in DOMAIN ps |-> f[ps[i]]]
    BY <2>1, <1>1, <1>4
  <2>3. [i \in DOMAIN ps |-> PartMeant(ps[i], msg)] = [i \in DOMAIN ps |-> g[ps[i]]]
    BY <2>1, <1>2, <1>4
  <2> QED BY <2>2, <2>3 DEF PatternSpelled, Meant, Spread
<1>7. parts \in Seq(P) /\ part \in P /\ Append(parts, part) \in Seq(P)
  BY <1>4
<1>8. f[part] = PartSpelled(part) /\ g[part] = PartMeant(part, msg)
  BY <1>1, <1>2
<1>9. f \in SeqMap(P, S) /\ g \in SeqMap(P, S)
  BY <1>3, <1>4, <1>5 DEF SeqMap
<1>10. SpreadGrows(f, parts, part, S)
  BY <1>7, <1>9, SpreadAppend, Zenon
<1>11. SpreadGrows(g, parts, part, S)
  BY <1>7, <1>9, SpreadAppend, Zenon
<1> QED BY <1>5, <1>6, <1>7, <1>8, <1>10, <1>11 DEF SpreadGrows

\* What the compiler has made is shown, and then the characters since the last flag.
LEMMA ShownByAll ==
  ASSUME NEW s \in Compiled, NEW msg \in Msgs
  PROVE  ShownBy(WithChars(s), msg) = ShownBy(s.made, msg) \o s.chars
<1>1. s.made \in Seq(Formatter) /\ s.chars \in Seq(Sign) /\ "chars" \in Sign
  BY Zenon DEF Compiled, Sign
<1>2. PICK made \in Seq(Formatter) : made = s.made
  BY <1>1
<1>3. PICK chars \in Seq(Sign) : chars = s.chars
  BY <1>1
<1>4. ShownBy(made, msg) \in Seq(Sign)
  BY PiecesConcat
<1>5. CASE chars = <<>>
  <2>1. ShownBy(made, msg) \o <<>> = ShownBy(made, msg)
    <3> HIDE DEF ShownBy
    <3> QED BY <1>4
  <2> QED BY <1>2, <1>3, <1>5, <2>1 DEF WithChars
<1>6. CASE chars # <<>>
  <2>1. PICK f : f = CharsFormatter(chars)
    OBVIOUS
  <2>2. f \in Formatter /\ f.shows = "chars" /\ f.chars = chars
    BY <2>1, <1>1 DEF CharsFormatter, Formatter
  <2>3. WithChars(s) = Append(made, f)
    BY <1>2, <1>3, <1>6, <2>1 DEF WithChars
  <2>4. Append(made, f) = made \o <<f>> /\ <<f>> \in Seq(Formatter)
    BY <2>2
  <2>5. ShownBy(<<f>>, msg) = Piece(f, msg)
    BY <2>2, ShownByOne
  <2>6. Piece(f, msg) = chars
    BY <2>2 DEF Piece
  <2>7. ShownBy(made \o <<f>>, msg) = ShownBy(made, msg) \o ShownBy(<<f>>, msg)
    BY <2>4, PiecesConcat
  <2> QED BY <1>2, <1>3, <2>3, <2>4, <2>5, <2>6, <2>7
<1> QED BY <1>5, <1>6

\* After the parts that were read, no flag is pending, and what was made shows what
\* they mean.
LaidOut(parts, msg) ==
  LET s == Compiling(PatternSpelled(parts))
  IN  ~s.flag /\ ShownBy(s.made, msg) \o s.chars = Meant(parts, msg)

\* One part more.
LEMMA LaidOutAppend ==
  ASSUME NEW parts \in Seq(PatternPart), NEW part \in PatternPart, NEW msg \in Msgs,
         LaidOut(parts, msg)
  PROVE  LaidOut(Append(parts, part), msg)
<1>1. /\ PatternSpelled(parts) \in Seq(Sign) /\ Meant(parts, msg) \in Seq(Sign)
      /\ PatternSpelled(Append(parts, part)) = PatternSpelled(parts) \o PartSpelled(part)
      /\ Meant(Append(parts, part), msg) = Meant(parts, msg) \o PartMeant(part, msg)
  BY PartsAppend
<1>2. PICK p \in Seq(Sign) : p = PatternSpelled(parts)
  BY <1>1
<1>3. PICK s \in Compiled : s = Compiling(p)
  BY CompilingType
<1>4. ~s.flag /\ ShownBy(s.made, msg) \o s.chars = Meant(parts, msg)
  BY <1>2, <1>3 DEF LaidOut
<1>5. s.made \in Seq(Formatter) /\ s.chars \in Seq(Sign)
  BY DEF Compiled
<1>6. ShownBy(s.made, msg) \in Seq(Sign)
  BY <1>5, PiecesConcat
<1>7. CASE /\ part.chars \in Seq(Sign \ {"%"}) /\ PartSpelled(part) = part.chars
           /\ PartMeant(part, msg) = part.chars
  <2>1. Compiling(p \o part.chars) = [made |-> s.made, chars |-> s.chars \o part.chars, flag |-> FALSE]
    BY <1>3, <1>4, <1>7, CompilingChars
  <2>2. part.chars \in Seq(Sign)
    BY <1>7
  <2>3. ShownBy(s.made, msg) \o (s.chars \o part.chars) = Meant(parts, msg) \o part.chars
    <3>1. ASSUME NEW a \in Seq(Sign), NEW b \in Seq(Sign), NEW c \in Seq(Sign)
          PROVE  (a \o b) \o c = a \o (b \o c)
      BY ConcatAssociative
    <3>2. ShownBy(s.made, msg) \o (s.chars \o part.chars)
          = (ShownBy(s.made, msg) \o s.chars) \o part.chars
      BY <1>5, <1>6, <2>2, <3>1, Zenon
    <3> QED BY <1>4, <3>2
  <2>4. PICK r : r = Compiling(PatternSpelled(Append(parts, part)))
    OBVIOUS
  <2>5. r = [made |-> s.made, chars |-> s.chars \o part.chars, flag |-> FALSE]
    BY <1>1, <1>2, <1>7, <2>1, <2>4
  <2>6. r.made = s.made /\ r.chars = s.chars \o part.chars /\ ~r.flag
    BY <2>5
  <2> QED BY <1>1, <1>7, <2>3, <2>4, <2>6, Zenon DEF LaidOut
<1>8. CASE /\ part.shows \in STRING /\ PartSpelled(part) = <<"%", part.shows>>
           /\ PartMeant(part, msg) = ShownBy(HandleFlag(part.shows), msg)
  <2>1. part.shows \in Sign
    BY <1>8, Zenon DEF Sign
  <2>2. PICK h \in Seq(Formatter) : h = HandleFlag(part.shows)
    BY <2>1, HandleFlagType
  <2>3. PICK w \in Seq(Formatter) : w = WithChars(s)
    BY WithCharsType
  <2>4. Compiling(p \o <<"%", part.shows>>) = [made |-> w \o h, chars |-> <<>>, flag |-> FALSE]
    BY <1>3, <1>4, <2>1, <2>2, <2>3, CompilingFlag
  <2>5. ShownBy(w, msg) = ShownBy(s.made, msg) \o s.chars
    BY <2>3, ShownByAll
  <2>6. ShownBy(w \o h, msg) = ShownBy(w, msg) \o ShownBy(h, msg)
        /\ ShownBy(w \o h, msg) \in Seq(Sign)
    <3>1. w \o h \in Seq(Formatter)
      OBVIOUS
    <3> QED BY <3>1, PiecesConcat
  <2>7. ShownBy(w \o h, msg) \o <<>> = ShownBy(w \o h, msg)
    BY <2>6
  <2>8. PICK r : r = Compiling(PatternSpelled(Append(parts, part)))
    OBVIOUS
  <2>9. r = [made |-> w \o h, chars |-> <<>>, flag |-> FALSE]
    BY <1>1, <1>2, <1>8, <2>4, <2>8
  <2>10. r.made = w \o h /\ r.chars = <<>> /\ ~r.flag
    BY <2>9
  <2>11. ShownBy(w \o h, msg) = Meant(parts, msg) \o PartMeant(part, msg)
    BY <1>4, <1>8, <2>2, <2>5, <2>6
  <2> QED BY <1>1, <2>7, <2>8, <2>10, <2>11, Zenon DEF LaidOut
<1> QED BY <1>7, <1>8, PartCases

\* A pattern of any parts, compiled, shows of every message what the parts mean
\* (pattern_formatter::compile_pattern(), handle_flag() and format()).
THEOREM PatternShowsParts ==
  ASSUME NEW parts \in Seq(PatternPart), NEW msg \in Msgs
  PROVE  FormatLine(CompilePattern(PatternSpelled(parts)), msg)
           = Meant(parts, msg) \o EndOfLine
<1> DEFINE A == {ps \in Seq(PatternPart) : LaidOut(ps, msg)}
<1>1. <<>> \in A
  <2>1. PatternSpelled(<<>>) = <<>> /\ Meant(<<>>, msg) = <<>>
    BY FlattenEmpty DEF PatternSpelled, Meant
  <2>2. ShownBy(<<>>, msg) = <<>>
    BY FlattenEmpty DEF ShownBy, PiecesOf
  <2>3. <<>> \o <<>> = <<>>
    OBVIOUS
  <2>4. <<>> \in Seq(PatternPart)
    OBVIOUS
  <2>5. LaidOut(<<>>, msg)
    <3>1. PICK r : r = Compiling(<<>>)
      OBVIOUS
    <3>2. r.made = <<>> /\ r.chars = <<>> /\ ~r.flag
      BY <3>1, CompilingEmpty DEF Start
    <3> QED BY <2>1, <2>2, <2>3, <3>1, <3>2, Zenon DEF LaidOut
  <2> QED BY <2>4, <2>5
<1>2. \A ps \in Seq(PatternPart), x \in PatternPart : ps \in A => Append(ps, x) \in A
  <2> SUFFICES ASSUME NEW ps \in Seq(PatternPart), NEW x \in PatternPart, ps \in A
               PROVE  Append(ps, x) \in A
    OBVIOUS
  <2>1. LaidOut(Append(ps, x), msg)
    BY LaidOutAppend
  <2> QED BY <2>1
<1> HIDE DEF A
<1>3. parts \in A
  <2>1. \A ps \in Seq(PatternPart) : ps \in A
    BY <1>1, <1>2, ByAppending, Zenon
  <2> QED BY <2>1
<1>4. LaidOut(parts, msg)
  BY <1>3 DEF A
<1>5. PatternSpelled(parts) \in Seq(Sign)
  <2>1. PICK part : part \in PatternPart
    <3>1. [shows |-> "chars", chars |-> <<>>] \in PatternPart
      BY DEF PatternPart
    <3> QED BY <3>1
  <2> QED BY <2>1, PartsAppend
<1>6. PICK s \in Compiled : s = Compiling(PatternSpelled(parts))
  BY <1>5, CompilingType
<1>7. ShownBy(WithChars(s), msg) = Meant(parts, msg)
  BY <1>4, <1>6, ShownByAll DEF LaidOut
<1> QED BY <1>6, <1>7 DEF FormatLine, CompilePattern, ShownBy
-----------------------------------------------------------------------------
(* The digits of a number *)

Digit == {"0", "1", "2", "3", "4", "5", "6", "7", "8", "9"}
LastDigit(v) == LowerCase[(v % 10) + 1]

\* The last digit of a number is one, and is all there is of a small number.
LEMMA LastDigitIs ==
  ASSUME NEW v \in Nat
  PROVE  /\ LastDigit(v) \in Digit
         /\ v < 10 => LastDigit(v) = LowerCase[v + 1]
         /\ v >= 10 => v \div 10 \in Nat /\ v \div 10 < v
         /\ v >= 100 => v \div 100 \in Nat /\ v \div 100 < v /\ v \div 100 = (v \div 10) \div 10
<1>1. v % 10 \in 0..9 /\ (v < 10 => v % 10 = v)
  OBVIOUS
<1>2. PICK r \in 0..9 : r = v % 10
  BY <1>1
<1>3. LowerCase[r + 1] \in Digit
  BY DEF LowerCase, Digit
<1>4. v >= 10 => v \div 10 \in Nat /\ v \div 10 < v
  OBVIOUS
<1>5. v >= 100 => v \div 100 \in Nat /\ v \div 100 < v /\ v \div 100 = (v \div 10) \div 10
  OBVIOUS
<1> QED BY <1>1, <1>2, <1>3, <1>4, <1>5, Zenon DEF LastDigit

\* The digits from the last on.
LEMMA DecimalIs ==
  ASSUME NEW n \in Nat
  PROVE  DecimalDigits(n) = IF n < 10 THEN <<LastDigit(n)>>
                            ELSE IF n < 100 THEN <<LastDigit(n), LastDigit(n \div 10)>>
                            ELSE <<LastDigit(n), LastDigit(n \div 10)>> \o DecimalDigits(n \div 100)
<1> DEFINE Right(g) == g = [v \in Nat |->
                         CASE v >= 100 -> <<LastDigit(v), LastDigit(v \div 10)>> \o g[v \div 100]
                           [] v < 10 -> <<LastDigit(v)>>
                           [] OTHER -> <<LastDigit(v), LastDigit(v \div 10)>>]
           h == CHOOSE g : Right(g)
<1>1. \A k \in Nat : DecimalDigits(k) = h[k]
  BY DEF DecimalDigits, LastDigit
<1>2. \E g : Right(g)
  <2> DEFINE T == Seq(Digit)
             small == 0..99
             M == [k \in Nat |-> k]
             B == [k \in small |-> IF k < 10 THEN <<LastDigit(k)>> ELSE <<LastDigit(k), LastDigit(k \div 10)>>]
             P == [k \in Nat \ small |-> k \div 100]
             D == [k \in Nat \ small |-> [t \in T |-> <<LastDigit(k), LastDigit(k \div 10)>> \o t]]
  <2>0. \A k \in Nat : LastDigit(k) \in Digit /\ LastDigit(k \div 10) \in Digit
    <3>1. \A k \in Nat : k \div 10 \in Nat
      OBVIOUS
    <3> QED BY <3>1, LastDigitIs
  <2>1. M \in [Nat -> Nat] /\ small \in SUBSET Nat
    OBVIOUS
  <2>2. \A k \in Nat \ small : k >= 100 /\ k \in Nat
    OBVIOUS
  <2>3. P \in [Nat \ small -> Nat] /\ \A k \in Nat \ small : M[P[k]] < M[k]
    BY <2>2, LastDigitIs
  <2>4. D \in [Nat \ small -> [T -> T]] /\ B \in [small -> T]
    <3>1. ASSUME NEW k \in Nat, NEW t \in T PROVE <<LastDigit(k), LastDigit(k \div 10)>> \o t \in T
      <4>1. <<LastDigit(k), LastDigit(k \div 10)>> \in T
        BY <2>0
      <4> QED BY <4>1
    <3>2. \A k \in Nat : <<LastDigit(k), LastDigit(k \div 10)>> \in T /\ <<LastDigit(k)>> \in T
      BY <2>0
    <3>3. small \subseteq Nat
      OBVIOUS
    <3> HIDE DEF T, small
    <3> QED BY <3>1, <3>2, <3>3
  <2> HIDE DEF M, B, P, D, small, T
  <2>6. PICK f \in [Nat -> T] : Descends(f, Nat, small, B, P, D)
    BY <2>1, <2>3, <2>4, DescentExists
  <2>7. \A k \in small : f[k] = IF k < 10 THEN <<LastDigit(k)>> ELSE <<LastDigit(k), LastDigit(k \div 10)>>
    BY <2>6 DEF Descends, B
  <2>8. ASSUME NEW k \in Nat \ small
        PROVE  f[k] = <<LastDigit(k), LastDigit(k \div 10)>> \o f[k \div 100]
    <3>1. P[k] = k \div 100 /\ P[k] \in Nat
      BY <2>3 DEF P
    <3>2. f[P[k]] \in T
      BY <2>6, <3>1
    <3>3. D[k][f[P[k]]] = <<LastDigit(k), LastDigit(k \div 10)>> \o f[P[k]]
      BY <3>2 DEF D
    <3>4. f[k] = D[k][f[P[k]]]
      BY <2>6 DEF Descends
    <3> QED BY <3>1, <3>3, <3>4
  <2>9. \A k \in Nat : f[k] = CASE k >= 100 -> <<LastDigit(k), LastDigit(k \div 10)>> \o f[k \div 100]
                                [] k < 10 -> <<LastDigit(k)>>
                                [] OTHER -> <<LastDigit(k), LastDigit(k \div 10)>>
    <3>1. ASSUME NEW k \in Nat
          PROVE  f[k] = CASE k >= 100 -> <<LastDigit(k), LastDigit(k \div 10)>> \o f[k \div 100]
                          [] k < 10 -> <<LastDigit(k)>>
                          [] OTHER -> <<LastDigit(k), LastDigit(k \div 10)>>
      <4>1. CASE k >= 100
        <5>1. k \in Nat \ small
          BY <4>1 DEF small
        <5> QED BY <2>8, <4>1, <5>1
      <4>2. CASE ~(k >= 100) /\ k < 10
        <5>1. k \in small
          BY <4>2 DEF small
        <5> QED BY <2>7, <4>2, <5>1
      <4>3. CASE ~(k >= 100) /\ ~(k < 10)
        <5>1. k \in small
          BY <4>3 DEF small
        <5> QED BY <2>7, <4>3, <5>1
      <4> QED BY <4>1, <4>2, <4>3
    <3> QED BY <3>1
  <2>10. f = [k \in Nat |-> f[k]]
    BY <2>6
  <2>11. Right(f)
    BY <2>9, <2>10
  <2> QED BY <2>11
<1>3. Right(h)
  BY <1>2, Zenon
<1> HIDE DEF h
<1>4. h[n] = CASE n >= 100 -> <<LastDigit(n), LastDigit(n \div 10)>> \o h[n \div 100]
               [] n < 10 -> <<LastDigit(n)>>
               [] OTHER -> <<LastDigit(n), LastDigit(n \div 10)>>
  BY <1>3, Zenon
<1>5. CASE n < 10
  <2>1. ~(n >= 100)
    BY <1>5
  <2> QED BY <1>1, <1>4, <1>5, <2>1
<1>6. CASE ~(n < 10) /\ n < 100
  <2>1. ~(n >= 100)
    BY <1>6
  <2> QED BY <1>1, <1>4, <1>6, <2>1
<1>7. CASE ~(n < 100)
  <2>1. n >= 100 /\ ~(n < 10)
    BY <1>7
  <2>2. DecimalDigits(n \div 100) = h[n \div 100]
    BY <1>1, <2>1, LastDigitIs
  <2>3. h[n] = <<LastDigit(n), LastDigit(n \div 10)>> \o h[n \div 100]
    BY <1>4, <2>1
  <2> QED BY <1>1, <1>7, <2>1, <2>2, <2>3
<1> QED BY <1>5, <1>6, <1>7

Decimal(n) == Numeral(n, 10, LowerCase)

\* The digits from the first on.
LEMMA NumeralIs ==
  ASSUME NEW n \in Nat
  PROVE  Decimal(n) = IF n < 10 THEN <<LastDigit(n)>> ELSE Append(Decimal(n \div 10), LastDigit(n))
<1> DEFINE Right(g) == g = [k \in Nat |-> IF k < 10 THEN <<LowerCase[k + 1]>>
                                          ELSE Append(g[k \div 10], LowerCase[(k % 10) + 1])]
           h == CHOOSE g : Right(g)
<1>1. \A k \in Nat : Decimal(k) = h[k]
  BY DEF Decimal, Numeral
<1>2. \E g : Right(g)
  <2> DEFINE T == Seq(Digit)
             small == 0..9
             M == [k \in Nat |-> k]
             B == [k \in small |-> <<LastDigit(k)>>]
             P == [k \in Nat \ small |-> k \div 10]
             D == [k \in Nat \ small |-> [t \in T |-> Append(t, LastDigit(k))]]
  <2>0. \A k \in Nat : LastDigit(k) \in Digit
    BY LastDigitIs
  <2>1. M \in [Nat -> Nat] /\ small \in SUBSET Nat
    OBVIOUS
  <2>2. \A k \in Nat \ small : k >= 10 /\ k \in Nat
    OBVIOUS
  <2>3. P \in [Nat \ small -> Nat] /\ \A k \in Nat \ small : M[P[k]] < M[k]
    BY <2>2, LastDigitIs
  <2>4. D \in [Nat \ small -> [T -> T]] /\ B \in [small -> T]
    <3>1. ASSUME NEW k \in Nat, NEW t \in T PROVE Append(t, LastDigit(k)) \in T
      BY <2>0
    <3>2. \A k \in Nat : <<LastDigit(k)>> \in T
      BY <2>0
    <3>3. small \subseteq Nat
      OBVIOUS
    <3> HIDE DEF T, small
    <3> QED BY <3>1, <3>2, <3>3
  <2> HIDE DEF M, B, P, D, small, T
  <2>6. PICK f \in [Nat -> T] : Descends(f, Nat, small, B, P, D)
    BY <2>1, <2>3, <2>4, DescentExists
  <2>7. ASSUME NEW k \in small PROVE f[k] = <<LowerCase[k + 1]>>
    <3>1. f[k] = <<LastDigit(k)>>
      BY <2>6 DEF Descends, B
    <3>2. k \in Nat /\ k < 10
      BY DEF small
    <3> QED BY <3>1, <3>2, LastDigitIs
  <2>8. ASSUME NEW k \in Nat \ small
        PROVE  f[k] = Append(f[k \div 10], LowerCase[(k % 10) + 1])
    <3>1. P[k] = k \div 10 /\ P[k] \in Nat
      BY <2>3 DEF P
    <3>2. f[P[k]] \in T
      BY <2>6, <3>1
    <3>3. D[k][f[P[k]]] = Append(f[P[k]], LastDigit(k))
      BY <3>2 DEF D
    <3>4. f[k] = D[k][f[P[k]]]
      BY <2>6 DEF Descends
    <3> QED BY <3>1, <3>3, <3>4 DEF LastDigit
  <2>9. \A k \in Nat : f[k] = IF k < 10 THEN <<LowerCase[k + 1]>>
                              ELSE Append(f[k \div 10], LowerCase[(k % 10) + 1])
    <3>1. \A k \in Nat : IF k < 10 THEN k \in small ELSE k \in Nat \ small
      BY DEF small
    <3> QED BY <2>7, <2>8, <3>1
  <2>10. f = [k \in Nat |-> f[k]]
    BY <2>6
  <2>11. Right(f)
    BY <2>9, <2>10
  <2> QED BY <2>11
<1>3. Right(h)
  BY <1>2, Zenon
<1> HIDE DEF h
<1>4. h[n] = IF n < 10 THEN <<LowerCase[n + 1]>> ELSE Append(h[n \div 10], LowerCase[(n % 10) + 1])
  BY <1>3, Zenon
<1>5. CASE n < 10
  <2>1. LastDigit(n) = LowerCase[n + 1]
    BY <1>5, LastDigitIs
  <2> QED BY <1>1, <1>4, <1>5, <2>1
<1>6. CASE ~(n < 10)
  <2>1. n >= 10
    BY <1>6
  <2>2. Decimal(n \div 10) = h[n \div 10]
    BY <1>1, <2>1, LastDigitIs
  <2>3. h[n] = Append(h[n \div 10], LastDigit(n))
    BY <1>4, <1>6 DEF LastDigit
  <2> QED BY <1>1, <1>6, <2>2, <2>3
<1> QED BY <1>5, <1>6

\* t holds what s holds, from the last member on.
Backwards(s, t) ==
  /\ s \in Seq(Digit) /\ t \in Seq(Digit) /\ Len(s) = Len(t) /\ Len(s) > 0
  /\ \A i \in 1..Len(s) : s[i] = t[Len(s) + 1 - i]

\* Two digits more, at the front of one and at the end of the other.
LEMMA BackwardsTwo ==
  ASSUME NEW s, NEW t, Backwards(s, t), NEW a \in Digit, NEW b \in Digit
  PROVE  Backwards(<<a, b>> \o s, Append(Append(t, b), a))
<1>1. PICK n \in Nat : n = Len(s) /\ n = Len(t) /\ n > 0
  BY DEF Backwards
<1>2. PICK u, v, w, p : u = <<a, b>> \o s /\ v = Append(t, b) /\ w = Append(v, a) /\ p = <<a, b>>
  OBVIOUS
<1>3. p \in Seq(Digit) /\ Len(p) = 2 /\ p[1] = a /\ p[2] = b
  BY <1>2
<1>4. u \in Seq(Digit) /\ Len(u) = n + 2 /\ u[1] = a /\ u[2] = b /\ \A i \in 1..n : u[i + 2] = s[i]
  <2>1. u = p \o s
    BY <1>2
  <2>2. s \in Seq(Digit)
    BY DEF Backwards
  <2>3. /\ u \in Seq(Digit) /\ Len(u) = 2 + n
        /\ \A i \in 1..2 : u[i] = p[i]
        /\ \A i \in 1..n : u[2 + i] = s[i]
    <3>1. /\ p \o s \in Seq(Digit) /\ Len(p \o s) = Len(p) + Len(s)
          /\ \A i \in 1..Len(p) : (p \o s)[i] = p[i]
          /\ \A i \in 1..Len(s) : (p \o s)[Len(p) + i] = s[i]
      BY <1>3, <2>2, ConcatIs
    <3> QED BY <1>1, <1>3, <2>1, <3>1
  <2> QED BY <1>1, <1>3, <2>3
<1>5. v \in Seq(Digit) /\ Len(v) = n + 1 /\ v[n + 1] = b /\ \A i \in 1..n : v[i] = t[i]
  BY <1>1, <1>2 DEF Backwards
<1>6. w \in Seq(Digit) /\ Len(w) = n + 2 /\ w[n + 2] = a /\ w[n + 1] = b /\ \A i \in 1..n : w[i] = t[i]
  BY <1>1, <1>2, <1>5
<1>7. ASSUME NEW i \in 1..n + 2 PROVE u[i] = w[n + 2 + 1 - i]
  <2>1. CASE i = 1
    BY <1>1, <1>4, <1>6, <2>1
  <2>2. CASE i = 2
    BY <1>1, <1>4, <1>6, <2>2
  <2>3. CASE i > 2
    <3>1. PICK j \in 1..n : i = j + 2
      BY <1>1, <2>3
    <3>2. u[i] = s[j] /\ s[j] = t[n + 1 - j]
      BY <1>1, <1>4, <3>1 DEF Backwards
    <3>3. n + 1 - j \in 1..n /\ n + 2 + 1 - i = n + 1 - j
      BY <1>1, <3>1
    <3> QED BY <1>6, <3>2, <3>3
  <2> QED BY <1>1, <2>1, <2>2, <2>3
<1> QED BY <1>1, <1>2, <1>4, <1>6, <1>7 DEF Backwards

\* What format_decimal() stores backwards is the number.
LEMMA DecimalIsNumeral ==
  ASSUME NEW n \in Nat
  PROVE  Backwards(DecimalDigits(n), Decimal(n))
<1> DEFINE A == {m \in Nat : Backwards(DecimalDigits(m), Decimal(m))}
<1>1. ASSUME NEW m \in Nat, \A k \in 0..m - 1 : k \in A
      PROVE  m \in A
  <2>1. CASE m < 10
    <3>1. PICK d \in Digit : d = LastDigit(m)
      BY LastDigitIs
    <3>2. DecimalDigits(m) = <<d>> /\ Decimal(m) = <<d>>
      BY <2>1, <3>1, DecimalIs, NumeralIs
    <3>3. Backwards(<<d>>, <<d>>)
      BY DEF Backwards
    <3> QED BY <3>2, <3>3
  <2>2. CASE ~(m < 10) /\ m < 100
    <3>1. PICK k \in Nat : k = m \div 10 /\ k < 10
      BY <2>2
    <3>2. PICK d \in Digit, e \in Digit : d = LastDigit(m) /\ e = LastDigit(k)
      BY <3>1, LastDigitIs
    <3>3. DecimalDigits(m) = <<d, e>>
      BY <2>2, <3>1, <3>2, DecimalIs
    <3>4. Decimal(m) = Append(Decimal(k), d) /\ Decimal(k) = <<e>>
      BY <2>2, <3>1, <3>2, NumeralIs
    <3>5. Backwards(<<d, e>>, Append(<<e>>, d))
      <4>1. PICK p, q : p = <<d, e>> /\ q = Append(<<e>>, d)
        OBVIOUS
      <4>2. p \in Seq(Digit) /\ q \in Seq(Digit) /\ Len(p) = 2 /\ Len(q) = 2
            /\ p[1] = d /\ p[2] = e /\ q[1] = e /\ q[2] = d
        BY <4>1
      <4>3. \A i \in 1..2 : p[i] = q[2 + 1 - i]
        BY <4>2
      <4> QED BY <4>1, <4>2, <4>3 DEF Backwards
    <3> QED BY <3>3, <3>4, <3>5
  <2>3. CASE ~(m < 100)
    <3>0. m >= 100 /\ ~(m < 10)
      BY <2>3
    <3>1. PICK j \in Nat, k \in Nat : /\ j = m \div 10 /\ k = m \div 100 /\ k = j \div 10
                                      /\ ~(j < 10) /\ k < m
      <4>1. m \div 10 \in Nat /\ ~(m \div 10 < 10)
        BY <3>0
      <4> QED BY <3>0, <4>1, LastDigitIs
    <3>2. PICK d \in Digit, e \in Digit : d = LastDigit(m) /\ e = LastDigit(j)
      BY <3>1, LastDigitIs
    <3>3. DecimalDigits(m) = <<d, e>> \o DecimalDigits(k)
      BY <2>3, <3>0, <3>1, <3>2, DecimalIs
    <3>4. Decimal(m) = Append(Append(Decimal(k), e), d)
      <4>1. Decimal(m) = Append(Decimal(j), d)
        BY <3>0, <3>1, <3>2, NumeralIs
      <4>2. Decimal(j) = Append(Decimal(k), e)
        BY <3>1, <3>2, NumeralIs
      <4> QED BY <4>1, <4>2
    <3>5. Backwards(DecimalDigits(k), Decimal(k))
      <4>1. k \in 0..m - 1
        BY <3>1
      <4> QED BY <1>1, <4>1
    <3> QED BY <3>3, <3>4, <3>5, BackwardsTwo
  <2> HIDE DEF A
  <2> QED BY <2>1, <2>2, <2>3
<1> HIDE DEF A
<1>2. n \in A
  BY <1>1, AllNumbers
<1> QED BY <1>2 DEF A

\* How long a number is in bits.
LEMMA BitLengthIs ==
  ASSUME NEW n \in Nat
  PROVE  BitLength(n) = IF n < 2 THEN 1 ELSE BitLength(n \div 2) + 1
<1> DEFINE Right(g) == g = [k \in Nat |-> IF k < 2 THEN 1 ELSE g[k \div 2] + 1]
           h == CHOOSE g : Right(g)
<1>0. \A k \in Nat : k >= 2 => k \div 2 \in Nat /\ k \div 2 < k
  OBVIOUS
<1>1. \A k \in Nat : BitLength(k) = h[k]
  BY DEF BitLength
<1>2. \E g : Right(g)
  <2> DEFINE small == 0..1
             M == [k \in Nat |-> k]
             B == [k \in small |-> 1]
             P == [k \in Nat \ small |-> k \div 2]
             D == [k \in Nat \ small |-> [t \in Nat |-> t + 1]]
  <2>1. M \in [Nat -> Nat] /\ small \in SUBSET Nat /\ B \in [small -> Nat]
    OBVIOUS
  <2>2. \A k \in Nat \ small : k >= 2 /\ k \in Nat
    OBVIOUS
  <2>3. P \in [Nat \ small -> Nat] /\ \A k \in Nat \ small : M[P[k]] < M[k]
    BY <1>0, <2>2
  <2>4. D \in [Nat \ small -> [Nat -> Nat]]
    OBVIOUS
  <2> HIDE DEF M, B, P, D, small
  <2>6. PICK f \in [Nat -> Nat] : Descends(f, Nat, small, B, P, D)
    BY <2>1, <2>3, <2>4, DescentExists
  <2>7. \A k \in small : f[k] = 1
    BY <2>6 DEF Descends, B
  <2>8. ASSUME NEW k \in Nat \ small PROVE f[k] = f[k \div 2] + 1
    <3>1. P[k] = k \div 2 /\ P[k] \in Nat
      BY <2>3 DEF P
    <3>2. f[P[k]] \in Nat
      BY <2>6, <3>1
    <3>3. D[k][f[P[k]]] = f[P[k]] + 1
      BY <3>2 DEF D
    <3>4. f[k] = D[k][f[P[k]]]
      BY <2>6 DEF Descends
    <3> QED BY <3>1, <3>3, <3>4
  <2>9. \A k \in Nat : f[k] = IF k < 2 THEN 1 ELSE f[k \div 2] + 1
    <3>1. \A k \in Nat : IF k < 2 THEN k \in small ELSE k \in Nat \ small
      BY DEF small
    <3> QED BY <2>7, <2>8, <3>1
  <2>10. f = [k \in Nat |-> f[k]]
    BY <2>6
  <2>11. Right(f)
    BY <2>9, <2>10
  <2> QED BY <2>11
<1>3. Right(h)
  BY <1>2, Zenon
<1> HIDE DEF h
<1>4. h[n] = IF n < 2 THEN 1 ELSE h[n \div 2] + 1
  BY <1>3, Zenon
<1>5. CASE n < 2
  BY <1>1, <1>4, <1>5
<1>6. CASE ~(n < 2)
  <2>1. n >= 2
    BY <1>6
  <2>2. BitLength(n \div 2) = h[n \div 2]
    BY <1>0, <1>1, <2>1
  <2>3. h[n] = h[n \div 2] + 1
    BY <1>4, <1>6, Zenon
  <2> QED BY <1>1, <1>6, <2>2, <2>3
<1> QED BY <1>5, <1>6

\* It is a number, and a division by 8 takes three of the bits away.
LEMMA BitLengthType ==
  ASSUME NEW n \in Nat
  PROVE  /\ BitLength(n) \in Nat
         /\ n < 8 => BitLength(n) <= 3
         /\ n >= 8 => BitLength(n) = BitLength(n \div 8) + 3
<1> DEFINE A == {m \in Nat : BitLength(m) \in Nat}
<1>1. ASSUME NEW m \in Nat, \A k \in 0..m - 1 : k \in A
      PROVE  m \in A
  <2>1. m >= 2 => m \div 2 \in 0..m - 1
    OBVIOUS
  <2>2. m >= 2 => BitLength(m \div 2) \in Nat
    BY <1>1, <2>1
  <2> QED BY <2>2, BitLengthIs
<1> HIDE DEF A
<1>2. \A m \in Nat : m \in A
  BY <1>1, AllNumbers
<1>3. \A m \in Nat : BitLength(m) \in Nat
  BY <1>2 DEF A
<1>4. PICK x \in Nat, y \in Nat, z \in Nat : x = n \div 2 /\ y = x \div 2 /\ z = y \div 2
  OBVIOUS
<1>5. (n < 8 => z = 0 /\ y < 2) /\ (n >= 8 => z = n \div 8 /\ n >= 2 /\ x >= 2 /\ y >= 2)
  BY <1>4
<1>6. /\ n >= 2 => BitLength(n) = BitLength(x) + 1
      /\ n < 2 => BitLength(n) = 1
      /\ x >= 2 => BitLength(x) = BitLength(y) + 1
      /\ x < 2 => BitLength(x) = 1
      /\ y >= 2 => BitLength(y) = BitLength(z) + 1
      /\ y < 2 => BitLength(y) = 1
  BY <1>4, BitLengthIs
<1>7. /\ BitLength(n) \in Nat /\ BitLength(x) \in Nat /\ BitLength(y) \in Nat
      /\ BitLength(z) \in Nat
  BY <1>3
<1>8. n < 8 => BitLength(n) <= 3
  BY <1>5, <1>6, <1>7
<1>9. n >= 8 => BitLength(n) = BitLength(z) + 3
  BY <1>5, <1>6, <1>7
<1> QED BY <1>5, <1>7, <1>8, <1>9

\* From p on, numbers have k bits or more.
BitsFrom(k, p) == k \in Nat /\ p \in Nat /\ \A n \in Nat : n >= p <=> BitLength(n) >= k

\* Three bits more, and four.
LEMMA BitsMore ==
  ASSUME NEW k, NEW p, BitsFrom(k, p), p >= 1, k >= 1
  PROVE  BitsFrom(k + 3, 8 * p) /\ BitsFrom(k + 4, 16 * p)
<1>0. k \in Nat /\ p \in Nat
  BY DEF BitsFrom
<1>1. ASSUME NEW n \in Nat PROVE n >= 8 * p <=> BitLength(n) >= k + 3
  <2>1. CASE n < 8
    <3>1. BitLength(n) <= 3 /\ BitLength(n) \in Nat
      BY <2>1, BitLengthType
    <3> QED BY <1>0, <2>1, <3>1
  <2>2. CASE n >= 8
    <3>1. PICK m \in Nat : m = n \div 8
      BY <2>2
    <3>2. n >= 8 * p <=> m >= p
      BY <1>0, <3>1
    <3>3. m >= p <=> BitLength(m) >= k
      BY DEF BitsFrom
    <3>4. BitLength(n) = BitLength(m) + 3 /\ BitLength(m) \in Nat
      BY <2>2, <3>1, BitLengthType
    <3> QED BY <1>0, <3>2, <3>3, <3>4
  <2> QED BY <2>1, <2>2
<1>2. ASSUME NEW n \in Nat PROVE n >= 16 * p <=> BitLength(n) >= k + 4
  <2>1. CASE n < 2
    <3>1. BitLength(n) = 1
      BY <2>1, BitLengthIs
    <3> QED BY <1>0, <2>1, <3>1
  <2>2. CASE n >= 2
    <3>1. PICK m \in Nat : m = n \div 2
      BY <2>2
    <3>2. n >= 16 * p <=> m >= 8 * p
      BY <1>0, <3>1
    <3>3. m >= 8 * p <=> BitLength(m) >= k + 3
      BY <1>1
    <3>4. BitLength(n) = BitLength(m) + 1 /\ BitLength(m) \in Nat
      BY <2>2, <3>1, BitLengthIs, BitLengthType
    <3> QED BY <1>0, <3>2, <3>3, <3>4
  <2> QED BY <2>1, <2>2
<1> QED BY <1>0, <1>1, <1>2 DEF BitsFrom

\* From p on, numbers have d decimal digits or more.
LengthFrom(d, p) == d \in Nat /\ p \in Nat /\ \A n \in Nat : n >= p <=> Len(Decimal(n)) >= d

\* A number has as many digits as a tenth of it and one more.
LEMMA DecimalLength ==
  ASSUME NEW n \in Nat
  PROVE  /\ Decimal(n) \in Seq(Digit) /\ Len(Decimal(n)) \in Nat /\ Len(Decimal(n)) >= 1
         /\ n < 10 => Len(Decimal(n)) = 1
         /\ n >= 10 => Len(Decimal(n)) = Len(Decimal(n \div 10)) + 1
<1>1. \A m \in Nat : Decimal(m) \in Seq(Digit) /\ Len(Decimal(m)) >= 1
  BY DecimalIsNumeral DEF Backwards
<1>2. n < 10 => Len(Decimal(n)) = 1
  BY NumeralIs
<1>3. ASSUME n >= 10 PROVE Len(Decimal(n)) = Len(Decimal(n \div 10)) + 1
  <2>1. PICK m \in Nat, d \in Digit : m = n \div 10 /\ d = LastDigit(n)
    BY <1>3, LastDigitIs
  <2>2. PICK s \in Seq(Digit) : s = Decimal(m)
    BY <1>1
  <2>3. Decimal(n) = Append(s, d)
    BY <1>3, <2>1, <2>2, NumeralIs
  <2> QED BY <2>1, <2>2, <2>3
<1> QED BY <1>1, <1>2, <1>3

\* One digit more.
LEMMA LengthMore ==
  ASSUME NEW d, NEW p, LengthFrom(d, p), p >= 1, d >= 1
  PROVE  LengthFrom(d + 1, 10 * p)
<1>0. d \in Nat /\ p \in Nat
  BY DEF LengthFrom
<1>1. ASSUME NEW n \in Nat PROVE n >= 10 * p <=> Len(Decimal(n)) >= d + 1
  <2>1. CASE n < 10
    <3>1. Len(Decimal(n)) = 1
      BY <2>1, DecimalLength
    <3> QED BY <1>0, <2>1, <3>1
  <2>2. CASE n >= 10
    <3>1. PICK m \in Nat : m = n \div 10
      BY <2>2
    <3>2. n >= 10 * p <=> m >= p
      BY <1>0, <3>1
    <3>3. m >= p <=> Len(Decimal(m)) >= d
      BY DEF LengthFrom
    <3>4. Len(Decimal(n)) = Len(Decimal(m)) + 1 /\ Len(Decimal(m)) \in Nat
      BY <2>2, <3>1, DecimalLength
    <3> QED BY <1>0, <3>2, <3>3, <3>4
  <2> QED BY <2>1, <2>2
<1> QED BY <1>0, <1>1 DEF LengthFrom

\* The powers of ten.
LEMMA PowerOf10Is ==
  ASSUME NEW n \in Nat
  PROVE  /\ PowerOf10(0) = 0 /\ PowerOf10(1) = 10
         /\ n >= 1 => PowerOf10(n + 1) = 10 * PowerOf10(n)
<1> DEFINE Right(g) == g = [k \in Nat |-> IF k = 0 THEN 0 ELSE IF k = 1 THEN 10 ELSE 10 * g[k - 1]]
           h == CHOOSE g : Right(g)
<1>1. \A k \in Nat : PowerOf10(k) = h[k]
  BY DEF PowerOf10
<1>2. \E g : Right(g)
  <2> DEFINE small == 0..1
             M == [k \in Nat |-> k]
             B == [k \in small |-> 10 * k]
             P == [k \in Nat \ small |-> k - 1]
             D == [k \in Nat \ small |-> [t \in Nat |-> 10 * t]]
  <2>1. M \in [Nat -> Nat] /\ small \in SUBSET Nat /\ B \in [small -> Nat]
    OBVIOUS
  <2>2. \A k \in Nat \ small : k >= 2 /\ k \in Nat
    OBVIOUS
  <2>3. P \in [Nat \ small -> Nat] /\ \A k \in Nat \ small : M[P[k]] < M[k]
    BY <2>2
  <2>4. D \in [Nat \ small -> [Nat -> Nat]]
    OBVIOUS
  <2> HIDE DEF M, B, P, D, small
  <2>6. PICK f \in [Nat -> Nat] : Descends(f, Nat, small, B, P, D)
    BY <2>1, <2>3, <2>4, DescentExists
  <2>7. f[0] = 0 /\ f[1] = 10
    <3>1. f[0] = B[0] /\ f[1] = B[1]
      BY <2>6 DEF Descends, small
    <3> QED BY <3>1 DEF B, small
  <2>8. ASSUME NEW k \in Nat \ small PROVE f[k] = 10 * f[k - 1]
    <3>1. P[k] = k - 1 /\ P[k] \in Nat
      BY <2>3 DEF P
    <3>2. f[P[k]] \in Nat
      BY <2>6, <3>1
    <3>3. D[k][f[P[k]]] = 10 * f[P[k]]
      BY <3>2 DEF D
    <3>4. f[k] = D[k][f[P[k]]]
      BY <2>6 DEF Descends
    <3> QED BY <3>1, <3>3, <3>4
  <2>9. \A k \in Nat : f[k] = IF k = 0 THEN 0 ELSE IF k = 1 THEN 10 ELSE 10 * f[k - 1]
    <3>1. \A k \in Nat : k = 0 \/ k = 1 \/ k \in Nat \ small
      BY DEF small
    <3> QED BY <2>2, <2>7, <2>8, <3>1
  <2>10. f = [k \in Nat |-> f[k]]
    BY <2>6
  <2>11. Right(f)
    BY <2>9, <2>10
  <2> QED BY <2>11
<1>3. Right(h)
  BY <1>2, Zenon
<1> HIDE DEF h
<1>4. \A k \in Nat : h[k] = IF k = 0 THEN 0 ELSE IF k = 1 THEN 10 ELSE 10 * h[k - 1]
  BY <1>3, Zenon
<1>5. h[0] = 0 /\ h[1] = 10
  BY <1>4
<1>6. ASSUME n >= 1 PROVE h[n + 1] = 10 * h[n]
  <2>1. PICK k \in Nat : k = n + 1
    OBVIOUS
  <2>2. k # 0 /\ k # 1 /\ k - 1 = n
    BY <1>6, <2>1
  <2>3. h[k] = 10 * h[k - 1]
    BY <1>4, <2>2
  <2> QED BY <2>1, <2>2, <2>3
<1>7. PowerOf10(0) = h[0] /\ PowerOf10(1) = h[1] /\ PowerOf10(n) = h[n] /\ PowerOf10(n + 1) = h[n + 1]
  BY <1>1
<1> QED BY <1>5, <1>6, <1>7

\* A number with a bit more, which an odd one has already.
LEMMA OddBits ==
  ASSUME NEW n \in Nat
  PROVE  BitLength(IF n % 2 = 0 THEN n + 1 ELSE n) = BitLength(n)
<1>1. CASE n % 2 = 0 /\ n < 2
  <2>1. n + 1 < 2 /\ n + 1 \in Nat
    BY <1>1
  <2>2. BitLength(n + 1) = 1 /\ BitLength(n) = 1
    BY <1>1, <2>1, BitLengthIs
  <2> QED BY <1>1, <2>2
<1>2. CASE n % 2 = 0 /\ ~(n < 2)
  <2>1. PICK m \in Nat, k \in Nat : m = n + 1 /\ k = n \div 2 /\ k = m \div 2 /\ ~(m < 2)
    <3>1. (n + 1) \div 2 = n \div 2 /\ n \div 2 \in Nat /\ n + 1 \in Nat /\ ~(n + 1 < 2)
      BY <1>2
    <3> QED BY <3>1
  <2>2. BitLength(m) = BitLength(k) + 1 /\ BitLength(n) = BitLength(k) + 1
    BY <1>2, <2>1, BitLengthIs
  <2> QED BY <1>2, <2>1, <2>2
<1> QED BY <1>1, <1>2

\* The number of digits that count_digits() guesses, before it is corrected.
Guess(n) == (BitLength(n) * 1233) \div 4096

\* It is off by one at most: t is right or one too few.
GuessIs(n, t) ==
  /\ Guess(n) = t /\ t \in Nat /\ Len(Decimal(n)) \in Nat
  /\ PowerOf10(t) \in Nat
  /\ IF n >= PowerOf10(t) THEN Len(Decimal(n)) = t + 1 ELSE Len(Decimal(n)) = t

\* From r on, numbers have t digits or more; p is the least number of b bits, and
\* q the power of ten at t in the table, from which on one digit more is needed.
Row(t, b, p, q) ==
  /\ t \in Nat /\ t >= 1 /\ b >= 1 /\ p >= 1 /\ q >= 1
  /\ BitsFrom(b, p) /\ LengthFrom(t + 1, q) /\ PowerOf10(t) = q
  /\ \E r : LengthFrom(t, r) /\ r <= p

\* Numbers of b bits or more, but less than b2, have their guess at t.
Between(t, b, b2) == \A n \in Nat : BitLength(n) >= b /\ BitLength(n) < b2 => GuessIs(n, t)

\* Up to a number of bits that begins within the next power of ten.
LEMMA RowBetween ==
  ASSUME NEW t, NEW b, NEW p, NEW q, NEW b2, NEW p2, Row(t, b, p, q), BitsFrom(b2, p2), p2 <= 10 * q,
         b * 1233 >= t * 4096, (b2 - 1) * 1233 < (t + 1) * 4096
  PROVE  Between(t, b, b2)
<1> SUFFICES ASSUME NEW n \in Nat, BitLength(n) >= b, BitLength(n) < b2 PROVE GuessIs(n, t)
  BY DEF Between
<1>0. PICK r : LengthFrom(t, r) /\ r <= p
  BY DEF Row
<1>1. t \in Nat /\ t >= 1 /\ q \in Nat /\ b \in Nat /\ p \in Nat /\ r \in Nat /\ p2 \in Nat
      /\ b2 \in Nat /\ PowerOf10(t) = q
  BY <1>0 DEF Row, BitsFrom, LengthFrom
<1>2. n >= p /\ ~(n >= p2)
  <2>1. BitLength(n) \in Nat
    BY BitLengthType
  <2>2. n >= p2 <=> BitLength(n) >= b2
    BY DEF BitsFrom
  <2>3. n >= p <=> BitLength(n) >= b
    BY DEF Row, BitsFrom
  <2> QED BY <1>1, <2>1, <2>2, <2>3
<1>3. Len(Decimal(n)) \in Nat
  BY DecimalLength
<1>4. Len(Decimal(n)) >= t
  <2>1. n >= r
    BY <1>0, <1>1, <1>2
  <2> QED BY <1>0, <2>1 DEF LengthFrom
<1>5. ~(Len(Decimal(n)) >= t + 2)
  <2>1. LengthFrom((t + 1) + 1, 10 * q)
    BY <1>1, LengthMore DEF Row
  <2>2. ~(n >= 10 * q)
    BY <1>1, <1>2
  <2>3. (t + 1) + 1 = t + 2
    BY <1>1
  <2> QED BY <2>1, <2>2, <2>3 DEF LengthFrom
<1>6. n >= q <=> Len(Decimal(n)) >= t + 1
  BY DEF Row, LengthFrom
<1>7. Guess(n) = t
  <2>1. PICK k \in Nat : k = BitLength(n)
    BY BitLengthType
  <2>2. k * 1233 >= t * 4096 /\ k * 1233 < (t + 1) * 4096
    BY <1>1, <2>1
  <2>3. PICK x \in Nat : x = k * 1233
    BY <2>1
  <2>4. x \div 4096 = t
    BY <1>1, <2>2, <2>3
  <2> QED BY <2>1, <2>3, <2>4 DEF Guess
<1> QED BY <1>1, <1>3, <1>4, <1>5, <1>6, <1>7 DEF GuessIs

\* The next row, three bits further.
Step3(t, b, p, q) ==
  /\ Row(t, b, p, q) /\ q <= 8 * p /\ 8 * p <= 10 * q
  /\ b * 1233 >= t * 4096 /\ (b + 2) * 1233 < (t + 1) * 4096

\* It is one.
LEMMA RowNext3 ==
  ASSUME NEW t, NEW b, NEW p, NEW q, Step3(t, b, p, q)
  PROVE  Row(t + 1, b + 3, 8 * p, 10 * q) /\ Between(t, b, b + 3)
<1>0. Row(t, b, p, q) /\ q <= 8 * p /\ 8 * p <= 10 * q
      /\ b * 1233 >= t * 4096 /\ (b + 2) * 1233 < (t + 1) * 4096
  BY DEF Step3
<1>1. t \in Nat /\ t >= 1 /\ b \in Nat /\ p \in Nat /\ q \in Nat /\ b >= 1 /\ p >= 1 /\ q >= 1
  BY <1>0 DEF Row, BitsFrom, LengthFrom
<1>2. BitsFrom(b + 3, 8 * p)
  BY <1>0, <1>1, BitsMore DEF Row
<1>3. LengthFrom((t + 1) + 1, 10 * q) /\ LengthFrom(t + 1, q)
  BY <1>0, <1>1, LengthMore DEF Row
<1>4. PowerOf10(t + 1) = 10 * q
  BY <1>0, <1>1, PowerOf10Is DEF Row
<1>5. Row(t + 1, b + 3, 8 * p, 10 * q)
  BY <1>0, <1>1, <1>2, <1>3, <1>4 DEF Row
<1>6. Between(t, b, b + 3)
  <2>1. PICK b2 \in Nat, p2 \in Nat : b2 = b + 3 /\ p2 = 8 * p
    BY <1>1
  <2>2. b2 - 1 = b + 2 /\ BitsFrom(b2, p2) /\ p2 <= 10 * q
    BY <1>0, <1>1, <1>2, <2>1
  <2> QED BY <1>0, <2>1, <2>2, RowBetween
<1> QED BY <1>5, <1>6

\* The next row, four bits further.
Step4(t, b, p, q) ==
  /\ Row(t, b, p, q) /\ q <= 16 * p /\ 16 * p <= 10 * q
  /\ b * 1233 >= t * 4096 /\ (b + 3) * 1233 < (t + 1) * 4096

\* It is one.
LEMMA RowNext4 ==
  ASSUME NEW t, NEW b, NEW p, NEW q, Step4(t, b, p, q)
  PROVE  Row(t + 1, b + 4, 16 * p, 10 * q) /\ Between(t, b, b + 4)
<1>0. Row(t, b, p, q) /\ q <= 16 * p /\ 16 * p <= 10 * q
      /\ b * 1233 >= t * 4096 /\ (b + 3) * 1233 < (t + 1) * 4096
  BY DEF Step4
<1>1. t \in Nat /\ t >= 1 /\ b \in Nat /\ p \in Nat /\ q \in Nat /\ b >= 1 /\ p >= 1 /\ q >= 1
  BY <1>0 DEF Row, BitsFrom, LengthFrom
<1>2. BitsFrom(b + 4, 16 * p)
  BY <1>0, <1>1, BitsMore DEF Row
<1>3. LengthFrom((t + 1) + 1, 10 * q) /\ LengthFrom(t + 1, q)
  BY <1>0, <1>1, LengthMore DEF Row
<1>4. PowerOf10(t + 1) = 10 * q
  BY <1>0, <1>1, PowerOf10Is DEF Row
<1>5. Row(t + 1, b + 4, 16 * p, 10 * q)
  BY <1>0, <1>1, <1>2, <1>3, <1>4 DEF Row
<1>6. Between(t, b, b + 4)
  <2>1. PICK b2 \in Nat, p2 \in Nat : b2 = b + 4 /\ p2 = 16 * p
    BY <1>1
  <2>2. b2 - 1 = b + 3 /\ BitsFrom(b2, p2) /\ p2 <= 10 * q
    BY <1>0, <1>1, <1>2, <2>1
  <2> QED BY <1>0, <2>1, <2>2, RowBetween
<1> QED BY <1>5, <1>6

\* Between which lengths in bits count_digits() guesses what.
Guesses ==
  /\ Between(1, 4, 7)
  /\ Between(2, 7, 10)
  /\ Between(3, 10, 14)
  /\ Between(4, 14, 17)
  /\ Between(5, 17, 20)
  /\ Between(6, 20, 24)
  /\ Between(7, 24, 27)
  /\ Between(8, 27, 30)
  /\ Between(9, 30, 34)
  /\ Between(10, 34, 37)
  /\ Between(11, 37, 40)
  /\ Between(12, 40, 44)
  /\ Between(13, 44, 47)
  /\ Between(14, 47, 50)
  /\ Between(15, 50, 54)
  /\ Between(16, 54, 57)
  /\ Between(17, 57, 60)
  /\ Between(18, 60, 64)
  /\ Between(19, 64, 67)

\* They are these.
LEMMA GuessesAre == Guesses
<1>1. Row(1, 4, 8, 10)
  <2>1. BitsFrom(4, 8)
    <3>1. ASSUME NEW n \in Nat PROVE n >= 8 <=> BitLength(n) >= 4
      <4>1. n < 8 => BitLength(n) <= 3 /\ BitLength(n) \in Nat
        BY BitLengthType
      <4>2. CASE n >= 8
        <5>1. PICK m \in Nat : m = n \div 8
          BY <4>2
        <5>2. BitLength(n) = BitLength(m) + 3 /\ BitLength(m) \in Nat
          BY <4>2, <5>1, BitLengthType
        <5>3. BitLength(m) >= 1
          <6>1. m \div 2 \in Nat
            BY <5>1
          <6>2. BitLength(m \div 2) \in Nat
            BY <6>1, BitLengthType
          <6> QED BY <5>1, <6>2, BitLengthIs
        <5> QED BY <4>2, <5>2, <5>3
      <4> QED BY <4>1, <4>2
    <3> QED BY <3>1 DEF BitsFrom
  <2>2. LengthFrom(2, 10)
    <3>1. ASSUME NEW n \in Nat PROVE n >= 10 <=> Len(Decimal(n)) >= 2
      <4>1. n < 10 => Len(Decimal(n)) = 1
        BY DecimalLength
      <4>2. n >= 10 => Len(Decimal(n)) >= 2
        <5>0. SUFFICES ASSUME n >= 10 PROVE Len(Decimal(n)) >= 2
          OBVIOUS
        <5>1. PICK m \in Nat : m = n \div 10
          BY <5>0
        <5>2. Len(Decimal(m)) \in Nat /\ Len(Decimal(m)) >= 1
          BY DecimalLength
        <5>3. Len(Decimal(n)) = Len(Decimal(m)) + 1
          BY <5>0, <5>1, DecimalLength
        <5> QED BY <5>2, <5>3
      <4>3. PICK k \in Nat : k = Len(Decimal(n))
        BY DecimalLength
      <4>4. (n < 10 => k = 1) /\ (n >= 10 => k >= 2)
        BY <4>1, <4>2, <4>3
      <4>5. n >= 10 <=> k >= 2
        BY <4>4
      <4> QED BY <4>3, <4>5
    <3> QED BY <3>1 DEF LengthFrom
  <2>3. PowerOf10(1) = 10 /\ 1 + 1 = 2
    BY PowerOf10Is
  <2>4. LengthFrom(1, 0)
    BY DecimalLength DEF LengthFrom
  <2> QED BY <2>1, <2>2, <2>3, <2>4 DEF Row
<1>2. Row(2, 7, 64, 100) /\ Between(1, 4, 7)
  <2>1. 1 + 1 = 2 /\ 4 + 3 = 7 /\ 8 * 8 = 64 /\ 10 * 10 = 100
    OBVIOUS
  <2>2. Row(1 + 1, 4 + 3, 8 * 8, 10 * 10) /\ Between(1, 4, 4 + 3)
    <3>1. Step3(1, 4, 8, 10)
      BY <1>1 DEF Step3
    <3> QED BY <3>1, RowNext3
  <2> QED BY <2>1, <2>2
<1>3. Row(3, 10, 512, 1000) /\ Between(2, 7, 10)
  <2>1. 2 + 1 = 3 /\ 7 + 3 = 10 /\ 8 * 64 = 512 /\ 10 * 100 = 1000
    OBVIOUS
  <2>2. Row(2 + 1, 7 + 3, 8 * 64, 10 * 100) /\ Between(2, 7, 7 + 3)
    <3>1. Step3(2, 7, 64, 100)
      BY <1>2 DEF Step3
    <3> QED BY <3>1, RowNext3
  <2> QED BY <2>1, <2>2
<1>4. Row(4, 14, 8192, 10000) /\ Between(3, 10, 14)
  <2>1. 3 + 1 = 4 /\ 10 + 4 = 14 /\ 16 * 512 = 8192 /\ 10 * 1000 = 10000
    OBVIOUS
  <2>2. Row(3 + 1, 10 + 4, 16 * 512, 10 * 1000) /\ Between(3, 10, 10 + 4)
    <3>1. Step4(3, 10, 512, 1000)
      BY <1>3 DEF Step4
    <3> QED BY <3>1, RowNext4
  <2> QED BY <2>1, <2>2
<1>5. Row(5, 17, 65536, 100000) /\ Between(4, 14, 17)
  <2>1. 4 + 1 = 5 /\ 14 + 3 = 17 /\ 8 * 8192 = 65536 /\ 10 * 10000 = 100000
    OBVIOUS
  <2>2. Row(4 + 1, 14 + 3, 8 * 8192, 10 * 10000) /\ Between(4, 14, 14 + 3)
    <3>1. Step3(4, 14, 8192, 10000)
      BY <1>4 DEF Step3
    <3> QED BY <3>1, RowNext3
  <2> QED BY <2>1, <2>2
<1>6. Row(6, 20, 524288, 1000000) /\ Between(5, 17, 20)
  <2>1. 5 + 1 = 6 /\ 17 + 3 = 20 /\ 8 * 65536 = 524288 /\ 10 * 100000 = 1000000
    OBVIOUS
  <2>2. Row(5 + 1, 17 + 3, 8 * 65536, 10 * 100000) /\ Between(5, 17, 17 + 3)
    <3>1. Step3(5, 17, 65536, 100000)
      BY <1>5 DEF Step3
    <3> QED BY <3>1, RowNext3
  <2> QED BY <2>1, <2>2
<1>7. Row(7, 24, 8388608, 10000000) /\ Between(6, 20, 24)
  <2>1. 6 + 1 = 7 /\ 20 + 4 = 24 /\ 16 * 524288 = 8388608 /\ 10 * 1000000 = 10000000
    OBVIOUS
  <2>2. Row(6 + 1, 20 + 4, 16 * 524288, 10 * 1000000) /\ Between(6, 20, 20 + 4)
    <3>1. Step4(6, 20, 524288, 1000000)
      BY <1>6 DEF Step4
    <3> QED BY <3>1, RowNext4
  <2> QED BY <2>1, <2>2
<1>8. Row(8, 27, 67108864, 100000000) /\ Between(7, 24, 27)
  <2>1. 7 + 1 = 8 /\ 24 + 3 = 27 /\ 8 * 8388608 = 67108864 /\ 10 * 10000000 = 100000000
    OBVIOUS
  <2>2. Row(7 + 1, 24 + 3, 8 * 8388608, 10 * 10000000) /\ Between(7, 24, 24 + 3)
    <3>1. Step3(7, 24, 8388608, 10000000)
      BY <1>7 DEF Step3
    <3> QED BY <3>1, RowNext3
  <2> QED BY <2>1, <2>2
<1>9. Row(9, 30, 536870912, 1000000000) /\ Between(8, 27, 30)
  <2>1. 8 + 1 = 9 /\ 27 + 3 = 30 /\ 8 * 67108864 = 536870912 /\ 10 * 100000000 = 1000000000
    OBVIOUS
  <2>2. Row(8 + 1, 27 + 3, 8 * 67108864, 10 * 100000000) /\ Between(8, 27, 27 + 3)
    <3>1. Step3(8, 27, 67108864, 100000000)
      BY <1>8 DEF Step3
    <3> QED BY <3>1, RowNext3
  <2> QED BY <2>1, <2>2
<1>10. Row(10, 34, 8589934592, 10000000000) /\ Between(9, 30, 34)
  <2>1. 9 + 1 = 10 /\ 30 + 4 = 34 /\ 16 * 536870912 = 8589934592 /\ 10 * 1000000000 = 10000000000
    OBVIOUS
  <2>2. Row(9 + 1, 30 + 4, 16 * 536870912, 10 * 1000000000) /\ Between(9, 30, 30 + 4)
    <3>1. Step4(9, 30, 536870912, 1000000000)
      BY <1>9 DEF Step4
    <3> QED BY <3>1, RowNext4
  <2> QED BY <2>1, <2>2
<1>11. Row(11, 37, 68719476736, 100000000000) /\ Between(10, 34, 37)
  <2>1. 10 + 1 = 11 /\ 34 + 3 = 37 /\ 8 * 8589934592 = 68719476736 /\ 10 * 10000000000 = 100000000000
    OBVIOUS
  <2>2. Row(10 + 1, 34 + 3, 8 * 8589934592, 10 * 10000000000) /\ Between(10, 34, 34 + 3)
    <3>1. Step3(10, 34, 8589934592, 10000000000)
      BY <1>10 DEF Step3
    <3> QED BY <3>1, RowNext3
  <2> QED BY <2>1, <2>2
<1>12. Row(12, 40, 549755813888, 1000000000000) /\ Between(11, 37, 40)
  <2>1. 11 + 1 = 12 /\ 37 + 3 = 40 /\ 8 * 68719476736 = 549755813888 /\ 10 * 100000000000 = 1000000000000
    OBVIOUS
  <2>2. Row(11 + 1, 37 + 3, 8 * 68719476736, 10 * 100000000000) /\ Between(11, 37, 37 + 3)
    <3>1. Step3(11, 37, 68719476736, 100000000000)
      BY <1>11 DEF Step3
    <3> QED BY <3>1, RowNext3
  <2> QED BY <2>1, <2>2
<1>13. Row(13, 44, 8796093022208, 10000000000000) /\ Between(12, 40, 44)
  <2>1. 12 + 1 = 13 /\ 40 + 4 = 44 /\ 16 * 549755813888 = 8796093022208 /\ 10 * 1000000000000 = 10000000000000
    OBVIOUS
  <2>2. Row(12 + 1, 40 + 4, 16 * 549755813888, 10 * 1000000000000) /\ Between(12, 40, 40 + 4)
    <3>1. Step4(12, 40, 549755813888, 1000000000000)
      BY <1>12 DEF Step4
    <3> QED BY <3>1, RowNext4
  <2> QED BY <2>1, <2>2
<1>14. Row(14, 47, 70368744177664, 100000000000000) /\ Between(13, 44, 47)
  <2>1. 13 + 1 = 14 /\ 44 + 3 = 47 /\ 8 * 8796093022208 = 70368744177664 /\ 10 * 10000000000000 = 100000000000000
    OBVIOUS
  <2>2. Row(13 + 1, 44 + 3, 8 * 8796093022208, 10 * 10000000000000) /\ Between(13, 44, 44 + 3)
    <3>1. Step3(13, 44, 8796093022208, 10000000000000)
      BY <1>13 DEF Step3
    <3> QED BY <3>1, RowNext3
  <2> QED BY <2>1, <2>2
<1>15. Row(15, 50, 562949953421312, 1000000000000000) /\ Between(14, 47, 50)
  <2>1. 14 + 1 = 15 /\ 47 + 3 = 50 /\ 8 * 70368744177664 = 562949953421312 /\ 10 * 100000000000000 = 1000000000000000
    OBVIOUS
  <2>2. Row(14 + 1, 47 + 3, 8 * 70368744177664, 10 * 100000000000000) /\ Between(14, 47, 47 + 3)
    <3>1. Step3(14, 47, 70368744177664, 100000000000000)
      BY <1>14 DEF Step3
    <3> QED BY <3>1, RowNext3
  <2> QED BY <2>1, <2>2
<1>16. Row(16, 54, 9007199254740992, 10000000000000000) /\ Between(15, 50, 54)
  <2>1. 15 + 1 = 16 /\ 50 + 4 = 54 /\ 16 * 562949953421312 = 9007199254740992 /\ 10 * 1000000000000000 = 10000000000000000
    OBVIOUS
  <2>2. Row(15 + 1, 50 + 4, 16 * 562949953421312, 10 * 1000000000000000) /\ Between(15, 50, 50 + 4)
    <3>1. Step4(15, 50, 562949953421312, 1000000000000000)
      BY <1>15 DEF Step4
    <3> QED BY <3>1, RowNext4
  <2> QED BY <2>1, <2>2
<1>17. Row(17, 57, 72057594037927936, 100000000000000000) /\ Between(16, 54, 57)
  <2>1. 16 + 1 = 17 /\ 54 + 3 = 57 /\ 8 * 9007199254740992 = 72057594037927936 /\ 10 * 10000000000000000 = 100000000000000000
    OBVIOUS
  <2>2. Row(16 + 1, 54 + 3, 8 * 9007199254740992, 10 * 10000000000000000) /\ Between(16, 54, 54 + 3)
    <3>1. Step3(16, 54, 9007199254740992, 10000000000000000)
      BY <1>16 DEF Step3
    <3> QED BY <3>1, RowNext3
  <2> QED BY <2>1, <2>2
<1>18. Row(18, 60, 576460752303423488, 1000000000000000000) /\ Between(17, 57, 60)
  <2>1. 17 + 1 = 18 /\ 57 + 3 = 60 /\ 8 * 72057594037927936 = 576460752303423488 /\ 10 * 100000000000000000 = 1000000000000000000
    OBVIOUS
  <2>2. Row(17 + 1, 57 + 3, 8 * 72057594037927936, 10 * 100000000000000000) /\ Between(17, 57, 57 + 3)
    <3>1. Step3(17, 57, 72057594037927936, 100000000000000000)
      BY <1>17 DEF Step3
    <3> QED BY <3>1, RowNext3
  <2> QED BY <2>1, <2>2
<1>19. PICK c \in Nat, p \in Nat, q \in Nat :
         Row(18, 60, p, q) /\ 5 * c <= p /\ p <= 6 * c /\ q = 10 * c
  <2>1. PICK c \in Nat : c = 100000000000000000
    OBVIOUS
  <2>2. PICK p \in Nat, q \in Nat : p = 576460752303423488 /\ q = 1000000000000000000
    OBVIOUS
  <2>3. 5 * c <= p /\ p <= 6 * c /\ q = 10 * c
    BY <2>1, <2>2
  <2>4. Row(18, 60, p, q)
    BY <1>18, <2>2
  <2> QED BY <2>3, <2>4
<1>20. Row(19, 64, 16 * p, 10 * q) /\ Between(18, 60, 64)
  <2>1. 18 + 1 = 19 /\ 60 + 4 = 64 /\ q <= 16 * p /\ 16 * p <= 10 * q
    BY <1>19
  <2>2. Row(18 + 1, 60 + 4, 16 * p, 10 * q) /\ Between(18, 60, 60 + 4)
    <3>1. Step4(18, 60, p, q)
      BY <1>19, <2>1 DEF Step4
    <3> QED BY <3>1, RowNext4
  <2> QED BY <2>1, <2>2
<1>21. Between(19, 64, 67)
  <2>1. PICK p1 \in Nat, q1 \in Nat : p1 = 16 * p /\ q1 = 10 * q
    BY <1>19
  <2>2. 64 + 3 = 67 /\ q1 <= 8 * p1 /\ 8 * p1 <= 10 * q1
    BY <1>19, <2>1
  <2>3. Between(19, 64, 64 + 3)
    <3>1. Step3(19, 64, p1, q1)
      BY <1>20, <2>1, <2>2 DEF Step3
    <3> QED BY <3>1, RowNext3
  <2> QED BY <2>2, <2>3
<1> QED BY <1>2, <1>3, <1>4, <1>5, <1>6, <1>7, <1>8, <1>9, <1>10, <1>11, <1>12,
           <1>13, <1>14, <1>15, <1>16, <1>17, <1>18, <1>20, <1>21 DEF Guesses

\* The guess is off by one at most, for every number of 64 bits.
LEMMA GuessRight ==
  ASSUME NEW n \in Nat, BitLength(n) <= 64
  PROVE  GuessIs(n, Guess(n))
<1>1. PICK k \in Nat : k = BitLength(n)
  BY BitLengthType
<1>2. ASSUME k < 4 PROVE GuessIs(n, 0)
  <2>1. n < 8
    <3>1. n >= 8 => BitLength(n) = BitLength(n \div 8) + 3
      BY BitLengthType
    <3>2. ASSUME n >= 8 PROVE FALSE
      <4>1. PICK m \in Nat : m = n \div 8
        BY <3>2
      <4>2. BitLength(m) \in Nat /\ BitLength(m) >= 1
        <5>1. m \div 2 \in Nat
          BY <4>1
        <5>2. BitLength(m \div 2) \in Nat
          BY <5>1, BitLengthType
        <5> QED BY <5>2, BitLengthIs
      <4> QED BY <1>1, <1>2, <3>1, <3>2, <4>1, <4>2
    <3> QED BY <3>2
  <2>2. Len(Decimal(n)) = 1
    BY <2>1, DecimalLength
  <2>3. Guess(n) = 0
    BY <1>1, <1>2 DEF Guess
  <2> QED BY <2>2, <2>3, PowerOf10Is DEF GuessIs
<1>3. ASSUME k >= 4 PROVE \E t, b, b2 : Between(t, b, b2) /\ k >= b /\ k < b2
  BY <1>1, <1>3, GuessesAre DEF Guesses
<1>4. \E t : GuessIs(n, t)
  <2>1. CASE k < 4
    BY <1>2, <2>1
  <2>2. CASE k >= 4
    <3>1. PICK t, b, b2 : Between(t, b, b2) /\ k >= b /\ k < b2
      BY <1>3, <2>2
    <3> QED BY <1>1, <3>1 DEF Between
  <2> QED BY <2>1, <2>2
<1> QED BY <1>4 DEF GuessIs

\* count_digits() is right for every number of 64 bits.
LEMMA CountDigitsIs ==
  ASSUME NEW n \in Nat, BitLength(n) <= 64
  PROVE  CountDigits(n) = Len(Decimal(n))
<1>1. PICK t : t = Guess(n)
  OBVIOUS
<1>2. CountDigits(n) = t - (IF n < PowerOf10(t) THEN 1 ELSE 0) + 1
  <2>1. PICK k : k = BitLength(n)
    OBVIOUS
  <2>2. BitLength(IF n % 2 = 0 THEN n + 1 ELSE n) = k
    BY <2>1, OddBits
  <2> QED BY <1>1, <2>1, <2>2 DEF CountDigits, Guess
<1>3. GuessIs(n, t)
  BY <1>1, GuessRight
<1> QED BY <1>2, <1>3 DEF GuessIs

\* A sequence of single members is flattened to them.
LEMMA FlattenSingles ==
  ASSUME NEW S, NEW s \in Seq(S)
  PROVE  FlattenSeq([i \in 1..Len(s) |-> <<s[i]>>]) = s
<1> DEFINE m == [i \in 1..Len(s) |-> <<s[i]>>]
           g == [n \in 0..Len(s) |-> SubSeq(s, 1, n)]
<1>1. m \in Seq(Seq(S)) /\ Len(m) = Len(s) /\ Len(s) \in Nat /\ \A i \in 1..Len(s) : m[i] = <<s[i]>>
  <2>1. \A i \in 1..Len(s) : <<s[i]>> \in Seq(S)
    OBVIOUS
  <2> QED BY <2>1
<1>2. g[0] = <<>>
  OBVIOUS
<1>3. ASSUME NEW n \in 1..Len(s) PROVE g[n] = g[n - 1] \o m[n]
  <2>1. PICK k \in 0..Len(s) - 1 : n = k + 1
    OBVIOUS
  <2>2. SubSeq(s, 1, k + 1) = SubSeq(s, 1, k) \o <<s[k + 1]>>
    <3>1. SubSeq(s, 1, k) \in Seq(S) /\ s[k + 1] \in S
      BY <2>1
    <3>2. SubSeq(s, 1, k + 1) = Append(SubSeq(s, 1, k), s[k + 1])
      BY <2>1
    <3> QED BY <3>1, <3>2, AppendIsConcat
  <2>3. k \in 0..Len(s) /\ n - 1 = k
    BY <2>1
  <2> QED BY <2>1, <2>2, <2>3
<1>4. g[Len(s)] = s
  OBVIOUS
<1> HIDE DEF m, g
<1>5. g[Len(m)] = FlattenSeq(m)
  BY <1>1, <1>2, <1>3, FlattenUnique
<1> QED BY <1>1, <1>4, <1>5 DEF m

\* Without a separator it is the digits that are written.
LEMMA FormatDecimalIs ==
  ASSUME NEW n \in Nat
  PROVE  FormatDecimal(n, <<>>) = DecimalDigits(n)
<1>1. PICK s \in Seq(Digit) : s = DecimalDigits(n)
  BY DecimalIsNumeral DEF Backwards
<1>2. FormatDecimal(n, <<>>) =
        FlattenSeq([i \in 1..Len(s) |-> <<s[i]>> \o IF i % 3 = 0 /\ i < Len(s) THEN <<>> ELSE <<>>])
  BY <1>1 DEF FormatDecimal
<1>3. \A i \in 1..Len(s) : <<s[i]>> \o (IF i % 3 = 0 /\ i < Len(s) THEN <<>> ELSE <<>>) = <<s[i]>>
  OBVIOUS
<1>4. [i \in 1..Len(s) |-> <<s[i]>> \o IF i % 3 = 0 /\ i < Len(s) THEN <<>> ELSE <<>>]
        = [i \in 1..Len(s) |-> <<s[i]>>]
  BY <1>3
<1> QED BY <1>1, <1>2, <1>4, FlattenSingles

\* What is stored backwards behind a sign can be read after it.
LEMMA StoredBack ==
  ASSUME NEW sign \in Seq(Sign), NEW s, NEW t, Backwards(s, t)
  PROVE  StoreBack([text |-> sign \o Copies(Hole, Len(t)), last |-> Len(sign) + Len(t)], s) = sign \o t
<1>1. PICK k \in Nat, d \in Nat : k = Len(sign) /\ d = Len(t) /\ d = Len(s)
  BY DEF Backwards
<1>2. PICK holes : holes = Copies(Hole, d)
  OBVIOUS
<1>3. holes \in Seq({Hole}) /\ Len(holes) = d
  BY <1>2 DEF Copies
<1>4. PICK number : number = sign \o holes
  OBVIOUS
<1> DEFINE T == Sign \cup {Hole} \cup Digit
<1>5. sign \in Seq(T) /\ holes \in Seq(T) /\ t \in Seq(T)
  <2>1. t \in Seq(Digit)
    BY DEF Backwards
  <2>2. Sign \subseteq T /\ {Hole} \subseteq T /\ Digit \subseteq T
    OBVIOUS
  <2> HIDE DEF T
  <2>3. \A A, B : A \subseteq B => Seq(A) \subseteq Seq(B)
    OBVIOUS
  <2> QED BY <1>3, <2>1, <2>2, <2>3
<1> HIDE DEF T
<1>6. number \in Seq(T) /\ Len(number) = k + d /\ \A i \in 1..k : number[i] = sign[i]
  <2>1. sign \o holes \in Seq(T) /\ Len(sign \o holes) = Len(sign) + Len(holes)
        /\ \A i \in 1..Len(sign) : (sign \o holes)[i] = sign[i]
    BY <1>5, ConcatIs
  <2> QED BY <1>1, <1>3, <1>4, <2>1
<1>7. PICK r : r = StoreBack([text |-> number, last |-> k + d], s)
  OBVIOUS
<1>8. r = [i \in 1..k + d |-> IF i > k /\ i <= k + d THEN s[k + d + 1 - i] ELSE number[i]]
  <2>1. DOMAIN number = 1..k + d /\ k + d - Len(s) = k
    BY <1>1, <1>6
  <2> QED BY <1>1, <1>7, <2>1 DEF StoreBack
<1>9. PICK w : w = sign \o t
  OBVIOUS
<1>10. w \in Seq(T) /\ Len(w) = k + d /\ (\A i \in 1..k : w[i] = sign[i])
       /\ \A i \in 1..d : w[k + i] = t[i]
  <2>1. sign \o t \in Seq(T) /\ Len(sign \o t) = Len(sign) + Len(t)
        /\ (\A i \in 1..Len(sign) : (sign \o t)[i] = sign[i])
        /\ \A i \in 1..Len(t) : (sign \o t)[Len(sign) + i] = t[i]
    BY <1>5, ConcatIs
  <2> QED BY <1>1, <1>9, <2>1
<1>11. ASSUME NEW i \in 1..k + d PROVE r[i] = w[i]
  <2>1. CASE i <= k
    BY <1>1, <1>6, <1>8, <1>10, <2>1
  <2>2. CASE i > k
    <3>1. PICK j \in 1..d : i = k + j
      <4>1. i - k \in 1..d /\ i = k + (i - k)
        BY <1>1, <2>2
      <4> QED BY <4>1
    <3>2. r[i] = s[d + 1 - j]
      <4>1. k + d + 1 - i = d + 1 - j /\ i <= k + d
        BY <1>1, <3>1
      <4> QED BY <1>8, <2>2, <4>1
    <3>3. d + 1 - j \in 1..d /\ d + 1 - (d + 1 - j) = j
      BY <1>1
    <3>4. s[d + 1 - j] = t[j]
      BY <1>1, <3>3 DEF Backwards
    <3> QED BY <1>10, <3>1, <3>2, <3>4
  <2> QED BY <1>1, <2>1, <2>2
<1>12. w = [i \in 1..k + d |-> w[i]]
  BY <1>10
<1> QED BY <1>1, <1>2, <1>4, <1>7, <1>8, <1>9, <1>11, <1>12
-----------------------------------------------------------------------------
(* What one field writes *)

\* The specification of {}, {:d} or {:s}, and the field that it belongs to.
FieldType == {End, "d", "s"}
FieldSpec(t) == [DefaultSpec EXCEPT !.type = t]
Field(t) == [Plain EXCEPT !.type = t]

\* What a text can be made of, and the arguments that the program logs: numbers of
\* 64 bits and strings.
Printable == Sign \ {End, "refused", "null pointer"}
Magnitude(v) == IF v < 0 THEN -v ELSE v
Argument ==
  [type : IntTypes, value : {v \in Int : BitLength(Magnitude(v)) <= 64}]
    \cup [type : {"STRING"}, value : Seq(Printable)]
    \cup [type : {"CSTRING"}, value : Seq(Printable) \cup {Null}]

IntText(v) == (IF v < 0 THEN <<"-">> ELSE <<>>) \o Decimal(Magnitude(v))

\* The characters of a number can be printed.
LEMMA IntTextType ==
  ASSUME NEW v \in Int
  PROVE  IntText(v) \in Seq(Printable) /\ Magnitude(v) \in Nat
<1>1. Magnitude(v) \in Nat
  BY DEF Magnitude
<1>2. PICK s \in Seq(Digit) : s = Decimal(Magnitude(v))
  BY <1>1, DecimalLength
<1>3. Digit \subseteq Printable /\ "-" \in Printable
  BY DEF Digit, Printable, Sign, End
<1>4. s \in Seq(Printable)
  BY <1>3
<1>5. PICK sign \in Seq(Printable) : sign = IF v < 0 THEN <<"-">> ELSE <<>>
  <2>1. <<"-">> \in Seq(Printable) /\ <<>> \in Seq(Printable)
    BY <1>3
  <2> QED BY <2>1
<1>6. sign \o s \in Seq(Printable)
  BY <1>4
<1> QED BY <1>1, <1>2, <1>5, <1>6 DEF IntText

\* The parts of a specification.
LEMMA SpecIs ==
  ASSUME NEW t
  PROVE  /\ FieldSpec(t).type = t /\ FieldSpec(t).width = 0 /\ FieldSpec(t).precision = -1
         /\ FieldSpec(t).flags = {} /\ FieldSpec(t).align = "default"
         /\ Field(t).type = t /\ Field(t).width = -1 /\ Field(t).precision = -1
         /\ Field(t).sign = "" /\ Field(t).hash = FALSE /\ Field(t).zero = FALSE
         /\ Field(t).align = "" /\ Field(t).fill = "" /\ Field(t).index = -1
         /\ Field(t).nested = FALSE /\ Field(t).kind = "field"
  BY DEF FieldSpec, DefaultSpec, Field, Plain

\* A number is written with its sign and its digits.
LEMMA WriteIntIs ==
  ASSUME NEW v \in Int, BitLength(Magnitude(v)) <= 64, NEW t \in {End, "d"}
  PROVE  WriteInt(v, FieldSpec(t)) = IntText(v)
<1>1. PICK n \in Nat : n = Magnitude(v)
  BY IntTextType
<1>2. PICK s, d : s = DecimalDigits(n) /\ d = Decimal(n) /\ Backwards(s, d)
  BY DecimalIsNumeral
<1>3. PICK sign : sign = IF v < 0 THEN <<"-">> ELSE <<>>
  OBVIOUS
<1>4. sign \in Seq(Sign)
  <2>1. "-" \in Sign
    BY DEF Sign
  <2> QED BY <1>3, <2>1
<1>5. CountDigits(n) = Len(d) /\ Len(d) \in Nat
  BY <1>1, <1>2, CountDigitsIs DEF Backwards
<1>6. FormatDecimal(n, <<>>) = s
  BY <1>2, FormatDecimalIs
<1>7. PICK spec : spec = FieldSpec(t)
  OBVIOUS
<1>8. spec.type = t /\ spec.width = 0 /\ spec.flags = {}
  BY <1>7, SpecIs
<1>9. WriteInt(v, spec) = StoreBack(PrepareIntBuffer(Len(d), spec, sign), s)
  <2>1. spec.type \in {End, "d"} /\ "sign" \notin spec.flags
    BY <1>8
  <2>2. n = IF v < 0 THEN -v ELSE v
    BY <1>1 DEF Magnitude
  <2> DEFINE m == IF v < 0 THEN -v ELSE v
             lead == IF v < 0 THEN <<"-">>
                     ELSE IF "sign" \in spec.flags
                     THEN IF "plus" \in spec.flags THEN <<"+">> ELSE <<" ">>
                     ELSE <<>>
  <2>3. WriteInt(v, spec) =
          StoreBack(PrepareIntBuffer(CountDigits(m), spec, lead), FormatDecimal(m, <<>>))
    <3>1. /\ spec.type # "x" /\ spec.type # "X" /\ spec.type \notin {"b", "B"}
          /\ spec.type # "o" /\ spec.type # "n"
      BY <2>1 DEF End
    <3> QED BY <2>1, <3>1, Zenon DEF WriteInt
  <2>4. lead = sign
    BY <1>3, <2>1
  <2> HIDE DEF m, lead
  <2>5. m = n
    BY <2>2 DEF m
  <2> QED BY <1>5, <1>6, <2>3, <2>4, <2>5
<1>10. PICK number : number = sign \o Copies(Hole, Len(d))
  OBVIOUS
<1>11. Len(number) = Len(sign) + Len(d) /\ Len(sign) \in Nat
  <2> DEFINE T == Sign \cup {Hole}
  <2>1. PICK holes : holes = Copies(Hole, Len(d))
    OBVIOUS
  <2>2. holes \in Seq(T) /\ Len(holes) = Len(d)
    BY <1>5, <2>1 DEF Copies
  <2>3. sign \in Seq(T)
    BY <1>4
  <2> HIDE DEF T
  <2>4. Len(sign \o holes) = Len(sign) + Len(holes) /\ Len(sign) \in Nat
    BY <2>2, <2>3
  <2> QED BY <1>10, <2>1, <2>2, <2>4
<1>12. PrepareIntBuffer(Len(d), spec, sign) = [text |-> number, last |-> Len(sign) + Len(d)]
  <2>1. spec.width - Len(number) <= 0 /\ ~(spec.width - Len(number) > 0)
    BY <1>5, <1>8, <1>11
  <2> QED BY <1>10, <1>11, <2>1 DEF PrepareIntBuffer
<1>13. WriteInt(v, spec) = sign \o d
  BY <1>2, <1>4, <1>9, <1>10, <1>12, StoredBack
<1> QED BY <1>1, <1>2, <1>3, <1>7, <1>13 DEF IntText

\* What a field shows of a number, and of a string.
LEMMA ShownIs ==
  ASSUME NEW a \in Argument, NEW t \in FieldType
  PROVE  /\ a.type \in IntTypes /\ t # "s" =>
              Shows(Field(t), a) /\ Shown(Field(t), a, 0) = IntText(a.value)
         /\ a.type \in IntTypes /\ t = "s" => ~Shows(Field(t), a)
         /\ a.type \notin IntTypes /\ t # "d" /\ a.value # Null =>
              Shows(Field(t), a) /\ Shown(Field(t), a, 0) = a.value
         /\ a.type \notin IntTypes /\ (t = "d" \/ a.value = Null) => ~Shows(Field(t), a)
<1> PICK f : f = Field(t)
  OBVIOUS
<1>1. /\ f.type = t /\ f.width = -1 /\ f.precision = -1 /\ f.sign = "" /\ f.hash = FALSE
      /\ f.zero = FALSE /\ f.align = "" /\ f.fill = ""
  BY SpecIs
<1>2. t \in {"", "d", "s"}
  BY DEF FieldType, End
<1>3. a.type \notin IntTypes => a.type \in {"STRING", "CSTRING"} /\ (a.value # Null => a.value \in Seq(Printable))
  BY DEF Argument
<1>4. a.type \in IntTypes => a.value \in Int
  BY DEF Argument, IntTypes
<1>5. /\ ~(f.align = "=" \/ f.sign # "" \/ f.hash \/ f.zero) /\ ~(f.sign # "")
      /\ ~(f.precision >= 0)
  <2>1. ~f.hash /\ ~f.zero
    BY <1>1, Zenon
  <2>2. ~(f.align = "=") /\ ~(f.sign # "")
    BY <1>1
  <2>3. PICK n \in Int : n = f.precision /\ n = -1
    <3>1. f.precision = -1
      BY <1>1, Zenon
    <3>2. -1 \in Int
      OBVIOUS
    <3> QED BY <3>1, <3>2, Zenon
  <2>4. ~(f.precision >= 0)
    <3>1. ~(n >= 0)
      BY <2>3
    <3> QED BY <2>3, <3>1
  <2> QED BY <2>1, <2>2, <2>4, Zenon
<1>6. ASSUME a.type \in IntTypes PROVE Shows(f, a) <=> t # "s"
  <2>1. a.type # "BOOL" /\ a.type # "CHAR" /\ a.type \notin {"STRING", "CSTRING"}
    BY <1>6 DEF IntTypes
  <2>2. Shows(f, a) <=> f.type \in IntegerCodes \cup {""}
    BY <1>5, <1>6, <2>1, Zenon DEF Shows
  <2> QED BY <1>1, <1>2, <2>2 DEF IntegerCodes
<1>7. ASSUME a.type \notin IntTypes PROVE Shows(f, a) <=> t # "d" /\ a.value # Null
  <2>1. a.type # "BOOL" /\ a.type # "CHAR" /\ a.type \in {"STRING", "CSTRING"}
    BY <1>3, <1>7
  <2>2. Shows(f, a) <=> f.type \in {"", "s"} /\ a.value # Null
    BY <1>5, <1>7, <2>1, Zenon DEF Shows
  <2> QED BY <1>1, <1>2, <2>2
<1>8. ASSUME NEW s \in Seq(Printable), Parts(f, a) = [lead |-> <<>>, rest |-> s] \/
             \E u \in Seq(Printable), w \in Seq(Printable) :
               s = u \o w /\ Parts(f, a) = [lead |-> u, rest |-> w]
      PROVE  Shown(f, a, 0) = s
  <2>1. PICK u \in Seq(Printable), w \in Seq(Printable) :
          s = u \o w /\ Parts(f, a).lead = u /\ Parts(f, a).rest = w
    <3>1. <<>> \in Seq(Printable) /\ <<>> \o s = s
      OBVIOUS
    <3>2. CASE Parts(f, a) = [lead |-> <<>>, rest |-> s]
      <4>1. Parts(f, a).lead = <<>> /\ Parts(f, a).rest = s
        BY <3>2
      <4> QED BY <3>1, <4>1
    <3>3. CASE \E u \in Seq(Printable), w \in Seq(Printable) :
                 s = u \o w /\ Parts(f, a) = [lead |-> u, rest |-> w]
      BY <3>3
    <3> QED BY <1>8, <3>2, <3>3
  <2>2. PICK none : none = Copies(" ", 0)
    OBVIOUS
  <2>3. none = <<>>
    BY <2>2 DEF Copies
  <2>4. PICK align : align = IF ShownAsNumber(f, a) THEN ">" ELSE "<"
    OBVIOUS
  <2>5. align \in {">", "<"}
    BY <2>4
  <2>6. ~(0 > Len(s))
    OBVIOUS
  <2>7. s \o none = s /\ none \o s = s
    BY <2>3
  <2>8. Shown(f, a, 0) = IF align = "<" THEN s \o none ELSE none \o s
    <3>1. Shown(f, a, 0) = CASE align = "<" -> s \o none
                             [] align = ">" -> none \o s
                             [] align = "^" -> Copies(" ", 0 \div 2) \o s \o Copies(" ", 0 - 0 \div 2)
                             [] align = "=" -> u \o none \o w
      BY <1>1, <2>1, <2>2, <2>4, <2>6 DEF Shown
    <3> QED BY <2>5, <3>1
  <2> QED BY <2>7, <2>8
<1>9. ASSUME a.type \in IntTypes, t # "s" PROVE Shown(f, a, 0) = IntText(a.value)
  <2>1. ShownAsNumber(f, a)
    BY <1>9 DEF ShownAsNumber
  <2>2. PICK v \in Int : v = a.value
    BY <1>4, <1>9
  <2>3. PICK sign : sign = IF v < 0 THEN <<"-">> ELSE <<>>
    OBVIOUS
  <2>4. sign \in Seq(Printable)
    <3>1. "-" \in Printable
      BY DEF Printable, Sign, End
    <3> QED BY <2>3, <3>1
  <2>5. PICK d \in Seq(Printable) : d = Decimal(Magnitude(v))
    <3>1. Decimal(Magnitude(v)) \in Seq(Digit)
      BY <2>2, IntTextType, DecimalLength
    <3>2. Digit \subseteq Printable
      BY DEF Digit, Printable, Sign, End
    <3> QED BY <3>1, <3>2
  <2>6. Lead(f, v) = sign
    <3>1. Lead(f, v) = sign \o <<>> \o <<>>
      BY <1>1, <2>3 DEF Lead, If
    <3> QED BY <2>4, <3>1
  <2>7. Parts(f, a) = [lead |-> sign, rest |-> d]
    <3>1. a.type # "BOOL" /\ a.type # "CHAR"
      BY <1>9 DEF IntTypes
    <3>2. f.type \notin {"x", "X"} /\ f.type \notin {"b", "B"} /\ f.type # "o" /\ f.type # "X" /\ f.type # "n"
      BY <1>1, <1>2
    <3>3. Numeral(Magnitude(v), 10, LowerCase) = d
      BY <2>5 DEF Decimal
    <3> QED BY <2>1, <2>2, <2>6, <3>1, <3>2, <3>3 DEF Parts, Magnitude
  <2>8. IntText(v) = sign \o d /\ IntText(v) \in Seq(Printable)
    BY <2>3, <2>5, IntTextType DEF IntText
  <2> QED BY <1>8, <2>2, <2>4, <2>5, <2>7, <2>8
<1>10. ASSUME a.type \notin IntTypes, t # "d", a.value # Null PROVE Shown(f, a, 0) = a.value
  <2>1. PICK s \in Seq(Printable) : s = a.value
    BY <1>3, <1>10
  <2>2. a.type # "BOOL" /\ a.type # "CHAR" /\ ~ShownAsNumber(f, a)
    BY <1>3, <1>10 DEF ShownAsNumber
  <2>3. f.precision \notin 0..Len(s)
    <3>1. PICK n \in Int : n = f.precision /\ n = -1
      <4>1. f.precision = -1
        BY <1>1, Zenon
      <4>2. -1 \in Int
        OBVIOUS
      <4> QED BY <4>1, <4>2, Zenon
    <3>2. n \notin 0..Len(s)
      BY <3>1
    <3> QED BY <3>1, <3>2
  <2>4. Parts(f, a) = [lead |-> <<>>, rest |-> s]
    BY <2>1, <2>2, <2>3 DEF Parts
  <2> QED BY <1>8, <2>1, <2>4
<1> QED BY <1>6, <1>7, <1>9, <1>10

\* A string is written as it is.
LEMMA WriteStringIs ==
  ASSUME NEW s \in Seq(Printable), NEW t \in {End, "s"}
  PROVE  WriteString(s, FieldSpec(t)) = s
<1>1. PICK spec : spec = FieldSpec(t)
  OBVIOUS
<1>2. spec.type = t /\ spec.width = 0
  BY <1>1, SpecIs
<1>3. spec.precision \notin 0..(Len(s) - 1)
  <2>1. spec.precision = -1
    BY <1>1, SpecIs, Zenon
  <2>2. -1 \notin 0..(Len(s) - 1)
    OBVIOUS
  <2> QED BY <2>1, <2>2
<1>4. spec.width - Len(s) <= 0 /\ ~(spec.width - Len(s) > 0)
  BY <1>2
<1>5. WriteStr(s, spec) = s
  BY <1>4 DEF WriteStr
<1>6. spec.type \in {End, "s"}
  BY <1>2
<1> QED BY <1>1, <1>3, <1>5, <1>6, Zenon DEF WriteString

\* No text is an exception.
LEMMA RefusedIsNoText == Refused \notin Seq(Printable)
<1> SUFFICES ASSUME NEW s \in Seq(Printable), s = <<"refused">> PROVE FALSE
  BY DEF Refused
<1>1. 1 \in DOMAIN s /\ s[1] = "refused"
  OBVIOUS
<1>2. "refused" \in Printable
  BY <1>1
<1> QED BY <1>2 DEF Printable

\* Nor is the null pointer.
LEMMA NullIsNoText == Null \notin Seq(Printable)
<1>1. PICK x : x = "null pointer" /\ Null = <<x>>
  BY Zenon DEF Null
<1>2. x \notin Printable
  BY <1>1, Zenon DEF Printable
<1>3. Null = <<x>>
  BY <1>1, Zenon
<1>4. \A s \in Seq(Printable) : s = <<x>> => x \in Printable
  <2> SUFFICES ASSUME NEW s \in Seq(Printable), s = <<x>> PROVE x \in Printable
    OBVIOUS
  <2>1. 1 \in DOMAIN s /\ s[1] = x
    OBVIOUS
  <2> QED BY <2>1
<1> QED BY <1>2, <1>3, <1>4

\* A field writes what it shows, and refuses what it cannot show.
LEMMA VisitIs ==
  ASSUME NEW a \in Argument, NEW t \in FieldType
  PROVE  /\ Shows(Field(t), a) =>
              /\ Visit(a, FieldSpec(t)) = Shown(Field(t), a, 0)
              /\ Shown(Field(t), a, 0) \in Seq(Printable)
         /\ ~Shows(Field(t), a) => Visit(a, FieldSpec(t)) = Refused
<1>1. t \in {"", "d", "s"} /\ End = ""
  BY DEF FieldType, End
<1>2. ASSUME a.type \in IntTypes
      PROVE  Visit(a, FieldSpec(t)) = WriteInt(a.value, FieldSpec(t))
  <2>1. a.type # "BOOL" /\ a.type # "CHAR" /\ a.type # "CSTRING" /\ a.type # "STRING"
    BY <1>2 DEF IntTypes
  <2> QED BY <1>2, <2>1, Zenon DEF Visit
<1>3. CASE a.type \in IntTypes /\ t # "s"
  <2>1. PICK v \in Int : v = a.value /\ BitLength(Magnitude(v)) <= 64
    BY <1>3 DEF Argument, IntTypes
  <2>2. t \in {End, "d"}
    BY <1>1, <1>3
  <2>3. WriteInt(v, FieldSpec(t)) = IntText(v)
    BY <2>1, <2>2, WriteIntIs
  <2>4. Shows(Field(t), a) /\ Shown(Field(t), a, 0) = IntText(v)
    BY <1>3, <2>1, ShownIs
  <2>5. IntText(v) \in Seq(Printable)
    BY IntTextType
  <2> QED BY <1>2, <1>3, <2>1, <2>3, <2>4, <2>5
<1>4. CASE a.type \in IntTypes /\ t = "s"
  <2>1. PICK spec : spec = FieldSpec(t)
    OBVIOUS
  <2>2. spec.type = "s"
    BY <1>4, <2>1, SpecIs
  <2>3. /\ spec.type \notin {End, "d"} /\ spec.type # "x" /\ spec.type # "X"
        /\ spec.type \notin {"b", "B"} /\ spec.type # "o" /\ spec.type # "n"
    BY <1>1, <2>2
  <2>4. WriteInt(a.value, spec) = Refused
    BY <2>3, Zenon DEF WriteInt
  <2>5. ~Shows(Field(t), a)
    BY <1>4, ShownIs
  <2> QED BY <1>2, <1>4, <2>1, <2>4, <2>5
<1>5. ASSUME a.type \notin IntTypes
      PROVE  /\ a.value # Null => /\ a.value \in Seq(Printable)
                                  /\ Visit(a, FieldSpec(t)) = WriteString(a.value, FieldSpec(t))
             /\ a.value = Null => Visit(a, FieldSpec(t)) = Refused
  <2>1. a.type \in {"STRING", "CSTRING"} /\ (a.value # Null => a.value \in Seq(Printable))
        /\ (a.type = "STRING" => a.value \in Seq(Printable))
    BY <1>5 DEF Argument
  <2>2. a.value = Null => a.type = "CSTRING"
    BY <2>1, NullIsNoText
  <2>3. a.type # "BOOL" /\ a.type # "CHAR"
    BY <2>1
  <2>4. CASE a.type = "STRING"
    <3>1. a.type # "CSTRING"
      BY <2>4
    <3>2. Visit(a, FieldSpec(t)) = WriteString(a.value, FieldSpec(t))
      BY <1>5, <2>3, <2>4, <3>1, Zenon DEF Visit
    <3> QED BY <2>1, <2>2, <3>1, <3>2
  <2>5. CASE a.type = "CSTRING"
    <3>1. a.type # "STRING"
      BY <2>5
    <3>2. Visit(a, FieldSpec(t)) = IF a.value = Null THEN Refused ELSE WriteString(a.value, FieldSpec(t))
      BY <1>5, <2>3, <2>5, <3>1, Zenon DEF Visit
    <3> QED BY <2>1, <3>2
  <2> QED BY <2>1, <2>4, <2>5
<1>6. CASE a.type \notin IntTypes /\ t # "d" /\ a.value # Null
  <2>1. t \in {End, "s"}
    BY <1>1, <1>6
  <2>2. WriteString(a.value, FieldSpec(t)) = a.value
    BY <1>5, <1>6, <2>1, WriteStringIs
  <2>3. Shows(Field(t), a) /\ Shown(Field(t), a, 0) = a.value
    BY <1>6, ShownIs
  <2> QED BY <1>5, <1>6, <2>2, <2>3
<1>7. CASE a.type \notin IntTypes /\ (t = "d" \/ a.value = Null)
  <2>1. ~Shows(Field(t), a)
    BY <1>7, ShownIs
  <2>2. t = "d" => WriteString(a.value, FieldSpec(t)) = Refused
    <3>1. FieldSpec(t).type = t
      BY SpecIs
    <3>2. t = "d" => t \notin {End, "s"}
      BY <1>1
    <3> QED BY <3>1, <3>2, Zenon DEF WriteString
  <2> QED BY <1>5, <1>7, <2>1, <2>2
<1> QED BY <1>3, <1>4, <1>6, <1>7
-----------------------------------------------------------------------------
(* The parser on the fields that the program uses *)

\* The parser behind character o - 1 and argument k - 1, with what it got last.
ParserOf(fmt, args, o, k, got, spec, error) ==
  [fmt |-> fmt, args |-> args, at |-> o, next |-> k, got |-> got, spec |-> spec, error |-> error]
Reading(fmt, args, o, k, got, spec) == ParserOf(fmt, args, o, k, got, spec, FALSE)

OpenBrace == "{"
CloseBrace == "}"
Colon == ":"

\* The characters of w follow character o of fmt.
Follows(fmt, o, w) == o + Len(w) <= Len(fmt) /\ \A j \in 1..Len(w) : fmt[o + j] = w[j]

\* What the parser reads, and where it is after n characters more.
ReadingLaws(fmt, args, o, k, got, spec, n) ==
  LET p == Reading(fmt, args, o, k, got, spec)
  IN  /\ Skip(p, n) = Reading(fmt, args, o + n, k, got, spec)
      /\ CharAt(p, n) = (IF n <= Len(fmt) THEN fmt[n] ELSE End)
      /\ Char(p) = (IF o <= Len(fmt) THEN fmt[o] ELSE End)
      /\ p.fmt = fmt /\ p.at = o /\ p.got = got /\ p.spec = spec /\ p.args = args /\ p.next = k
      /\ [p EXCEPT !.next = @ + 1] = Reading(fmt, args, o, k + 1, got, spec)
      /\ [p EXCEPT !.got = n] = Reading(fmt, args, o, k, n, spec)
      /\ [p EXCEPT !.spec = n] = Reading(fmt, args, o, k, got, n)
      /\ ~p.error /\ Fail(p).error /\ [Fail(p) EXCEPT !.next = @ + 1].error

\* The parser reads the next characters, and goes over them.
LEMMA ReadingIs ==
  ASSUME NEW fmt, NEW args, NEW o, NEW k, NEW got, NEW spec, NEW n
  PROVE  ReadingLaws(fmt, args, o, k, got, spec, n)
<1>1. PICK no, yes : no = FALSE /\ yes = TRUE
  OBVIOUS
<1>2. PICK p : p = ParserOf(fmt, args, o, k, got, spec, no)
  OBVIOUS
<1>3. /\ p.fmt = fmt /\ p.at = o /\ p.got = got /\ p.spec = spec /\ p.error = no
      /\ p.args = args /\ p.next = k
  BY <1>2 DEF ParserOf
<1>4. Skip(p, n) = ParserOf(fmt, args, o + n, k, got, spec, no)
  BY <1>2 DEF ParserOf, Skip
<1>5. /\ [p EXCEPT !.next = @ + 1] = ParserOf(fmt, args, o, k + 1, got, spec, no)
      /\ [p EXCEPT !.got = n] = ParserOf(fmt, args, o, k, n, spec, no)
      /\ [p EXCEPT !.spec = n] = ParserOf(fmt, args, o, k, got, n, no)
      /\ [p EXCEPT !.error = yes].error = yes
      /\ [[p EXCEPT !.error = yes] EXCEPT !.next = @ + 1].error = yes
  BY <1>2 DEF ParserOf
<1>6. /\ CharAt(p, n) = (IF n <= Len(fmt) THEN fmt[n] ELSE End)
      /\ Char(p) = (IF o <= Len(fmt) THEN fmt[o] ELSE End)
  BY <1>3 DEF CharAt, Char
<1>7. Fail(p).error /\ [Fail(p) EXCEPT !.next = @ + 1].error
  <2>1. Fail(p) = [p EXCEPT !.error = yes]
    BY <1>1, Zenon DEF Fail
  <2>2. Fail(p).error = yes /\ [Fail(p) EXCEPT !.next = @ + 1].error = yes
    BY <1>5, <2>1, Zenon
  <2> QED BY <1>1, <2>2, Zenon
<1>8. ~p.error
  BY <1>1, <1>3, Zenon
<1>9. \A f, a, x, y, g, s : Reading(f, a, x, y, g, s) = ParserOf(f, a, x, y, g, s, no)
  BY <1>1, Zenon DEF Reading
<1> QED BY <1>2, <1>3, <1>4, <1>5, <1>6, <1>7, <1>8, <1>9, Zenon DEF ReadingLaws

\* A field takes the next argument, if there is one.
LEMMA ParseArgIs ==
  ASSUME NEW fmt, NEW args, NEW o, NEW k \in Nat, NEW got, NEW spec, Len(args) \in Nat,
         Char(Reading(fmt, args, o, k, got, spec)) \in {CloseBrace, Colon}
  PROVE  /\ k < Len(args) =>
              ParseArg(Reading(fmt, args, o, k, got, spec)) = Reading(fmt, args, o, k + 1, args[k + 1], spec)
         /\ ~(k < Len(args)) => ParseArg(Reading(fmt, args, o, k, got, spec)).error
<1>1. PICK p : p = Reading(fmt, args, o, k, got, spec)
  OBVIOUS
<1>2. ~IsNameStart(Char(p)) /\ ~IsDigit(Char(p))
  <2>1. Char(p) \notin Letters
    BY <1>1, Zenon DEF Letters, CloseBrace, Colon
  <2>2. Char(p) \notin DOMAIN DigitOf
    <3>1. DOMAIN DigitOf = {"0", "1", "2", "3", "4", "5", "6", "7", "8", "9"}
      BY Zenon DEF DigitOf
    <3> QED BY <1>1, <3>1, Zenon DEF CloseBrace, Colon
  <2> QED BY <2>1, <2>2, Zenon DEF IsNameStart, IsDigit
<1>3. ParseArg(p) = NextArg(p)
  BY <1>2, Zenon DEF ParseArg, ParseArgIndex
<1>4. ReadingLaws(fmt, args, o, k, got, spec, args[k + 1]) /\ k >= 0
  <2>1. k >= 0
    OBVIOUS
  <2>2. ReadingLaws(fmt, args, o, k, got, spec, args[k + 1])
    BY ReadingIs, Zenon
  <2> QED BY <2>1, <2>2, Zenon
<1>5. p.args = args /\ p.next = k
  BY <1>1, <1>4, Zenon DEF ReadingLaws
<1>6. NextArg(p) = [DoGetArg(p, k) EXCEPT !.next = @ + 1]
  BY <1>4, <1>5, Zenon DEF NextArg
<1>7. CASE k < Len(args)
  <2>1. DoGetArg(p, k) = [p EXCEPT !.got = args[k + 1]]
    BY <1>5, <1>7, Zenon DEF DoGetArg
  <2>2. DoGetArg(p, k) = Reading(fmt, args, o, k, args[k + 1], spec)
    BY <1>1, <1>4, <2>1, Zenon DEF ReadingLaws
  <2>3. ReadingLaws(fmt, args, o, k, args[k + 1], spec, 0)
    BY ReadingIs
  <2>4. [DoGetArg(p, k) EXCEPT !.next = @ + 1] = Reading(fmt, args, o, k + 1, args[k + 1], spec)
    BY <2>2, <2>3, Zenon DEF ReadingLaws
  <2> QED BY <1>1, <1>3, <1>6, <1>7, <2>4, Zenon
<1>8. CASE ~(k < Len(args))
  <2>1. DoGetArg(p, k) = Fail(p)
    BY <1>5, <1>8, Zenon DEF DoGetArg
  <2>2. [Fail(p) EXCEPT !.next = @ + 1].error
    BY <1>1, <1>4, Zenon DEF ReadingLaws
  <2>3. NextArg(p).error
    BY <1>6, <2>1, <2>2, Zenon
  <2> QED BY <1>1, <1>3, <1>8, <2>3, Zenon
<1> QED BY <1>7, <1>8, Zenon

\* The specifications, with a type or without.
LEMMA FieldSpecIs ==
  /\ FieldSpec(End) = DefaultSpec
  /\ \A t : [DefaultSpec EXCEPT !.type = t] = FieldSpec(t)
<1>1. PICK a, b, c, d, e, f : /\ a = "default" /\ b = " " /\ c = {} /\ d = 0 /\ e = -1 /\ f = End
                              /\ DefaultSpec = [align |-> a, fill |-> b, flags |-> c, width |-> d,
                                                precision |-> e, type |-> f]
  BY Zenon DEF DefaultSpec
<1>2. DefaultSpec = [align |-> a, fill |-> b, flags |-> c, width |-> d, precision |-> e, type |-> f]
  BY <1>1, Zenon
<1>3. [DefaultSpec EXCEPT !.type = f] = DefaultSpec
  BY <1>2
<1>4. f = End
  BY <1>1, Zenon
<1> QED BY <1>3, <1>4, Zenon DEF FieldSpec

\* Without a colon nothing is specified.
LEMMA ParseNoSpec ==
  ASSUME NEW fmt, NEW args, NEW o, NEW k, NEW got, NEW spec,
         Char(Reading(fmt, args, o, k, got, spec)) = CloseBrace
  PROVE  ParseSpec(Reading(fmt, args, o, k, got, spec)) = Reading(fmt, args, o + 1, k, got, FieldSpec(End))
<1>1. PICK p : p = Reading(fmt, args, o, k, got, spec)
  OBVIOUS
<1>2. PICK q : q = Reading(fmt, args, o, k, got, DefaultSpec)
  OBVIOUS
<1>3. ReadingLaws(fmt, args, o, k, got, spec, DefaultSpec) /\ ReadingLaws(fmt, args, o, k, got, DefaultSpec, 1)
  BY ReadingIs
<1>4. [p EXCEPT !.spec = DefaultSpec] = q
  BY <1>1, <1>2, <1>3, Zenon DEF ReadingLaws
<1>5. Char(p) = CloseBrace /\ Char(q) = Char(p) /\ ~q.error
  BY <1>1, <1>2, <1>3, Zenon DEF ReadingLaws
<1>6. Char(p) # ":" /\ ~(Char(q) # "}")
  BY <1>5, Zenon DEF CloseBrace
<1>7. ParseSpec(p) = Skip(q, 1)
  BY <1>4, <1>5, <1>6, Zenon DEF ParseSpec, AtBrace
<1>8. Skip(q, 1) = Reading(fmt, args, o + 1, k, got, DefaultSpec)
  BY <1>2, <1>3, Zenon DEF ReadingLaws
<1> QED BY <1>1, <1>7, <1>8, FieldSpecIs, Zenon

\* Behind a colon a letter is the type, when the brace follows it.
LEMMA ParseTypeOnly ==
  ASSUME NEW fmt, NEW args, NEW o \in Nat, NEW k, NEW got, NEW t \in {"d", "s"},
         NEW len \in Nat, len = Len(fmt), o + 1 <= len, fmt[o] = t, fmt[o + 1] = CloseBrace
  PROVE  ParseParts(Reading(fmt, args, o, k, got, DefaultSpec)) = Reading(fmt, args, o + 1, k, got, FieldSpec(t))
<1>1. PICK p : p = Reading(fmt, args, o, k, got, DefaultSpec)
  OBVIOUS
<1>2. ReadingLaws(fmt, args, o, k, got, DefaultSpec, o + 1)
      /\ ReadingLaws(fmt, args, o, k, got, DefaultSpec, FieldSpec(t))
      /\ ReadingLaws(fmt, args, o, k, got, FieldSpec(t), 1)
  BY ReadingIs
<1>3. o <= len
  OBVIOUS
<1>4. Char(p) = t /\ CharAt(p, p.at + 1) = CloseBrace
  <2>1. Char(p) = t
    BY <1>1, <1>2, <1>3, Zenon DEF ReadingLaws
  <2>2. CharAt(p, o + 1) = CloseBrace
    BY <1>1, <1>2, Zenon DEF ReadingLaws
  <2>3. p.at = o
    BY <1>1, <1>2, Zenon DEF ReadingLaws
  <2> QED BY <2>1, <2>2, <2>3, Zenon
<1>5. DOMAIN AlignOf = {"<", ">", "=", "^"} /\ DOMAIN FlagsOf = {"+", "-", " "}
      /\ DOMAIN DigitOf = {"0", "1", "2", "3", "4", "5", "6", "7", "8", "9"}
  BY Zenon DEF AlignOf, FlagsOf, DigitOf
<1>6. /\ CloseBrace \notin DOMAIN AlignOf /\ t \notin DOMAIN AlignOf /\ t \notin DOMAIN FlagsOf
      /\ t \notin DOMAIN DigitOf
  BY <1>5, Zenon DEF CloseBrace
<1>7. ParseAlign(p) = p
  BY <1>4, <1>6, Zenon DEF ParseAlign
<1>8. ParseSign(p) = p
  BY <1>4, <1>6, Zenon DEF ParseSign
<1>9. t # "#" /\ t # "0" /\ t # "{" /\ t # "." /\ t \notin {"}", End}
  BY Zenon DEF End
<1>10. ParseHash(p) = p /\ ParseZero(p) = p
  BY <1>4, <1>9, Zenon DEF ParseHash, ParseZero
<1>11. ParseWidth(p) = p /\ ParsePrecision(p) = p
  BY <1>4, <1>6, <1>9, Zenon DEF ParseWidth, ParsePrecision, IsDigit
<1>12. ParseType(p) = Skip([p EXCEPT !.spec.type = t], 1)
  BY <1>4, <1>9, Zenon DEF ParseType
<1>13. [p EXCEPT !.spec.type = t] = [p EXCEPT !.spec = [DefaultSpec EXCEPT !.type = t]]
  <2>1. p.spec = DefaultSpec
    BY <1>1, <1>2, Zenon DEF ReadingLaws
  <2> QED BY <2>1, Zenon
<1>14. [p EXCEPT !.spec.type = t] = Reading(fmt, args, o, k, got, FieldSpec(t))
  <2>1. [DefaultSpec EXCEPT !.type = t] = FieldSpec(t)
    BY FieldSpecIs, Zenon
  <2>2. [p EXCEPT !.spec = FieldSpec(t)] = Reading(fmt, args, o, k, got, FieldSpec(t))
    BY <1>1, <1>2, Zenon DEF ReadingLaws
  <2> QED BY <1>13, <2>1, <2>2, Zenon
<1>15. Skip(Reading(fmt, args, o, k, got, FieldSpec(t)), 1) = Reading(fmt, args, o + 1, k, got, FieldSpec(t))
  BY <1>2, Zenon DEF ReadingLaws
<1>16. ParseParts(p) = ParseType(p)
  <2>1. ParseSign(ParseAlign(p)) = p
    BY <1>7, <1>8, Zenon
  <2>2. ParseZero(ParseHash(ParseSign(ParseAlign(p)))) = p
    BY <1>10, <2>1, Zenon
  <2>3. ParsePrecision(ParseWidth(ParseZero(ParseHash(ParseSign(ParseAlign(p)))))) = p
    BY <1>11, <2>2, Zenon
  <2> QED BY <2>3, Zenon DEF ParseParts
<1> QED BY <1>1, <1>12, <1>14, <1>15, <1>16, Zenon

\* With a colon and a type.
LEMMA ParseTypeSpec ==
  ASSUME NEW fmt, NEW args, NEW o \in Nat, NEW k, NEW got, NEW spec, NEW t \in {"d", "s"},
         NEW len \in Nat, len = Len(fmt), o + 2 <= len,
         fmt[o] = Colon, fmt[o + 1] = t, fmt[o + 2] = CloseBrace
  PROVE  ParseSpec(Reading(fmt, args, o, k, got, spec)) = Reading(fmt, args, o + 3, k, got, FieldSpec(t))
<1>1. PICK p : p = Reading(fmt, args, o, k, got, spec)
  OBVIOUS
<1>2. PICK q : q = Reading(fmt, args, o, k, got, DefaultSpec)
  OBVIOUS
<1>3. PICK o1 \in Nat : o1 = o + 1
  OBVIOUS
<1>4. PICK r : r = Reading(fmt, args, o1 + 1, k, got, FieldSpec(t))
  OBVIOUS
<1>5. ReadingLaws(fmt, args, o, k, got, spec, DefaultSpec) /\ ReadingLaws(fmt, args, o, k, got, DefaultSpec, 1)
      /\ ReadingLaws(fmt, args, o1 + 1, k, got, FieldSpec(t), 1)
  BY ReadingIs
<1>6. o <= len /\ o1 + 1 = o + 2 /\ (o1 + 1) + 1 = o + 3
  BY <1>3
<1>7. [p EXCEPT !.spec = DefaultSpec] = q
  BY <1>1, <1>2, <1>5, Zenon DEF ReadingLaws
<1>8. Char(p) = Colon
  BY <1>1, <1>5, <1>6, Zenon DEF ReadingLaws
<1>9. Skip(q, 1) = Reading(fmt, args, o1, k, got, DefaultSpec)
  BY <1>2, <1>3, <1>5, Zenon DEF ReadingLaws
<1>10. ParseParts(Skip(q, 1)) = r
  <2>1. o1 + 1 <= len /\ fmt[o1] = t /\ fmt[o1 + 1] = CloseBrace
    BY <1>3, <1>6
  <2>2. ParseParts(Reading(fmt, args, o1, k, got, DefaultSpec)) = Reading(fmt, args, o1 + 1, k, got, FieldSpec(t))
    BY <2>1, ParseTypeOnly
  <2> QED BY <1>4, <1>9, <2>2, Zenon
<1>11. ~r.error /\ Char(r) = CloseBrace
  <2>1. o1 + 1 <= len /\ fmt[o1 + 1] = CloseBrace
    BY <1>6
  <2> QED BY <1>4, <1>5, <2>1, Zenon DEF ReadingLaws
<1>12. ParseSpec(p) = Skip(r, 1)
  <2>1. ~(Char(p) # ":") /\ ~(Char(r) # "}")
    BY <1>8, <1>11, Zenon DEF Colon, CloseBrace
  <2> QED BY <1>7, <1>10, <1>11, <2>1, Zenon DEF ParseSpec, AtBrace
<1>13. Skip(r, 1) = Reading(fmt, args, (o1 + 1) + 1, k, got, FieldSpec(t))
  BY <1>4, <1>5, Zenon DEF ReadingLaws
<1> QED BY <1>1, <1>6, <1>12, <1>13, Zenon

\* How the fields are spelled.
LEMMA FieldSpelled ==
  ASSUME NEW t \in FieldType
  PROVE  /\ t = End => Spelled(Field(t)) = <<OpenBrace>> \o <<CloseBrace>>
         /\ t # End => Spelled(Field(t)) = <<OpenBrace>> \o (<<Colon>> \o <<t>>) \o <<CloseBrace>>
<1>1. PICK f : f = Field(t)
  OBVIOUS
<1>2. PICK e : e = <<>>
  OBVIOUS
<1>3. /\ f.type = t /\ f.sign = "" /\ f.hash = FALSE /\ f.zero = FALSE /\ f.align = ""
      /\ f.fill = "" /\ f.nested = FALSE /\ f.kind = "field"
  BY <1>1, SpecIs, Zenon
<1>4. f.width = -1 /\ f.precision = -1 /\ f.index = -1
  BY <1>1, SpecIs, Zenon
<1>5. /\ Given(f.fill) = e /\ Given(f.align) = e /\ Given(f.sign) = e
      /\ If(f.hash, <<"#">>) = e /\ If(f.zero, <<"0">>) = e /\ If(f.nested, <<"{", "}">>) = e
  BY <1>2, <1>3, Zenon DEF Given, If
<1>6. -1 < 0 /\ ~(-1 >= 0)
  OBVIOUS
<1>7. Reverse(e) = e
  BY <1>2 DEF Reverse
<1>8. /\ Reverse(Number(f.width)) = e /\ Reverse(Number(f.precision)) = e
      /\ Reverse(Number(f.index)) = e
  BY <1>2, <1>4, <1>6, <1>7, Zenon DEF Number
<1>9. If(f.precision >= 0, <<".">>) = e
  BY <1>2, <1>4, <1>6, Zenon DEF If
<1>10. PICK g : g = Given(t)
  OBVIOUS
<1>11. g = IF t = End THEN e ELSE <<t>>
  BY <1>2, <1>10, Zenon DEF Given, End
<1>12. g \in Seq({t})
  <2>1. <<>> \in Seq({t}) /\ <<t>> \in Seq({t})
    OBVIOUS
  <2> QED BY <1>2, <1>11, <2>1, Zenon
<1>13. e \o e = e /\ e \o g = g
  BY <1>2, <1>12
<1>14. Spelled(f) = <<OpenBrace>> \o e \o If(g # <<>>, <<Colon>> \o g) \o <<CloseBrace>>
  <2>1. f.kind # "mistake" /\ f.kind # "text"
    BY <1>3
  <2> DEFINE spec == Given(f.fill) \o Given(f.align) \o Given(f.sign)
                     \o If(f.hash, <<"#">>) \o If(f.zero, <<"0">>)
                     \o Reverse(Number(f.width)) \o If(f.nested, <<"{", "}">>)
                     \o If(f.precision >= 0, <<".">>) \o Reverse(Number(f.precision))
                     \o Given(f.type)
  <2>2. Spelled(f) = <<"{">> \o Reverse(Number(f.index)) \o If(spec # <<>>, <<":">> \o spec) \o <<"}">>
    BY <1>3, <2>1, Zenon DEF Spelled
  <2>3. spec = e \o e \o e \o e \o e \o e \o e \o e \o e \o g
    BY <1>3, <1>5, <1>8, <1>9, <1>10, Zenon
  <2> HIDE DEF spec
  <2>4. spec = g
    BY <1>13, <2>3, Zenon
  <2> QED BY <1>8, <2>2, <2>4, Zenon DEF OpenBrace, CloseBrace, Colon
<1>15. <<OpenBrace>> \o e = <<OpenBrace>>
  <2>1. PICK x : x = OpenBrace
    OBVIOUS
  <2>2. <<x>> \o e = <<x>>
    BY <1>2
  <2> QED BY <2>1, <2>2, Zenon
<1>16. Spelled(f) = <<OpenBrace>> \o If(g # <<>>, <<Colon>> \o g) \o <<CloseBrace>>
  BY <1>14, <1>15, Zenon
<1>17. CASE t = End
  <2>1. If(g # <<>>, <<Colon>> \o g) = e
    BY <1>2, <1>11, <1>17, Zenon DEF If
  <2> QED BY <1>1, <1>15, <1>16, <1>17, <2>1, Zenon
<1>18. CASE t # End
  <2>1. g = <<t>>
    BY <1>11, <1>18, Zenon
  <2>2. g # <<>>
    BY <2>1
  <2> QED BY <1>1, <1>16, <1>18, <2>1, <2>2, Zenon DEF If
<1> QED BY <1>17, <1>18, Zenon

\* A field is Placed behind the first o characters.
Placed(fmt, o, t, n, len) ==
  /\ t = End => /\ n = 2 /\ o + 2 <= len
                /\ fmt[o + 1] = OpenBrace /\ fmt[o + 2] = CloseBrace
  /\ t # End => /\ n = 4 /\ o + 4 <= len
                /\ fmt[o + 1] = OpenBrace /\ fmt[o + 2] = Colon
                /\ fmt[o + 3] = t /\ fmt[o + 4] = CloseBrace

\* The places of the characters of a field.
LEMMA FieldPlaces ==
  ASSUME NEW fmt, NEW o \in Nat, NEW len \in Nat, len = Len(fmt), NEW t \in FieldType,
         Follows(fmt, o, Spelled(Field(t)))
  PROVE  Placed(fmt, o, t, Len(Spelled(Field(t))), len)
<1>1. PICK w : w = Spelled(Field(t))
  OBVIOUS
<1>2. PICK x, y, z : x = OpenBrace /\ y = CloseBrace /\ z = Colon
  OBVIOUS
<1>3. o + Len(w) <= len /\ \A j \in 1..Len(w) : fmt[o + j] = w[j]
  BY <1>1 DEF Follows
<1>4. CASE t = End
  <2>1. w = <<x>> \o <<y>>
    BY <1>1, <1>2, <1>4, FieldSpelled, Zenon
  <2>2. Len(w) = 2 /\ w[1] = x /\ w[2] = y
    BY <2>1
  <2>3. 1 \in 1..Len(w) /\ 2 \in 1..Len(w)
    BY <2>2
  <2>4. fmt[o + 1] = x /\ fmt[o + 2] = y /\ o + 2 <= len
    BY <1>3, <2>2, <2>3
  <2> QED BY <1>1, <1>2, <1>4, <2>2, <2>4, Zenon DEF Placed
<1>5. CASE t # End
  <2>1. w = <<x>> \o (<<z>> \o <<t>>) \o <<y>>
    BY <1>1, <1>2, <1>5, FieldSpelled, Zenon
  <2>2. Len(w) = 4 /\ w[1] = x /\ w[2] = z /\ w[3] = t /\ w[4] = y
    <3>1. PICK u : u = <<z>> \o <<t>>
      OBVIOUS
    <3>2. PICK v : v = <<x>> \o u
      OBVIOUS
    <3>3. w = v \o <<y>>
      BY <2>1, <3>1, <3>2, Zenon
    <3> DEFINE T == {x, y, z, t}
    <3>4. <<x>> \in Seq(T) /\ <<y>> \in Seq(T) /\ <<z>> \in Seq(T) /\ <<t>> \in Seq(T)
      OBVIOUS
    <3>5. u \in Seq(T) /\ Len(u) = 2 /\ u[1] = z /\ u[2] = t
      BY <3>1
    <3> HIDE DEF T
    <3>6. PICK x1, y1 : x1 = <<x>> /\ y1 = <<y>>
      OBVIOUS
    <3>7. x1 \in Seq(T) /\ Len(x1) = 1 /\ x1[1] = x /\ y1 \in Seq(T) /\ Len(y1) = 1 /\ y1[1] = y
      BY <3>4, <3>6
    <3>8. v \in Seq(T) /\ Len(v) = 3 /\ v[1] = x /\ v[2] = z /\ v[3] = t
      <4>1. v = x1 \o u
        BY <3>2, <3>6, Zenon
      <4>2. /\ v \in Seq(T) /\ Len(v) = Len(x1) + Len(u) /\ (\A i \in 1..Len(x1) : v[i] = x1[i])
            /\ \A i \in 1..Len(u) : v[Len(x1) + i] = u[i]
        <5>1. /\ x1 \o u \in Seq(T) /\ Len(x1 \o u) = Len(x1) + Len(u)
              /\ (\A i \in 1..Len(x1) : (x1 \o u)[i] = x1[i])
              /\ \A i \in 1..Len(u) : (x1 \o u)[Len(x1) + i] = u[i]
          <6>1. x1 \in Seq(T) /\ u \in Seq(T)
            BY <3>5, <3>7, Zenon
          <6> QED BY <6>1, ConcatIs
        <5> QED BY <4>1, <5>1, Zenon
      <4> QED BY <3>5, <3>7, <4>2
    <3>9. w = v \o y1
      BY <3>3, <3>6, Zenon
    <3>10. /\ Len(w) = Len(v) + Len(y1) /\ (\A i \in 1..Len(v) : w[i] = v[i])
           /\ \A i \in 1..Len(y1) : w[Len(v) + i] = y1[i]
      <4>1. /\ Len(v \o y1) = Len(v) + Len(y1) /\ (\A i \in 1..Len(v) : (v \o y1)[i] = v[i])
            /\ \A i \in 1..Len(y1) : (v \o y1)[Len(v) + i] = y1[i]
        <5>1. v \in Seq(T) /\ y1 \in Seq(T)
          BY <3>7, <3>8, Zenon
        <5> QED BY <5>1, ConcatIs
      <4> QED BY <3>9, <4>1, Zenon
    <3> QED BY <3>7, <3>8, <3>10
  <2>3. 1 \in 1..Len(w) /\ 2 \in 1..Len(w) /\ 3 \in 1..Len(w) /\ 4 \in 1..Len(w)
    BY <2>2
  <2>4. fmt[o + 1] = x /\ fmt[o + 2] = z /\ fmt[o + 3] = t /\ fmt[o + 4] = y /\ o + 4 <= len
    BY <1>3, <2>2, <2>3
  <2> QED BY <1>1, <1>2, <1>5, <2>2, <2>4, Zenon DEF Placed
<1> QED BY <1>4, <1>5, Zenon

\* What follows the brace of a field is parsed to its end, with the next argument.
LEMMA ParseFieldIs ==
  ASSUME NEW fmt, NEW args, NEW o \in Nat, NEW k \in Nat, NEW got, NEW spec, NEW t \in FieldType,
         NEW len \in Nat, len = Len(fmt), Len(args) \in Nat, Follows(fmt, o, Spelled(Field(t))),
         NEW n \in Nat, n = Len(Spelled(Field(t)))
  PROVE  /\ k < Len(args) =>
              ParseField(Reading(fmt, args, o + 2, k, got, spec))
                = Reading(fmt, args, o + n + 1, k + 1, args[k + 1], FieldSpec(t))
         /\ ~(k < Len(args)) => ParseField(Reading(fmt, args, o + 2, k, got, spec)).error
<1>1. PICK o2 \in Nat : o2 = o + 2
  OBVIOUS
<1>2. PICK p : p = Reading(fmt, args, o2, k, got, spec)
  OBVIOUS
<1>3. /\ t = End => n = 2 /\ o2 <= len /\ fmt[o2] = CloseBrace
      /\ t # End => /\ n = 4 /\ o2 <= len /\ o2 + 2 <= len /\ fmt[o2] = Colon
                    /\ fmt[o2 + 1] = t /\ fmt[o2 + 2] = CloseBrace
  <2>0. Placed(fmt, o, t, n, len)
    BY FieldPlaces, Zenon
  <2>1. CASE t = End
    <3>1. n = 2 /\ o + 2 <= len /\ fmt[o + 2] = CloseBrace
      BY <2>0, <2>1, Zenon DEF Placed
    <3> QED BY <1>1, <2>1, <3>1
  <2>2. CASE t # End
    <3>1. /\ n = 4 /\ o + 4 <= len /\ fmt[o + 2] = Colon /\ fmt[o + 3] = t /\ fmt[o + 4] = CloseBrace
      BY <2>0, <2>2, Zenon DEF Placed
    <3>2. o2 + 1 = o + 3 /\ o2 + 2 = o + 4 /\ o + 2 = o2
      BY <1>1
    <3> QED BY <2>2, <3>1, <3>2
  <2> QED BY <2>1, <2>2
<1>4. Char(p) \in {CloseBrace, Colon}
      /\ (t = End => Char(p) = CloseBrace) /\ (t # End => Char(p) = Colon)
  <2>1. ReadingLaws(fmt, args, o2, k, got, spec, 0)
    BY ReadingIs
  <2>2. Char(p) = fmt[o2]
    BY <1>2, <1>3, <2>1, Zenon DEF ReadingLaws
  <2> QED BY <1>3, <2>2
<1>5. CASE ~(k < Len(args))
  <2>1. ParseArg(p).error
    BY <1>2, <1>4, <1>5, ParseArgIs
  <2> QED BY <1>1, <1>2, <1>5, <2>1, Zenon DEF ParseField, ParseBehind
<1>6. CASE k < Len(args)
  <2>1. PICK a : a = args[k + 1]
    OBVIOUS
  <2>2. PICK k1 : k1 = k + 1
    OBVIOUS
  <2>3. PICK q : q = Reading(fmt, args, o2, k1, a, spec)
    OBVIOUS
  <2>4. ParseArg(p) = q
    <3>1. ParseArg(p) = Reading(fmt, args, o2, k + 1, args[k + 1], spec)
      BY <1>2, <1>4, <1>6, ParseArgIs
    <3> QED BY <2>1, <2>2, <2>3, <3>1, Zenon
  <2>5. ReadingLaws(fmt, args, o2, k1, a, spec, 0) /\ ReadingLaws(fmt, args, o2, k, got, spec, 0)
    BY ReadingIs
  <2>6. ~q.error
    BY <2>3, <2>5, Zenon DEF ReadingLaws
  <2>7. ParseField(p) = ParseSpec(q)
    BY <2>4, <2>6, Zenon DEF ParseField, ParseBehind
  <2>8. Char(q) = Char(p)
    BY <1>2, <2>3, <2>5, Zenon DEF ReadingLaws
  <2>9. ParseSpec(q) = Reading(fmt, args, o + n + 1, k1, a, FieldSpec(t))
    <3>1. CASE t = End
      <4>1. ParseSpec(q) = Reading(fmt, args, o2 + 1, k1, a, FieldSpec(End))
        BY <1>4, <2>3, <2>8, <3>1, ParseNoSpec
      <4>2. o2 + 1 = o + n + 1
        BY <1>1, <1>3, <3>1
      <4> QED BY <3>1, <4>1, <4>2, Zenon
    <3>2. CASE t # End
      <4>0. t \in {"d", "s"}
        BY <3>2, Zenon DEF FieldType, End
      <4>1. ParseSpec(q) = Reading(fmt, args, o2 + 3, k1, a, FieldSpec(t))
        BY <1>3, <2>3, <3>2, <4>0, ParseTypeSpec
      <4>2. o2 + 3 = o + n + 1
        <5>1. n = 4
          BY <1>3, <3>2, Zenon
        <5> QED BY <1>1, <5>1
      <4> QED BY <4>1, <4>2, Zenon
    <3> QED BY <3>1, <3>2
  <2> QED BY <1>1, <1>2, <1>6, <2>1, <2>2, <2>7, <2>9, Zenon
<1> QED BY <1>5, <1>6
-----------------------------------------------------------------------------
(* The steps of the writer *)

\* The parser is at p, and text is written.
WriterOf(p, text, thrown) == [parser |-> p, text |-> text, thrown |-> thrown]
Writer(p, text) == WriterOf(p, text, FALSE)

\* The writer writes more, or throws.
WriterLaws(p, text, q, chars) ==
  LET s == Writer(p, text)
  IN  /\ s.parser = p /\ s.text = text /\ ~s.thrown
      /\ Wrote(s, q, chars) = Writer(q, text \o chars)
      /\ Threw(s).thrown

\* It does.
LEMMA WriterIs ==
  ASSUME NEW p, NEW text, NEW q, NEW chars
  PROVE  WriterLaws(p, text, q, chars)
<1>1. PICK no, yes : no = FALSE /\ yes = TRUE
  OBVIOUS
<1>2. PICK s : s = WriterOf(p, text, no)
  OBVIOUS
<1>3. s.parser = p /\ s.text = text /\ s.thrown = no
  BY <1>2 DEF WriterOf
<1>4. Wrote(s, q, chars) = WriterOf(q, text \o chars, no)
  <2>1. PICK more : more = text \o chars
    OBVIOUS
  <2>2. [s EXCEPT !.parser = q] = WriterOf(q, text, no)
    BY <1>2 DEF WriterOf
  <2>3. [WriterOf(q, text, no) EXCEPT !.text = more] = WriterOf(q, more, no)
    BY DEF WriterOf
  <2>4. WriterOf(q, text, no).text = text
    BY DEF WriterOf
  <2> QED BY <1>3, <2>1, <2>2, <2>3, <2>4, Zenon DEF Wrote
<1>5. [s EXCEPT !.thrown = yes].thrown = yes
  BY <1>2 DEF WriterOf
<1>6. Threw(s).thrown
  <2>1. Threw(s) = [s EXCEPT !.thrown = yes]
    BY <1>1, Zenon DEF Threw
  <2> QED BY <1>1, <1>5, <2>1, Zenon
<1>7. ~s.thrown
  BY <1>1, <1>3, Zenon
<1>8. \A x, y : Writer(x, y) = WriterOf(x, y, no)
  BY <1>1, Zenon DEF Writer
<1> QED BY <1>2, <1>3, <1>4, <1>6, <1>7, <1>8, Zenon DEF WriterLaws

\* A character that is no brace.
LEMMA StepChar ==
  ASSUME NEW p, NEW text, NEW c, Char(p) = c, c \notin {OpenBrace, CloseBrace, End}
  PROVE  FormatStep(Writer(p, text)) = Writer(Skip(p, 1), text \o <<c>>)
<1>1. PICK s : s = Writer(p, text)
  OBVIOUS
<1>2. WriterLaws(p, text, Skip(p, 1), <<c>>)
  BY WriterIs
<1>3. s.parser = p /\ ~s.thrown /\ Wrote(s, Skip(p, 1), <<c>>) = Writer(Skip(p, 1), text \o <<c>>)
  BY <1>1, <1>2, Zenon DEF WriterLaws
<1>4. c # "{" /\ c # "}" /\ c # End
  BY Zenon DEF OpenBrace, CloseBrace
<1>5. FormatStep(s) = Wrote(s, Skip(p, 1), <<c>>)
  BY <1>3, <1>4, Zenon DEF FormatStep
<1> QED BY <1>1, <1>3, <1>5, Zenon

\* A pair of braces.
LEMMA StepTwice ==
  ASSUME NEW p, NEW text, NEW c, Char(p) = c, CharAt(p, p.at + 1) = c, c \in {OpenBrace, CloseBrace}
  PROVE  FormatStep(Writer(p, text)) = Writer(Skip(p, 2), text \o <<c>>)
<1>1. PICK s : s = Writer(p, text)
  OBVIOUS
<1>2. WriterLaws(p, text, Skip(p, 2), <<c>>)
  BY WriterIs
<1>3. s.parser = p /\ ~s.thrown /\ Wrote(s, Skip(p, 2), <<c>>) = Writer(Skip(p, 2), text \o <<c>>)
  BY <1>1, <1>2, Zenon DEF WriterLaws
<1>4. c \in {"{", "}"} /\ c # End
  BY Zenon DEF OpenBrace, CloseBrace, End
<1>5. FormatStep(s) = Wrote(s, Skip(p, 2), <<c>>)
  BY <1>3, <1>4, Zenon DEF FormatStep
<1> QED BY <1>1, <1>3, <1>5, Zenon

\* A field.
LEMMA StepField ==
  ASSUME NEW p, NEW text, NEW q, Char(p) = OpenBrace, CharAt(p, p.at + 1) # OpenBrace,
         q = ParseField(Skip(p, 1))
  PROVE  /\ q.error => FormatStep(Writer(p, text)).thrown
         /\ ~q.error /\ Visit(q.got, q.spec) = Refused => FormatStep(Writer(p, text)).thrown
         /\ ~q.error /\ Visit(q.got, q.spec) # Refused =>
              FormatStep(Writer(p, text)) = Writer(q, text \o Visit(q.got, q.spec))
<1>1. PICK s : s = Writer(p, text)
  OBVIOUS
<1>2. WriterLaws(p, text, q, Visit(q.got, q.spec))
  BY WriterIs
<1>3. /\ s.parser = p /\ ~s.thrown /\ Threw(s).thrown
      /\ Wrote(s, q, Visit(q.got, q.spec)) = Writer(q, text \o Visit(q.got, q.spec))
  BY <1>1, <1>2, Zenon DEF WriterLaws
<1>4. PICK c : c = Char(p)
  OBVIOUS
<1>5. c \in {"{", "}"} /\ c # End /\ c # "}" /\ CharAt(p, p.at + 1) # c
  BY <1>4, Zenon DEF OpenBrace, End
<1>6. FormatStep(s) = IF q.error THEN Threw(s)
                      ELSE IF Visit(q.got, q.spec) = Refused THEN Threw(s)
                      ELSE Wrote(s, q, Visit(q.got, q.spec))
  BY <1>3, <1>4, <1>5, Zenon DEF FormatStep, WroteField, WroteShown
<1> QED BY <1>1, <1>3, <1>6, Zenon

\* Nothing follows the end or an exception.
LEMMA StepNone ==
  /\ \A s : s.thrown => FormatStep(s) = s
  /\ \A p, text : Char(p) = End => FormatStep(Writer(p, text)) = Writer(p, text)
<1>1. ASSUME NEW s, s.thrown \/ Char(s.parser) = End PROVE FormatStep(s) = s
  <2>1. CASE s.thrown
    BY <2>1, Zenon DEF FormatStep
  <2>2. CASE ~s.thrown /\ Char(s.parser) = End
    <3>1. PICK c : c = Char(s.parser)
      OBVIOUS
    <3>2. c \notin {"{", "}"} /\ c # "}" /\ c = End
      BY <2>2, <3>1, Zenon DEF End
    <3> QED BY <2>2, <3>1, <3>2, Zenon DEF FormatStep
  <2> QED BY <1>1, <2>1, <2>2, Zenon
<1>2. ASSUME NEW p, NEW text PROVE Writer(p, text).parser = p
  <2>1. WriterLaws(p, text, p, text)
    BY WriterIs
  <2> QED BY <2>1, Zenon DEF WriterLaws
<1> QED BY <1>1, <1>2, Zenon
-----------------------------------------------------------------------------
(* The run of the writer *)

WriterStart(fmt, args) == Writer(Parser(fmt, args), <<>>)

\* f is what the writer has done after each step.
WriterRun(f, fmt, args) ==
  f[0] = WriterStart(fmt, args) /\ \A n \in 1..Len(fmt) : f[n] = FormatStep(f[n - 1])

\* The writer can run.
LEMMA WriterRuns ==
  ASSUME NEW fmt, NEW args, NEW len \in Nat, len = Len(fmt)
  PROVE  \E f : WriterRun(f, fmt, args)
<1> DEFINE Right(f, m) == f[0] = WriterStart(fmt, args) /\ \A n \in 1..m : f[n] = FormatStep(f[n - 1])
           S == {m \in 0..len : \E f : Right(f, m)}
<1>1. 0 \in S
  <2>1. PICK b : b = WriterStart(fmt, args)
    OBVIOUS
  <2>2. PICK g : g = [i \in 0..0 |-> b]
    OBVIOUS
  <2>3. g[0] = b /\ 0 \in 0..len
    BY <2>2
  <2>4. \A n \in 1..0 : FALSE
    OBVIOUS
  <2>5. Right(g, 0)
    BY <2>1, <2>3, <2>4, Zenon
  <2> HIDE DEF Right
  <2> QED BY <2>3, <2>5, Zenon
<1>2. \A m \in 0..len - 1 : m \in S => m + 1 \in S
  <2> SUFFICES ASSUME NEW m \in 0..len - 1, m \in S PROVE m + 1 \in S
    OBVIOUS
  <2>1. PICK f : Right(f, m)
    BY Zenon
  <2>2. PICK m1 \in 1..len : m1 = m + 1
    OBVIOUS
  <2>3. PICK g : g = [i \in 0..m1 |-> IF i = m1 THEN FormatStep(f[m]) ELSE f[i]]
    OBVIOUS
  <2>4. g[m1] = FormatStep(f[m]) /\ \A i \in 0..m : g[i] = f[i]
    BY <2>2, <2>3
  <2>5. g[0] = f[0]
    BY <2>4
  <2>6. ASSUME NEW n \in 1..m1 PROVE g[n] = FormatStep(g[n - 1])
    <3>1. CASE n = m1
      <4>1. n - 1 = m /\ m \in 0..m
        BY <2>2, <3>1
      <4> QED BY <2>4, <3>1, <4>1, Zenon
    <3>2. CASE n # m1
      <4>1. n \in 1..m /\ n \in 0..m /\ n - 1 \in 0..m
        BY <2>2, <3>2
      <4> QED BY <2>1, <2>4, <4>1, Zenon
    <3> QED BY <3>1, <3>2
  <2>7. Right(g, m1)
    BY <2>1, <2>5, <2>6, Zenon
  <2> HIDE DEF Right
  <2>8. m1 \in 0..len
    OBVIOUS
  <2> QED BY <2>2, <2>7, <2>8, Zenon
<1> HIDE DEF S
<1>3. len \in S
  <2>1. \A n \in 0..len : n \in S
    BY <1>1, <1>2, UpTo
  <2> QED BY <2>1
<1> QED BY <1>3, Zenon DEF S, WriterRun

\* It ends with what Formatted() returns, however the run is described.
LEMMA WriterResult ==
  ASSUME NEW fmt, NEW args, NEW len \in Nat, len = Len(fmt), NEW f, WriterRun(f, fmt, args)
  PROVE  Formatted(fmt, args) =
           IF f[len].thrown THEN Thrown ELSE [thrown |-> FALSE, text |-> f[len].text]
<1> DEFINE b == WriterStart(fmt, args)
           Right(g) == g = [i \in 0..len |-> IF i = 0 THEN b ELSE FormatStep(g[i - 1])]
           F == [i \in 0..len |-> f[i]]
           h == CHOOSE g : Right(g)
<1>1. Formatted(fmt, args) =
        IF h[len].thrown THEN Thrown ELSE [thrown |-> FALSE, text |-> h[len].text]
  BY Zenon DEF Formatted, Outcome, WriterStart, Writer, WriterOf
<1> HIDE DEF b
<1>0. f[0] = b /\ \A n \in 1..len : f[n] = FormatStep(f[n - 1])
  BY Zenon DEF WriterRun, b
<1>2. Right(F)
  <2>1. \A i \in 0..len : F[i] = IF i = 0 THEN b ELSE FormatStep(F[i - 1])
    <3> SUFFICES ASSUME NEW i \in 0..len
                 PROVE  F[i] = IF i = 0 THEN b ELSE FormatStep(F[i - 1])
      OBVIOUS
    <3>1. CASE i = 0
      BY <3>1, <1>0
    <3>2. CASE i # 0
      <4>1. i \in 1..len /\ i - 1 \in 0..len
        BY <3>2
      <4>2. F[i - 1] = f[i - 1] /\ F[i] = f[i]
        BY <4>1
      <4>3. f[i] = FormatStep(f[i - 1])
        BY <4>1, <1>0, Zenon
      <4> HIDE DEF F
      <4> QED BY <4>2, <4>3, <3>2, Zenon
    <3> QED BY <3>1, <3>2
  <2>2. F = [i \in 0..len |-> F[i]]
    OBVIOUS
  <2> HIDE DEF F
  <2>3. [i \in 0..len |-> F[i]] = [i \in 0..len |-> IF i = 0 THEN b ELSE FormatStep(F[i - 1])]
    BY <2>1, Zenon
  <2> QED BY <2>2, <2>3, Zenon
<1> HIDE DEF F
<1>3. Right(h)
  BY <1>2, Zenon
<1> HIDE DEF h
<1>4. h[0] = b /\ \A n \in 1..len : h[n] = FormatStep(h[n - 1])
  <2>1. \A i \in 0..len : h[i] = IF i = 0 THEN b ELSE FormatStep(h[i - 1])
    BY <1>3, Zenon
  <2>2. 0 \in 0..len /\ \A n \in 1..len : n \in 0..len /\ n # 0
    OBVIOUS
  <2> QED BY <2>1, <2>2, Zenon
<1> HIDE DEF Right
<1> DEFINE A == {n \in 0..len : f[n] = h[n]}
<1>5. 0 \in A
  <2>1. 0 \in 0..len /\ f[0] = h[0]
    BY <1>4, <1>0
  <2> QED BY <2>1
<1>6. \A n \in 0..len - 1 : n \in A => n + 1 \in A
  <2> SUFFICES ASSUME NEW n \in 0..len - 1, n \in A PROVE n + 1 \in A
    OBVIOUS
  <2>1. PICK m : m = n + 1
    OBVIOUS
  <2>2. m \in 1..len /\ m - 1 = n /\ m \in 0..len
    BY <2>1
  <2>3. f[m] = FormatStep(f[n]) /\ h[m] = FormatStep(h[n])
    BY <1>0, <1>4, <2>2, Zenon
  <2>4. f[n] = h[n]
    BY Zenon
  <2> QED BY <2>1, <2>2, <2>3, <2>4, Zenon
<1> HIDE DEF A
<1>7. len \in A
  <2>1. \A n \in 0..len : n \in A
    BY <1>5, <1>6, UpTo
  <2> QED BY <2>1
<1>8. f[len] = h[len]
  BY <1>7, Zenon DEF A
<1> QED BY <1>1, <1>8, Zenon

\* After at most as many steps as characters the writer has read o of them, taken k
\* arguments and written x; or it has thrown.
Writes(f, fmt, args, o, k, x) ==
  \E n \in 0..o : \E got, spec : f[n] = Writer(Reading(fmt, args, o + 1, k, got, spec), x)
Throws(f, o) == \E n \in 0..o : f[n].thrown

\* f is a run on a format of len characters, of which the first o are read.
RunWrites(f, fmt, args, o, k, x, len) ==
  WriterRun(f, fmt, args) /\ len = Len(fmt) /\ Writes(f, fmt, args, o, k, x)

\* Where the next step leads from there.
LEMMA OneStep ==
  ASSUME NEW fmt, NEW args, NEW len \in Nat, NEW f, NEW o \in Nat, NEW k, NEW x,
         RunWrites(f, fmt, args, o, k, x, len), o + 1 <= len
  PROVE  \E n \in 0..o : \E got, spec :
           f[n + 1] = FormatStep(Writer(Reading(fmt, args, o + 1, k, got, spec), x))
<1>1. PICK n \in 0..o : \E got, spec : f[n] = Writer(Reading(fmt, args, o + 1, k, got, spec), x)
  BY Zenon DEF RunWrites, Writes
<1>2. PICK m \in 1..len : m = n + 1
  OBVIOUS
<1>3. m - 1 = n
  BY <1>2
<1>4. f[m] = FormatStep(f[m - 1])
  BY Zenon DEF RunWrites, WriterRun
<1> QED BY <1>1, <1>2, <1>3, <1>4, Zenon

\* A character that is no brace is written.
LEMMA CharWritten ==
  ASSUME NEW fmt, NEW args, NEW len \in Nat, NEW f, NEW o \in Nat, NEW k, NEW x,
         RunWrites(f, fmt, args, o, k, x, len), o + 1 <= len,
         NEW c, fmt[o + 1] = c, c \notin {OpenBrace, CloseBrace, End}
  PROVE  RunWrites(f, fmt, args, o + 1, k, x \o <<c>>, len)
<1>1. PICK n \in 0..o : \E g, s : f[n + 1] = FormatStep(Writer(Reading(fmt, args, o + 1, k, g, s), x))
  BY OneStep
<1>2. PICK g, s : f[n + 1] = FormatStep(Writer(Reading(fmt, args, o + 1, k, g, s), x))
  BY <1>1, Zenon
<1>3. PICK p : p = Reading(fmt, args, o + 1, k, g, s)
  OBVIOUS
<1>4. ReadingLaws(fmt, args, o + 1, k, g, s, 1)
  BY ReadingIs, Zenon
<1>5. len = Len(fmt)
  BY Zenon DEF RunWrites
<1>6. Char(p) = c /\ Skip(p, 1) = Reading(fmt, args, (o + 1) + 1, k, g, s)
  BY <1>3, <1>4, <1>5, Zenon DEF ReadingLaws
<1>7. FormatStep(Writer(p, x)) = Writer(Skip(p, 1), x \o <<c>>)
  BY <1>6, StepChar, Zenon
<1>8. n + 1 \in 0..o + 1
  OBVIOUS
<1> QED BY <1>2, <1>3, <1>6, <1>7, <1>8, Zenon DEF RunWrites, Writes

\* A pair of braces is written as one.
LEMMA BraceWritten ==
  ASSUME NEW fmt, NEW args, NEW len \in Nat, NEW f, NEW o \in Nat, NEW k, NEW x,
         RunWrites(f, fmt, args, o, k, x, len), o + 2 <= len,
         NEW c, fmt[o + 1] = c, fmt[o + 2] = c, c \in {OpenBrace, CloseBrace}
  PROVE  RunWrites(f, fmt, args, o + 2, k, x \o <<c>>, len)
<1>1. PICK n \in 0..o : \E g, s : f[n + 1] = FormatStep(Writer(Reading(fmt, args, o + 1, k, g, s), x))
  <2>1. o + 1 <= len
    OBVIOUS
  <2> QED BY <2>1, OneStep
<1>2. PICK g, s : f[n + 1] = FormatStep(Writer(Reading(fmt, args, o + 1, k, g, s), x))
  BY <1>1, Zenon
<1>3. PICK p : p = Reading(fmt, args, o + 1, k, g, s)
  OBVIOUS
<1>4. ReadingLaws(fmt, args, o + 1, k, g, s, 2) /\ ReadingLaws(fmt, args, o + 1, k, g, s, o + 2)
  BY ReadingIs, Zenon
<1>5. len = Len(fmt)
  BY Zenon DEF RunWrites
<1>6. o + 1 <= len /\ (o + 1) + 1 = o + 2 /\ (o + 1) + 2 = (o + 2) + 1
  OBVIOUS
<1>7. Char(p) = c /\ Skip(p, 2) = Reading(fmt, args, (o + 2) + 1, k, g, s)
  BY <1>3, <1>4, <1>5, <1>6, Zenon DEF ReadingLaws
<1>8. CharAt(p, o + 2) = c /\ p.at = o + 1
  BY <1>3, <1>4, <1>5, Zenon DEF ReadingLaws
<1>9. CharAt(p, p.at + 1) = c
  BY <1>6, <1>8, Zenon
<1>10. FormatStep(Writer(p, x)) = Writer(Skip(p, 2), x \o <<c>>)
  BY <1>7, <1>9, StepTwice, Zenon
<1>11. n + 1 \in 0..o + 2
  OBVIOUS
<1> QED BY <1>2, <1>3, <1>7, <1>10, <1>11, Zenon DEF RunWrites, Writes

\* A field can be shown when there is an argument for it that it can show.
Showable(t, args, k) == k < Len(args) /\ Shows(Field(t), args[k + 1])

\* A field writes what it shows of the next argument, or throws.
LEMMA FieldWritten ==
  ASSUME NEW fmt, NEW args \in Seq(Argument), NEW len \in Nat, NEW f, NEW o \in Nat,
         NEW k \in Nat, NEW x, RunWrites(f, fmt, args, o, k, x, len),
         NEW t \in FieldType, Follows(fmt, o, Spelled(Field(t))),
         NEW n \in Nat, n = Len(Spelled(Field(t)))
  PROVE  /\ Showable(t, args, k) =>
              RunWrites(f, fmt, args, o + n, k + 1, x \o Shown(Field(t), args[k + 1], 0), len)
         /\ ~Showable(t, args, k) => Throws(f, o + n)
<1>1. len = Len(fmt) /\ Len(args) \in Nat
  <2>1. Len(args) \in Nat
    OBVIOUS
  <2> QED BY <2>1, Zenon DEF RunWrites
<1>2. Placed(fmt, o, t, n, len)
  BY <1>1, FieldPlaces, Zenon
<1>3. /\ n >= 2 /\ o + 2 <= len /\ fmt[o + 1] = OpenBrace
      /\ fmt[o + 2] \in {CloseBrace, Colon}
  <2>1. CASE t = End
    <3>1. n = 2 /\ o + 2 <= len /\ fmt[o + 1] = OpenBrace /\ fmt[o + 2] = CloseBrace
      BY <1>2, <2>1, Zenon DEF Placed
    <3> QED BY <3>1
  <2>2. CASE t # End
    <3>1. n = 4 /\ o + 4 <= len /\ fmt[o + 1] = OpenBrace /\ fmt[o + 2] = Colon
      BY <1>2, <2>2, Zenon DEF Placed
    <3> QED BY <3>1
  <2> QED BY <2>1, <2>2
<1>4. PICK m \in 0..o : \E g, s : f[m + 1] = FormatStep(Writer(Reading(fmt, args, o + 1, k, g, s), x))
  <2>1. o + 1 <= len
    BY <1>3
  <2> QED BY <2>1, OneStep
<1>5. PICK g, s : f[m + 1] = FormatStep(Writer(Reading(fmt, args, o + 1, k, g, s), x))
  BY <1>4, Zenon
<1>6. PICK p, q : p = Reading(fmt, args, o + 1, k, g, s) /\ q = ParseField(Reading(fmt, args, o + 2, k, g, s))
  OBVIOUS
<1>7. ReadingLaws(fmt, args, o + 1, k, g, s, 1) /\ ReadingLaws(fmt, args, o + 1, k, g, s, o + 2)
  BY ReadingIs, Zenon
<1>8. o + 1 <= len /\ (o + 1) + 1 = o + 2 /\ m + 1 \in 0..o + n
  BY <1>3
<1>9. Char(p) = OpenBrace /\ CharAt(p, p.at + 1) # OpenBrace
  <2>1. Char(p) = OpenBrace
    BY <1>1, <1>3, <1>6, <1>7, <1>8, Zenon DEF ReadingLaws
  <2>2. CharAt(p, o + 2) = fmt[o + 2] /\ p.at = o + 1
    BY <1>1, <1>3, <1>6, <1>7, Zenon DEF ReadingLaws
  <2>3. fmt[o + 2] # OpenBrace
    BY <1>3, Zenon DEF OpenBrace, CloseBrace, Colon
  <2> QED BY <1>8, <2>1, <2>2, <2>3, Zenon
<1>10. q = ParseField(Skip(p, 1))
  BY <1>6, <1>7, <1>8, Zenon DEF ReadingLaws
<1>11. /\ k < Len(args) => q = Reading(fmt, args, o + n + 1, k + 1, args[k + 1], FieldSpec(t))
       /\ ~(k < Len(args)) => q.error
  BY <1>1, <1>6, ParseFieldIs
<1>12. /\ q.error => FormatStep(Writer(p, x)).thrown
       /\ ~q.error /\ Visit(q.got, q.spec) = Refused => FormatStep(Writer(p, x)).thrown
       /\ ~q.error /\ Visit(q.got, q.spec) # Refused =>
            FormatStep(Writer(p, x)) = Writer(q, x \o Visit(q.got, q.spec))
  BY <1>9, <1>10, StepField, Zenon
<1>13. CASE ~(k < Len(args))
  <2>1. f[m + 1].thrown
    BY <1>5, <1>6, <1>11, <1>12, <1>13, Zenon
  <2>2. Throws(f, o + n)
    BY <1>8, <2>1, Zenon DEF Throws
  <2> QED BY <1>13, <2>2, Zenon DEF Showable
<1>14. CASE k < Len(args)
  <2>1. PICK a \in Argument : a = args[k + 1]
    <3>1. k + 1 \in 1..Len(args)
      BY <1>1, <1>14
    <3> QED BY <3>1
  <2>2. ReadingLaws(fmt, args, o + n + 1, k + 1, a, FieldSpec(t), 0)
    BY ReadingIs, Zenon
  <2>3. q = Reading(fmt, args, o + n + 1, k + 1, a, FieldSpec(t))
    BY <1>11, <1>14, <2>1, Zenon
  <2>4. ~q.error /\ q.got = a /\ q.spec = FieldSpec(t)
    BY <2>2, <2>3, Zenon DEF ReadingLaws
  <2>5. CASE Shows(Field(t), a)
    <3>1. PICK y : y = Shown(Field(t), a, 0)
      OBVIOUS
    <3>2. Visit(a, FieldSpec(t)) = y /\ y \in Seq(Printable)
      BY <2>5, <3>1, VisitIs
    <3>3. y # Refused
      BY <3>2, RefusedIsNoText
    <3>4. f[m + 1] = Writer(q, x \o y)
      BY <1>5, <1>6, <1>12, <2>4, <3>2, <3>3, Zenon
    <3>5. RunWrites(f, fmt, args, o + n, k + 1, x \o y, len)
      BY <1>8, <2>3, <3>4, Zenon DEF RunWrites, Writes
    <3> QED BY <1>14, <2>1, <2>5, <3>1, <3>5, Zenon DEF Showable
  <2>6. CASE ~Shows(Field(t), a)
    <3>1. Visit(a, FieldSpec(t)) = Refused
      BY <2>6, VisitIs
    <3>2. f[m + 1].thrown
      BY <1>5, <1>6, <1>12, <2>4, <3>1, Zenon
    <3>3. Throws(f, o + n)
      BY <1>8, <3>2, Zenon DEF Throws
    <3> QED BY <2>1, <2>6, <3>3, Zenon DEF Showable
  <2> QED BY <2>5, <2>6
<1> QED BY <1>13, <1>14
-----------------------------------------------------------------------------
(* The texts of a format *)

\* What follows is made of what follows first and of what follows that.
LEMMA FollowsParts ==
  ASSUME NEW fmt, NEW o \in Nat, NEW len \in Nat, len = Len(fmt),
         NEW S, NEW u \in Seq(S), NEW w \in Seq(S), Follows(fmt, o, u \o w)
  PROVE  Follows(fmt, o, u) /\ Follows(fmt, o + Len(u), w)
<1>1. PICK v : v = u \o w
  OBVIOUS
<1>2. PICK m \in Nat, n \in Nat : m = Len(u) /\ n = Len(w)
  OBVIOUS
<1>3. Len(v) = m + n /\ (\A i \in 1..m : v[i] = u[i]) /\ \A i \in 1..n : v[m + i] = w[i]
  <2>1. /\ Len(u \o w) = Len(u) + Len(w) /\ (\A i \in 1..Len(u) : (u \o w)[i] = u[i])
        /\ \A i \in 1..Len(w) : (u \o w)[Len(u) + i] = w[i]
    BY ConcatIs
  <2> QED BY <1>1, <1>2, <2>1, Zenon
<1>4. o + (m + n) <= len /\ \A j \in 1..m + n : fmt[o + j] = v[j]
  <2>1. o + Len(v) <= len /\ \A j \in 1..Len(v) : fmt[o + j] = v[j]
    BY <1>1, Zenon DEF Follows
  <2> QED BY <1>3, <2>1, Zenon
<1>5. Follows(fmt, o, u)
  <2>1. o + m <= len
    BY <1>4
  <2>2. \A j \in 1..m : j \in 1..m + n
    OBVIOUS
  <2>3. \A j \in 1..m : fmt[o + j] = u[j]
    BY <1>3, <1>4, <2>2, Zenon
  <2> QED BY <1>2, <2>1, <2>3, Zenon DEF Follows
<1>6. Follows(fmt, o + m, w)
  <2>1. (o + m) + n <= len
    BY <1>4
  <2>2. ASSUME NEW j \in 1..n PROVE fmt[(o + m) + j] = w[j]
    <3>1. PICK i \in 1..m + n : i = m + j
      OBVIOUS
    <3>2. o + i = (o + m) + j
      BY <3>1
    <3> QED BY <1>3, <1>4, <3>1, <3>2, Zenon
  <2> QED BY <1>2, <2>1, <2>2, Zenon DEF Follows
<1> QED BY <1>2, <1>5, <1>6, Zenon

\* A brace is doubled.
Doubled == [c \in Printable |-> IF c \in {"{", "}"} THEN <<c, c>> ELSE <<c>>]

\* A text is spelled by its characters.
LEMMA TextSpelled ==
  ASSUME NEW s \in Seq(Printable)
  PROVE  Spelled(TextPart(s)) = Spread(Doubled, s)
<1>1. PICK f : f = TextPart(s)
  OBVIOUS
<1>2. f.kind = "text" /\ f.chars = s
  BY <1>1 DEF TextPart
<1>3. f.kind # "mistake"
  BY <1>2
<1>4. Spelled(f) = FlattenSeq([i \in DOMAIN s |-> IF s[i] \in {"{", "}"} THEN <<s[i], s[i]>> ELSE <<s[i]>>])
  BY <1>2, <1>3, Zenon DEF Spelled
<1>5. \A i \in DOMAIN s : Doubled[s[i]] = IF s[i] \in {"{", "}"} THEN <<s[i], s[i]>> ELSE <<s[i]>>
  <2>1. \A i \in DOMAIN s : s[i] \in Printable
    OBVIOUS
  <2> QED BY <2>1, Zenon DEF Doubled
<1>6. [i \in DOMAIN s |-> Doubled[s[i]]]
        = [i \in DOMAIN s |-> IF s[i] \in {"{", "}"} THEN <<s[i], s[i]>> ELSE <<s[i]>>]
  BY <1>5, Zenon
<1> QED BY <1>1, <1>4, <1>6, Zenon DEF Spread

\* One character, and what it is spelled as.
LEMMA DoubledIs ==
  /\ Doubled \in SeqMap(Printable, Printable)
  /\ \A c \in Printable : Doubled[c] = IF c \in {OpenBrace, CloseBrace} THEN <<c, c>> ELSE <<c>>
<1>1. \A c \in Printable : <<c, c>> \in Seq(Printable) /\ <<c>> \in Seq(Printable)
  OBVIOUS
<1>2. \A c \in Printable : (IF c \in {"{", "}"} THEN <<c, c>> ELSE <<c>>) \in Seq(Printable)
  BY <1>1, Zenon
<1>3. \A c \in Printable : Doubled[c] = IF c \in {OpenBrace, CloseBrace} THEN <<c, c>> ELSE <<c>>
  BY Zenon DEF Doubled, OpenBrace, CloseBrace
<1>4. Doubled \in [Printable -> Seq(Printable)]
  BY <1>2, Zenon DEF Doubled
<1> QED BY <1>3, <1>4 DEF SeqMap

\* A text is written as it is.
LEMMA TextWritten ==
  ASSUME NEW fmt, NEW args, NEW len \in Nat, NEW f, NEW o \in Nat, NEW k,
         NEW x \in Seq(Printable), RunWrites(f, fmt, args, o, k, x, len),
         NEW s \in Seq(Printable), Follows(fmt, o, Spelled(TextPart(s)))
  PROVE  RunWrites(f, fmt, args, o + Len(Spelled(TextPart(s))), k, x \o s, len)
<1> DEFINE D(u) == Spread(Doubled, u)
           Good(u) == Follows(fmt, o, D(u)) => RunWrites(f, fmt, args, o + Len(D(u)), k, x \o u, len)
           A == {u \in Seq(Printable) : Good(u)}
<1>0. len = Len(fmt)
  BY Zenon DEF RunWrites
<1>1. <<>> \in A
  <2>1. D(<<>>) = <<>>
    <3>1. [i \in DOMAIN <<>> |-> Doubled[(<<>>)[i]]] = <<>>
      OBVIOUS
    <3> QED BY <3>1, FlattenEmpty, Zenon DEF Spread
  <2>2. x \o <<>> = x /\ o + Len(<<>>) = o /\ <<>> \in Seq(Printable)
    OBVIOUS
  <2>3. Good(<<>>)
    BY <2>1, <2>2, Zenon
  <2> QED BY <2>2, <2>3, Zenon
<1>2. \A u \in Seq(Printable), c \in Printable : u \in A => Append(u, c) \in A
  <2> SUFFICES ASSUME NEW u \in Seq(Printable), NEW c \in Printable, u \in A PROVE Append(u, c) \in A
    OBVIOUS
  <2>0. Good(u)
    BY Zenon
  <2>1. PICK v, w, y : v = D(u) /\ w = Doubled[c] /\ y = x \o u
    OBVIOUS
  <2>2. v \in Seq(Printable) /\ D(Append(u, c)) = v \o w
    <3>1. SpreadGrows(Doubled, u, c, Printable)
      BY DoubledIs, SpreadAppend
    <3> QED BY <2>1, <3>1, Zenon DEF SpreadGrows
  <2>3. w = IF c \in {OpenBrace, CloseBrace} THEN <<c, c>> ELSE <<c>>
    BY <2>1, DoubledIs, Zenon
  <2>4. w \in Seq(Printable)
    <3>1. <<c, c>> \in Seq(Printable) /\ <<c>> \in Seq(Printable)
      OBVIOUS
    <3> QED BY <2>3, <3>1, Zenon
  <2>5. Append(u, c) \in Seq(Printable) /\ x \o Append(u, c) = y \o <<c>>
    <3>1. x \o Append(u, c) = Append(x \o u, c)
      OBVIOUS
    <3>2. y \in Seq(Printable)
      BY <2>1
    <3>3. Append(y, c) = y \o <<c>>
      BY <3>2, AppendIsConcat
    <3> QED BY <2>1, <3>1, <3>3
  <2>6. ASSUME Follows(fmt, o, v \o w)
        PROVE  RunWrites(f, fmt, args, o + Len(v \o w), k, y \o <<c>>, len)
    <3>1. Follows(fmt, o, v) /\ Follows(fmt, o + Len(v), w)
      BY <1>0, <2>2, <2>4, <2>6, FollowsParts
    <3>2. PICK o1 \in Nat : o1 = o + Len(v)
      <4>1. o + Len(v) \in Nat
        BY <2>2
      <4> QED BY <4>1
    <3>3. RunWrites(f, fmt, args, o1, k, y, len)
      BY <2>0, <2>1, <3>1, <3>2, Zenon
    <3>4. o1 + Len(w) <= len /\ \A j \in 1..Len(w) : fmt[o1 + j] = w[j]
      BY <1>0, <3>1, <3>2, Zenon DEF Follows
    <3>5. o + Len(v \o w) = o1 + Len(w)
      BY <2>2, <2>4, <3>2
    <3>6. CASE c \in {OpenBrace, CloseBrace}
      <4>1. w = <<c, c>>
        BY <2>3, <3>6, Zenon
      <4>2. Len(w) = 2 /\ w[1] = c /\ w[2] = c /\ 1 \in 1..Len(w) /\ 2 \in 1..Len(w)
        BY <4>1
      <4>3. fmt[o1 + 1] = c /\ fmt[o1 + 2] = c /\ o1 + 2 <= len
        BY <3>4, <4>2, Zenon
      <4>4. RunWrites(f, fmt, args, o1 + 2, k, y \o <<c>>, len)
        BY <3>3, <3>6, <4>3, BraceWritten
      <4> QED BY <3>5, <4>2, <4>4, Zenon
    <3>7. CASE c \notin {OpenBrace, CloseBrace}
      <4>1. w = <<c>>
        BY <2>3, <3>7, Zenon
      <4>2. Len(w) = 1 /\ w[1] = c /\ 1 \in 1..Len(w)
        BY <4>1
      <4>3. fmt[o1 + 1] = c /\ o1 + 1 <= len
        BY <3>4, <4>2, Zenon
      <4>4. c # End
        BY Zenon DEF Printable
      <4>5. c \notin {OpenBrace, CloseBrace, End}
        BY <3>7, <4>4, Zenon
      <4>6. RunWrites(f, fmt, args, o1 + 1, k, y \o <<c>>, len)
        BY <3>3, <4>3, <4>5, CharWritten
      <4> QED BY <3>5, <4>2, <4>6, Zenon
    <3> QED BY <3>6, <3>7
  <2>7. Good(Append(u, c))
    BY <2>2, <2>5, <2>6, Zenon
  <2> QED BY <2>5, <2>7, Zenon
<1> HIDE DEF A
<1>3. s \in A
  BY <1>1, <1>2, ByAppending
<1>4. Good(s)
  BY <1>3, Zenon DEF A
<1> QED BY <1>4, TextSpelled, Zenon
-----------------------------------------------------------------------------
(* The end of the run *)

\* A step that changes nothing is the last.
LEMMA LastStays ==
  ASSUME NEW fmt, NEW args, NEW len \in Nat, len = Len(fmt), NEW f, WriterRun(f, fmt, args),
         NEW n \in 0..len, FormatStep(f[n]) = f[n]
  PROVE  f[len] = f[n]
<1> DEFINE S == {i \in 0..len - n : f[n + i] = f[n]}
<1>0. len - n \in Nat
  OBVIOUS
<1>1. 0 \in S
  OBVIOUS
<1>2. \A i \in 0..(len - n) - 1 : i \in S => i + 1 \in S
  <2> SUFFICES ASSUME NEW i \in 0..(len - n) - 1, i \in S PROVE i + 1 \in S
    OBVIOUS
  <2>1. f[n + i] = f[n]
    OBVIOUS
  <2>2. PICK m \in 1..len : m = n + (i + 1)
    OBVIOUS
  <2>3. m - 1 = n + i /\ i + 1 \in 0..len - n
    BY <2>2
  <2>4. f[m] = FormatStep(f[m - 1])
    BY Zenon DEF WriterRun
  <2>5. f[m] = f[n]
    BY <2>1, <2>3, <2>4, Zenon
  <2> QED BY <2>2, <2>3, <2>5, Zenon
<1> HIDE DEF S
<1>3. len - n \in S
  <2>1. \A i \in 0..len - n : i \in S
    BY <1>0, <1>1, <1>2, UpTo
  <2>2. len - n \in 0..len - n
    BY <1>0
  <2> QED BY <2>1, <2>2, Zenon
<1>4. n + (len - n) = len
  OBVIOUS
<1>5. f[n + (len - n)] = f[n]
  BY <1>3, Zenon DEF S
<1> QED BY <1>4, <1>5, Zenon

\* What is written at the end is the result.
LEMMA WrittenIsResult ==
  ASSUME NEW fmt, NEW args, NEW len \in Nat, NEW f, NEW k, NEW x, RunWrites(f, fmt, args, len, k, x, len)
  PROVE  Formatted(fmt, args) = [thrown |-> FALSE, text |-> x]
<1>0. len = Len(fmt) /\ WriterRun(f, fmt, args)
  BY Zenon DEF RunWrites
<1>1. PICK n \in 0..len : \E g, s : f[n] = Writer(Reading(fmt, args, len + 1, k, g, s), x)
  BY Zenon DEF RunWrites, Writes
<1>2. PICK g, s : f[n] = Writer(Reading(fmt, args, len + 1, k, g, s), x)
  BY <1>1, Zenon
<1>3. PICK p : p = Reading(fmt, args, len + 1, k, g, s)
  OBVIOUS
<1>4. Char(p) = End
  <2>1. ReadingLaws(fmt, args, len + 1, k, g, s, 0)
    BY ReadingIs, Zenon
  <2>2. ~(len + 1 <= len)
    OBVIOUS
  <2> QED BY <1>0, <1>3, <2>1, <2>2, Zenon DEF ReadingLaws
<1>5. FormatStep(f[n]) = f[n]
  BY <1>2, <1>3, <1>4, StepNone, Zenon
<1>6. f[len] = Writer(p, x)
  <2>1. f[len] = f[n]
    BY <1>0, <1>5, LastStays
  <2> QED BY <1>2, <1>3, <2>1, Zenon
<1>7. WriterLaws(p, x, p, x)
  BY WriterIs, Zenon
<1>8. ~f[len].thrown /\ f[len].text = x
  BY <1>6, <1>7, Zenon DEF WriterLaws
<1>9. Formatted(fmt, args) = IF f[len].thrown THEN Thrown ELSE [thrown |-> FALSE, text |-> f[len].text]
  BY <1>0, WriterResult, Zenon
<1> QED BY <1>8, <1>9, Zenon

\* What is thrown is, too.
LEMMA ThrownIsResult ==
  ASSUME NEW fmt, NEW args, NEW len \in Nat, len = Len(fmt), NEW f, WriterRun(f, fmt, args),
         Throws(f, len)
  PROVE  Formatted(fmt, args) = Thrown
<1>1. PICK n \in 0..len : f[n].thrown
  BY Zenon DEF Throws
<1>2. FormatStep(f[n]) = f[n]
  BY <1>1, StepNone, Zenon
<1>3. f[len] = f[n]
  BY <1>2, LastStays
<1>4. Formatted(fmt, args) = IF f[len].thrown THEN Thrown ELSE [thrown |-> FALSE, text |-> f[len].text]
  BY WriterResult, Zenon
<1> QED BY <1>1, <1>3, <1>4, Zenon
-----------------------------------------------------------------------------
(* What a format of the program means *)

\* The formats that the program logs with: texts, and fields that take the next
\* argument and give it a type or none.
ProgramPart == {TextPart(s) : s \in Seq(Printable)} \cup {Field(t) : t \in FieldType}

\* How many arguments the first i parts take.
Counts(tk, parts) ==
  /\ tk \in [0..Len(parts) -> Nat] /\ tk[0] = 0
  /\ \A i \in 1..Len(parts) : tk[i] = tk[i - 1] + IF parts[i].kind # "field" THEN 0 ELSE 1

\* A part can be shown when k arguments have been taken, and what it shows.
PartGood(part, args, k) == part.kind = "field" => k < Len(args) /\ Shows(part, args[k + 1])
PartText(part, args, k) ==
  IF part.kind = "text" THEN part.chars ELSE Shown(part, args[k + 1], 0)

\* A part is a text or a field.
LEMMA PartIs ==
  ASSUME NEW part \in ProgramPart
  PROVE  \/ part.kind = "text" /\ \E s \in Seq(Printable) : part = TextPart(s) /\ part.chars = s
         \/ /\ part.kind = "field" /\ part.index = -1 /\ part.nested = FALSE /\ part.width = -1
            /\ part.precision = -1
            /\ \E t \in FieldType : part = Field(t)
<1>1. CASE \E s \in Seq(Printable) : part = TextPart(s)
  <2>1. PICK s \in Seq(Printable) : part = TextPart(s)
    BY <1>1
  <2>2. part.kind = "text" /\ part.chars = s
    BY <2>1 DEF TextPart
  <2> QED BY <2>1, <2>2, Zenon
<1>2. CASE \E t \in FieldType : part = Field(t)
  <2>1. PICK t \in FieldType : part = Field(t)
    BY <1>2
  <2> QED BY <2>1, SpecIs, Zenon
<1>3. (\E s \in Seq(Printable) : part = TextPart(s)) \/ (\E t \in FieldType : part = Field(t))
  BY Zenon DEF ProgramPart
<1> QED BY <1>1, <1>2, <1>3, Zenon

\* The arguments can be counted.
LEMMA CountsExist ==
  ASSUME NEW parts, NEW len \in Nat, len = Len(parts)
  PROVE  \E tk : Counts(tk, parts)
<1> DEFINE D == [i \in 1..len |-> [t \in Nat |-> t + IF parts[i].kind # "field" THEN 0 ELSE 1]]
<1>1. D \in [1..len -> [Nat -> Nat]]
  OBVIOUS
<1>2. \A i \in 1..len, t \in Nat : D[i][t] = t + IF parts[i].kind # "field" THEN 0 ELSE 1
  OBVIOUS
<1> HIDE DEF D
<1>3. PICK tk \in [0..len -> Nat] : Recurs(tk, 0, len, D)
  BY <1>1, RecursionExists
<1>4. ASSUME NEW i \in 1..len PROVE tk[i] = tk[i - 1] + IF parts[i].kind # "field" THEN 0 ELSE 1
  <2>1. tk[i - 1] \in Nat
    <3>1. i - 1 \in 0..len
      OBVIOUS
    <3> QED BY <3>1
  <2>2. tk[i] = D[i][tk[i - 1]]
    BY <1>3, Zenon DEF Recurs
  <2> QED BY <1>2, <2>1, <2>2, Zenon
<1>5. tk[0] = 0
  BY <1>3, Zenon DEF Recurs
<1>6. Counts(tk, parts)
  BY <1>4, <1>5, Zenon DEF Counts
<1> QED BY <1>6, Zenon

\* A field takes one argument, the next.
LEMMA TakenIs ==
  ASSUME NEW part \in ProgramPart, part.kind = "field", NEW u \in Nat, NEW m \in Nat
  PROVE  /\ Len(Taken(part, u)) = 1 /\ Taken(part, u)[1] = u
         /\ (\A i \in DOMAIN Taken(part, u) : Taken(part, u)[i] < m) <=> u < m
<1>1. part.index = -1 /\ part.nested = FALSE
  <2>1. ~(part.kind = "text")
    OBVIOUS
  <2> QED BY <2>1, PartIs, Zenon
<1>2. Taken(part, u) = <<u>>
  <2>1. ~(-1 >= 0)
    OBVIOUS
  <2> QED BY <1>1, <2>1, Zenon DEF Taken
<1>3. PICK w : w = <<u>>
  OBVIOUS
<1>4. Len(w) = 1 /\ w[1] = u /\ DOMAIN w = {1}
  BY <1>3
<1>5. (\A i \in DOMAIN w : w[i] < m) <=> u < m
  BY <1>4
<1> QED BY <1>2, <1>3, <1>4, <1>5, Zenon

\* The fields all take the next argument.
LEMMA AllConsistent ==
  ASSUME NEW parts \in Seq(ProgramPart)
  PROVE  Consistent(parts)
<1>1. ASSUME NEW f \in Fields(parts) PROVE f.index = -1
  <2>1. PICK i \in DOMAIN parts : parts[i].kind = "field" /\ f = parts[i]
    BY Zenon DEF Fields
  <2>2. parts[i] \in ProgramPart
    BY <2>1
  <2>3. ~(parts[i].kind = "text")
    BY <2>1
  <2> QED BY <2>1, <2>2, <2>3, PartIs, Zenon
<1> QED BY <1>1, Zenon DEF Consistent

AllGood(parts, args, tk) == \A i \in DOMAIN parts : PartGood(parts[i], args, tk[i - 1])
AllText(parts, args, tk) == FlattenSeq([i \in DOMAIN parts |-> PartText(parts[i], args, tk[i - 1])])

\* What the parts mean, one by one.
LEMMA MeaningIs ==
  ASSUME NEW parts \in Seq(ProgramPart), NEW args \in Seq(Argument), NEW tk, Counts(tk, parts)
  PROVE  Meaning(parts, args) =
           IF AllGood(parts, args, tk) THEN [thrown |-> FALSE, text |-> AllText(parts, args, tk)]
           ELSE Thrown
<1> DEFINE Right(g) == g = [i \in 0..Len(parts) |->
                         IF i = 0 THEN 0
                         ELSE g[i - 1] + IF parts[i].kind # "field" THEN 0
                                         ELSE Len(Taken(parts[i], g[i - 1]))]
           h == CHOOSE g : Right(g)
           Arg(i, k) == args[Taken(parts[i], h[i - 1])[k] + 1]
           Good(i) ==
             /\ parts[i].kind # "mistake"
             /\ parts[i].kind = "field" =>
               /\ \A k \in DOMAIN Taken(parts[i], h[i - 1]) : Taken(parts[i], h[i - 1])[k] < Len(args)
               /\ Shows(parts[i], Arg(i, 1))
               /\ parts[i].width <= MaxInt /\ parts[i].precision <= MaxInt
               /\ parts[i].nested => Arg(i, 2).type \in IntTypes /\ Arg(i, 2).value \in 0..MaxInt
           Width(i) == IF parts[i].nested THEN Arg(i, 2).value
                       ELSE IF parts[i].width < 0 THEN 0 ELSE parts[i].width
           One(i) == IF parts[i].kind = "text" THEN parts[i].chars
                     ELSE Shown(parts[i], Arg(i, 1), Width(i))
<1>1. Meaning(parts, args) =
        IF Consistent(parts) /\ \A i \in DOMAIN parts : Good(i)
        THEN [thrown |-> FALSE, text |-> FlattenSeq([i \in DOMAIN parts |-> One(i)])]
        ELSE Thrown
  BY Zenon DEF Meaning
<1>2. PICK len \in Nat : len = Len(parts) /\ DOMAIN parts = 1..len
  OBVIOUS
<1>3. \A i \in 1..len : parts[i] \in ProgramPart
  BY <1>2
<1>4. /\ tk \in [0..len -> Nat] /\ tk[0] = 0
      /\ \A i \in 1..len : tk[i] = tk[i - 1] + IF parts[i].kind # "field" THEN 0 ELSE 1
  BY <1>2, Zenon DEF Counts
<1>5. \A i \in 1..len : i - 1 \in 0..len /\ i \in 0..len /\ i # 0
  OBVIOUS
<1>6. \A i \in 1..len : tk[i - 1] \in Nat
  BY <1>4, <1>5
<1>7. \A i \in 1..len, u \in Nat : parts[i].kind = "field" => Len(Taken(parts[i], u)) = 1
  <2>1. 0 \in Nat
    OBVIOUS
  <2> QED BY <1>3, <2>1, TakenIs, Zenon
<1>8. Right(tk)
  <2>1. \A i \in 0..len : tk[i] = IF i = 0 THEN 0
                                 ELSE tk[i - 1] + IF parts[i].kind # "field" THEN 0
                                                  ELSE Len(Taken(parts[i], tk[i - 1]))
    <3> SUFFICES ASSUME NEW i \in 0..len
                 PROVE  tk[i] = IF i = 0 THEN 0
                                ELSE tk[i - 1] + IF parts[i].kind # "field" THEN 0
                                                 ELSE Len(Taken(parts[i], tk[i - 1]))
      OBVIOUS
    <3>1. CASE i = 0
      BY <1>4, <3>1, Zenon
    <3>2. CASE i # 0
      <4>1. i \in 1..len
        BY <3>2
      <4> QED BY <1>4, <1>6, <1>7, <3>2, <4>1, Zenon
    <3> QED BY <3>1, <3>2
  <2>2. tk = [i \in 0..len |-> tk[i]]
    BY <1>4
  <2>3. [i \in 0..len |-> tk[i]] = [i \in 0..len |-> IF i = 0 THEN 0
                                 ELSE tk[i - 1] + IF parts[i].kind # "field" THEN 0
                                                  ELSE Len(Taken(parts[i], tk[i - 1]))]
    BY <2>1, Zenon
  <2> QED BY <1>2, <2>2, <2>3, Zenon
<1>9. Right(h)
  BY <1>8, Zenon
<1> HIDE DEF h
<1>10. h[0] = 0 /\ \A i \in 1..len : h[i] = h[i - 1] + IF parts[i].kind # "field" THEN 0
                                                       ELSE Len(Taken(parts[i], h[i - 1]))
  <2>1. \A i \in 0..len : h[i] = IF i = 0 THEN 0
                                ELSE h[i - 1] + IF parts[i].kind # "field" THEN 0
                                                ELSE Len(Taken(parts[i], h[i - 1]))
    BY <1>2, <1>9, Zenon
  <2>2. 0 \in 0..len
    OBVIOUS
  <2> QED BY <1>5, <2>1, <2>2, Zenon
<1> HIDE DEF Right
<1> DEFINE A == {n \in 0..len : h[n] = tk[n]}
<1>11. 0 \in A
  <2>1. 0 \in 0..len
    OBVIOUS
  <2> QED BY <1>4, <1>10, <2>1, Zenon
<1>12. \A n \in 0..len - 1 : n \in A => n + 1 \in A
  <2> SUFFICES ASSUME NEW n \in 0..len - 1, n \in A PROVE n + 1 \in A
    OBVIOUS
  <2>1. PICK m \in 1..len : m = n + 1
    OBVIOUS
  <2>2. m - 1 = n /\ m \in 0..len
    BY <2>1
  <2>3. h[n] = tk[n]
    BY Zenon
  <2>4. h[m] = tk[m]
    BY <1>4, <1>6, <1>7, <1>10, <2>2, <2>3, Zenon
  <2> QED BY <2>1, <2>2, <2>4, Zenon
<1>13. \A i \in 1..len : h[i - 1] = tk[i - 1]
  <2> HIDE DEF A
  <2>1. \A n \in 0..len : n \in A
    BY <1>11, <1>12, UpTo
  <2> QED BY <1>5, <2>1, Zenon DEF A
<1> HIDE DEF A
<1>14. ASSUME NEW i \in 1..len
       PROVE  (Good(i) <=> PartGood(parts[i], args, tk[i - 1]))
              /\ One(i) = PartText(parts[i], args, tk[i - 1])
  <2>1. PICK p \in ProgramPart : p = parts[i]
    BY <1>3
  <2>2. PICK u \in Nat : u = tk[i - 1]
    BY <1>6
  <2>3. h[i - 1] = u
    BY <1>13, <2>2, Zenon
  <2>4. CASE p.kind = "text"
    <3>1. p.kind # "mistake" /\ ~(p.kind = "field")
      BY <2>4
    <3> QED BY <2>1, <2>4, <3>1, Zenon DEF PartGood, PartText
  <2>5. CASE p.kind = "field"
    <3>1. p.kind # "mistake" /\ ~(p.kind = "text")
      BY <2>5
    <3>2. p.nested = FALSE /\ p.width = -1 /\ p.precision = -1
      BY <3>1, PartIs, Zenon
    <3>3. PICK m \in Nat : m = Len(args)
      OBVIOUS
    <3>4. Taken(p, u)[1] = u /\ ((\A k \in DOMAIN Taken(p, u) : Taken(p, u)[k] < m) <=> u < m)
      BY <2>5, TakenIs
    <3>5. -1 <= MaxInt /\ -1 < 0
      BY FormatAssumption
    <3>6. Arg(i, 1) = args[u + 1]
      BY <2>1, <2>3, <3>4, Zenon
    <3>7. Width(i) = 0
      BY <2>1, <3>2, <3>5, Zenon
    <3>8. Good(i) <=> u < m /\ Shows(p, args[u + 1])
      <4>1. p.width <= MaxInt /\ p.precision <= MaxInt /\ ~p.nested
        BY <3>2, <3>5, Zenon
      <4>2. (\A k \in DOMAIN Taken(parts[i], h[i - 1]) : Taken(parts[i], h[i - 1])[k] < Len(args)) <=> u < m
        BY <2>1, <2>3, <3>3, <3>4, Zenon
      <4> HIDE DEF Arg
      <4> QED BY <2>1, <2>5, <3>1, <3>6, <4>1, <4>2, Zenon
    <3>9. One(i) = Shown(p, args[u + 1], 0)
      <4> HIDE DEF Arg, Width
      <4> QED BY <2>1, <3>1, <3>6, <3>7, Zenon
    <3> HIDE DEF Good, One
    <3> QED BY <2>1, <2>2, <2>5, <3>1, <3>3, <3>8, <3>9, Zenon DEF PartGood, PartText
  <2>6. p.kind = "text" \/ p.kind = "field"
    BY PartIs, Zenon
  <2> QED BY <2>4, <2>5, <2>6
<1> HIDE DEF Good, One
<1>15. (\A i \in DOMAIN parts : Good(i)) <=> AllGood(parts, args, tk)
  BY <1>2, <1>14, Zenon DEF AllGood
<1>16. [i \in DOMAIN parts |-> One(i)] = [i \in DOMAIN parts |-> PartText(parts[i], args, tk[i - 1])]
  BY <1>2, <1>14, Zenon
<1> QED BY <1>1, <1>15, <1>16, AllConsistent, Zenon DEF AllText
-----------------------------------------------------------------------------
(* The writer writes what the parts mean *)

\* A part is spelled in characters that can be printed.
LEMMA SpelledType ==
  ASSUME NEW part \in ProgramPart
  PROVE  Spelled(part) \in Seq(Printable) /\ Len(Spelled(part)) \in Nat
<1>0. ASSUME Spelled(part) \in Seq(Printable) PROVE Len(Spelled(part)) \in Nat
  BY <1>0
<1>1. OpenBrace \in Printable /\ CloseBrace \in Printable /\ Colon \in Printable
  BY Zenon DEF OpenBrace, CloseBrace, Colon, Printable, Sign, End
<1>2. CASE part.kind = "text"
  <2>1. PICK s \in Seq(Printable) : part = TextPart(s)
    <3>1. ~(part.kind = "field")
      BY <1>2
    <3> QED BY <3>1, PartIs, Zenon
  <2>2. Spread(Doubled, s) \in Seq(Printable)
    <3>1. SpreadGrows(Doubled, s, OpenBrace, Printable)
      BY <1>1, DoubledIs, SpreadAppend
    <3> QED BY <3>1, Zenon DEF SpreadGrows
  <2> QED BY <1>0, <2>1, <2>2, TextSpelled, Zenon
<1>3. CASE part.kind = "field"
  <2>1. PICK t \in FieldType : part = Field(t)
    <3>1. ~(part.kind = "text")
      BY <1>3
    <3> QED BY <3>1, PartIs, Zenon
  <2>2. PICK x, y, z : x = OpenBrace /\ y = CloseBrace /\ z = Colon
    OBVIOUS
  <2>3. x \in Printable /\ y \in Printable /\ z \in Printable
    BY <1>1, <2>2, Zenon
  <2>4. t # End => t \in Printable
    BY Zenon DEF FieldType, Printable, Sign, End
  <2>5. <<x>> \o <<y>> \in Seq(Printable)
    BY <2>3
  <2>6. t # End => <<x>> \o (<<z>> \o <<t>>) \o <<y>> \in Seq(Printable)
    <3> SUFFICES ASSUME t \in Printable PROVE <<x>> \o (<<z>> \o <<t>>) \o <<y>> \in Seq(Printable)
      BY <2>4
    <3> QED BY <2>3
  <2> QED BY <1>0, <2>1, <2>2, <2>5, <2>6, FieldSpelled, Zenon
<1> QED BY <1>2, <1>3, PartIs, Zenon

\* What a part shows can be printed.
LEMMA PartTextType ==
  ASSUME NEW part \in ProgramPart, NEW args \in Seq(Argument), NEW k \in Nat,
         PartGood(part, args, k)
  PROVE  PartText(part, args, k) \in Seq(Printable)
<1>1. CASE part.kind = "text"
  <2>1. part.chars \in Seq(Printable)
    <3>1. ~(part.kind = "field")
      BY <1>1
    <3> QED BY <3>1, PartIs, Zenon
  <2> QED BY <1>1, <2>1, Zenon DEF PartText
<1>2. CASE part.kind = "field"
  <2>0. ~(part.kind = "text")
    BY <1>2
  <2>1. PICK t \in FieldType : part = Field(t)
    BY <2>0, PartIs, Zenon
  <2>2. k < Len(args) /\ Shows(Field(t), args[k + 1])
    BY <1>2, <2>1, Zenon DEF PartGood
  <2>3. PICK a \in Argument : a = args[k + 1]
    <3>1. k + 1 \in 1..Len(args)
      BY <2>2
    <3> QED BY <3>1
  <2>4. Shown(Field(t), a, 0) \in Seq(Printable)
    BY <2>2, <2>3, VisitIs, Zenon
  <2> QED BY <2>0, <2>1, <2>3, <2>4, Zenon DEF PartText
<1> QED BY <1>1, <1>2, PartIs, Zenon

\* One part is written, or throws.
LEMMA PartWritten ==
  ASSUME NEW fmt, NEW args \in Seq(Argument), NEW len \in Nat, NEW f, NEW o \in Nat,
         NEW k \in Nat, NEW x \in Seq(Printable), RunWrites(f, fmt, args, o, k, x, len),
         NEW part \in ProgramPart, Follows(fmt, o, Spelled(part))
  PROVE  /\ PartGood(part, args, k) =>
              RunWrites(f, fmt, args, o + Len(Spelled(part)),
                        k + (IF part.kind # "field" THEN 0 ELSE 1), x \o PartText(part, args, k), len)
         /\ ~PartGood(part, args, k) => Throws(f, o + Len(Spelled(part)))
<1>1. CASE part.kind = "text"
  <2>0. part.kind # "field" /\ k + 0 = k
    BY <1>1
  <2>1. PICK s \in Seq(Printable) : part = TextPart(s) /\ part.chars = s
    BY <2>0, PartIs, Zenon
  <2>2. Follows(fmt, o, Spelled(TextPart(s)))
    BY <2>1, Zenon
  <2>3. RunWrites(f, fmt, args, o + Len(Spelled(TextPart(s))), k, x \o s, len)
    BY <2>2, TextWritten
  <2>4. PartGood(part, args, k) /\ PartText(part, args, k) = s
    BY <1>1, <2>0, <2>1, Zenon DEF PartGood, PartText
  <2> QED BY <2>0, <2>1, <2>3, <2>4, Zenon
<1>2. CASE part.kind = "field"
  <2>0. ~(part.kind = "text") /\ ~(part.kind # "field")
    BY <1>2
  <2>1. PICK t \in FieldType : part = Field(t)
    BY <2>0, PartIs, Zenon
  <2>2. PICK n \in Nat : n = Len(Spelled(Field(t)))
    BY <2>1, SpelledType
  <2>3. Follows(fmt, o, Spelled(Field(t)))
    BY <2>1, Zenon
  <2>4. /\ Showable(t, args, k) =>
             RunWrites(f, fmt, args, o + n, k + 1, x \o Shown(Field(t), args[k + 1], 0), len)
        /\ ~Showable(t, args, k) => Throws(f, o + n)
    BY <2>2, <2>3, FieldWritten
  <2>5. PartGood(part, args, k) <=> Showable(t, args, k)
    BY <1>2, <2>1, Zenon DEF PartGood, Showable
  <2>6. PartText(part, args, k) = Shown(Field(t), args[k + 1], 0)
    BY <2>0, <2>1, Zenon DEF PartText
  <2> QED BY <2>0, <2>1, <2>2, <2>4, <2>5, <2>6, Zenon
<1> QED BY <1>1, <1>2, PartIs, Zenon

\* The writer begins with nothing written.
LEMMA WriterBegins ==
  ASSUME NEW fmt, NEW args, NEW len, len = Len(fmt), NEW f, WriterRun(f, fmt, args)
  PROVE  RunWrites(f, fmt, args, 0, 0, <<>>, len)
<1>1. Parser(fmt, args) = Reading(fmt, args, 1, 0, NoArg, DefaultSpec)
  BY Zenon DEF Parser, Reading, ParserOf
<1>2. f[0] = Writer(Reading(fmt, args, 0 + 1, 0, NoArg, DefaultSpec), <<>>)
  <2>1. 0 + 1 = 1
    OBVIOUS
  <2> QED BY <1>1, <2>1, Zenon DEF WriterRun, WriterStart
<1>3. 0 \in 0..0
  OBVIOUS
<1> QED BY <1>2, <1>3, Zenon DEF RunWrites, Writes

\* fs[n] is the text of the first n members of m, texts of S.
Joins(fs, m, N, S) ==
  /\ m \in [1..N -> Seq(S)] /\ fs \in [0..N -> Seq(S)]
  /\ fs[0] = <<>> /\ \A n \in 1..N : fs[n] = fs[n - 1] \o m[n]

\* Each member of m is in the text of all, after those before it.
InPlace(fs, m, N) ==
  \A n \in 1..N : /\ Follows(fs[N], Len(fs[n - 1]), m[n])
                  /\ Len(fs[n]) = Len(fs[n - 1]) + Len(m[n])

\* Joining puts each member there.
LEMMA JoinedFollow ==
  ASSUME NEW S, NEW N \in Nat, NEW m, NEW fs, Joins(fs, m, N, S)
  PROVE  InPlace(fs, m, N)
<1>0. /\ m \in [1..N -> Seq(S)] /\ fs \in [0..N -> Seq(S)]
      /\ fs[0] = <<>> /\ \A n \in 1..N : fs[n] = fs[n - 1] \o m[n]
  BY Zenon DEF Joins
<1>1. PICK fmt \in Seq(S) : fmt = fs[N]
  BY <1>0
<1>2. PICK len \in Nat : len = Len(fmt)
  OBVIOUS
<1>3. ASSUME NEW n \in 1..N
      PROVE  /\ fs[n - 1] \in Seq(S) /\ m[n] \in Seq(S) /\ fs[n] \in Seq(S)
             /\ fs[n] = fs[n - 1] \o m[n]
             /\ Len(fs[n]) = Len(fs[n - 1]) + Len(m[n])
  <2>1. n - 1 \in 0..N /\ n \in 0..N
    OBVIOUS
  <2>2. PICK u \in Seq(S), w \in Seq(S) : u = fs[n - 1] /\ w = m[n]
    BY <1>0, <2>1
  <2>3. Len(u \o w) = Len(u) + Len(w) /\ u \o w \in Seq(S)
    BY ConcatIs
  <2> QED BY <1>0, <2>2, <2>3, Zenon
<1> DEFINE A == {j \in 0..N : Follows(fmt, 0, fs[N - j])}
<1>4. 0 \in A
  <2>1. Follows(fmt, 0, fmt)
    <3>1. 0 + len <= len /\ \A j \in 1..len : fmt[0 + j] = fmt[j]
      OBVIOUS
    <3> QED BY <1>2, <3>1, Zenon DEF Follows
  <2>2. N - 0 = N /\ 0 \in 0..N
    OBVIOUS
  <2> QED BY <1>1, <2>1, <2>2, Zenon
<1>5. ASSUME NEW j \in 0..N, NEW n \in 1..N, n = N - j, j \in A
      PROVE  Follows(fmt, 0, fs[n - 1]) /\ Follows(fmt, Len(fs[n - 1]), m[n])
  <2>1. Follows(fmt, 0, fs[n - 1] \o m[n])
    BY <1>3, <1>5, Zenon
  <2>2. PICK u \in Seq(S), w \in Seq(S) : u = fs[n - 1] /\ w = m[n]
    BY <1>3, Zenon
  <2>3. Follows(fmt, 0, u \o w)
    BY <2>1, <2>2, Zenon
  <2>4. Follows(fmt, 0, u) /\ Follows(fmt, 0 + Len(u), w)
    <3>1. 0 \in Nat
      OBVIOUS
    <3> HIDE DEF A
    <3> QED BY <1>2, <2>3, <3>1, FollowsParts
  <2>5. 0 + Len(u) = Len(u)
    OBVIOUS
  <2> QED BY <2>2, <2>4, <2>5, Zenon
<1>6. \A j \in 0..N - 1 : j \in A => j + 1 \in A
  <2> SUFFICES ASSUME NEW j \in 0..N - 1, j \in A PROVE j + 1 \in A
    OBVIOUS
  <2>1. PICK n \in 1..N : n = N - j
    OBVIOUS
  <2>2. N - (j + 1) = n - 1 /\ j + 1 \in 0..N /\ j \in 0..N
    BY <2>1
  <2>3. Follows(fmt, 0, fs[n - 1])
    BY <1>5, <2>1, <2>2, Zenon
  <2> QED BY <2>2, <2>3, Zenon
<1> HIDE DEF A
<1>7. \A j \in 0..N : j \in A
  BY <1>4, <1>6, UpTo
<1>8. ASSUME NEW n \in 1..N PROVE Follows(fmt, Len(fs[n - 1]), m[n])
  <2>1. PICK j \in 0..N : j = N - n
    OBVIOUS
  <2>2. n = N - j
    BY <2>1
  <2> QED BY <1>5, <1>7, <2>2, Zenon
<1> QED BY <1>1, <1>3, <1>8, Zenon DEF InPlace

\* What the writer has done after i parts: it has written what they show, or thrown.
Through(i, good, f, fmt, args, o, k, x, len) ==
  /\ (\A j \in 1..i : good[j]) => RunWrites(f, fmt, args, o, k, x, len)
  /\ ~(\A j \in 1..i : good[j]) => Throws(f, o)

\* One part further.
LEMMA PartFurther ==
  ASSUME NEW fmt, NEW args \in Seq(Argument), NEW len \in Nat, NEW f, NEW o \in Nat,
         NEW k \in Nat, NEW x \in Seq(Printable), NEW n \in Nat, NEW i \in Nat, NEW good,
         i = n + 1, Through(n, good, f, fmt, args, o, k, x, len),
         NEW part \in ProgramPart, good[i] <=> PartGood(part, args, k),
         Follows(fmt, o, Spelled(part)), NEW y, good[i] => y = PartText(part, args, k)
  PROVE  Through(i, good, f, fmt, args, o + Len(Spelled(part)),
                 k + (IF part.kind # "field" THEN 0 ELSE 1), x \o y, len)
<1>1. 1..i = (1..n) \cup {i} /\ i \in 1..i
  OBVIOUS
<1>2. PICK m \in Nat : m = Len(Spelled(part))
  BY SpelledType
<1>3. CASE (\A j \in 1..n : good[j]) /\ good[i]
  <2>1. \A j \in 1..i : good[j]
    BY <1>1, <1>3
  <2>2. RunWrites(f, fmt, args, o, k, x, len)
    BY <1>3, Zenon DEF Through
  <2>3. RunWrites(f, fmt, args, o + Len(Spelled(part)),
                  k + (IF part.kind # "field" THEN 0 ELSE 1), x \o PartText(part, args, k), len)
    BY <1>3, <2>2, PartWritten
  <2> QED BY <1>3, <2>1, <2>3, Zenon DEF Through
<1>4. CASE (\A j \in 1..n : good[j]) /\ ~good[i]
  <2>1. ~(\A j \in 1..i : good[j])
    BY <1>1, <1>4
  <2>2. RunWrites(f, fmt, args, o, k, x, len)
    BY <1>4, Zenon DEF Through
  <2>3. Throws(f, o + Len(Spelled(part)))
    BY <1>4, <2>2, PartWritten
  <2> QED BY <2>1, <2>3, Zenon DEF Through
<1>5. CASE ~(\A j \in 1..n : good[j])
  <2>1. ~(\A j \in 1..i : good[j])
    BY <1>1, <1>5
  <2>2. PICK a \in 0..o : f[a].thrown
    BY <1>5, Zenon DEF Through, Throws
  <2>3. a \in 0..o + m
    OBVIOUS
  <2>4. Throws(f, o + m)
    BY <2>2, <2>3, Zenon DEF Throws
  <2> QED BY <1>2, <2>1, <2>4, Zenon DEF Through
<1> QED BY <1>3, <1>4, <1>5

\* The parts of a format, what is read and what is written of them one by one.
LEMMA PartsWritten ==
  ASSUME NEW parts \in Seq(ProgramPart), NEW args \in Seq(Argument), NEW tk, Counts(tk, parts)
  PROVE  /\ AllGood(parts, args, tk) =>
              /\ Formatted(AllSpelled(parts), args) =
                   [thrown |-> FALSE, text |-> AllText(parts, args, tk)]
              /\ AllText(parts, args, tk) \in Seq(Printable)
         /\ ~AllGood(parts, args, tk) => Formatted(AllSpelled(parts), args) = Thrown
<1>1. PICK N \in Nat : N = Len(parts) /\ DOMAIN parts = 1..N
  OBVIOUS
<1>2. \A i \in 1..N : parts[i] \in ProgramPart
  BY <1>1
<1>3. /\ tk \in [0..N -> Nat] /\ tk[0] = 0
      /\ \A i \in 1..N : tk[i] = tk[i - 1] + IF parts[i].kind # "field" THEN 0 ELSE 1
  BY <1>1, Zenon DEF Counts
<1>4. \A i \in 1..N : i - 1 \in 0..N /\ i \in 0..N /\ i - 1 \in Nat /\ i = (i - 1) + 1
  OBVIOUS
<1>5. \A i \in 0..N : tk[i] \in Nat
  BY <1>3
<1> DEFINE m1 == [i \in 1..N |-> Spelled(parts[i])]
           good == [i \in 1..N |-> PartGood(parts[i], args, tk[i - 1])]
           m2 == [i \in 1..N |-> IF good[i] THEN PartText(parts[i], args, tk[i - 1]) ELSE <<>>]
<1>6. m1 \in [1..N -> Seq(Printable)] /\ m1 \in Seq(Seq(Printable)) /\ Len(m1) = N
  <2>1. \A i \in 1..N : Spelled(parts[i]) \in Seq(Printable)
    BY <1>2, SpelledType, Zenon
  <2> QED BY <2>1
<1>7. \A i \in 1..N : good[i] <=> PartGood(parts[i], args, tk[i - 1])
  BY Zenon
<1>8. \A i \in 1..N : m2[i] = IF good[i] THEN PartText(parts[i], args, tk[i - 1]) ELSE <<>>
  BY Zenon
<1>9. m2 \in [1..N -> Seq(Printable)] /\ m2 \in Seq(Seq(Printable)) /\ Len(m2) = N
  <2>1. \A i \in 1..N : good[i] => PartText(parts[i], args, tk[i - 1]) \in Seq(Printable)
    BY <1>2, <1>4, <1>5, <1>7, PartTextType, Zenon
  <2> HIDE DEF good
  <2>2. \A i \in 1..N : m2[i] \in Seq(Printable)
    BY <2>1
  <2>3. m2 = [i \in 1..N |-> m2[i]]
    OBVIOUS
  <2> HIDE DEF m2
  <2>4. m2 \in [1..N -> Seq(Printable)]
    BY <2>2, <2>3, Zenon
  <2> QED BY <2>4
<1>10. \A i \in 1..N : m1[i] = Spelled(parts[i])
  OBVIOUS
<1>11. FlattenSeq(m1) = AllSpelled(parts)
  BY <1>1, Zenon DEF AllSpelled
<1>12. AllGood(parts, args, tk) <=> \A i \in 1..N : good[i]
  BY <1>1, <1>7, Zenon DEF AllGood
<1>13. AllGood(parts, args, tk) => FlattenSeq(m2) = AllText(parts, args, tk)
  <2> SUFFICES ASSUME AllGood(parts, args, tk)
               PROVE  FlattenSeq(m2) = AllText(parts, args, tk)
    OBVIOUS
  <2>1. \A i \in 1..N : good[i]
    BY <1>12, Zenon
  <2> HIDE DEF good
  <2>2. m2 = [i \in 1..N |-> PartText(parts[i], args, tk[i - 1])]
    BY <2>1, Zenon
  <2> QED BY <1>1, <2>2, Zenon DEF AllText
<1> HIDE DEF m1, m2, good
<1>14. PICK fs \in [0..N -> Seq(Printable)] :
         fs[0] = <<>> /\ (\A n \in 1..N : fs[n] = fs[n - 1] \o m1[n]) /\ fs[N] = FlattenSeq(m1)
  BY <1>6, FlattenRecursion
<1>15. PICK xs \in [0..N -> Seq(Printable)] :
         xs[0] = <<>> /\ (\A n \in 1..N : xs[n] = xs[n - 1] \o m2[n]) /\ xs[N] = FlattenSeq(m2)
  BY <1>9, FlattenRecursion
<1>16. PICK fmt \in Seq(Printable) : fmt = fs[N] /\ fmt = AllSpelled(parts)
  BY <1>11, <1>14
<1>17. \A n \in 1..N : Follows(fmt, Len(fs[n - 1]), m1[n]) /\ Len(fs[n]) = Len(fs[n - 1]) + Len(m1[n])
  <2>1. Joins(fs, m1, N, Printable)
    BY <1>6, <1>14, Zenon DEF Joins
  <2>2. InPlace(fs, m1, N)
    BY <2>1, JoinedFollow, Zenon
  <2> QED BY <1>16, <2>2, Zenon DEF InPlace
<1>18. PICK len \in Nat : len = Len(fmt)
  OBVIOUS
<1>19. PICK f : WriterRun(f, fmt, args)
  BY <1>18, WriterRuns
<1>20. \A n \in 0..N : Len(fs[n]) \in Nat
  OBVIOUS
<1> DEFINE A == {n \in 0..N : Through(n, good, f, fmt, args, Len(fs[n]), tk[n], xs[n], len)}
<1>21. 0 \in A
  <2>1. RunWrites(f, fmt, args, 0, 0, <<>>, len)
    BY <1>18, <1>19, WriterBegins
  <2>2. Len(fs[0]) = 0 /\ 0 \in 0..N /\ \A j \in 1..0 : FALSE
    BY <1>14
  <2> QED BY <1>3, <1>15, <2>1, <2>2, Zenon DEF Through
<1>22. \A n \in 0..N - 1 : n \in A => n + 1 \in A
  <2> SUFFICES ASSUME NEW n \in 0..N - 1, n \in A PROVE n + 1 \in A
    OBVIOUS
  <2>1. PICK i \in 1..N : i = n + 1
    OBVIOUS
  <2>2. i - 1 = n /\ n \in Nat /\ i \in Nat /\ n \in 0..N /\ i \in 0..N
    BY <2>1
  <2>3. PICK part \in ProgramPart : part = parts[i]
    BY <1>2
  <2>4. PICK o \in Nat, k \in Nat, x \in Seq(Printable) : o = Len(fs[n]) /\ k = tk[n] /\ x = xs[n]
    BY <1>5, <1>20, <2>2
  <2>5. Through(n, good, f, fmt, args, o, k, x, len)
    BY <2>4, Zenon
  <2>6. good[i] <=> PartGood(part, args, k)
    BY <1>7, <2>2, <2>3, <2>4, Zenon
  <2>7. Follows(fmt, o, Spelled(part)) /\ Len(fs[i]) = o + Len(Spelled(part))
    BY <1>10, <1>17, <2>2, <2>3, <2>4, Zenon
  <2>8. PICK y : y = m2[i]
    OBVIOUS
  <2>9. (good[i] => y = PartText(part, args, k)) /\ xs[i] = x \o y
    BY <1>8, <1>15, <2>2, <2>3, <2>4, <2>8, Zenon
  <2>10. tk[i] = k + IF part.kind # "field" THEN 0 ELSE 1
    BY <1>3, <2>2, <2>3, <2>4, Zenon
  <2> HIDE DEF A
  <2>11. Through(i, good, f, fmt, args, o + Len(Spelled(part)),
                 k + (IF part.kind # "field" THEN 0 ELSE 1), x \o y, len)
    BY <2>1, <2>2, <2>5, <2>6, <2>7, <2>9, PartFurther
  <2>12. Through(i, good, f, fmt, args, Len(fs[i]), tk[i], xs[i], len)
    BY <2>7, <2>9, <2>10, <2>11, Zenon
  <2> QED BY <2>1, <2>2, <2>12, Zenon DEF A
<1> HIDE DEF A
<1>23. Through(N, good, f, fmt, args, len, tk[N], xs[N], len)
  <2>1. \A n \in 0..N : n \in A
    BY <1>21, <1>22, UpTo
  <2>2. N \in 0..N
    OBVIOUS
  <2> QED BY <1>16, <1>18, <2>1, <2>2, Zenon DEF A
<1>24. ASSUME AllGood(parts, args, tk)
       PROVE  /\ Formatted(fmt, args) = [thrown |-> FALSE, text |-> AllText(parts, args, tk)]
              /\ AllText(parts, args, tk) \in Seq(Printable)
  <2>1. RunWrites(f, fmt, args, len, tk[N], xs[N], len)
    BY <1>12, <1>23, <1>24, Zenon DEF Through
  <2>2. Formatted(fmt, args) = [thrown |-> FALSE, text |-> xs[N]]
    BY <2>1, WrittenIsResult
  <2>3. xs[N] \in Seq(Printable)
    OBVIOUS
  <2> QED BY <1>13, <1>15, <1>24, <2>2, <2>3, Zenon
<1>25. ASSUME ~AllGood(parts, args, tk) PROVE Formatted(fmt, args) = Thrown
  <2>1. Throws(f, len)
    BY <1>12, <1>23, <1>25, Zenon DEF Through
  <2> QED BY <1>18, <1>19, <2>1, ThrownIsResult
<1> QED BY <1>16, <1>24, <1>25, Zenon

\* A format of the program is formatted as it means: what its texts say and its
\* fields show, or an exception when a field has no argument that it can show.
LEMMA FormattedIs ==
  ASSUME NEW parts \in Seq(ProgramPart), NEW args \in Seq(Argument)
  PROVE  /\ Formatted(AllSpelled(parts), args) = Meaning(parts, args)
         /\ Meaning(parts, args) = Thrown
            \/ \E text \in Seq(Printable) : Meaning(parts, args) = [thrown |-> FALSE, text |-> text]
<1>1. PICK len \in Nat : len = Len(parts)
  OBVIOUS
<1>2. PICK tk : Counts(tk, parts)
  BY <1>1, CountsExist
<1>3. Meaning(parts, args) =
        IF AllGood(parts, args, tk) THEN [thrown |-> FALSE, text |-> AllText(parts, args, tk)]
        ELSE Thrown
  BY <1>2, MeaningIs
<1>4. /\ AllGood(parts, args, tk) =>
           /\ Formatted(AllSpelled(parts), args) =
                [thrown |-> FALSE, text |-> AllText(parts, args, tk)]
           /\ AllText(parts, args, tk) \in Seq(Printable)
      /\ ~AllGood(parts, args, tk) => Formatted(AllSpelled(parts), args) = Thrown
  BY <1>2, PartsWritten
<1>5. CASE AllGood(parts, args, tk)
  BY <1>3, <1>4, <1>5, Zenon
<1>6. CASE ~AllGood(parts, args, tk)
  BY <1>3, <1>4, <1>6, Zenon
<1> QED BY <1>5, <1>6
-----------------------------------------------------------------------------
(* The invariant of the loggers *)

Text == [thrown : BOOLEAN, text : Seq(Sign)]

\* Every call that is made is formatted as its format and arguments mean.
MenuIsFormatted ==
  \A c \in menu : /\ Formatted(AllSpelled(c.parts), c.args) = Meaning(c.parts, c.args)
                  /\ Meaning(c.parts, c.args) \in Text

\* What is written to the console, and what of it a logger has written.
Record ==
  [by : User, log : Nat, serial : Nat, piece : {"color", "text", "reset", "clear_line"},
   chars : Seq(Sign)]

Written(c, l) == FlattenSeq([i \in DOMAIN c |-> If(c[i].log = l, <<c[i]>>)])

Call ==
  [at : {"idle", "error", "lock", "write", "unlock"}, log : Nat, call : menu \cup {NoCall},
   raw : Text, serial : Nat, piece : Nat]

LTypeOK ==
  /\ loggers \in Seq(Name)
  /\ holder \in Seq(User \cup {Nobody}) /\ Len(holder) = Len(loggers)
  /\ DOMAIN user \subseteq User /\ user \in [DOMAIN user -> Call]
  /\ console \in Seq(Record)
  /\ colored \in BOOLEAN /\ pattern \in Seq(PatternPart) /\ calls \in Nat
  /\ MenuIsFormatted

\* A call that is being made is one of the menu and is for a logger that is there.
CallsAreFormatted ==
  \A u \in DOMAIN user : user[u].at # "idle" =>
    /\ user[u].log \in DOMAIN loggers /\ user[u].call \in menu
    /\ user[u].raw = Meaning(user[u].call.parts, user[u].call.args)

Writing(u) == user[u].at \in {"write", "unlock"}

\* Who writes has the mutex, and has written as much as it is at.
WritersHoldTheSink ==
  \A u \in DOMAIN user :
    /\ Writing(u) => holder[user[u].log] = u
    /\ UserAt(u, "lock") => user[u].piece = 0
    /\ UserAt(u, "write") => user[u].piece < Len(Pieces)
    /\ UserAt(u, "unlock") => user[u].piece = Len(Pieces)

\* The pieces of the line of u.
LineOf(u) ==
  LET meant == LineMeant([name |-> loggers[user[u].log], level |-> "warn",
                          text |-> Meaning(user[u].call.parts, user[u].call.args).text])
  IN  [k \in DOMAIN Pieces |->
        [by |-> u, log |-> user[u].log, serial |-> user[u].serial, piece |-> Pieces[k],
         chars |-> IF Pieces[k] = "text" THEN meant ELSE <<>>]]

\* The last n members of w are the first n of line.
EndsWith(w, n, line) == n <= Len(w) /\ \A k \in 1..n : w[Len(w) - n + k] = line[k]

\* What u has written of its line is the last that its logger has written.
LinesEnd ==
  \A u \in DOMAIN user :
    Writing(u) => EndsWith(Written(console, user[u].log), user[u].piece, LineOf(u))

LInv == LTypeOK /\ CallsAreFormatted /\ WritersHoldTheSink /\ LinesEnd

\* One record more on the console.
LEMMA WrittenAppend ==
  ASSUME NEW c \in Seq(Record), NEW e \in Record, NEW l
  PROVE  /\ Written(c, l) \in Seq(Record)
         /\ Written(Append(c, e), l) = IF e.log = l THEN Append(Written(c, l), e) ELSE Written(c, l)
<1>1. PICK R : R = Record
  OBVIOUS
<1>2. PICK f : f = [x \in R |-> If(x.log = l, <<x>>)]
  OBVIOUS
<1>3. \A x \in R : If(x.log = l, <<x>>) \in Seq(R)
  BY DEF If
<1>4. f \in SeqMap(R, R)
  BY <1>2, <1>3 DEF SeqMap
<1>5. ASSUME NEW s \in Seq(R) PROVE Written(s, l) = Spread(f, s)
  <2>1. \A i \in DOMAIN s : s[i] \in R
    OBVIOUS
  <2>2. [i \in DOMAIN s |-> If(s[i].log = l, <<s[i]>>)] = [i \in DOMAIN s |-> f[s[i]]]
    BY <2>1, <1>2
  <2> QED BY <2>2 DEF Written, Spread
<1>6. c \in Seq(R) /\ e \in R /\ Append(c, e) \in Seq(R)
  BY <1>1
<1>7. SpreadGrows(f, c, e, R)
  BY <1>4, <1>6, SpreadAppend, Zenon
<1>8. /\ Written(c, l) \in Seq(R)
      /\ Written(Append(c, e), l) = Written(c, l) \o f[e]
  BY <1>5, <1>6, <1>7, Zenon DEF SpreadGrows
<1>9. f[e] = IF e.log = l THEN <<e>> ELSE <<>>
  BY <1>2, <1>6 DEF If
<1>10. PICK w \in Seq(R) : w = Written(c, l)
  BY <1>8
<1>11. w \o <<e>> = Append(w, e) /\ w \o <<>> = w
  BY <1>6
<1> QED BY <1>1, <1>8, <1>9, <1>10, <1>11

\* The pieces of a line.
LEMMA PiecesType ==
  ASSUME colored \in BOOLEAN
  PROVE  /\ Len(Pieces) \in Nat /\ Len(Pieces) > 0 /\ DOMAIN Pieces = 1..Len(Pieces)
         /\ \A k \in 1..Len(Pieces) : Pieces[k] \in {"color", "text", "reset", "clear_line"}
<1>1. CASE colored
  <2>1. PICK p : p = <<"color", "text", "reset", "clear_line">>
    OBVIOUS
  <2>2. Len(p) = 4 /\ DOMAIN p = 1..4
    BY <2>1
  <2>3. p[1] = "color" /\ p[2] = "text" /\ p[3] = "reset" /\ p[4] = "clear_line"
    BY <2>1
  <2>4. \A k \in 1..4 : p[k] \in {"color", "text", "reset", "clear_line"}
    BY <2>3
  <2> QED BY <1>1, <2>1, <2>2, <2>4 DEF Pieces
<1>2. CASE ~colored
  BY <1>2 DEF Pieces
<1> QED BY <1>1, <1>2

\* What a call has formatted shows in its line as the parts of the pattern mean.
LEMMA LineShows ==
  ASSUME pattern \in Seq(PatternPart), NEW msg \in Msgs
  PROVE  /\ FormatLine(CompilePattern(PatternSpelled(pattern)), msg) = LineMeant(msg)
         /\ LineMeant(msg) \in Seq(Sign)
<1>1. LineMeant(msg) = Meant(pattern, msg) \o EndOfLine
  BY DEF LineMeant, Meant
<1>2. Meant(pattern, msg) \in Seq(Sign)
  <2>1. [shows |-> "chars", chars |-> <<>>] \in PatternPart
    BY DEF PatternPart
  <2> QED BY <2>1, PartsAppend
<1>3. EndOfLine \in Seq(Sign)
  <2>1. "eol" \in Sign
    BY Zenon DEF Sign
  <2> QED BY <2>1 DEF EndOfLine
<1> QED BY <1>1, <1>2, <1>3, PatternShowsParts

\* The line that a call is for, and what is shown of the text it has formatted.
LEMMA LineOfCall ==
  ASSUME LTypeOK, CallsAreFormatted, NEW u \in DOMAIN user, user[u].at # "idle"
  PROVE  /\ FormatLine(CompilePattern(PatternSpelled(pattern)), Message(u))
              = LineMeant([name |-> loggers[user[u].log], level |-> "warn",
                           text |-> Meaning(user[u].call.parts, user[u].call.args).text])
         /\ LineMeant([name |-> loggers[user[u].log], level |-> "warn",
                       text |-> Meaning(user[u].call.parts, user[u].call.args).text]) \in Seq(Sign)
<1> DEFINE text == Meaning(user[u].call.parts, user[u].call.args).text
           msg == [name |-> loggers[user[u].log], level |-> "warn", text |-> text]
<1>1. user[u].log \in DOMAIN loggers /\ user[u].raw = Meaning(user[u].call.parts, user[u].call.args)
  BY DEF CallsAreFormatted
<1>2. Message(u) = msg
  BY <1>1 DEF Message
<1>3. user[u].raw \in Text
  BY DEF LTypeOK, Call
<1>4. text \in Seq(Sign)
  BY <1>1, <1>3 DEF Text
<1>5. loggers[user[u].log] \in Name
  BY <1>1 DEF LTypeOK
<1>6. loggers[user[u].log] \in Sign /\ "warn" \in Sign
  BY <1>5, LoggerAssumption, Zenon DEF Sign
<1> HIDE DEF text
<1>7. msg \in Msgs
  BY <1>4, <1>6 DEF Msgs
<1> HIDE DEF msg
<1>8. /\ FormatLine(CompilePattern(PatternSpelled(pattern)), msg) = LineMeant(msg)
      /\ LineMeant(msg) \in Seq(Sign)
  BY <1>7, LineShows DEF LTypeOK
<1> QED BY <1>2, <1>8 DEF msg, text

\* The next piece of a line after the ones that were written.
LEMMA EndsWithNext ==
  ASSUME NEW R, NEW w \in Seq(R), NEW n \in Nat, NEW line, EndsWith(w, n, line), NEW e \in R,
         e = line[n + 1]
  PROVE  EndsWith(Append(w, e), n + 1, line)
<1>0. Append(w, e) \in Seq(R)
  OBVIOUS
<1>1. PICK v \in Seq(R) : v = Append(w, e)
  BY <1>0
<1>2. /\ Len(v) = Len(w) + 1 /\ v[Len(w) + 1] = e /\ \A i \in 1..Len(w) : v[i] = w[i]
      /\ Len(w) \in Nat
  BY <1>1
<1>3. n <= Len(w) /\ \A k \in 1..n : w[Len(w) - n + k] = line[k]
  BY DEF EndsWith
<1>4. ASSUME NEW k \in 1..n + 1 PROVE v[Len(v) - (n + 1) + k] = line[k]
  <2>1. Len(v) - (n + 1) + k = Len(w) - n + k
    BY <1>2
  <2>2. CASE k = n + 1
    BY <1>2, <1>3, <2>1, <2>2
  <2>3. CASE k \in 1..n
    <3>1. Len(w) - n + k \in 1..Len(w)
      BY <1>2, <1>3, <2>3
    <3> QED BY <1>2, <1>3, <2>1, <2>3, <3>1
  <2> QED BY <2>2, <2>3
<1>5. n + 1 <= Len(v)
  BY <1>2, <1>3
<1>6. EndsWith(v, n + 1, line)
  BY <1>4, <1>5 DEF EndsWith
<1> QED BY <1>1, <1>6

\* At the beginning.
LEMMA LoggersInitInv ==
  ASSUME NEW users \in SUBSET User, NEW name \in Name, LoggersInit(users, name), MenuIsFormatted
  PROVE  LInv
<1>1. Thrown \in Text
  BY DEF Thrown, Text
<1>2. Resting \in Call /\ Resting.at = "idle"
  BY <1>1 DEF Resting, Call
<1>3. DOMAIN user = users /\ \A u \in users : user[u] = Resting
  BY DEF LoggersInit
<1>4. LTypeOK
  <2>1. user \in [DOMAIN user -> Call]
    BY <1>2, <1>3 DEF LoggersInit
  <2>2. loggers \in Seq(Name) /\ holder \in Seq(User \cup {Nobody}) /\ Len(holder) = Len(loggers)
    BY DEF LoggersInit
  <2>3. console \in Seq(Record)
    BY DEF LoggersInit
  <2> QED BY <1>3, <2>1, <2>2, <2>3 DEF LTypeOK, LoggersInit
<1>5. \A u \in DOMAIN user : user[u].at = "idle"
  BY <1>2, <1>3
<1>6. CallsAreFormatted
  BY <1>5 DEF CallsAreFormatted
<1>7. WritersHoldTheSink /\ LinesEnd
  BY <1>5 DEF WritersHoldTheSink, LinesEnd, Writing, UserAt
<1> QED BY <1>4, <1>6, <1>7 DEF LInv

\* What no step changes.
LEMMA FixedStays ==
  ASSUME LTypeOK, UNCHANGED fixed, DOMAIN user' = DOMAIN user
  PROVE  /\ MenuIsFormatted' /\ pattern' = pattern /\ colored' = colored /\ menu' = menu
         /\ Pieces' = Pieces /\ Call' = Call
         /\ pattern' \in Seq(PatternPart) /\ colored' \in BOOLEAN
<1>1. pattern' = pattern /\ colored' = colored /\ menu' = menu
  BY DEF fixed
<1> QED BY <1>1 DEF LTypeOK, MenuIsFormatted, Pieces, Call

\* A line stays what it is while its call, and what its logger is called, does.
LEMMA LineStays ==
  ASSUME LTypeOK, UNCHANGED fixed, NEW u \in DOMAIN user, user'[u].log = user[u].log,
         user'[u].serial = user[u].serial, user'[u].call = user[u].call,
         loggers'[user[u].log] = loggers[user[u].log]
  PROVE  LineOf(u)' = LineOf(u)
<1>1. pattern' = pattern /\ colored' = colored
  BY DEF fixed
<1>2. Pieces' = Pieces
  BY <1>1 DEF Pieces
<1>3. PICK msg : msg = [name |-> loggers[user[u].log], level |-> "warn",
                        text |-> Meaning(user[u].call.parts, user[u].call.args).text]
  OBVIOUS
<1>4. [name |-> loggers[user[u].log], level |-> "warn",
       text |-> Meaning(user[u].call.parts, user[u].call.args).text]' = msg
  BY <1>3
<1>5. LineMeant(msg)' = LineMeant(msg)
  BY <1>1 DEF LineMeant
<1> QED BY <1>2, <1>3, <1>4, <1>5 DEF LineOf

\* A thread that makes no step, while no other writes through its logger, keeps
\* what the invariant says of it.
ThreadInv(u) ==
  /\ user[u].at # "idle" =>
       /\ user[u].log \in DOMAIN loggers /\ user[u].call \in menu
       /\ user[u].raw = Meaning(user[u].call.parts, user[u].call.args)
  /\ Writing(u) => holder[user[u].log] = u
  /\ UserAt(u, "lock") => user[u].piece = 0
  /\ UserAt(u, "write") => user[u].piece < Len(Pieces)
  /\ UserAt(u, "unlock") => user[u].piece = Len(Pieces)
  /\ Writing(u) => EndsWith(Written(console, user[u].log), user[u].piece, LineOf(u))

\* The invariant is about each thread.
LEMMA LInvByThread ==
  LInv <=> LTypeOK /\ \A u \in DOMAIN user : ThreadInv(u)
BY DEF LInv, ThreadInv, CallsAreFormatted, WritersHoldTheSink, LinesEnd

\* A thread keeps what the invariant says of it through a step of another.
LEMMA OthersStay ==
  ASSUME LTypeOK, UNCHANGED fixed, NEW u \in DOMAIN user, ThreadInv(u), user'[u] = user[u],
         \A l \in DOMAIN loggers : l \in DOMAIN loggers' /\ loggers'[l] = loggers[l],
         Writing(u) => /\ holder'[user[u].log] = holder[user[u].log]
                       /\ Written(console', user[u].log) = Written(console, user[u].log)
  PROVE  ThreadInv(u)'
<1>1. pattern' = pattern /\ colored' = colored /\ menu' = menu /\ Pieces' = Pieces
  BY DEF fixed, Pieces
<1>2. CASE user[u].at = "idle"
  BY <1>2 DEF ThreadInv, Writing, UserAt
<1>3. CASE user[u].at # "idle"
  <2>1. user[u].log \in DOMAIN loggers
    BY <1>3 DEF ThreadInv
  <2>2. LineOf(u)' = LineOf(u)
    BY <2>1, LineStays
  <2>3. Writing(u)' = Writing(u)
    BY DEF Writing
  <2>4. Written(console, user[u].log)' = Written(console', user[u].log)
    BY DEF Written
  <2>5. (Writing(u) => holder[user[u].log] = u)'
    BY <2>3 DEF ThreadInv
  <2>6. (Writing(u) => EndsWith(Written(console, user[u].log), user[u].piece, LineOf(u)))'
    BY <2>2, <2>3, <2>4 DEF ThreadInv, EndsWith
  <2>7. (user[u].at # "idle" =>
          /\ user[u].log \in DOMAIN loggers /\ user[u].call \in menu
          /\ user[u].raw = Meaning(user[u].call.parts, user[u].call.args))'
    BY <1>1, <1>3, <2>1 DEF ThreadInv
  <2>8. /\ (UserAt(u, "lock") => user[u].piece = 0)'
        /\ (UserAt(u, "write") => user[u].piece < Len(Pieces))'
        /\ (UserAt(u, "unlock") => user[u].piece = Len(Pieces))'
    BY <1>1 DEF ThreadInv, UserAt
  <2> QED BY <2>5, <2>6, <2>7, <2>8 DEF ThreadInv
<1> QED BY <1>2, <1>3

\* What one thread does to itself.
LEMMA OneThread ==
  ASSUME LTypeOK, NEW u \in DOMAIN user, NEW r \in Call, user' = [user EXCEPT ![u] = r]
  PROVE  /\ DOMAIN user' = DOMAIN user /\ user' \in [DOMAIN user -> Call]
         /\ user'[u] = r /\ \A v \in DOMAIN user : v # u => user'[v] = user[v]
BY DEF LTypeOK

\* A new logger.
LEMMA CreateStep ==
  ASSUME LInv, NEW u \in DOMAIN user, NEW name \in Name, Create(u, name)
  PROVE  LInv'
<1>1. LTypeOK /\ \A v \in DOMAIN user : ThreadInv(v)
  BY LInvByThread
<1>2. user' = user /\ UNCHANGED fixed /\ console' = console /\ calls' = calls
  BY DEF Create
<1>3. loggers' = Append(loggers, name) /\ holder' = Append(holder, Nobody)
  BY DEF Create
<1>4. /\ loggers \in Seq(Name) /\ holder \in Seq(User \cup {Nobody}) /\ Len(holder) = Len(loggers)
  BY <1>1 DEF LTypeOK
<1>5. /\ loggers' \in Seq(Name) /\ holder' \in Seq(User \cup {Nobody}) /\ Len(holder') = Len(loggers')
      /\ \A l \in DOMAIN loggers :
           l \in DOMAIN loggers' /\ loggers'[l] = loggers[l] /\ holder'[l] = holder[l]
  BY <1>3, <1>4
<1>6. LTypeOK'
  BY <1>1, <1>2, <1>5, FixedStays DEF LTypeOK
<1>7. ASSUME NEW v \in DOMAIN user PROVE ThreadInv(v)'
  <2>1. Writing(v) => v \in User /\ user[v].log \in DOMAIN loggers
    BY <1>1 DEF ThreadInv, Writing, LTypeOK
  <2> QED BY <1>1, <1>2, <1>5, <2>1, OthersStay
<1> QED BY <1>2, <1>6, <1>7 DEF LInv, ThreadInv, CallsAreFormatted, WritersHoldTheSink, LinesEnd

\* The registry forgets the loggers.
LEMMA DropAllStep ==
  ASSUME LInv, NEW u \in DOMAIN user, DropAll(u)
  PROVE  LInv'
<1>1. LTypeOK /\ \A v \in DOMAIN user : ThreadInv(v)
  BY LInvByThread
<1>2. /\ user' = user /\ UNCHANGED fixed /\ console' = console /\ calls' = calls
      /\ loggers' = loggers /\ holder' = holder
  BY DEF DropAll
<1>3. LTypeOK'
  BY <1>1, <1>2, FixedStays DEF LTypeOK
<1>4. ASSUME NEW v \in DOMAIN user PROVE ThreadInv(v)'
  BY <1>1, <1>2, OthersStay
<1> QED BY <1>2, <1>3, <1>4 DEF LInv, ThreadInv, CallsAreFormatted, WritersHoldTheSink, LinesEnd

\* A thread that does something to itself only.
LEMMA QuietStep ==
  ASSUME LInv, NEW u \in DOMAIN user, NEW r \in Call, user' = [user EXCEPT ![u] = r],
         UNCHANGED <<loggers, holder, console, fixed>>, calls' \in Nat, ThreadInv(u)'
  PROVE  LInv'
<1>1. LTypeOK /\ \A v \in DOMAIN user : ThreadInv(v)
  BY LInvByThread
<1>2. /\ DOMAIN user' = DOMAIN user /\ user' \in [DOMAIN user -> Call]
      /\ \A v \in DOMAIN user : v # u => user'[v] = user[v]
  BY <1>1, OneThread
<1>3. UNCHANGED fixed /\ loggers' = loggers /\ holder' = holder /\ console' = console
  OBVIOUS
<1>4. LTypeOK'
  BY <1>1, <1>2, <1>3, FixedStays DEF LTypeOK
<1>5. ASSUME NEW v \in DOMAIN user PROVE ThreadInv(v)'
  <2>1. CASE v = u
    BY <2>1
  <2>2. CASE v # u
    BY <1>1, <1>2, <1>3, <2>2, OthersStay
  <2> QED BY <2>1, <2>2
<1> QED BY <1>2, <1>4, <1>5 DEF LInv, ThreadInv, CallsAreFormatted, WritersHoldTheSink, LinesEnd

\* A call begins.
LEMMA LogCallStep ==
  ASSUME LInv, NEW u \in DOMAIN user, NEW l \in DOMAIN loggers, NEW c \in menu, LogCall(u, l, c)
  PROVE  LInv'
<1>0. LTypeOK
  BY DEF LInv
<1>1. PICK raw : raw = Formatted(AllSpelled(c.parts), c.args)
  OBVIOUS
<1>2. raw = Meaning(c.parts, c.args) /\ raw \in Text
  BY <1>0, <1>1 DEF LTypeOK, MenuIsFormatted
<1>3. PICK r : r = [at |-> IF raw.thrown THEN "error" ELSE "lock", log |-> l, call |-> c,
                    raw |-> raw, serial |-> calls, piece |-> 0]
  OBVIOUS
<1>4. user' = [user EXCEPT ![u] = r] /\ calls' = calls - 1 /\ calls > 0 /\ UNCHANGED fixed
      /\ UNCHANGED <<loggers, holder, console>>
  BY <1>1, <1>3 DEF LogCall
<1>5. r \in Call /\ r.at \in {"error", "lock"}
  BY <1>0, <1>2, <1>3 DEF LTypeOK, Call
<1>6. user'[u] = r
  BY <1>0, <1>4, <1>5, OneThread
<1>7. ThreadInv(u)'
  BY <1>2, <1>3, <1>4, <1>5, <1>6 DEF ThreadInv, Writing, UserAt, fixed
<1>8. calls' \in Nat
  BY <1>0, <1>4 DEF LTypeOK
<1> QED BY <1>4, <1>5, <1>7, <1>8, QuietStep

\* A thread is at rest again.
LEMMA RestingIsCall ==
  /\ Resting \in Call /\ Resting.at = "idle"
<1>1. Thrown \in Text
  BY DEF Thrown, Text
<1> QED BY <1>1 DEF Resting, Call

\* An error is reported.
LEMMA ReportErrorStep ==
  ASSUME LInv, NEW u \in DOMAIN user, ReportError(u)
  PROVE  LInv'
<1>0. LTypeOK
  BY DEF LInv
<1>1. user' = [user EXCEPT ![u] = Resting] /\ UNCHANGED <<loggers, holder, console, fixed>>
      /\ calls' = calls
  BY DEF ReportError
<1>2. user'[u] = Resting
  BY <1>0, <1>1, RestingIsCall, OneThread
<1>3. ThreadInv(u)'
  BY <1>2, RestingIsCall DEF ThreadInv, Writing, UserAt
<1>4. calls' \in Nat
  BY <1>0, <1>1 DEF LTypeOK
<1> QED BY <1>1, <1>3, <1>4, RestingIsCall, QuietStep

\* The mutex of a sink is taken.
LEMMA SinkLockStep ==
  ASSUME LInv, NEW u \in DOMAIN user, SinkLock(u)
  PROVE  LInv'
<1>1. LTypeOK /\ \A v \in DOMAIN user : ThreadInv(v)
  BY LInvByThread
<1>2. /\ user[u].at = "lock" /\ holder[user[u].log] = Nobody
      /\ holder' = [holder EXCEPT ![user[u].log] = u]
      /\ user' = [user EXCEPT ![u].at = "write"]
      /\ UNCHANGED fixed /\ loggers' = loggers /\ console' = console /\ calls' = calls
  BY DEF SinkLock, UserAt
<1>3. user[u] \in Call /\ u \in User
  BY <1>1 DEF LTypeOK
<1>4. PICK r : r = [user[u] EXCEPT !.at = "write"]
  OBVIOUS
<1>5. /\ r \in Call /\ r.at = "write" /\ r.log = user[u].log /\ r.call = user[u].call
      /\ r.raw = user[u].raw /\ r.serial = user[u].serial /\ r.piece = user[u].piece
  BY <1>3, <1>4 DEF Call
<1>6. user' = [user EXCEPT ![u] = r]
  BY <1>2, <1>4
<1>7. /\ DOMAIN user' = DOMAIN user /\ user' \in [DOMAIN user -> Call] /\ user'[u] = r
      /\ \A v \in DOMAIN user : v # u => user'[v] = user[v]
  BY <1>1, <1>5, <1>6, OneThread
<1>8. user[u].log \in DOMAIN loggers /\ user[u].piece = 0
  BY <1>1, <1>2 DEF ThreadInv, UserAt
<1>9. /\ holder \in Seq(User \cup {Nobody}) /\ Len(holder) = Len(loggers)
      /\ DOMAIN holder = DOMAIN loggers
  BY <1>1 DEF LTypeOK
<1>10. /\ holder' \in Seq(User \cup {Nobody}) /\ Len(holder') = Len(loggers)
       /\ holder'[user[u].log] = u
       /\ \A l \in DOMAIN loggers : l # user[u].log => holder'[l] = holder[l]
  BY <1>2, <1>3, <1>8, <1>9
<1>11. LTypeOK'
  BY <1>1, <1>2, <1>7, <1>10, FixedStays DEF LTypeOK
<1>12. ThreadInv(u)'
  <2>1. Written(console, user[u].log)' \in Seq(Record)
    <3>1. PICK w : w = Written(console, user[u].log)
      OBVIOUS
    <3>2. PICK e \in Record : TRUE
      <4>1. [by |-> u, log |-> 0, serial |-> 0, piece |-> "text", chars |-> <<>>] \in Record
        BY <1>3 DEF Record
      <4> QED BY <4>1
    <3>3. w \in Seq(Record)
      BY <1>1, <3>1, WrittenAppend DEF LTypeOK
    <3> QED BY <1>2, <1>5, <1>7, <3>1, <3>3 DEF Written
  <2>2. EndsWith(Written(console, user[u].log), user[u].piece, LineOf(u))'
    BY <1>5, <1>7, <1>8, <2>1 DEF EndsWith
  <2>3. Len(Pieces)' = Len(Pieces) /\ Len(Pieces) > 0 /\ menu' = menu
    BY <1>1, <1>2, PiecesType DEF LTypeOK, fixed, Pieces
  <2>4. user'[u].log \in DOMAIN loggers' /\ user'[u].call \in menu'
        /\ user'[u].raw = Meaning(user'[u].call.parts, user'[u].call.args)
    BY <1>1, <1>2, <1>5, <1>7, <2>3 DEF ThreadInv
  <2>5. holder'[user'[u].log] = u
    BY <1>5, <1>7, <1>10
  <2>6. user'[u].at = "write" /\ user'[u].piece < Len(Pieces)'
    BY <1>5, <1>7, <1>8, <2>3
  <2> QED BY <2>2, <2>4, <2>5, <2>6 DEF ThreadInv, Writing, UserAt
<1>13. ASSUME NEW v \in DOMAIN user PROVE ThreadInv(v)'
  <2>1. CASE v = u
    BY <1>12, <2>1
  <2>2. CASE v # u
    <3>1. Writing(v) => holder[user[v].log] = v /\ v # Nobody /\ user[v].log \in DOMAIN loggers
      BY <1>1, LoggerAssumption DEF ThreadInv, Writing, LTypeOK
    <3>2. Writing(v) => holder'[user[v].log] = holder[user[v].log]
      BY <1>2, <1>10, <3>1
    <3>3. Written(console', user[v].log) = Written(console, user[v].log)
      BY <1>2
    <3> QED BY <1>1, <1>2, <1>7, <2>2, <3>2, <3>3, OthersStay
  <2> QED BY <2>1, <2>2
<1> QED BY <1>7, <1>11, <1>13 DEF LInv, ThreadInv, CallsAreFormatted, WritersHoldTheSink, LinesEnd

\* The mutex of a sink is given back.
LEMMA SinkUnlockStep ==
  ASSUME LInv, NEW u \in DOMAIN user, SinkUnlock(u)
  PROVE  LInv'
<1>1. LTypeOK /\ \A v \in DOMAIN user : ThreadInv(v)
  BY LInvByThread
<1>2. /\ user[u].at = "unlock"
      /\ holder' = [holder EXCEPT ![user[u].log] = Nobody]
      /\ user' = [user EXCEPT ![u] = Resting]
      /\ UNCHANGED fixed /\ loggers' = loggers /\ console' = console /\ calls' = calls
  BY DEF SinkUnlock, UserAt
<1>3. /\ DOMAIN user' = DOMAIN user /\ user' \in [DOMAIN user -> Call] /\ user'[u] = Resting
      /\ \A v \in DOMAIN user : v # u => user'[v] = user[v]
  BY <1>1, <1>2, RestingIsCall, OneThread
<1>4. user[u].log \in DOMAIN loggers /\ holder[user[u].log] = u
  BY <1>1, <1>2 DEF ThreadInv, Writing
<1>5. /\ holder \in Seq(User \cup {Nobody}) /\ Len(holder) = Len(loggers)
      /\ DOMAIN holder = DOMAIN loggers
  BY <1>1 DEF LTypeOK
<1>6. /\ holder' \in Seq(User \cup {Nobody}) /\ Len(holder') = Len(loggers)
      /\ \A l \in DOMAIN loggers : l # user[u].log => holder'[l] = holder[l]
  BY <1>2, <1>4, <1>5
<1>7. LTypeOK'
  BY <1>1, <1>2, <1>3, <1>6, FixedStays DEF LTypeOK
<1>8. ThreadInv(u)'
  BY <1>3, RestingIsCall DEF ThreadInv, Writing, UserAt
<1>9. ASSUME NEW v \in DOMAIN user PROVE ThreadInv(v)'
  <2>1. CASE v = u
    BY <1>8, <2>1
  <2>2. CASE v # u
    <3>1. Writing(v) => holder[user[v].log] = v /\ user[v].log \in DOMAIN loggers
      BY <1>1 DEF ThreadInv, Writing
    <3>2. Writing(v) => holder'[user[v].log] = holder[user[v].log]
      BY <1>4, <1>6, <2>2, <3>1
    <3>3. Written(console', user[v].log) = Written(console, user[v].log)
      BY <1>2
    <3> QED BY <1>1, <1>2, <1>3, <2>2, <3>2, <3>3, OthersStay
  <2> QED BY <2>1, <2>2
<1> QED BY <1>3, <1>7, <1>9 DEF LInv, ThreadInv, CallsAreFormatted, WritersHoldTheSink, LinesEnd

\* One piece of a line is written.
LEMMA SinkWriteStep ==
  ASSUME LInv, NEW u \in DOMAIN user, SinkWrite(u)
  PROVE  LInv'
<1>1. LTypeOK /\ CallsAreFormatted /\ \A v \in DOMAIN user : ThreadInv(v)
  BY LInvByThread DEF LInv
<1>2. PICK k : k = user[u].piece + 1
  OBVIOUS
<1>3. PICK e : e = [by |-> u, log |-> user[u].log, serial |-> user[u].serial, piece |-> Pieces[k],
                    chars |-> IF Pieces[k] = "text"
                              THEN FormatLine(CompilePattern(PatternSpelled(pattern)), Message(u))
                              ELSE <<>>]
  OBVIOUS
<1>4. /\ user[u].at = "write" /\ console' = Append(console, e)
      /\ user' = [user EXCEPT ![u].piece = k,
                              ![u].at = IF k = Len(Pieces) THEN "unlock" ELSE "write"]
      /\ UNCHANGED fixed /\ loggers' = loggers /\ holder' = holder /\ calls' = calls
  BY <1>2, <1>3 DEF SinkWrite, UserAt
<1>5. user[u] \in Call /\ u \in User
  BY <1>1 DEF LTypeOK
<1>6. /\ user[u].piece \in Nat /\ user[u].piece < Len(Pieces) /\ user[u].log \in DOMAIN loggers
      /\ user[u].call \in menu /\ user[u].raw = Meaning(user[u].call.parts, user[u].call.args)
      /\ holder[user[u].log] = u
      /\ EndsWith(Written(console, user[u].log), user[u].piece, LineOf(u))
  BY <1>1, <1>4, <1>5 DEF ThreadInv, UserAt, Writing, Call
<1>7. /\ Len(Pieces) \in Nat /\ DOMAIN Pieces = 1..Len(Pieces)
      /\ \A i \in 1..Len(Pieces) : Pieces[i] \in {"color", "text", "reset", "clear_line"}
  BY <1>1, PiecesType DEF LTypeOK
<1>8. k \in 1..Len(Pieces) /\ k \in Nat
  BY <1>2, <1>6, <1>7
<1>9. PICK meant : meant = LineMeant([name |-> loggers[user[u].log], level |-> "warn",
                             text |-> Meaning(user[u].call.parts, user[u].call.args).text])
  OBVIOUS
<1>10. /\ meant \in Seq(Sign)
       /\ FormatLine(CompilePattern(PatternSpelled(pattern)), Message(u)) = meant
  <2>1. user[u].at # "idle"
    BY <1>4
  <2> QED BY <1>1, <1>9, <2>1, LineOfCall
<1>11. e = [by |-> u, log |-> user[u].log, serial |-> user[u].serial, piece |-> Pieces[k],
            chars |-> IF Pieces[k] = "text" THEN meant ELSE <<>>]
  BY <1>3, <1>10
<1>12. e = LineOf(u)[k]
  BY <1>7, <1>8, <1>9, <1>11 DEF LineOf
<1>13. e \in Record /\ e.log = user[u].log
  <2>1. (IF Pieces[k] = "text" THEN meant ELSE <<>>) \in Seq(Sign)
    BY <1>10
  <2>2. user[u].log \in Nat /\ user[u].serial \in Nat
    BY <1>5 DEF Call
  <2>3. Pieces[k] \in {"color", "text", "reset", "clear_line"}
    BY <1>7, <1>8
  <2> QED BY <1>5, <1>11, <2>1, <2>2, <2>3 DEF Record
<1>14. PICK r : r = [user[u] EXCEPT !.piece = k, !.at = IF k = Len(Pieces) THEN "unlock" ELSE "write"]
  OBVIOUS
<1>15. /\ r \in Call /\ r.at = (IF k = Len(Pieces) THEN "unlock" ELSE "write")
       /\ r.log = user[u].log /\ r.call = user[u].call
       /\ r.raw = user[u].raw /\ r.serial = user[u].serial /\ r.piece = k
  BY <1>5, <1>8, <1>14 DEF Call
<1>16. user' = [user EXCEPT ![u] = r]
  BY <1>4, <1>14
<1>17. /\ DOMAIN user' = DOMAIN user /\ user' \in [DOMAIN user -> Call] /\ user'[u] = r
       /\ \A v \in DOMAIN user : v # u => user'[v] = user[v]
  BY <1>1, <1>15, <1>16, OneThread
<1>18. console \in Seq(Record) /\ console' \in Seq(Record)
  BY <1>1, <1>4, <1>13 DEF LTypeOK
<1>19. LTypeOK'
  BY <1>1, <1>4, <1>17, <1>18, FixedStays DEF LTypeOK
<1>20. \A l : /\ Written(console, l) \in Seq(Record)
              /\ Written(console', l) = IF e.log = l THEN Append(Written(console, l), e)
                                        ELSE Written(console, l)
  BY <1>4, <1>13, <1>18, WrittenAppend
<1>21. ThreadInv(u)'
  <2>1. LineOf(u)' = LineOf(u)
    BY <1>1, <1>4, <1>15, <1>17, LineStays
  <2>2. PICK w \in Seq(Record) : w = Written(console, user[u].log)
    BY <1>20
  <2>3. PICK line : line = LineOf(u)
    OBVIOUS
  <2>4. PICK n \in Nat : n = user[u].piece
    BY <1>6
  <2>5. EndsWith(w, n, line) /\ e = line[n + 1]
    BY <1>2, <1>6, <1>12, <2>2, <2>3, <2>4
  <2>6. EndsWith(Append(w, e), n + 1, line)
    BY <1>13, <2>5, EndsWithNext
  <2>7. Written(console', user[u].log) = Append(w, e)
    BY <1>13, <1>20, <2>2
  <2>8. EndsWith(Written(console, user[u].log), user[u].piece, LineOf(u))'
    <3>1. Written(console, user[u].log)' = Written(console', user[u].log)
      BY <1>15, <1>17 DEF Written
    <3>2. user'[u].piece = n + 1
      BY <1>2, <1>15, <1>17, <2>4
    <3>3. EndsWith(Written(console', user[u].log), user'[u].piece, LineOf(u))
      BY <2>3, <2>6, <2>7, <3>2
    <3> QED BY <2>1, <3>1, <3>3 DEF EndsWith
  <2>9. Len(Pieces)' = Len(Pieces) /\ menu' = menu
    BY <1>4 DEF fixed, Pieces
  <2>10. user'[u].log \in DOMAIN loggers' /\ user'[u].call \in menu'
         /\ user'[u].raw = Meaning(user'[u].call.parts, user'[u].call.args)
    BY <1>4, <1>6, <1>15, <1>17, <2>9
  <2>11. holder'[user'[u].log] = u
    BY <1>4, <1>6, <1>15, <1>17
  <2>12. CASE k = Len(Pieces)
    <3>1. user'[u].at = "unlock" /\ user'[u].piece = Len(Pieces)'
      BY <1>15, <1>17, <2>9, <2>12
    <3> QED BY <2>8, <2>10, <2>11, <3>1 DEF ThreadInv, Writing, UserAt
  <2>13. CASE k # Len(Pieces)
    <3>0. k < Len(Pieces)
      <4>1. PICK m \in Nat : m = Len(Pieces)
        BY <1>7
      <4>2. k \in 1..m /\ k # m
        BY <1>8, <2>13, <4>1
      <4>3. k < m
        BY <4>2
      <4> QED BY <4>1, <4>3
    <3>1. user'[u].at = "write" /\ user'[u].piece < Len(Pieces)'
      BY <1>15, <1>17, <2>9, <2>13, <3>0
    <3> QED BY <2>8, <2>10, <2>11, <3>1 DEF ThreadInv, Writing, UserAt
  <2> QED BY <2>12, <2>13
<1>22. ASSUME NEW v \in DOMAIN user PROVE ThreadInv(v)'
  <2>1. CASE v = u
    BY <1>21, <2>1
  <2>2. CASE v # u
    <3>1. Writing(v) => user[v].log # user[u].log
      BY <1>1, <1>6, <2>2 DEF ThreadInv
    <3>2. Writing(v) => Written(console', user[v].log) = Written(console, user[v].log)
      BY <1>13, <1>20, <3>1
    <3> QED BY <1>1, <1>4, <1>17, <2>2, <3>2, OthersStay
  <2> QED BY <2>1, <2>2
<1> QED BY <1>17, <1>19, <1>22 DEF LInv, ThreadInv, CallsAreFormatted, WritersHoldTheSink, LinesEnd

\* The whole line is the last that its logger has written.
LEMMA LInvMeansWhole ==
  ASSUME LInv
  PROVE  LinesAreWhole
<1> SUFFICES ASSUME NEW u \in DOMAIN user, UserAt(u, "unlock")
             PROVE  LET written == WrittenBy(user[u].log)
                        first == Len(written) - Len(Pieces)
                    IN  /\ first >= 0
                        /\ SubSeq(written, first + 1, Len(written)) = LineOf(u)
  BY DEF LinesAreWhole, LineOf
<1>1. LTypeOK /\ ThreadInv(u)
  BY LInvByThread
<1>2. EndsWith(Written(console, user[u].log), Len(Pieces), LineOf(u)) /\ u \in User
  BY <1>1 DEF ThreadInv, Writing, UserAt, LTypeOK
<1>3. PICK w \in Seq(Record) : w = Written(console, user[u].log)
  <2>1. [by |-> u, log |-> 0, serial |-> 0, piece |-> "text", chars |-> <<>>] \in Record
    BY <1>2 DEF Record
  <2> QED BY <1>1, <2>1, WrittenAppend DEF LTypeOK
<1>4. WrittenBy(user[u].log) = w
  BY <1>3 DEF WrittenBy, Written
<1>5. PICK n : n = Len(Pieces)
  OBVIOUS
<1>6. n \in Nat /\ DOMAIN LineOf(u) = 1..n
  BY <1>1, <1>5, PiecesType DEF LTypeOK, LineOf
<1>7. PICK line : line = LineOf(u)
  OBVIOUS
<1>8. line = [k \in 1..n |-> line[k]]
  BY <1>6, <1>7 DEF LineOf
<1>9. n <= Len(w) /\ \A k \in 1..n : w[Len(w) - n + k] = line[k]
  BY <1>2, <1>3, <1>5, <1>7 DEF EndsWith
<1>10. PICK first : first = Len(w) - n
  OBVIOUS
<1>11. first >= 0 /\ first \in Nat
  BY <1>6, <1>9, <1>10
<1>12. SubSeq(w, first + 1, Len(w)) = line
  <2>1. PICK s : s = SubSeq(w, first + 1, Len(w))
    OBVIOUS
  <2>2. s = [k \in 1..n |-> w[first + k]]
    BY <2>1, <1>6, <1>9, <1>10, <1>11
  <2>3. \A k \in 1..n : w[first + k] = line[k]
    BY <1>9, <1>10
  <2> QED BY <1>8, <2>1, <2>2, <2>3
<1> QED BY <1>4, <1>5, <1>7, <1>10, <1>11, <1>12

\* A call of the program: a format made of its parts, and any arguments.
ProgramCalls == [parts : Seq(ProgramPart), args : Seq(Argument)]

\* Such calls are formatted as they mean.
LEMMA ProgramIsFormatted ==
  ASSUME menu \subseteq ProgramCalls
  PROVE  MenuIsFormatted
<1> SUFFICES ASSUME NEW c \in menu
             PROVE  /\ Formatted(AllSpelled(c.parts), c.args) = Meaning(c.parts, c.args)
                    /\ Meaning(c.parts, c.args) \in Text
  BY Zenon DEF MenuIsFormatted
<1>1. c.parts \in Seq(ProgramPart) /\ c.args \in Seq(Argument)
  BY DEF ProgramCalls
<1>2. PICK parts \in Seq(ProgramPart), args \in Seq(Argument) : parts = c.parts /\ args = c.args
  BY <1>1
<1>3. /\ Formatted(AllSpelled(parts), args) = Meaning(parts, args)
      /\ Meaning(parts, args) = Thrown
         \/ \E text \in Seq(Printable) : Meaning(parts, args) = [thrown |-> FALSE, text |-> text]
  BY FormattedIs
<1>4. Thrown \in Text
  BY DEF Thrown, Text
<1>5. ASSUME NEW text \in Seq(Printable) PROVE [thrown |-> FALSE, text |-> text] \in Text
  <2>1. Printable \subseteq Sign
    BY Zenon DEF Printable
  <2>2. text \in Seq(Sign)
    BY <2>1
  <2> QED BY <2>2 DEF Text
<1> QED BY <1>2, <1>3, <1>4, <1>5, Zenon

\* The invariant holds as long as each text is formatted as it should be.
LEMMA LoggersKeepLInv ==
  MenuIsFormatted /\ LoggersSpec => []LInv
<1>1. MenuIsFormatted /\ (\E users \in SUBSET User, name \in Name : LoggersInit(users, name)) => LInv
  BY LoggersInitInv
<1>2. LInv /\ [LoggersNext]_lvars => LInv'
  <2> SUFFICES ASSUME LInv, [LoggersNext]_lvars PROVE LInv'
    OBVIOUS
  <2>1. CASE UNCHANGED lvars
    <3>1. UNCHANGED <<loggers, holder, user, console, calls, colored, pattern, menu>>
      BY <2>1 DEF lvars
    <3>2. LTypeOK /\ UNCHANGED fixed /\ \A u \in DOMAIN user : ThreadInv(u)
      BY <3>1, LInvByThread DEF fixed
    <3>3. LTypeOK'
      BY <3>1, <3>2, FixedStays DEF LTypeOK
    <3>4. \A u \in DOMAIN user' : ThreadInv(u)'
      BY <3>1, <3>2, OthersStay
    <3> QED BY <3>3, <3>4 DEF LInv, ThreadInv, CallsAreFormatted, WritersHoldTheSink, LinesEnd
  <2>2. CASE LoggersNext
    <3>1. PICK u \in DOMAIN user :
            \/ \E name \in Name : Create(u, name)
            \/ DropAll(u)
            \/ \E l \in DOMAIN loggers, c \in menu : LogCall(u, l, c)
            \/ ReportError(u)
            \/ SinkLock(u) \/ SinkWrite(u) \/ SinkUnlock(u)
      BY <2>2, Zenon DEF LoggersNext
    <3>2. CASE \E name \in Name : Create(u, name)
      BY <3>2, CreateStep
    <3>3. CASE \E l \in DOMAIN loggers, c \in menu : LogCall(u, l, c)
      BY <3>3, LogCallStep
    <3> QED BY <3>1, <3>2, <3>3, DropAllStep, ReportErrorStep, SinkLockStep, SinkWriteStep,
               SinkUnlockStep
  <2> QED BY <2>1, <2>2
<1> QED BY <1>1, <1>2, PTL DEF LoggersSpec

\* Whatever the program logs with its formats - texts, and fields that take the next
\* argument as it is or as a type - is formatted as the format and its arguments mean,
\* however BasicWriter::write() goes through the characters of the format: numbers of
\* up to 64 bits in full, braces that are doubled as one, and an exception exactly when
\* an argument is missing or is not what its field shows.
THEOREM CallsFormatAsSpecified ==
  menu \subseteq ProgramCalls /\ LoggersSpec => []FormattedAsSpecified
<1>1. LInv => FormattedAsSpecified
  BY Zenon DEF LInv, CallsAreFormatted, FormattedAsSpecified, UserAt
<1> QED BY <1>1, ProgramIsFormatted, LoggersKeepLInv, PTL

\* The loggers of the program keep the lines of one logger whole, whatever threads
\* log through them, and whatever they log with the formats of the program.
THEOREM LinesStayWhole ==
  menu \subseteq ProgramCalls /\ LoggersSpec => []LinesAreWhole
<1>1. LInv => LinesAreWhole
  BY LInvMeansWhole
<1> QED BY <1>1, ProgramIsFormatted, LoggersKeepLInv, PTL
=============================================================================
