----------------------------- MODULE MpmcQueue -----------------------------
(***************************************************************************)
(* The lock-free queue of spdlog (details/mpmc_bounded_q.h): a ring of     *)
(* cells, each with a sequence number that says whose turn it is, and two  *)
(* positions that threads advance by compare-and-exchange.                 *)
(*                                                                         *)
(* Every access to shared memory that another thread could come between is *)
(* a step.  A thread keeps what it has read in op[t]: the position it aims *)
(* at and the item it brings or has fetched.  Positions only grow; their   *)
(* 64 bits are not exhausted, so they are natural numbers here.            *)
(***************************************************************************)
EXTENDS Integers, Sequences, FiniteSets

CONSTANTS
  Thread,
  Item,
  Nothing,  \* what a cell holds before the first item
  Size      \* buffer_size

\* The constructor throws on any other size (mpmc_bounded_q.h:64).
ASSUME SizeAssumption == Size \in Nat /\ Size >= 2

ASSUME ItemAssumption == Nothing \notin Item

VARIABLES
  cell,        \* buffer_: the sequence number and the data of each cell
  enqueuePos,
  dequeuePos,
  op           \* op[t]: the call that thread t is in

qvars == <<cell, enqueuePos, dequeuePos, op>>

Index(pos) == pos % Size

\* The cell a call looks at.
CellOf(t) == cell[Index(op[t].pos)]

Idle == [pc |-> "idle", pos |-> 0, item |-> Nothing]

QInit ==
  /\ cell = [i \in 0..(Size - 1) |-> [sequence |-> i, data |-> Nothing]]
  /\ enqueuePos = 0
  /\ dequeuePos = 0
  /\ op = [t \in Thread |-> Idle]

At(t, pc) == op[t].pc = pc
Goto(t, pc) == op' = [op EXCEPT ![t].pc = pc]
Aim(t, pc, pos) == op' = [op EXCEPT ![t].pc = pc, ![t].pos = pos]

\* The call is over: "done" or "failed" is its result, until the caller takes
\* note of it.
Acknowledge(t) ==
  /\ op[t].pc \in {"done", "failed"}
  /\ op' = [op EXCEPT ![t] = Idle]
  /\ UNCHANGED <<cell, enqueuePos, dequeuePos>>
\* The caller tries to bring the same item once more.
Retry(t) ==
  /\ At(t, "failed")
  /\ Aim(t, "enqueue", enqueuePos)
  /\ UNCHANGED <<cell, enqueuePos, dequeuePos>>
-----------------------------------------------------------------------------
(* enqueue() *)

EnqueueCall(t, x) ==
  /\ At(t, "idle")
  /\ op' = [op EXCEPT ![t] = [pc |-> "enqueue", pos |-> enqueuePos, item |-> x]]
  /\ UNCHANGED <<cell, enqueuePos, dequeuePos>>

\* The cell's sequence number is loaded and compared with the position.
EnqueueLook(t) ==
  /\ At(t, "enqueue")
  /\ LET dif == CellOf(t).sequence - op[t].pos
     IN  \/ dif = 0 /\ Goto(t, "enqueue_claim")
         \/ dif < 0 /\ Goto(t, "failed")
         \/ dif > 0 /\ Aim(t, "enqueue", enqueuePos)
  /\ UNCHANGED <<cell, enqueuePos, dequeuePos>>

\* compare_exchange_weak() succeeds.
EnqueueClaim(t) ==
  /\ At(t, "enqueue_claim")
  /\ enqueuePos = op[t].pos
  /\ enqueuePos' = enqueuePos + 1
  /\ Goto(t, "writing")
  /\ UNCHANGED <<cell, dequeuePos>>

\* It fails, maybe without a reason, and reloads the position.
EnqueueMiss(t) ==
  /\ At(t, "enqueue_claim")
  /\ Aim(t, "enqueue", enqueuePos)
  /\ UNCHANGED <<cell, enqueuePos, dequeuePos>>

\* The data is moved into the claimed cell, then the new sequence number is
\* stored; nobody else looks at the data before that (AloneInCell).
EnqueueWrite(t) ==
  /\ At(t, "writing")
  /\ cell' = [cell EXCEPT ![Index(op[t].pos)] =
                [sequence |-> op[t].pos + 1, data |-> op[t].item]]
  /\ op' = [op EXCEPT ![t].pc = "done", ![t].item = Nothing]
  /\ UNCHANGED <<enqueuePos, dequeuePos>>
-----------------------------------------------------------------------------
(* dequeue() *)

DequeueCall(t) ==
  /\ At(t, "idle")
  /\ Aim(t, "dequeue", dequeuePos)
  /\ UNCHANGED <<cell, enqueuePos, dequeuePos>>

DequeueLook(t) ==
  /\ At(t, "dequeue")
  /\ LET dif == CellOf(t).sequence - (op[t].pos + 1)
     IN  \/ dif = 0 /\ Goto(t, "dequeue_claim")
         \/ dif < 0 /\ Goto(t, "failed")
         \/ dif > 0 /\ Aim(t, "dequeue", dequeuePos)
  /\ UNCHANGED <<cell, enqueuePos, dequeuePos>>

\* Mutation: the cell is handed to the next round before its data is moved out.
DequeueClaim_Early(t) ==
  /\ At(t, "dequeue_claim")
  /\ dequeuePos = op[t].pos
  /\ dequeuePos' = dequeuePos + 1
  /\ Goto(t, "reading")
  /\ cell' = [cell EXCEPT ![Index(op[t].pos)].sequence = op[t].pos + Size]
  /\ UNCHANGED enqueuePos

DequeueClaim(t) ==
  /\ At(t, "dequeue_claim")
  /\ dequeuePos = op[t].pos
  /\ dequeuePos' = dequeuePos + 1
  /\ Goto(t, "reading")
  /\ UNCHANGED <<cell, enqueuePos>>

DequeueMiss(t) ==
  /\ At(t, "dequeue_claim")
  /\ Aim(t, "dequeue", dequeuePos)
  /\ UNCHANGED <<cell, enqueuePos, dequeuePos>>

\* The data is moved out and the cell handed to the next round.
DequeueRead(t) ==
  /\ At(t, "reading")
  /\ op' = [op EXCEPT ![t].pc = "done", ![t].item = CellOf(t).data]
  /\ cell' = [cell EXCEPT ![Index(op[t].pos)] =
                [sequence |-> op[t].pos + Size, data |-> Nothing]]
  /\ UNCHANGED <<enqueuePos, dequeuePos>>
-----------------------------------------------------------------------------
(* is_empty(): pos holds the first load of enqueue_pos_, item is not used. *)

EmptyCall(t) ==
  /\ At(t, "idle")
  /\ Aim(t, "front", enqueuePos)
  /\ UNCHANGED <<cell, enqueuePos, dequeuePos>>

\* back is loaded; "same" and "different" say how it compares with front.
EmptyBack(t) ==
  /\ At(t, "front")
  /\ Goto(t, IF dequeuePos = op[t].pos THEN "same" ELSE "different")
  /\ UNCHANGED <<cell, enqueuePos, dequeuePos>>

\* enqueue_pos_ is loaded again; the snapshot counts if it has not moved.
EmptyFront(t) ==
  /\ op[t].pc \in {"same", "different"}
  /\ IF enqueuePos = op[t].pos
     THEN Goto(t, IF At(t, "same") THEN "done" ELSE "failed")
     ELSE Aim(t, "front", enqueuePos)
  /\ UNCHANGED <<cell, enqueuePos, dequeuePos>>
-----------------------------------------------------------------------------
EnqueueStep(t) == EnqueueLook(t) \/ EnqueueClaim(t) \/ EnqueueMiss(t) \/ EnqueueWrite(t)
DequeueStep(t) == DequeueLook(t) \/ DequeueClaim(t) \/ DequeueMiss(t) \/ DequeueRead(t)
EmptyStep(t) == EmptyBack(t) \/ EmptyFront(t)

QueueStep(t) == EnqueueStep(t) \/ DequeueStep(t) \/ EmptyStep(t)

QNext == \E t \in Thread :
  \/ QueueStep(t) \/ Acknowledge(t) \/ (op[t].item \in Item /\ Retry(t))
  \/ DequeueCall(t) \/ EmptyCall(t) \/ \E x \in Item : EnqueueCall(t, x)

QSpec == QInit /\ [][QNext]_qvars
-----------------------------------------------------------------------------
(* What the queue guarantees *)

QTypeOK ==
  /\ cell \in [0..(Size - 1) -> [sequence : Nat, data : Item \cup {Nothing}]]
  /\ enqueuePos \in Nat
  /\ dequeuePos \in Nat
  /\ op \in [Thread ->
       [pc : {"idle", "done", "failed", "enqueue", "enqueue_claim", "writing",
              "dequeue", "dequeue_claim", "reading", "front", "same", "different"},
        pos : Nat, item : Item \cup {Nothing}]]

InCell == {t \in Thread : op[t].pc \in {"writing", "reading"}}

\* The data of a cell is not protected by any lock: that the thread which won
\* the position is alone in the cell is all there is against a data race.
AloneInCell ==
  \A t, u \in InCell : Index(op[t].pos) = Index(op[u].pos) => t = u

Writers(p) == {t \in Thread : At(t, "writing") /\ op[t].pos = p}

\* What the position holds: what its writer brings, or the published data.
ItemAt(p) ==
  IF Writers(p) = {} THEN cell[Index(p)].data
  ELSE op[CHOOSE t \in Thread : t \in Writers(p)].item

\* What t has taken out and not yet handed to its caller.
Held(t) == CASE At(t, "reading") -> CellOf(t).data
             [] At(t, "done") -> op[t].item
             [] OTHER -> Nothing

Fifo == INSTANCE BoundedFifo WITH
  Capacity <- Size,
  fifo <- [k \in 1..(enqueuePos - dequeuePos) |-> ItemAt(dequeuePos + k - 1)],
  held <- [t \in Thread |-> Held(t)]

\* The ring with its lock-free protocol is a bounded first-in first-out queue:
\* winning a position is the moment at which an item goes in or comes out, no
\* item is lost, doubled or overtaken, and a thread gets the one it took
\* (enqueue(), dequeue()).
ImplementsBoundedFifo == Fifo!Spec
=============================================================================
