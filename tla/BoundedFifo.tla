----------------------------- MODULE BoundedFifo -----------------------------
(***************************************************************************)
(* A bounded queue for several threads: items come out in the order in     *)
(* which they went in, each once, and are held by the thread that took     *)
(* them.  An attempt that fails changes nothing.                           *)
(***************************************************************************)
EXTENDS Naturals, Sequences

CONSTANTS Thread, Item, Nothing, Capacity

VARIABLES fifo, held

Init == fifo = <<>> /\ held = [t \in Thread |-> Nothing]

Put(x) == Len(fifo) < Capacity /\ fifo' = Append(fifo, x) /\ UNCHANGED held

Get(t) ==
  /\ fifo # <<>> /\ held[t] = Nothing
  /\ fifo' = Tail(fifo)
  /\ held' = [held EXCEPT ![t] = Head(fifo)]

Release(t) ==
  /\ held[t] # Nothing
  /\ held' = [held EXCEPT ![t] = Nothing]
  /\ UNCHANGED fifo

Next ==
  \/ \E t \in Thread : Get(t) \/ Release(t)
  \/ \E x \in Item : Put(x)

Spec == Init /\ [][Next]_<<fifo, held>>
=============================================================================
