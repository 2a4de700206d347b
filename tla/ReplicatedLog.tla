---------------------------- MODULE ReplicatedLog ----------------------------
(***************************************************************************)
(* What replication under one leader promises: one log, which only grows,  *)
(* and at every node a committed sequence that is a prefix of the log and  *)
(* only grows.  Nothing is said of messages, terms or followers' logs.     *)
(***************************************************************************)
EXTENDS Naturals, Sequences

CONSTANTS Node, Value

VARIABLES
  log,       \* the values accepted, in their order
  committed  \* committed[n]: the values node n takes for decided

Init == log = <<>> /\ committed = [n \in Node |-> <<>>]

Accept(v) == log' = Append(log, v) /\ UNCHANGED committed

\* Node n learns that more of the log is decided.
Learn(n) ==
  /\ committed[n] = SubSeq(log, 1, Len(committed[n]))
  /\ \E k \in Len(committed[n])..Len(log) :
       committed' = [committed EXCEPT ![n] = SubSeq(log, 1, k)]
  /\ UNCHANGED log

Next == (\E v \in Value : Accept(v)) \/ (\E n \in Node : Learn(n))

Spec == Init /\ [][Next]_<<log, committed>>
=============================================================================
