------------------------------ MODULE Progress ------------------------------
(***************************************************************************)
(* What a leader believes about one follower: class Progress               *)
(* (raft/progress.h, raft/progress.cc).  A Progress object is a record and *)
(* its methods are operators from a record to a record.  _recentActive is  *)
(* left out: only checkQuorumActive() could read it, and that returns true *)
(* without looking (raft.cc:751).                                          *)
(***************************************************************************)
EXTENDS Naturals

ProgressState == {"Probe", "Replicate", "Snapshot"}

Progress == [state : ProgressState, match : Nat, next : Nat \ {0},
             pendingSnapshot : Nat]

\* The object addNode() builds for a node it has not seen before.
NewProgress(next) ==
  [state |-> "Probe", match |-> 0, next |-> next, pendingSnapshot |-> 0]

ResetState(p, state) == [p EXCEPT !.state = state, !.pendingSnapshot = 0]

BecomeProbe(p) ==
  LET floor == IF p.state = "Snapshot" /\ p.pendingSnapshot > p.match
                 THEN p.pendingSnapshot ELSE p.match
  IN  [ResetState(p, "Probe") EXCEPT !.next = floor + 1]

BecomeReplicate(p) == [ResetState(p, "Replicate") EXCEPT !.next = p.match + 1]

OptimisticUpdate(p, n) == [p EXCEPT !.next = n + 1]

\* The value maybeUpdate(n) returns: the acknowledgement is news.
IsNews(p, n) == p.match < n

\* What maybeUpdate(n) leaves behind, whatever it returns.
MaybeUpdate(p, n) ==
  [p EXCEPT !.next = IF @ < n + 1 THEN n + 1 ELSE @,
            !.match = IF IsNews(p, n) THEN n ELSE @]
=============================================================================
