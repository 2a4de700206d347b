--------------------------- MODULE RaftProperties ---------------------------
(***************************************************************************)
(* What the replication core does and does not guarantee.                  *)
(***************************************************************************)
EXTENDS Raft

Log(n) == raft[n].entries
InFlight(src, dst) ==
  {raft[src].sendmsgs[dst][i] : i \in 1..Len(raft[src].sendmsgs[dst])}
Leads(n) == raft[n].state = "LEADER"

\* The part of node n's log that its commit index covers.
Decided(n) == Truncate(Log(n), raft[n].commitIndex)
-----------------------------------------------------------------------------
(* Whatever the elections do *)

\* Every object keeps the types of its fields.  This is more than the C++
\* types say: no node falls back to term 0, no leader's `next' is 0 (sendAppend
\* subtracts 1 from it), and a heartbeat always carries a term.
TypeOK ==
  /\ raft \in [Node -> RaftObject]
  /\ \A n \in Node : raft[n].id = n
  /\ up \subseteq Node
  /\ hup \subseteq Node
  /\ faults \in 0..MaxFaults

\* Nothing is applied that is not committed: the range appliedTo() only logs
\* about (raft.cc:1082) is never left, though the step thread moves the commit
\* index while the persist thread applies.
AppliedWithinCommit ==
  \A n \in Node : raft[n].lastApplied <= raft[n].commitIndex

\* An election asks nobody: no vote message is ever sent, so the handlers of
\* MsgVote and MsgVoteResp are never entered.
NobodyIsAskedToVote ==
  \A n, d \in Node : \A m \in InFlight(n, d) :
    m.type \notin {"MsgVote", "MsgVoteResp"}

\* A commit index, at a node or on its way to one, has been acknowledged to
\* some leader by some follower.
CommitHasAcknowledgement ==
  \A n \in Node :
    LET Acknowledged(c) ==
          c > 0 => \E l \in Node : \E p \in raft[l].peers : raft[l].prs[p].match >= c
    IN  /\ Acknowledged(raft[n].commitIndex)
        /\ \A d \in Node : \A m \in InFlight(n, d) : Acknowledged(m.commit)

\* maybeAppend() returns 0 for a failure, and the end of the appended part for
\* a success (raft.cc:756): the two cannot be confused, because no MsgApp says
\* "nothing, at position 0".
NoEmptyAppendAtZero ==
  \A n, d \in Node : \A m \in InFlight(n, d) :
    m.type = "MsgApp" /\ m.index = 0 => m.entries # <<>>

\* A node never goes back to an earlier term, whoever sends what.
TermsOnlyGrow ==
  [][\A n \in Node : raft'[n].currentTerm >= raft[n].currentTerm]_vars

\* A leader gives up its role only to a higher term.
LeaderYieldsOnlyToHigherTerm ==
  [][\A n \in Node : Leads(n) /\ ~ Leads(n)' =>
       raft'[n].currentTerm > raft[n].currentTerm]_vars

\* While a node stays leader its log only grows at the end.
LeaderAppendOnly ==
  [][\A n \in Node : Leads(n) /\ Leads(n)' =>
       /\ Len(Log(n)) <= Len(Log(n)')
       /\ \A i \in 1..Len(Log(n)) : Log(n)'[i] = Log(n)[i]]_vars

\* What a node holds and takes for committed it never changes or drops, for
\* any leader, stale or merged message.
CommittedStable ==
  [][\A n \in Node : \A i \in 1..Len(Log(n)) :
       i <= raft[n].commitIndex =>
         /\ i <= Len(Log(n)')
         /\ Log(n)'[i] = Log(n)[i]]_vars

\* A leader that moves its own commit index has had it acknowledged by every
\* follower it knows: with a quorum of 1 maybeCommit() takes the lowest match.
LeaderCommitsWhatAllAcknowledged ==
  [][\A n \in Node :
       Leads(n) /\ Leads(n)' /\ raft'[n].commitIndex > raft[n].commitIndex =>
         \A p \in raft'[n].peers :
           raft'[n].prs[p].match >= raft'[n].commitIndex]_vars
-----------------------------------------------------------------------------
(* With one node that stands for election and nothing restarted *)

\* A node that takes an entry for committed has it.
CommitWithinLog ==
  \A n \in Node : raft[n].commitIndex <= Len(Log(n))

\* What a leader believes a follower holds, the follower holds, and it is the
\* same as the leader's own.
MatchIsHeld ==
  \A l \in Node : Leads(l) => \A p \in raft[l].peers :
    \A i \in 1..raft[l].prs[p].match :
      /\ i <= Len(Log(l)) /\ i <= Len(Log(p))
      /\ Log(l)[i] = Log(p)[i]

\* No two nodes take different entries for committed at one position.
CommittedAgree ==
  \A n, m \in Node : \A i \in 1..Len(Decided(n)) :
    i <= Len(Decided(m)) => Decided(n)[i] = Decided(m)[i]

\* The values in the leader's log and in the decided parts of all logs are
\* one growing log and growing prefixes of it.
TheLeader == CHOOSE n \in Node : n \in Electable
Values(log) == [i \in 1..Len(log) |-> log[i].data]
Abstract == INSTANCE ReplicatedLog WITH
  log <- Values(Log(TheLeader)),
  committed <- [n \in Node |-> Values(Decided(n))]
ImplementsReplicatedLog == Abstract!Spec

\* Once a leader and every follower it knows hold an entry, all of them come to
\* take it for committed.
ReplicatedIsLearned ==
  \A l \in Node : \A i \in 1..MaxEntries :
    LET replicas == raft[l].peers \cup {l}
    IN  (/\ Leads(l) /\ raft[l].peers # {}
         /\ \A n \in replicas : Len(Log(n)) >= i)
        ~> \A n \in replicas : raft[n].commitIndex >= i
=============================================================================
