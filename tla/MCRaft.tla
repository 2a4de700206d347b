------------------------------- MODULE MCRaft -------------------------------
(* Instances of Raft for TLC: the star of the tests, where node 1 lists no  *)
(* peer and every other node lists node 1 (test/node1_test.cc to            *)
(* test/node3_test.cc).                                                     *)
EXTENDS RaftProperties

CONSTANTS n1, n2, n3

StarPeers == [n \in Node |-> IF n = n1 THEN {} ELSE {n1}]
=============================================================================
