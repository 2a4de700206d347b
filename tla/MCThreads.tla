----------------------------- MODULE MCThreads -----------------------------
(***************************************************************************)
(* Instance of NodeThreads: two peers, one with an id that no int32_t can  *)
(* hold.  A behaviour is either about the log and storageLog(), with       *)
(* nothing to send, about connections and their ids, or about sending.     *)
(***************************************************************************)
EXTENDS NodeThreads

Loads_Each ==
  {[connections |-> 0, messages |-> 5, queue |-> 0],
   [connections |-> 2, messages |-> 0, queue |-> 1],
   [connections |-> 1, messages |-> 1, queue |-> 1]}
=============================================================================
