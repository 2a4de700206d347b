------------------------------ MODULE TaskQueue ------------------------------
(***************************************************************************)
(* What a pool promises to who hands it tasks: an accepted task is begun   *)
(* once, in the order of acceptance, until the queue is closed; closing    *)
(* ends when everything accepted has been done.  Nothing is said of        *)
(* threads, locks or conditions.                                           *)
(***************************************************************************)
EXTENDS Naturals, Sequences

CONSTANTS Task, Endless

VARIABLES
  pending,   \* the tasks accepted and not yet begun, oldest first
  running,   \* the tasks begun and not yet done
  done,      \* the tasks done
  refused,   \* the tasks turned away
  closing,   \* nothing is accepted any more
  closed     \* the end of closing has been reported

taskVars == <<pending, running, done, refused, closing, closed>>

Init ==
  /\ pending = <<>> /\ running = {} /\ done = {} /\ refused = {}
  /\ closing = FALSE /\ closed = FALSE

Handled == running \cup done \cup refused \cup {pending[i] : i \in 1..Len(pending)}

Accept(t) ==
  /\ t \notin Handled /\ ~closing
  /\ pending' = Append(pending, t)
  /\ UNCHANGED <<running, done, refused, closing, closed>>

Refuse(t) ==
  /\ t \notin Handled /\ closing
  /\ refused' = refused \cup {t}
  /\ UNCHANGED <<pending, running, done, closing, closed>>

Begin ==
  /\ pending # <<>>
  /\ running' = running \cup {Head(pending)}
  /\ pending' = Tail(pending)
  /\ UNCHANGED <<done, refused, closing, closed>>

End(t) ==
  /\ t \in running \ Endless
  /\ running' = running \ {t}
  /\ done' = done \cup {t}
  /\ UNCHANGED <<pending, refused, closing, closed>>

Close ==
  /\ ~closing
  /\ closing' = TRUE
  /\ UNCHANGED <<pending, running, done, refused, closed>>

Closed ==
  /\ closing /\ ~closed
  /\ pending = <<>> /\ running = {}
  /\ closed' = TRUE
  /\ UNCHANGED <<pending, running, done, refused, closing>>

Next ==
  \/ \E t \in Task : Accept(t) \/ Refuse(t) \/ End(t)
  \/ Begin \/ Close \/ Closed

Spec == Init /\ [][Next]_taskVars
=============================================================================
