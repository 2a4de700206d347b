------------------------------ MODULE AsyncLog ------------------------------
(***************************************************************************)
(* An asynchronous logger of spdlog (async_logger.h,                       *)
(* details/async_log_helper.h): client threads put messages into the       *)
(* queue, one worker takes them out and gives them to its sink, a rotating *)
(* file.  Each client holds a reference to the logger; when the last is    *)
(* dropped the destructor sends a last message and joins the worker.       *)
(***************************************************************************)
EXTENDS MpmcQueue, RotatingFile

CONSTANTS
  Client,
  Worker,
  Messages,  \* how many messages are logged ...
  Flushes    \* ... and how often flush() is called

ASSUME AsyncAssumption ==
  /\ Worker \notin Client /\ Thread = Client \cup {Worker}
  /\ Messages \in Nat /\ Flushes \in Nat
  /\ Item = 1..(Messages + 2) /\ Nothing = 0

\* The two messages that are not text.
FlushMsg == Messages + 1
TerminateMsg == Messages + 2

VARIABLES
  policy,      \* _overflow_policy
  caller,      \* caller[c]: what client c is doing with the logger
  worker,      \* "run", or "exited"
  flushRequested,
  terminateRequested,
  logged,      \* how many messages have been logged so far
  flushes,     \* how often flush() has been called
  consumed,    \* the messages that the worker has taken, in order
  discarded    \* how many messages have been discarded

clientVars == <<policy, caller, logged, flushes, discarded>>
workerVars == <<worker, flushRequested, terminateRequested, consumed>>
vars == <<qvars, sinkVars, clientVars, workerVars>>

Init ==
  /\ QInit /\ SinkInit
  /\ policy \in {"block_retry", "discard_log_msg"}
  /\ caller = [c \in Client |-> "free"]
  /\ worker = "run" /\ flushRequested = FALSE /\ terminateRequested = FALSE
  /\ logged = 0 /\ flushes = 0 /\ consumed = <<>> /\ discarded = 0

CallerAt(c, where) == caller[c] = where
CallerGoes(c, where) == caller' = [caller EXCEPT ![c] = where]

\* Who still holds a reference.
Holders == {c \in Client : caller[c] \notin {"gone", "ending", "join"}}
-----------------------------------------------------------------------------
(* The clients *)

\* _sink_it(): push_msg() of the message; one of a level that is to be flushed
\* at once brings a flush message after it.
Log(c) ==
  /\ CallerAt(c, "free") /\ logged < Messages
  /\ logged' = logged + 1
  /\ EnqueueCall(c, logged')
  /\ \/ CallerGoes(c, "log") /\ UNCHANGED flushes
     \/ flushes < Flushes /\ flushes' = flushes + 1 /\ CallerGoes(c, "urgent")
  /\ UNCHANGED <<sinkVars, workerVars, policy, discarded>>

FlushOn(c) ==
  /\ CallerAt(c, "flush_on")
  /\ EnqueueCall(c, FlushMsg)
  /\ CallerGoes(c, "log")
  /\ UNCHANGED <<sinkVars, workerVars, policy, logged, flushes, discarded>>

\* flush(true)
Flush(c) ==
  /\ CallerAt(c, "free") /\ flushes < Flushes
  /\ flushes' = flushes + 1
  /\ EnqueueCall(c, FlushMsg)
  /\ CallerGoes(c, "flush")
  /\ UNCHANGED <<sinkVars, workerVars, policy, logged, discarded>>

\* A reference goes; with the last one the destructor sends "terminate".
Drop(c) ==
  /\ CallerAt(c, "free")
  /\ IF Holders = {c}
     THEN EnqueueCall(c, TerminateMsg) /\ CallerGoes(c, "ending")
     ELSE CallerGoes(c, "gone") /\ UNCHANGED qvars
  /\ UNCHANGED <<sinkVars, workerVars, policy, logged, flushes, discarded>>

Afterwards == [log |-> "free", urgent |-> "flush_on", flush |-> "wait", ending |-> "join"]

\* push_msg() returns, or tries again after a while.
Pushed(c) ==
  /\ caller[c] \in DOMAIN Afterwards
  /\ \/ /\ op[c].pc = "done" \/ (op[c].pc = "failed" /\ policy = "discard_log_msg")
        /\ discarded' = IF At(c, "failed") THEN discarded + 1 ELSE discarded
        /\ CallerGoes(c, Afterwards[caller[c]])
        /\ Acknowledge(c)
     \/ policy = "block_retry" /\ Retry(c) /\ UNCHANGED <<discarded, caller>>
  /\ UNCHANGED <<sinkVars, workerVars, policy, logged, flushes>>

\* wait_empty_q(): is_empty() until it says so.
WaitEmpty(c) ==
  /\ CallerAt(c, "wait")
  /\ \/ EmptyCall(c) /\ UNCHANGED caller
     \/ /\ Acknowledge(c)
        /\ IF At(c, "done") THEN CallerGoes(c, "free") ELSE UNCHANGED caller
  /\ UNCHANGED <<sinkVars, workerVars, policy, logged, flushes, discarded>>

Join(c) ==
  /\ CallerAt(c, "join") /\ worker = "exited"
  /\ CallerGoes(c, "gone")
  /\ UNCHANGED <<qvars, sinkVars, workerVars, policy, logged, flushes, discarded>>
-----------------------------------------------------------------------------
(* The worker: process_next_msg() *)

\* Mutation: the worker leaves with the message that asks it to.
Handle_Exits ==
  /\ worker = "run" /\ At(Worker, "done")
  /\ Acknowledge(Worker)
  /\ IF op[Worker].item \in 1..Messages
     THEN SinkIt(op[Worker].item) /\ consumed' = Append(consumed, op[Worker].item)
     ELSE UNCHANGED <<sinkVars, consumed>>
  /\ flushRequested' = (flushRequested \/ op[Worker].item \in {FlushMsg, TerminateMsg})
  /\ terminateRequested' = (terminateRequested \/ op[Worker].item = TerminateMsg)
  /\ worker' = IF op[Worker].item = TerminateMsg THEN "exited" ELSE worker
  /\ UNCHANGED clientVars

Fetch ==
  /\ worker = "run"
  /\ DequeueCall(Worker)
  /\ UNCHANGED <<sinkVars, clientVars, workerVars>>

\* A message is written; what the sink throws only reaches the error handler.
Handle ==
  /\ worker = "run" /\ At(Worker, "done")
  /\ Acknowledge(Worker)
  /\ IF op[Worker].item \in 1..Messages
     THEN SinkIt(op[Worker].item) /\ consumed' = Append(consumed, op[Worker].item)
     ELSE UNCHANGED <<sinkVars, consumed>>
  /\ flushRequested' = (flushRequested \/ op[Worker].item \in {FlushMsg, TerminateMsg})
  /\ terminateRequested' = (terminateRequested \/ op[Worker].item = TerminateMsg)
  /\ UNCHANGED <<worker, clientVars>>

\* Nothing to fetch: handle_flush_interval(), which flushes when asked to or when
\* its interval has passed, and the end when it is asked for.
Pause ==
  /\ worker = "run" /\ At(Worker, "failed")
  /\ Acknowledge(Worker)
  /\ \/ SinkFlush
     \/ ~flushRequested /\ UNCHANGED sinkVars
  /\ flushRequested' = FALSE
  /\ worker' = IF terminateRequested THEN "exited" ELSE worker
  /\ UNCHANGED <<clientVars, terminateRequested, consumed>>
-----------------------------------------------------------------------------
InQueue(t) == QueueStep(t) /\ UNCHANGED <<sinkVars, clientVars, workerVars>>

Next ==
  \/ \E t \in Thread : InQueue(t)
  \/ \E c \in Client :
       \/ Log(c) \/ FlushOn(c) \/ Flush(c) \/ Drop(c)
       \/ Pushed(c) \/ WaitEmpty(c) \/ Join(c)
  \/ Fetch \/ Handle \/ Pause

Spec == Init /\ [][Next]_vars
-----------------------------------------------------------------------------
Least(a, b) == IF a < b THEN a ELSE b

\* When the logger is gone, every message that was logged and not discarded has
\* been taken by the worker; the files hold the last of them, in order, on disk,
\* and all of them as long as they fit (unless an operation on a file failed).
NothingLostAtExit ==
  \A c \in Client : CallerAt(c, "gone") /\ worker = "exited" =>
    /\ Len(consumed) + discarded >= logged
    /\ failures = 0 =>
         /\ unflushed = 0
         /\ \E cut \in [0..(MaxFiles + 1) -> 0..Len(consumed)] :
              /\ HoldEnd(consumed, cut)
              /\ Len(consumed) - cut[MaxFiles + 1] >= Least(Len(consumed), MaxFiles * MaxSize + 1)
=============================================================================
