----------------------------- MODULE ThreadPool -----------------------------
(***************************************************************************)
(* The pool of common/thread_pool.h: workers that take tasks off one queue *)
(* under a mutex and a condition variable, clients that hand tasks in, and *)
(* an owner that destroys the pool.                                        *)
(*                                                                         *)
(* A section under queue_mutex is one step.  What happens outside of it is *)
(* a step of its own: the notifications after an unlock, the task itself,  *)
(* the joins.  A worker that waits is in the wait set until a notification *)
(* or a spurious wake-up takes it out; it then tests the predicate again.  *)
(***************************************************************************)
EXTENDS Naturals, Sequences, FiniteSets

CONSTANTS
  Worker,   \* the threads of the pool
  Task,     \* the tasks that clients may hand in
  Endless,  \* those of them that never return (the loops of raft::Node)
  None      \* no task

ASSUME PoolAssumption ==
  /\ Worker # {} /\ IsFiniteSet(Worker) /\ IsFiniteSet(Task)
  /\ Endless \subseteq Task
  /\ None \notin Task

VARIABLES
  tasks,      \* the queue
  stop,
  worker,     \* worker[w]: where the thread is in its loop
  task,       \* task[w]: its local variable
  client,     \* client[t]: how far enqueue(t) has come
  future,     \* the tasks whose future is ready
  owner       \* how far the destructor has come

vars == <<tasks, stop, worker, task, client, future, owner>>

Waiting == {w \in Worker : worker[w] = "waiting"}
Awake == {w \in Worker : worker[w] = "testing"}
Notifying == {t \in Task : client[t] = "notifying"}

Init ==
  /\ tasks = <<>>
  /\ stop = FALSE
  /\ worker = [w \in Worker |-> "testing"]
  /\ task = [w \in Worker |-> None]
  /\ client = [t \in Task |-> "new"]
  /\ future = {}
  /\ owner = "alive"
-----------------------------------------------------------------------------
(* Slips that the properties below must notice *)

\* condition.wait(lock) without the predicate.
Wait_NoPredicate(w) ==
  /\ worker[w] = "testing" /\ ~stop
  /\ worker' = [worker EXCEPT ![w] = "waiting"]
  /\ UNCHANGED <<tasks, stop, task, client, future, owner>>

\* A stopped worker leaves although there are tasks.
Return_OnStop(w) ==
  /\ worker[w] = "testing" /\ stop
  /\ worker' = [worker EXCEPT ![w] = "returned"]
  /\ UNCHANGED <<tasks, stop, task, client, future, owner>>

\* The newest task first.
Take_Newest(w) ==
  /\ worker[w] = "testing" /\ tasks # <<>>
  /\ task' = [task EXCEPT ![w] = tasks[Len(tasks)]]
  /\ tasks' = SubSeq(tasks, 1, Len(tasks) - 1)
  /\ worker' = [worker EXCEPT ![w] = "running"]
  /\ UNCHANGED <<stop, client, future, owner>>

\* The task is kept after it has run.
Finish_Kept(w) ==
  /\ worker[w] = "running" /\ task[w] \notin Endless
  /\ future' = future \cup {task[w]}
  /\ worker' = [worker EXCEPT ![w] = "testing"]
  /\ UNCHANGED <<tasks, stop, task, client, owner>>

\* No notification.
Enqueue_Silent(t) ==
  /\ client[t] = "new" /\ owner # "joined" /\ ~stop
  /\ tasks' = Append(tasks, t)
  /\ client' = [client EXCEPT ![t] = "returned"]
  /\ UNCHANGED <<stop, worker, task, future, owner>>

\* The destructor wakes one worker only.
NotifyAll_One ==
  /\ owner = "notifying"
  /\ \/ Waiting = {} /\ UNCHANGED worker
     \/ \E w \in Waiting : worker' = [worker EXCEPT ![w] = "testing"]
  /\ owner' = "joining"
  /\ UNCHANGED <<tasks, stop, task, client, future>>
-----------------------------------------------------------------------------
(* A worker *)

\* condition.wait(): the predicate is false.
Wait(w) ==
  /\ worker[w] = "testing"
  /\ ~stop /\ tasks = <<>>
  /\ worker' = [worker EXCEPT ![w] = "waiting"]
  /\ UNCHANGED <<tasks, stop, task, client, future, owner>>

Return(w) ==
  /\ worker[w] = "testing"
  /\ stop /\ tasks = <<>>
  /\ worker' = [worker EXCEPT ![w] = "returned"]
  /\ UNCHANGED <<tasks, stop, task, client, future, owner>>

Take(w) ==
  /\ worker[w] = "testing"
  /\ tasks # <<>>
  /\ task' = [task EXCEPT ![w] = Head(tasks)]
  /\ tasks' = Tail(tasks)
  /\ worker' = [worker EXCEPT ![w] = "running"]
  /\ UNCHANGED <<stop, client, future, owner>>

\* task() returns; an exception would end up in the future all the same.
Finish(w) ==
  /\ worker[w] = "running"
  /\ task[w] \notin Endless
  /\ future' = future \cup {task[w]}
  /\ task' = [task EXCEPT ![w] = None]
  /\ worker' = [worker EXCEPT ![w] = "testing"]
  /\ UNCHANGED <<tasks, stop, client, owner>>

\* A condition variable may wake a thread for no reason.
WakeSpuriously(w) ==
  /\ worker[w] = "waiting"
  /\ worker' = [worker EXCEPT ![w] = "testing"]
  /\ UNCHANGED <<tasks, stop, task, client, future, owner>>
-----------------------------------------------------------------------------
(* A client: enqueue() *)

Enqueue(t) ==
  /\ client[t] = "new" /\ owner # "joined"
  /\ ~stop
  /\ tasks' = Append(tasks, t)
  /\ client' = [client EXCEPT ![t] = "notifying"]
  /\ UNCHANGED <<stop, worker, task, future, owner>>

\* "enqueue on stopped ThreadPool"
EnqueueThrows(t) ==
  /\ client[t] = "new" /\ owner # "joined"
  /\ stop
  /\ client' = [client EXCEPT ![t] = "threw"]
  /\ UNCHANGED <<tasks, stop, worker, task, future, owner>>

\* condition.notify_one() chooses among the threads that wait at that moment.
NotifyOne(t) ==
  /\ client[t] = "notifying"
  /\ client' = [client EXCEPT ![t] = "returned"]
  /\ \/ Waiting = {} /\ UNCHANGED worker
     \/ \E w \in Waiting : worker' = [worker EXCEPT ![w] = "testing"]
  /\ UNCHANGED <<tasks, stop, task, future, owner>>
-----------------------------------------------------------------------------
(* The owner: ~ThreadPool() *)

Stop ==
  /\ owner = "alive"
  /\ stop' = TRUE
  /\ owner' = "notifying"
  /\ UNCHANGED <<tasks, worker, task, client, future>>

NotifyAll ==
  /\ owner = "notifying"
  /\ worker' = [w \in Worker |-> IF w \in Waiting THEN "testing" ELSE worker[w]]
  /\ owner' = "joining"
  /\ UNCHANGED <<tasks, stop, task, client, future>>

Join ==
  /\ owner = "joining"
  /\ \A w \in Worker : worker[w] = "returned"
  /\ owner' = "joined"
  /\ UNCHANGED <<tasks, stop, worker, task, client, future>>
-----------------------------------------------------------------------------
WorkerStep(w) == Wait(w) \/ Return(w) \/ Take(w) \/ Finish(w)

Next ==
  \/ \E w \in Worker : WorkerStep(w) \/ WakeSpuriously(w)
  \/ \E t \in Task : Enqueue(t) \/ EnqueueThrows(t) \/ NotifyOne(t)
  \/ Stop \/ NotifyAll \/ Join

\* Threads that can run do run.  Clients may stop handing tasks in, and the
\* pool need never be destroyed.
Fairness ==
  /\ \A w \in Worker : WF_vars(WorkerStep(w))
  /\ \A t \in Task : WF_vars(NotifyOne(t))
  /\ WF_vars(NotifyAll) /\ WF_vars(Join)

Spec == Init /\ [][Next]_vars

FairSpec == Spec /\ Fairness
-----------------------------------------------------------------------------
(* What the pool guarantees *)

Elements(s) == {s[i] : i \in 1..Len(s)}
Running == {task[w] : w \in Worker} \ {None}
Accepted == {t \in Task : client[t] \in {"notifying", "returned"}}

\* The types; and a worker has a task exactly while it runs one.
TypeOK ==
  /\ tasks \in Seq(Task)
  /\ stop \in BOOLEAN
  /\ worker \in [Worker -> {"testing", "waiting", "running", "returned"}]
  /\ task \in [Worker -> Task \cup {None}]
  /\ \A w \in Worker : worker[w] = "running" <=> task[w] # None
  /\ client \in [Task -> {"new", "notifying", "returned", "threw"}]
  /\ future \subseteq Task
  /\ owner \in {"alive", "notifying", "joining", "joined"}

\* No wake-up is lost although notify_one() comes after the unlock: as long as
\* a worker sleeps, every queued task has a worker that is awake or a
\* notification that is still to come.
NoLostWakeup ==
  Waiting # {} => Len(tasks) <= Cardinality(Awake) + Cardinality(Notifying)

\* When the destructor has joined the workers, whatever enqueue() accepted has
\* been run, also what was still queued when the pool was stopped.
JoinedIsDrained ==
  owner = "joined" => tasks = <<>> /\ Accepted \subseteq future

\* Seen from outside the pool is a queue of tasks: each accepted task is begun
\* once and in its turn, and none is accepted after the stop.
Queue == INSTANCE TaskQueue WITH
  pending <- tasks, running <- Running, done <- future,
  refused <- {t \in Task : client[t] = "threw"},
  closing <- stop, closed <- (owner = "joined")

ImplementsTaskQueue == Queue!Spec

\* A queued task is begun, as long as the tasks that never return leave a
\* worker free.
QueuedIsBegun ==
  Cardinality(Endless) < Cardinality(Worker) =>
    \A t \in Task : t \in Elements(tasks) ~> t \notin Elements(tasks)

\* The destructor comes to its end unless a task that never returns has been
\* accepted.
DestructorReturns ==
  (owner # "alive" /\ Accepted \cap Endless = {}) ~> (owner = "joined")
=============================================================================
