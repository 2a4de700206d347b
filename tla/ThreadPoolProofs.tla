-------------------------- MODULE ThreadPoolProofs --------------------------
(***************************************************************************)
(* Proofs about the thread pool, for any number of workers and tasks.      *)
(* PoolInv accounts for every task: it is in the queue, with one worker or *)
(* done, and in one of these only; and a worker returns only when the pool *)
(* is stopped and the queue is empty, which then stays so.                 *)
(***************************************************************************)
EXTENDS ThreadPool, SequenceTheorems, FiniteSetTheorems, TLAPS

NoDuplicates(s) == \A i, j \in 1..Len(s) : s[i] = s[j] => i = j

Owned ==
  /\ stop <=> owner # "alive"
  /\ owner = "joined" => \A w \in Worker : worker[w] = "returned"
  /\ \A w \in Worker : worker[w] = "returned" => stop /\ tasks = <<>>

Accounted ==
  /\ Accepted = Elements(tasks) \cup Running \cup future
  /\ Elements(tasks) \cap (Running \cup future) = {}
  /\ Running \cap future = {}
  /\ NoDuplicates(tasks)
  /\ \A v, w \in Worker : task[v] = task[w] /\ task[v] # None => v = w

PoolInv == TypeOK /\ Owned /\ Accounted
-----------------------------------------------------------------------------
(* Sequences *)

\* What a push at the back and a pop at the front do to what a sequence holds.
LEMMA RangeOfAppend ==
  ASSUME NEW S, NEW s \in Seq(S), NEW x \in S
  PROVE  /\ Elements(Append(s, x)) = Elements(s) \cup {x}
         /\ NoDuplicates(s) /\ x \notin Elements(s) => NoDuplicates(Append(s, x))
<1>1. /\ Append(s, x) \in Seq(S) /\ Len(Append(s, x)) = Len(s) + 1
      /\ \A i \in 1..Len(s) : Append(s, x)[i] = s[i]
      /\ Append(s, x)[Len(s) + 1] = x
      /\ Len(s) \in Nat
  BY AppendProperties
<1>2. 1..(Len(s) + 1) = (1..Len(s)) \cup {Len(s) + 1}
  BY <1>1
<1> QED BY <1>1, <1>2 DEF Elements, NoDuplicates

\* What is in a queue is at its head or behind it.
LEMMA RangeOfTail ==
  ASSUME NEW S, NEW s \in Seq(S), s # <<>>
  PROVE  /\ Head(s) \in S /\ Tail(s) \in Seq(S)
         /\ Elements(s) = {Head(s)} \cup Elements(Tail(s))
         /\ NoDuplicates(s) => /\ NoDuplicates(Tail(s))
                               /\ Head(s) \notin Elements(Tail(s))
<1>1. /\ Len(s) \in Nat \ {0} /\ Head(s) = s[1] /\ Head(s) \in S
      /\ Tail(s) \in Seq(S) /\ Len(Tail(s)) = Len(s) - 1
      /\ \A i \in 1..(Len(s) - 1) : Tail(s)[i] = s[i + 1]
  BY HeadTailProperties, EmptySeq
<1>2. \A i \in 1..Len(s) : i = 1 \/ (i - 1 \in 1..(Len(s) - 1) /\ s[i] = Tail(s)[i - 1])
  BY <1>1
<1>3. Elements(s) = {Head(s)} \cup Elements(Tail(s))
  <2>1. ASSUME NEW x \in Elements(s) PROVE x \in {Head(s)} \cup Elements(Tail(s))
    <3>1. PICK i \in 1..Len(s) : x = s[i]
      BY <2>1 DEF Elements
    <3>2. CASE i = 1
      BY <1>1, <3>1, <3>2
    <3>3. CASE i # 1
      <4>1. i - 1 \in 1..Len(Tail(s)) /\ x = Tail(s)[i - 1]
        BY <1>1, <1>2, <3>1, <3>3
      <4> QED BY <4>1 DEF Elements
    <3> QED BY <3>2, <3>3
  <2>2. Head(s) \in Elements(s) /\ Elements(Tail(s)) \subseteq Elements(s)
    BY <1>1 DEF Elements
  <2> QED BY <2>1, <2>2
<1>4. ASSUME NoDuplicates(s)
      PROVE  NoDuplicates(Tail(s)) /\ Head(s) \notin Elements(Tail(s))
  BY <1>1, <1>4 DEF Elements, NoDuplicates
<1> QED BY <1>1, <1>3, <1>4

-----------------------------------------------------------------------------
(* The accounting invariant *)

\* Nothing has been enqueued yet.
LEMMA PoolInit == Init => PoolInv
<1> SUFFICES ASSUME Init PROVE PoolInv
  OBVIOUS
<1> USE PoolAssumption DEF Init
<1>1. TypeOK
  BY EmptySeq DEF TypeOK
<1>2. Owned
  BY DEF Owned
<1>3. Elements(tasks) = {} /\ Running = {} /\ Accepted = {}
  BY DEF Elements, Running, Accepted
<1>4. Accounted
  BY <1>3 DEF Accounted, NoDuplicates
<1> QED BY <1>1, <1>2, <1>4 DEF PoolInv

\* Every step keeps the account of the tasks.
LEMMA PoolStep == PoolInv /\ [Next]_vars => PoolInv'
<1> SUFFICES ASSUME TypeOK, Owned, Accounted, [Next]_vars
             PROVE  TypeOK' /\ Owned' /\ Accounted'
  BY DEF PoolInv
<1> USE PoolAssumption
<1>1. ASSUME NEW w \in Worker, Wait(w) PROVE TypeOK' /\ Owned' /\ Accounted'
  <2> USE <1>1 DEF Wait
  <2>1. TypeOK'
    BY DEF TypeOK
  <2>2. Owned'
    BY DEF Owned, TypeOK
  <2>3. Accounted'
    BY DEF Accounted, Accepted, Running, Elements, NoDuplicates
  <2> QED BY <2>1, <2>2, <2>3
<1>2. ASSUME NEW w \in Worker, Return(w) PROVE TypeOK' /\ Owned' /\ Accounted'
  <2> USE <1>2 DEF Return
  <2>1. TypeOK'
    BY DEF TypeOK
  <2>2. Owned'
    BY DEF Owned, TypeOK
  <2>3. Accounted'
    BY DEF Accounted, Accepted, Running, Elements, NoDuplicates
  <2> QED BY <2>1, <2>2, <2>3
<1>3. ASSUME NEW w \in Worker, Take(w) PROVE TypeOK' /\ Owned' /\ Accounted'
  <2>1. /\ Head(tasks) \in Task /\ tasks' \in Seq(Task)
        /\ Elements(tasks) = {Head(tasks)} \cup Elements(tasks')
        /\ NoDuplicates(tasks') /\ Head(tasks) \notin Elements(tasks')
    BY <1>3, RangeOfTail DEF Take, TypeOK, Accounted
  <2>2. TypeOK'
    BY <1>3, <2>1 DEF Take, TypeOK
  <2>3. Owned'
    BY <1>3 DEF Take, Owned, TypeOK
  <2>4. Running' = Running \cup {Head(tasks)}
    BY <1>3, <2>1 DEF Take, Running, TypeOK
  <2>5. Accepted' = Accepted /\ future' = future
    BY <1>3 DEF Take, Accepted
  <2>6. Head(tasks) \notin Running \cup future
    BY <2>1 DEF Accounted
  <2>7. \A u, v \in Worker : task'[u] = task'[v] /\ task'[u] # None => u = v
    BY <1>3, <2>1, <2>6 DEF Take, TypeOK, Accounted, Running
  <2>8. Accounted'
    BY <2>1, <2>4, <2>5, <2>6, <2>7 DEF Accounted
  <2> QED BY <2>2, <2>3, <2>8
<1>4. ASSUME NEW w \in Worker, Finish(w) PROVE TypeOK' /\ Owned' /\ Accounted'
  <2>1. task[w] \in Task /\ task[w] \in Running
    BY <1>4 DEF Finish, TypeOK, Running
  <2>2. TypeOK'
    BY <1>4, <2>1 DEF Finish, TypeOK
  <2>3. Owned'
    BY <1>4 DEF Finish, Owned, TypeOK
  <2>4. Running' = Running \ {task[w]}
    BY <1>4, <2>1 DEF Finish, Running, TypeOK, Accounted
  <2>5. /\ Accepted' = Accepted /\ future' = future \cup {task[w]}
        /\ tasks' = tasks
    BY <1>4 DEF Finish, Accepted
  <2>6. \A u, v \in Worker : task'[u] = task'[v] /\ task'[u] # None => u = v
    BY <1>4 DEF Finish, TypeOK, Accounted
  <2>7. Elements(tasks') = Elements(tasks) /\ NoDuplicates(tasks') = NoDuplicates(tasks)
    BY <2>5 DEF Elements, NoDuplicates
  <2>8. task[w] \notin Running' /\ task[w] \notin Elements(tasks)
    BY <2>1, <2>4 DEF Accounted
  <2>9. Accepted' = Elements(tasks') \cup Running' \cup future'
    BY <2>1, <2>4, <2>5, <2>7 DEF Accounted
  <2>10. /\ Elements(tasks') \cap (Running' \cup future') = {}
         /\ Running' \cap future' = {}
    BY <2>1, <2>4, <2>5, <2>7, <2>8 DEF Accounted
  <2>11. NoDuplicates(tasks')
    BY <2>7 DEF Accounted
  <2>12. Accounted'
    BY <2>6, <2>9, <2>10, <2>11 DEF Accounted
  <2> QED BY <2>2, <2>3, <2>12
<1>5. ASSUME NEW w \in Worker, WakeSpuriously(w)
      PROVE  TypeOK' /\ Owned' /\ Accounted'
  <2> USE <1>5 DEF WakeSpuriously
  <2>1. TypeOK'
    BY DEF TypeOK
  <2>2. Owned'
    BY DEF Owned, TypeOK
  <2>3. Accounted'
    <3>1. /\ Accepted' = Accepted /\ Running' = Running
          /\ task' = task /\ tasks' = tasks /\ future' = future
      BY DEF Accepted, Running
    <3> QED BY <3>1 DEF Accounted
  <2> QED BY <2>1, <2>2, <2>3
<1>6. ASSUME NEW t \in Task, Enqueue(t) PROVE TypeOK' /\ Owned' /\ Accounted'
  <2>1. t \notin Accepted
    BY <1>6 DEF Enqueue, Accepted
  <2>2. /\ tasks' \in Seq(Task)
        /\ Elements(tasks') = Elements(tasks) \cup {t}
        /\ NoDuplicates(tasks')
    BY <1>6, <2>1, RangeOfAppend, AppendProperties DEF Enqueue, TypeOK, Accounted
  <2>3. TypeOK'
    BY <1>6, <2>2 DEF Enqueue, TypeOK
  <2>4. Owned'
    BY <1>6 DEF Enqueue, Owned, TypeOK
  <2>5. Accepted' = Accepted \cup {t}
    BY <1>6 DEF Enqueue, Accepted, TypeOK
  <2>6. Running' = Running /\ future' = future /\ task' = task
    BY <1>6 DEF Enqueue, Running
  <2>7. Accounted'
    BY <2>1, <2>2, <2>5, <2>6 DEF Accounted
  <2> QED BY <2>3, <2>4, <2>7
<1>7. ASSUME NEW t \in Task, EnqueueThrows(t) PROVE TypeOK' /\ Owned' /\ Accounted'
  <2>1. TypeOK'
    BY <1>7 DEF EnqueueThrows, TypeOK
  <2>2. Owned'
    BY <1>7 DEF EnqueueThrows, Owned
  <2>3. Accepted' = Accepted
    BY <1>7 DEF EnqueueThrows, Accepted, TypeOK
  <2>4. Accounted'
    BY <1>7, <2>3 DEF EnqueueThrows, Accounted, Running, Elements, NoDuplicates
  <2> QED BY <2>1, <2>2, <2>4
<1>8. ASSUME NEW t \in Task, NotifyOne(t) PROVE TypeOK' /\ Owned' /\ Accounted'
  <2>1. TypeOK'
    BY <1>8 DEF NotifyOne, TypeOK, Waiting
  <2>2. Owned'
    BY <1>8 DEF NotifyOne, Owned, TypeOK, Waiting
  <2>3. Accepted' = Accepted
    BY <1>8 DEF NotifyOne, Accepted, TypeOK
  <2>4. Accounted'
    BY <1>8, <2>3 DEF NotifyOne, Accounted, Running, Elements, NoDuplicates
  <2> QED BY <2>1, <2>2, <2>4
<1>9. CASE Stop
  <2>1. TypeOK'
    BY <1>9 DEF Stop, TypeOK
  <2>2. Owned'
    BY <1>9 DEF Stop, Owned
  <2>3. Accounted'
    BY <1>9 DEF Stop, Accounted, Accepted, Running, Elements, NoDuplicates
  <2> QED BY <2>1, <2>2, <2>3
<1>10. CASE NotifyAll
  <2>1. TypeOK'
    BY <1>10 DEF NotifyAll, TypeOK, Waiting
  <2>2. Owned'
    BY <1>10 DEF NotifyAll, Owned, TypeOK, Waiting
  <2>3. Accounted'
    BY <1>10 DEF NotifyAll, Accounted, Accepted, Running, Elements, NoDuplicates
  <2> QED BY <2>1, <2>2, <2>3
<1>11. CASE Join
  <2>1. TypeOK'
    BY <1>11 DEF Join, TypeOK
  <2>2. Owned'
    BY <1>11 DEF Join, Owned
  <2>3. Accounted'
    BY <1>11 DEF Join, Accounted, Accepted, Running, Elements, NoDuplicates
  <2> QED BY <2>1, <2>2, <2>3
<1>12. CASE UNCHANGED vars
  <2>1. TypeOK' /\ Owned'
    BY <1>12 DEF vars, TypeOK, Owned
  <2>2. Accounted'
    BY <1>12 DEF vars, Accounted, Accepted, Running, Elements, NoDuplicates
  <2> QED BY <2>1, <2>2
<1> QED BY <1>1, <1>2, <1>3, <1>4, <1>5, <1>6, <1>7, <1>8, <1>9, <1>10, <1>11, <1>12
        DEF Next, WorkerStep

\* The account of the tasks always holds.
LEMMA PoolInvariant == Spec => []PoolInv
<1> QED BY PoolInit, PoolStep, PTL DEF Spec

\* The types of the pool's state (thread_pool.h:27-34), and that a worker has
\* a task exactly while it runs one.
THEOREM PoolTypeCorrect == Spec => []TypeOK
<1> QED BY PoolInvariant, PTL DEF PoolInv

\* The destructor has joined only when every accepted task is done
\* (thread_pool.h:55 and 93-102).
THEOREM PoolDrains == Spec => []JoinedIsDrained
<1>1. PoolInv => JoinedIsDrained
  <2> SUFFICES ASSUME TypeOK, Owned, Accounted, owner = "joined"
               PROVE  tasks = <<>> /\ Accepted \subseteq future
    BY DEF PoolInv, JoinedIsDrained
  <2>1. tasks = <<>>
    BY PoolAssumption DEF Owned
  <2>2. Running = {}
    BY DEF Owned, Running, TypeOK
  <2>3. Elements(tasks) = {}
    BY <2>1 DEF Elements
  <2> QED BY <2>1, <2>2, <2>3 DEF Accounted
<1> QED BY <1>1, PoolInvariant, PTL
-----------------------------------------------------------------------------
(* Wake-ups *)

\* The two sets that are counted are finite.
LEMMA CountedSets ==
  ASSUME TypeOK
  PROVE  /\ IsFiniteSet(Awake) /\ IsFiniteSet(Notifying)
         /\ Cardinality(Awake) \in Nat /\ Cardinality(Notifying) \in Nat
<1>1. Awake \subseteq Worker /\ Notifying \subseteq Task
  BY DEF Awake, Notifying
<1> QED BY <1>1, PoolAssumption, FS_Subset, FS_CardinalityType

\* Every step leaves a waiter notified while there is work for it.
LEMMA WakeupStep == TypeOK /\ NoLostWakeup /\ [Next]_vars /\ TypeOK' => NoLostWakeup'
<1> SUFFICES ASSUME TypeOK, NoLostWakeup, [Next]_vars, TypeOK', Waiting' # {}
             PROVE  Len(tasks') <= Cardinality(Awake') + Cardinality(Notifying')
  BY DEF NoLostWakeup
<1> USE PoolAssumption
<1> DEFINE a == Cardinality(Awake)
           a1 == Cardinality(Awake')
           n == Cardinality(Notifying)
           n1 == Cardinality(Notifying')
<1>a. /\ IsFiniteSet(Awake) /\ IsFiniteSet(Notifying) /\ a \in Nat /\ n \in Nat
      /\ Len(tasks) \in Nat
  BY CountedSets, LenProperties DEF TypeOK
<1>b. /\ IsFiniteSet(Awake') /\ IsFiniteSet(Notifying') /\ a1 \in Nat /\ n1 \in Nat
      /\ Len(tasks') \in Nat
  <2>1. Awake' \subseteq Worker /\ Notifying' \subseteq Task
    BY DEF Awake, Notifying
  <2>2. Len(tasks') \in Nat
    BY LenProperties DEF TypeOK
  <2> QED BY <2>1, <2>2, FS_Subset, FS_CardinalityType
<1>1. ASSUME NEW w \in Worker, Wait(w) PROVE Len(tasks') <= a1 + n1
  <2>1. Len(tasks') = 0
    BY <1>1, EmptySeq DEF Wait
  <2> QED BY <2>1, <1>b
<1>2. ASSUME NEW w \in Worker, Return(w) PROVE Len(tasks') <= a1 + n1
  <2>1. Len(tasks') = 0
    BY <1>2, EmptySeq DEF Return
  <2> QED BY <2>1, <1>b
<1>3. ASSUME NEW w \in Worker, Take(w) PROVE Len(tasks') <= a1 + n1
  <2>1. Waiting' = Waiting /\ Notifying' = Notifying
    BY <1>3 DEF Take, Waiting, Notifying, TypeOK
  <2>2. Awake' = Awake \ {w} /\ w \in Awake
    BY <1>3 DEF Take, Awake, TypeOK
  <2>3. a1 = a - 1
    BY <2>2, <1>a, FS_RemoveElement
  <2>4. Len(tasks') = Len(tasks) - 1
    BY <1>3, HeadTailProperties DEF Take, TypeOK
  <2>5. Len(tasks) <= a + n
    BY <2>1 DEF NoLostWakeup
  <2>6. n1 = n
    BY <2>1
  <2> HIDE DEF a, a1, n, n1
  <2> QED BY <2>3, <2>4, <2>5, <2>6, <1>a
<1>4. ASSUME NEW w \in Worker, Finish(w) PROVE Len(tasks') <= a1 + n1
  <2>1. /\ Waiting' = Waiting /\ Notifying' = Notifying /\ Awake \subseteq Awake'
        /\ tasks' = tasks
    BY <1>4 DEF Finish, Waiting, Notifying, Awake, TypeOK
  <2>2. a <= a1 /\ n1 = n
    BY <2>1, <1>b, FS_Subset
  <2>3. Len(tasks) <= a + n
    BY <2>1 DEF NoLostWakeup
  <2> HIDE DEF a, a1, n, n1
  <2> QED BY <2>1, <2>2, <2>3, <1>a, <1>b
<1>5. ASSUME NEW w \in Worker, WakeSpuriously(w) PROVE Len(tasks') <= a1 + n1
  <2>1. /\ Waiting # {} /\ Notifying' = Notifying /\ Awake \subseteq Awake'
        /\ tasks' = tasks
    BY <1>5 DEF WakeSpuriously, Waiting, Notifying, Awake, TypeOK
  <2>2. a <= a1 /\ n1 = n
    BY <2>1, <1>b, FS_Subset
  <2>3. Len(tasks) <= a + n
    BY <2>1 DEF NoLostWakeup
  <2> HIDE DEF a, a1, n, n1
  <2> QED BY <2>1, <2>2, <2>3, <1>a, <1>b
<1>6. ASSUME NEW t \in Task, Enqueue(t) PROVE Len(tasks') <= a1 + n1
  <2>1. /\ Waiting' = Waiting /\ Awake' = Awake
        /\ Notifying' = Notifying \cup {t} /\ t \notin Notifying
    BY <1>6 DEF Enqueue, Waiting, Notifying, Awake, TypeOK
  <2>2. n1 = n + 1 /\ a1 = a
    BY <2>1, <1>a, FS_AddElement
  <2>3. Len(tasks') = Len(tasks) + 1
    BY <1>6, AppendProperties DEF Enqueue, TypeOK
  <2>4. Len(tasks) <= a + n
    BY <2>1 DEF NoLostWakeup
  <2> HIDE DEF a, a1, n, n1
  <2> QED BY <2>2, <2>3, <2>4, <1>a
<1>7. ASSUME NEW t \in Task, EnqueueThrows(t) PROVE Len(tasks') <= a1 + n1
  <2>1. /\ Waiting' = Waiting /\ Awake' = Awake /\ Notifying' = Notifying
        /\ tasks' = tasks
    BY <1>7 DEF EnqueueThrows, Waiting, Notifying, Awake, TypeOK
  <2> QED BY <2>1 DEF NoLostWakeup
<1>8. ASSUME NEW t \in Task, NotifyOne(t) PROVE Len(tasks') <= a1 + n1
  <2>1. /\ Notifying' = Notifying \ {t} /\ t \in Notifying /\ tasks' = tasks
        /\ Waiting # {}
    BY <1>8 DEF NotifyOne, Waiting, Notifying, TypeOK
  <2>2. PICK w \in Waiting : worker' = [worker EXCEPT ![w] = "testing"]
    BY <1>8, <2>1 DEF NotifyOne, Waiting
  <2>3. Awake' = Awake \cup {w} /\ w \notin Awake
    BY <2>2 DEF Awake, Waiting, TypeOK
  <2>4. a1 = a + 1
    BY <2>3, <1>a, FS_AddElement
  <2>5. n1 = n - 1
    BY <2>1, <1>a, FS_RemoveElement
  <2>6. Len(tasks) <= a + n
    BY <2>1 DEF NoLostWakeup
  <2> HIDE DEF a, a1, n, n1
  <2> QED BY <2>1, <2>4, <2>5, <2>6, <1>a
<1>9. CASE Stop
  <2>1. /\ Waiting' = Waiting /\ Awake' = Awake /\ Notifying' = Notifying
        /\ tasks' = tasks
    BY <1>9 DEF Stop, Waiting, Notifying, Awake
  <2> QED BY <2>1 DEF NoLostWakeup
<1>10. CASE NotifyAll
  <2>1. Waiting' = {}
    BY <1>10 DEF NotifyAll, Waiting, TypeOK
  <2> QED BY <2>1
<1>11. CASE Join
  <2>1. /\ Waiting' = Waiting /\ Awake' = Awake /\ Notifying' = Notifying
        /\ tasks' = tasks
    BY <1>11 DEF Join, Waiting, Notifying, Awake
  <2> QED BY <2>1 DEF NoLostWakeup
<1>12. CASE UNCHANGED vars
  <2>1. /\ Waiting' = Waiting /\ Awake' = Awake /\ Notifying' = Notifying
        /\ tasks' = tasks
    BY <1>12 DEF vars, Waiting, Notifying, Awake
  <2> QED BY <2>1 DEF NoLostWakeup
<1> QED BY <1>1, <1>2, <1>3, <1>4, <1>5, <1>6, <1>7, <1>8, <1>9, <1>10, <1>11, <1>12
        DEF Next, WorkerStep

\* While a worker sleeps, no more tasks are queued than there are workers
\* awake and notifications to come: notify_one() after the unlock
\* (thread_pool.h:87-88) loses none.
THEOREM PoolWakes == Spec => []NoLostWakeup
<1>1. Init => NoLostWakeup
  BY DEF Init, NoLostWakeup, Waiting
<1>2. TypeOK /\ NoLostWakeup /\ [Next]_vars /\ TypeOK' => NoLostWakeup'
  BY WakeupStep
<1> QED BY <1>1, <1>2, PoolTypeCorrect, PTL DEF Spec
-----------------------------------------------------------------------------
(* The pool implements TaskQueue *)

Refused == {t \in Task : client[t] = "threw"}

\* Every step is one of the abstract queue, or none.
LEMMA QueueStep == PoolInv /\ [Next]_vars => [Queue!Next]_(Queue!taskVars)
<1> SUFFICES ASSUME TypeOK, Owned, Accounted, [Next]_vars
             PROVE  [Queue!Next]_(Queue!taskVars)
  BY DEF PoolInv
<1> USE PoolAssumption
\* What the queue has handled are the tasks whose enqueue() has begun.
<1>h. Queue!Handled = {t \in Task : client[t] # "new"}
  <2>1. {t \in Task : client[t] # "new"} = Accepted \cup Refused
    BY DEF Accepted, Refused, TypeOK
  <2>2. Queue!Handled = Running \cup future \cup Refused \cup Elements(tasks)
    BY DEF Queue!Handled, Elements, Refused
  <2> QED BY <2>1, <2>2 DEF Accounted
<1> DEFINE Same == /\ tasks' = tasks /\ Running' = Running /\ future' = future
                   /\ Refused' = Refused /\ stop' = stop
                   /\ (owner = "joined")' = (owner = "joined")
<1>s. Same => UNCHANGED Queue!taskVars
  BY DEF Queue!taskVars, Refused
<1>1. ASSUME NEW w \in Worker, Wait(w) \/ Return(w) \/ WakeSpuriously(w) PROVE Same
  BY <1>1 DEF Wait, Return, WakeSpuriously, Running, Refused
<1>2. ASSUME NEW w \in Worker, Take(w) PROVE Queue!Begin
  <2>1. Head(tasks) \in Task
    BY <1>2, RangeOfTail DEF Take, TypeOK
  <2>2. Running' = Running \cup {Head(tasks)}
    BY <1>2, <2>1 DEF Take, Running, TypeOK
  <2>3. Refused' = Refused
    BY <1>2 DEF Take, Refused
  <2> QED BY <1>2, <2>2, <2>3 DEF Take, Queue!Begin, Refused
<1>3. ASSUME NEW w \in Worker, Finish(w) PROVE Queue!End(task[w]) /\ task[w] \in Task
  <2>1. task[w] \in Task /\ task[w] \in Running
    BY <1>3 DEF Finish, TypeOK, Running
  <2>2. Running' = Running \ {task[w]}
    BY <1>3, <2>1 DEF Finish, Running, TypeOK, Accounted
  <2>3. Refused' = Refused
    BY <1>3 DEF Finish, Refused
  <2> QED BY <1>3, <2>1, <2>2, <2>3 DEF Finish, Queue!End, Refused
<1>4. ASSUME NEW t \in Task, Enqueue(t) PROVE Queue!Accept(t)
  <2>1. t \notin Queue!Handled
    BY <1>4, <1>h DEF Enqueue
  <2>2. Running' = Running /\ Refused' = Refused
    BY <1>4 DEF Enqueue, Running, Refused, TypeOK
  <2> QED BY <1>4, <2>1, <2>2 DEF Enqueue, Queue!Accept, Refused
<1>5. ASSUME NEW t \in Task, EnqueueThrows(t) PROVE Queue!Refuse(t)
  <2>1. t \notin Queue!Handled
    BY <1>5, <1>h DEF EnqueueThrows
  <2>2. Running' = Running /\ Refused' = Refused \cup {t}
    BY <1>5 DEF EnqueueThrows, Running, Refused, TypeOK
  <2> QED BY <1>5, <2>1, <2>2 DEF EnqueueThrows, Queue!Refuse, Refused
<1>6. ASSUME NEW t \in Task, NotifyOne(t) PROVE Same
  BY <1>6 DEF NotifyOne, Running, Refused, TypeOK
<1>7. CASE Stop
  <2>1. Running' = Running /\ Refused' = Refused
    BY <1>7 DEF Stop, Running, Refused
  <2>2. ~stop
    BY <1>7 DEF Stop, Owned
  <2> QED BY <1>7, <2>1, <2>2 DEF Stop, Queue!Next, Queue!Close, Refused
<1>8. CASE NotifyAll
  BY <1>8, <1>s DEF NotifyAll, Running, Refused
<1>9. CASE Join
  <2>1. Running = {} /\ Running' = Running /\ Refused' = Refused
    BY <1>9 DEF Join, Running, Refused, TypeOK
  <2>2. tasks = <<>> /\ stop
    BY <1>9 DEF Join, Owned
  <2> QED BY <1>9, <2>1, <2>2 DEF Join, Queue!Next, Queue!Closed, Refused
<1>10. CASE UNCHANGED vars
  BY <1>10, <1>s DEF vars, Running, Refused
<1> QED
  BY <1>s, <1>1, <1>2, <1>3, <1>4, <1>5, <1>6, <1>7, <1>8, <1>9, <1>10
     DEF Next, WorkerStep, Queue!Next

\* To whoever uses it the pool (thread_pool.h:40-102) is a TaskQueue: every
\* accepted task is begun once, in the order of acceptance, nothing is
\* accepted after the stop, and the destructor is past its joins only when
\* nothing is queued or running.
THEOREM PoolRefines == Spec => ImplementsTaskQueue
<1>1. Init => Queue!Init
  BY DEF Init, Queue!Init, Running
<1>2. PoolInv /\ [Next]_vars => [Queue!Next]_(Queue!taskVars)
  BY QueueStep
<1> QED BY <1>1, <1>2, PoolInvariant, PTL DEF Spec, ImplementsTaskQueue, Queue!Spec
=============================================================================
