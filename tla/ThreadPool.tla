----------------------------- MODULE ThreadPool -----------------------------
(***************************************************************************)
(* The thread pool (base/threadPool.h) behind Dbtm, Dbtl and the time      *)
(* wheel: producers enqueue tasks, workers take them in order, and the     *)
(* destructor stops and joins the workers.                                 *)
(*                                                                         *)
(* What happens under queue_mutex is one step.  notify_one and notify_all  *)
(* come after the unlock, so they are steps of their own; wait may also    *)
(* return spuriously.                                                      *)
(***************************************************************************)
EXTENDS Naturals, Sequences, FiniteSets

CONSTANTS
  Producer,  \* threads that call enqueue
  Worker,    \* the pool's threads
  MaxTask    \* bound: tasks enqueued, named 1, 2, ... in the order of the queue

ASSUME ThreadPoolAssumption == MaxTask \in Nat /\ Worker # {}

VARIABLES
  tasks,      \* the queue
  stop,       \* the flag
  worker,     \* where each worker is
  current,    \* the task a worker runs, 0 for none
  producer,   \* where each producer is
  destructor, \* where ~ThreadPool is
  enqueued,   \* history: number of tasks ever enqueued
  started     \* history: the tasks started, in order

vars == <<tasks, stop, worker, current, producer, destructor, enqueued, started>>

Init ==
  /\ tasks = <<>>
  /\ stop = FALSE
  /\ worker = [w \in Worker |-> "loop"]
  /\ current = [w \in Worker |-> 0]
  /\ producer = [p \in Producer |-> "idle"]
  /\ destructor = "idle"
  /\ enqueued = 0
  /\ started = <<>>

Waiting == {w \in Worker : worker[w] = "wait"}

----------------------------------------------------------------------------
\* enqueue, under the lock and after it.

\* Variant: no notification follows.
Unnotified == "idle"

Enqueued == "notify"

Enqueue(p) ==
  /\ producer[p] = "idle"
  /\ ~stop
  /\ enqueued < MaxTask
  /\ enqueued' = enqueued + 1
  /\ tasks' = Append(tasks, enqueued')
  /\ producer' = [producer EXCEPT ![p] = Enqueued]
  /\ UNCHANGED <<stop, worker, current, destructor, started>>

\* enqueue on a stopped pool throws.
EnqueueThrows(p) ==
  /\ producer[p] = "idle"
  /\ stop
  /\ enqueued < MaxTask
  /\ producer' = [producer EXCEPT ![p] = "threw"]
  /\ UNCHANGED <<tasks, stop, worker, current, destructor, enqueued, started>>

\* notify_one wakes one waiting worker, if there is one.
WakeOne ==
  \/ Waiting = {} /\ UNCHANGED worker
  \/ \E w \in Waiting : worker' = [worker EXCEPT ![w] = "lock"]

NotifyOne(p) ==
  /\ producer[p] = "notify"
  /\ WakeOne
  /\ producer' = [producer EXCEPT ![p] = "idle"]
  /\ UNCHANGED <<tasks, stop, current, destructor, enqueued, started>>

----------------------------------------------------------------------------
\* The workers.

\* while (!stop), read without the lock.
Loop(w) ==
  /\ worker[w] = "loop"
  /\ worker' = [worker EXCEPT ![w] = IF stop THEN "exit" ELSE "lock"]
  /\ UNCHANGED <<tasks, stop, current, producer, destructor, enqueued, started>>

\* wait's predicate is false: the worker sleeps.
Wait(w) ==
  /\ worker[w] = "lock"
  /\ ~stop /\ tasks = <<>>
  /\ worker' = [worker EXCEPT ![w] = "wait"]
  /\ UNCHANGED <<tasks, stop, current, producer, destructor, enqueued, started>>

SpuriousWakeup(w) ==
  /\ worker[w] = "wait"
  /\ worker' = [worker EXCEPT ![w] = "lock"]
  /\ UNCHANGED <<tasks, stop, current, producer, destructor, enqueued, started>>

Return(w) ==
  /\ worker[w] = "lock"
  /\ stop /\ tasks = <<>>
  /\ worker' = [worker EXCEPT ![w] = "exit"]
  /\ UNCHANGED <<tasks, stop, current, producer, destructor, enqueued, started>>

\* Variant: the front is moved out and not popped.
NotPopped == tasks

Popped == Tail(tasks)

Take(w) ==
  /\ worker[w] = "lock"
  /\ tasks # <<>>
  /\ current' = [current EXCEPT ![w] = Head(tasks)]
  /\ tasks' = Popped
  /\ started' = Append(started, Head(tasks))
  /\ worker' = [worker EXCEPT ![w] = "run"]
  /\ UNCHANGED <<stop, producer, destructor, enqueued>>

\* The task returns.
Finish(w) ==
  /\ worker[w] = "run"
  /\ worker' = [worker EXCEPT ![w] = "loop"]
  /\ current' = [current EXCEPT ![w] = 0]
  /\ UNCHANGED <<tasks, stop, producer, destructor, enqueued, started>>

----------------------------------------------------------------------------
\* ~ThreadPool.

Stop ==
  /\ destructor = "idle"
  /\ stop' = TRUE
  /\ destructor' = "notify"
  /\ UNCHANGED <<tasks, worker, current, producer, enqueued, started>>

WakeAll ==
  worker' = [w \in Worker |-> IF worker[w] = "wait" THEN "lock" ELSE worker[w]]

NotifyAll ==
  /\ destructor = "notify"
  /\ WakeAll
  /\ destructor' = "join"
  /\ UNCHANGED <<tasks, stop, current, producer, enqueued, started>>

\* Variant: the workers are not joined.
NoneJoined == TRUE

AllExited == \A w \in Worker : worker[w] = "exit"

Join ==
  /\ destructor = "join"
  /\ AllExited
  /\ destructor' = "done"
  /\ UNCHANGED <<tasks, stop, worker, current, producer, enqueued, started>>

Work(w) == Loop(w) \/ Wait(w) \/ Return(w) \/ Take(w) \/ Finish(w)

Next ==
  \/ \E p \in Producer : Enqueue(p) \/ EnqueueThrows(p) \/ NotifyOne(p)
  \/ \E w \in Worker : Work(w) \/ SpuriousWakeup(w)
  \/ Stop \/ NotifyAll \/ Join

Spec == Init /\ [][Next]_vars

\* Threads run, and tasks return.  Spurious wakeups and calls of enqueue and of
\* the destructor are owed to nobody.
FairSpec ==
  /\ Spec
  /\ \A p \in Producer : WF_vars(NotifyOne(p))
  /\ \A w \in Worker : WF_vars(Work(w))
  /\ WF_vars(NotifyAll)
  /\ WF_vars(Join)

----------------------------------------------------------------------------

\* The variables have their types.
TypeOK ==
  /\ tasks \in Seq(1 .. MaxTask)
  /\ stop \in BOOLEAN
  /\ worker \in [Worker -> {"loop", "lock", "wait", "run", "exit"}]
  /\ current \in [Worker -> 0 .. MaxTask]
  /\ producer \in [Producer -> {"idle", "notify", "threw"}]
  /\ destructor \in {"idle", "notify", "join", "done"}
  /\ enqueued \in 0 .. MaxTask
  /\ started \in Seq(1 .. MaxTask)

\* Tasks start in the order of enqueue, each at most once, and none is lost:
\* those started and those still queued are 1, 2, ..., enqueued.
Fifo == started \o tasks = [i \in 1 .. enqueued |-> i]

\* No wakeup is lost: when a task is queued, some worker is awake to look for
\* it or a notify_one is still to come; when the pool is stopping, a worker
\* sleeps only until the notify_all to come.
NoLostWakeup ==
  /\ ~stop /\ tasks # <<>> =>
       \/ \E w \in Worker : worker[w] \in {"loop", "lock", "run"}
       \/ \E p \in Producer : producer[p] = "notify"
  /\ stop /\ Waiting # {} => destructor = "notify"

\* Once joined, the workers are gone: no task runs in a destroyed pool.
JoinedIsQuiet ==
  destructor = "done" => \A w \in Worker : worker[w] = "exit" /\ current[w] = 0

\* An enqueued task starts, unless the pool is stopped first.
EveryTaskStarts ==
  \A i \in 1 .. MaxTask :
    (enqueued >= i) ~> (stop \/ \E j \in DOMAIN started : started[j] = i)

\* The destructor returns: no worker sleeps through the stop.
DestructorReturns == (destructor # "idle") ~> (destructor = "done")
=============================================================================
