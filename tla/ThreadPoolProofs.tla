-------------------------- MODULE ThreadPoolProofs --------------------------
(***************************************************************************)
(* Proofs about the thread pool, for any number of producers, workers and  *)
(* tasks: tasks are started once each and in order, no wakeup is lost, and *)
(* a destroyed pool runs nothing.                                          *)
(***************************************************************************)
EXTENDS ThreadPool, TLAPS

\* What a worker's place says of its task and of the pool.
Places ==
  /\ \A w \in Worker : current[w] = 0 \/ worker[w] = "run"
  /\ \A w \in Worker : worker[w] = "exit" => stop
  /\ stop <=> destructor # "idle"
  /\ destructor = "done" => \A w \in Worker : worker[w] = "exit"

IInv == TypeOK /\ Places /\ Fifo /\ NoLostWakeup

----------------------------------------------------------------------------

\* Every step preserves the types.
LEMMA TypeNext == TypeOK /\ [Next]_vars => TypeOK'
  <1> SUFFICES ASSUME TypeOK, [Next]_vars PROVE TypeOK'
    OBVIOUS
  <1> USE ThreadPoolAssumption DEF TypeOK
  <1>1. ASSUME NEW p \in Producer, Enqueue(p) PROVE TypeOK'
    BY <1>1 DEF Enqueue, Enqueued
  <1>2. ASSUME NEW p \in Producer, EnqueueThrows(p) PROVE TypeOK'
    BY <1>2 DEF EnqueueThrows
  <1>3. ASSUME NEW p \in Producer, NotifyOne(p) PROVE TypeOK'
    BY <1>3 DEF NotifyOne, WakeOne, Waiting
  <1>4. ASSUME NEW w \in Worker, Loop(w) PROVE TypeOK'
    BY <1>4 DEF Loop
  <1>5. ASSUME NEW w \in Worker, Wait(w) PROVE TypeOK'
    BY <1>5 DEF Wait
  <1>6. ASSUME NEW w \in Worker, SpuriousWakeup(w) PROVE TypeOK'
    BY <1>6 DEF SpuriousWakeup
  <1>7. ASSUME NEW w \in Worker, Return(w) PROVE TypeOK'
    BY <1>7 DEF Return
  <1>8. ASSUME NEW w \in Worker, Take(w) PROVE TypeOK'
    BY <1>8 DEF Take, Popped
  <1>9. ASSUME NEW w \in Worker, Finish(w) PROVE TypeOK'
    BY <1>9 DEF Finish
  <1>10. CASE Stop
    BY <1>10 DEF Stop
  <1>11. CASE NotifyAll
    BY <1>11 DEF NotifyAll, WakeAll
  <1>12. CASE Join
    BY <1>12 DEF Join, AllExited
  <1>13. CASE UNCHANGED vars
    BY <1>13 DEF vars
  <1> QED
    BY <1>1, <1>2, <1>3, <1>4, <1>5, <1>6, <1>7, <1>8, <1>9, <1>10, <1>11,
       <1>12, <1>13 DEF Next, Work

\* Every step preserves Places.
LEMMA PlacesNext == TypeOK /\ Places /\ [Next]_vars => Places'
  <1> SUFFICES ASSUME TypeOK, Places, [Next]_vars PROVE Places'
    OBVIOUS
  <1> USE DEF TypeOK, Places
  <1>1. ASSUME NEW p \in Producer, Enqueue(p) \/ EnqueueThrows(p) PROVE Places'
    BY <1>1 DEF Enqueue, Enqueued, EnqueueThrows
  <1>2. ASSUME NEW p \in Producer, NotifyOne(p) PROVE Places'
    BY <1>2 DEF NotifyOne, WakeOne, Waiting
  <1>3. ASSUME NEW w \in Worker, Loop(w) PROVE Places'
    BY <1>3 DEF Loop
  <1>4. ASSUME NEW w \in Worker, Wait(w) \/ SpuriousWakeup(w) PROVE Places'
    BY <1>4 DEF Wait, SpuriousWakeup
  <1>5. ASSUME NEW w \in Worker, Return(w) PROVE Places'
    BY <1>5 DEF Return
  <1>6. ASSUME NEW w \in Worker, Take(w) PROVE Places'
    BY <1>6 DEF Take, Popped
  <1>7. ASSUME NEW w \in Worker, Finish(w) PROVE Places'
    BY <1>7 DEF Finish
  <1>8. CASE Stop
    BY <1>8 DEF Stop
  <1>9. CASE NotifyAll
    BY <1>9 DEF NotifyAll, WakeAll
  <1>10. CASE Join
    BY <1>10 DEF Join, AllExited
  <1>11. CASE UNCHANGED vars
    BY <1>11 DEF vars
  <1> QED
    BY <1>1, <1>2, <1>3, <1>4, <1>5, <1>6, <1>7, <1>8, <1>9, <1>10, <1>11
      DEF Next, Work

\* Every step preserves NoLostWakeup: a worker goes to sleep only on an empty
\* queue of a running pool, and a notification is spent on waking one.
LEMMA WakeupNext == TypeOK /\ Places /\ NoLostWakeup /\ [Next]_vars => NoLostWakeup'
  <1> SUFFICES ASSUME TypeOK, Places, NoLostWakeup, [Next]_vars PROVE NoLostWakeup'
    OBVIOUS
  <1> USE DEF TypeOK, NoLostWakeup, Waiting
  <1>1. ASSUME NEW p \in Producer, Enqueue(p) PROVE NoLostWakeup'
    BY <1>1 DEF Enqueue, Enqueued
  <1>2. ASSUME NEW p \in Producer, EnqueueThrows(p) PROVE NoLostWakeup'
    BY <1>2 DEF EnqueueThrows
  <1>3. ASSUME NEW p \in Producer, NotifyOne(p) PROVE NoLostWakeup'
    <2>1. CASE Waiting = {}
      <3>1. ~stop => \E w \in Worker : worker[w] \in {"loop", "lock", "run"}
        BY <2>1, ThreadPoolAssumption DEF Places
      <3> QED
        BY <3>1, <2>1, <1>3 DEF NotifyOne, WakeOne
    <2>2. CASE Waiting # {}
      BY <2>2, <1>3 DEF NotifyOne, WakeOne
    <2> QED
      BY <2>1, <2>2
  <1>4. ASSUME NEW w \in Worker, Loop(w) PROVE NoLostWakeup'
    BY <1>4 DEF Loop
  <1>5. ASSUME NEW w \in Worker, Wait(w) PROVE NoLostWakeup'
    BY <1>5 DEF Wait
  <1>6. ASSUME NEW w \in Worker, SpuriousWakeup(w) PROVE NoLostWakeup'
    BY <1>6 DEF SpuriousWakeup
  <1>7. ASSUME NEW w \in Worker, Return(w) PROVE NoLostWakeup'
    BY <1>7 DEF Return
  <1>8. ASSUME NEW w \in Worker, Take(w) PROVE NoLostWakeup'
    BY <1>8 DEF Take, Popped
  <1>9. ASSUME NEW w \in Worker, Finish(w) PROVE NoLostWakeup'
    BY <1>9 DEF Finish
  <1>10. CASE Stop
    BY <1>10 DEF Stop
  <1>11. CASE NotifyAll
    BY <1>11 DEF NotifyAll, WakeAll
  <1>12. CASE Join
    BY <1>12 DEF Join, AllExited, Places
  <1>13. CASE UNCHANGED vars
    BY <1>13 DEF vars
  <1> QED
    BY <1>1, <1>2, <1>3, <1>4, <1>5, <1>6, <1>7, <1>8, <1>9, <1>10, <1>11,
       <1>12, <1>13 DEF Next, Work

\* Every step preserves Fifo.
LEMMA FifoNext == TypeOK /\ Fifo /\ [Next]_vars => Fifo'
  <1> SUFFICES ASSUME TypeOK, Fifo, [Next]_vars PROVE Fifo'
    OBVIOUS
  <1>1. ASSUME NEW p \in Producer, Enqueue(p) PROVE Fifo'
    <2>1. /\ tasks' = Append(tasks, enqueued + 1) /\ started' = started
          /\ enqueued' = enqueued + 1 /\ enqueued + 1 \in 1 .. MaxTask
      BY <1>1, ThreadPoolAssumption DEF Enqueue, Enqueued, TypeOK
    <2>2. started \o Append(tasks, enqueued + 1)
            = Append(started \o tasks, enqueued + 1)
      BY <2>1 DEF TypeOK
    <2>3. Append([i \in 1 .. enqueued |-> i], enqueued + 1)
            = [i \in 1 .. enqueued + 1 |-> i]
      BY DEF TypeOK
    <2> QED
      BY <2>1, <2>2, <2>3 DEF Fifo
  <1>2. ASSUME NEW w \in Worker, Take(w) PROVE Fifo'
    <2>1. /\ started' = Append(started, Head(tasks)) /\ tasks' = Tail(tasks)
          /\ enqueued' = enqueued /\ tasks # <<>>
      BY <1>2 DEF Take, Popped
    <2>2. Append(started, Head(tasks)) \o Tail(tasks) = started \o tasks
      BY <2>1 DEF TypeOK
    <2> QED
      BY <2>1, <2>2 DEF Fifo
  <1>3. CASE UNCHANGED <<tasks, started, enqueued>>
    BY <1>3 DEF Fifo
  <1> QED
    BY <1>1, <1>2, <1>3 DEF Next, Work, EnqueueThrows, NotifyOne, Loop, Wait,
       SpuriousWakeup, Return, Finish, Stop, NotifyAll, Join, vars

----------------------------------------------------------------------------
\* The theorems.

\* The inductive invariant holds.
THEOREM Invariance == Spec => []IInv
  <1>1. Init => IInv
    <2> SUFFICES ASSUME Init PROVE IInv
      OBVIOUS
    <2>1. TypeOK
      <3>1. tasks \in Seq(1 .. MaxTask) /\ started \in Seq(1 .. MaxTask)
        BY DEF Init
      <3>2. stop \in BOOLEAN /\ destructor \in {"idle", "notify", "join", "done"}
        BY Zenon DEF Init
      <3>3. enqueued \in 0 .. MaxTask
        BY ThreadPoolAssumption DEF Init
      <3>4. worker \in [Worker -> {"loop", "lock", "wait", "run", "exit"}]
        BY DEF Init
      <3>5. current \in [Worker -> 0 .. MaxTask]
        BY ThreadPoolAssumption DEF Init
      <3>6. producer \in [Producer -> {"idle", "notify", "threw"}]
        BY DEF Init
      <3> QED
        BY <3>1, <3>2, <3>3, <3>4, <3>5, <3>6 DEF TypeOK
    <2>2. Places
      BY DEF Init, Places
    <2>3. NoLostWakeup
      BY DEF Init, NoLostWakeup, Waiting
    <2>4. <<>> \o <<>> = [i \in 1 .. 0 |-> i]
      OBVIOUS
    <2> QED
      BY <2>1, <2>2, <2>3, <2>4 DEF Init, Fifo, IInv
  <1>2. IInv /\ [Next]_vars => IInv'
    BY TypeNext, PlacesNext, FifoNext, WakeupNext DEF IInv
  <1> QED
    BY <1>1, <1>2, PTL DEF Spec

\* The pool's variables have their types.
THEOREM TypeCorrect == Spec => []TypeOK
  <1>1. IInv => TypeOK
    BY DEF IInv
  <1> QED
    BY <1>1, Invariance, PTL

\* Tasks are started once each, in the order of enqueue.
THEOREM InOrder == Spec => []Fifo
  <1>1. IInv => Fifo
    BY DEF IInv
  <1> QED
    BY <1>1, Invariance, PTL

\* No worker sleeps while a task waits and no notification is on its way, nor
\* through a stop.
THEOREM WakeupSafe == Spec => []NoLostWakeup
  <1>1. IInv => NoLostWakeup
    BY DEF IInv
  <1> QED
    BY <1>1, Invariance, PTL

\* After the destructor no worker holds a task.
THEOREM Quiet == Spec => []JoinedIsQuiet
  <1>1. IInv => JoinedIsQuiet
    BY DEF IInv, Places, JoinedIsQuiet
  <1> QED
    BY <1>1, Invariance, PTL
=============================================================================
