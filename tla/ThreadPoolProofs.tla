-------------------------- MODULE ThreadPoolProofs --------------------------
(***************************************************************************)
(* Proofs about ThreadPool for any number of workers and producers, any    *)
(* bound of the queue and any number of tasks: nobody oversleeps, tasks    *)
(* are taken in the order in which they were queued, and each is called    *)
(* once.                                                                   *)
(***************************************************************************)
EXTENDS ThreadPool, FiniteSetTheorems, SequenceTheorems, TLAPS

(***************************************************************************)
(* Counting the threads at a place.                                        *)
(***************************************************************************)

Places == {"none", "idle", "run", "runWait", "check", "take", "takeWait", "taken", "task",
           "exited"}

\* The threads that pcs puts at a place, and how many they are.
Those(pcs, where) == {t \in Threads : pcs[t] = where}
Count(pcs, where) == Cardinality(Those(pcs, where))

\* There are finitely many threads, at any place.
LEMMA CountType ==
  ASSUME NEW pcs, NEW where
  PROVE  /\ IsFiniteSet(Those(pcs, where))
         /\ Count(pcs, where) \in Nat
<1>1. IsFiniteSet(Threads)
  BY PoolAssumption, FS_Union DEF Threads
<1>2. Those(pcs, where) \in SUBSET Threads
  BY DEF Those
<1>3. IsFiniteSet(Those(pcs, where))
  BY <1>1, <1>2, FS_Subset
<1> QED BY <1>3, FS_CardinalityType DEF Count

\* A thread that moves is counted where it comes to.
LEMMA CountIn ==
  ASSUME NEW pcs \in [Threads -> Places], NEW t \in Threads, NEW to, pcs[t] # to
  PROVE  Count([pcs EXCEPT ![t] = to], to) = Count(pcs, to) + 1
<1> DEFINE moved == [pcs EXCEPT ![t] = to]
<1>1. Those(moved, to) = Those(pcs, to) \cup {t} /\ t \notin Those(pcs, to)
  BY DEF Those
<1> QED BY <1>1, CountType, FS_AddElement DEF Count

\* notify_one wakes a waiting thread unless there is none.
LEMMA NotifyOneCases ==
  ASSUME NEW pcs, NEW waiting, NEW awake, NotifyOne(pcs, waiting, awake)
  PROVE  \/ Those(pcs, waiting) = {} /\ pc' = pcs
         \/ \E u \in Threads : pcs[u] = waiting /\ pc' = [pcs EXCEPT ![u] = awake]
BY Zenon DEF NotifyOne, Those

(***************************************************************************)
(* Types, and what the owner's progress says about the pool.               *)
(***************************************************************************)

\* The state is well typed.
TypeOK ==
  /\ maxQueueSize_ \in Nat
  /\ nests \in BOOLEAN
  /\ threads_ \subseteq Workers
  /\ running_ \in BOOLEAN
  /\ queue_ \in Seq(Nat) /\ accepted \in Seq(Nat) /\ taken \in Seq(Nat) /\ started \in Seq(Nat)
  /\ owner \in {"new", "started", "joining", "stopped"}
  /\ pc \in [Threads -> Places]
  /\ arg \in [Threads -> Nat]
  /\ numTasks \in Nat

\* Before start() the pool does not run and nobody is in run(); a pool without
\* threads never queues a task.
OwnerInv ==
  /\ owner = "new" => ~running_ /\ \A t \in Threads : pc[t] \in {"none", "idle"}
  /\ owner = "new" \/ threads_ = {} =>
       queue_ = <<>> /\ \A t \in Threads : pc[t] \notin {"run", "runWait"}

\* The threads inside run() with a task that is not queued.
Passing == At("run") \cup At("runWait")

\* A task is new when run() is called with it: nobody else passes it, and it was not
\* accepted before.
TaskInv ==
  /\ IsInjective(accepted)
  /\ \A i \in DOMAIN accepted : accepted[i] <= numTasks
  /\ \A t \in Passing : arg[t] <= numTasks /\ arg[t] \notin Range(accepted)
  /\ \A t, u \in Passing : arg[t] = arg[u] => t = u

\* The inductive invariant.
PoolInv == TypeOK /\ OwnerInv /\ NobodyOversleeps /\ TakenInOrder /\ TaskInv /\ CalledOnce

\* The constructor establishes it.
LEMMA PoolInit == Init => PoolInv
<1> SUFFICES ASSUME Init PROVE PoolInv
  OBVIOUS
<1>1. TypeOK
  <2>1. pc \in [Threads -> Places] /\ arg \in [Threads -> Nat]
    BY DEF Init, Places, NoTask
  <2>2. maxQueueSize_ \in Nat /\ numTasks \in Nat
    BY PoolAssumption DEF Init
  <2>3. <<>> \in Seq(Nat)
    OBVIOUS
  <2> QED BY <2>1, <2>2, <2>3, Zenon DEF Init, TypeOK
<1>2. OwnerInv
  BY DEF Init, OwnerInv
<1>3. At("takeWait") = {} /\ At("runWait") = {}
  BY DEF Init, At
<1>4. TakenInOrder
  BY PoolAssumption DEF Init, TakenInOrder
<1>5. TaskInv /\ CalledOnce
  <2>1. At("run") = {} /\ At("runWait") = {} /\ At("taken") = {}
    BY DEF Init, At
  <2> QED BY <2>1 DEF Init, TaskInv, CalledOnce, Passing, IsInjective, Range
<1> QED BY <1>1, <1>2, <1>3, <1>4, <1>5 DEF PoolInv, NobodyOversleeps

\* The place of a thread is one of Places after a notification.
LEMMA NotifyOneType ==
  ASSUME NEW pcs \in [Threads -> Places], NEW waiting, NEW awake \in Places,
         NotifyOne(pcs, waiting, awake)
  PROVE  pc' \in [Threads -> Places]
BY NotifyOneCases

\* Every step preserves the types.
LEMMA TypeStep == TypeOK /\ [Next]_vars => TypeOK'
<1> SUFFICES ASSUME TypeOK, [Next]_vars
             PROVE  TypeOK'
  OBVIOUS
<1> USE DEF TypeOK, setup
<1>1. ASSUME NEW ws \in SUBSET Workers, start(ws)
      PROVE  TypeOK'
  BY <1>1 DEF start, Places
<1>2. CASE stop
  BY <1>2 DEF stop, Places
<1>3. CASE Joined
  BY <1>3 DEF Joined
<1>4. ASSUME NEW t \in Threads, CallRun(t)
      PROVE  TypeOK'
  <2>1. numTasks' \in Nat
    BY <1>4 DEF CallRun
  <2>2. accepted' \in Seq(Nat) /\ taken' \in Seq(Nat) /\ started' \in Seq(Nat)
    <3>1. /\ Append(accepted, numTasks') \in Seq(Nat) /\ Append(taken, numTasks') \in Seq(Nat)
          /\ Append(started, numTasks') \in Seq(Nat)
      BY <2>1
    <3> QED BY <1>4, <3>1, Zenon DEF CallRun
  <2>3. pc' \in [Threads -> Places] /\ arg' \in [Threads -> Nat]
    BY <1>4, <2>1 DEF CallRun, Places
  <2> QED BY <1>4, <2>1, <2>2, <2>3 DEF CallRun
<1>5. ASSUME NEW t \in Threads, runWaits(t)
      PROVE  TypeOK'
  BY <1>5 DEF runWaits, Places
<1>6. ASSUME NEW t \in Threads, runStopped(t)
      PROVE  TypeOK'
  BY <1>6 DEF runStopped, Resumes, NoTask, Places
<1>7. ASSUME NEW t \in Threads, runQueues(t)
      PROVE  TypeOK'
  <2>1. [pc EXCEPT ![t] = Resumes(t)] \in [Threads -> Places]
    BY DEF Resumes, Places
  <2>2. pc' \in [Threads -> Places]
    BY <1>7, <2>1, NotifyOneType DEF runQueues, Places
  <2>3. queue_' \in Seq(Nat) /\ accepted' \in Seq(Nat)
    BY <1>7 DEF runQueues
  <2>4. arg' \in [Threads -> Nat]
    BY <1>7 DEF runQueues, NoTask
  <2> QED BY <1>7, <2>2, <2>3, <2>4 DEF runQueues
<1>8. ASSUME NEW t \in Threads, SpuriousWakeup(t)
      PROVE  TypeOK'
  BY <1>8 DEF SpuriousWakeup, Places
<1>9. ASSUME NEW w \in Workers, CheckRunning(w)
      PROVE  TypeOK'
  BY <1>9 DEF CheckRunning, Places
<1>10. ASSUME NEW w \in Workers, takeWaits(w)
       PROVE  TypeOK'
  BY <1>10 DEF takeWaits, Places
<1>11. ASSUME NEW w \in Workers, takeStopped(w)
       PROVE  TypeOK'
  BY <1>11 DEF takeStopped, Places
<1>12. ASSUME NEW w \in Workers, take(w)
       PROVE  TypeOK'
  <2>1. [pc EXCEPT ![w] = "taken"] \in [Threads -> Places]
    BY DEF Places
  <2>2. pc' \in [Threads -> Places]
    BY <1>12, <2>1, NotifyOneType DEF take, Places
  <2>3. Tail(queue_) \in Seq(Nat) /\ Head(queue_) \in Nat
    BY <1>12, HeadTailProperties DEF take
  <2>4. arg' \in [Threads -> Nat]
    BY <1>12, <2>3 DEF take
  <2> QED BY <1>12, <2>2, <2>3, <2>4 DEF take
<1>15. ASSUME NEW w \in Workers, CallTask(w)
       PROVE  TypeOK'
  BY <1>15 DEF CallTask, NoTask, Places, Threads
<1>13. ASSUME NEW w \in Workers, TaskReturns(w)
       PROVE  TypeOK'
  BY <1>13 DEF TaskReturns, Places
<1>14. CASE UNCHANGED vars
  BY <1>14 DEF vars
<1> QED BY <1>1, <1>2, <1>3, <1>4, <1>5, <1>6, <1>7, <1>8, <1>9, <1>10, <1>11, <1>12, <1>13, <1>14,
           <1>15 DEF Next, Owner, InRun, Worker

\* Every step keeps what is known of a pool that was not started or has no threads.
LEMMA OwnerStep == TypeOK /\ OwnerInv /\ [Next]_vars => OwnerInv'
<1> SUFFICES ASSUME TypeOK, OwnerInv, [Next]_vars
             PROVE  OwnerInv'
  OBVIOUS
<1> USE DEF TypeOK, OwnerInv, setup
<1>1. ASSUME NEW ws \in SUBSET Workers, start(ws)
      PROVE  OwnerInv'
  BY <1>1 DEF start
<1>2. CASE stop
  BY <1>2 DEF stop
<1>3. CASE Joined
  BY <1>3 DEF Joined
<1>4. ASSUME NEW t \in Threads, CallRun(t)
      PROVE  OwnerInv'
  BY <1>4 DEF CallRun
<1>5. ASSUME NEW t \in Threads, runWaits(t) \/ runStopped(t) \/ runQueues(t)
      PROVE  OwnerInv'
  BY <1>5 DEF runWaits, runStopped, runQueues
<1>6. ASSUME NEW t \in Threads, SpuriousWakeup(t)
      PROVE  OwnerInv'
  BY <1>6 DEF SpuriousWakeup
<1>7. ASSUME NEW w \in Workers, CheckRunning(w) \/ takeWaits(w) \/ takeStopped(w) \/ CallTask(w)
                                  \/ TaskReturns(w)
      PROVE  OwnerInv'
  <2>1. w \in Threads
    BY DEF Threads
  <2> QED BY <1>7, <2>1 DEF CheckRunning, takeWaits, takeStopped, CallTask, TaskReturns
<1>8. ASSUME NEW w \in Workers, take(w)
      PROVE  OwnerInv'
  <2>1. owner' = owner /\ threads_' = threads_ /\ queue_ # <<>>
    BY <1>8 DEF take
  <2>2. owner # "new" /\ threads_ # {}
    BY <2>1
  <2> QED BY <2>1, <2>2
<1>9. CASE UNCHANGED vars
  BY <1>9 DEF vars
<1> QED BY <1>1, <1>2, <1>3, <1>4, <1>5, <1>6, <1>7, <1>8, <1>9 DEF Next, Owner, InRun, Worker

(***************************************************************************)
(* Order: the tasks taken and the queue are the tasks accepted.            *)
(***************************************************************************)

\* A task that is queued goes to the end.
LEMMA ConcatAppend ==
  ASSUME NEW S, NEW s \in Seq(S), NEW t \in Seq(S), NEW e \in S
  PROVE  s \o Append(t, e) = Append(s \o t, e)
BY AppendIsConcat, ConcatAssociative, ConcatProperties

\* The task that is taken is the next one.
LEMMA ConcatHeadTail ==
  ASSUME NEW S, NEW s \in Seq(S), NEW t \in Seq(S), t # <<>>
  PROVE  Append(s, Head(t)) \o Tail(t) = s \o t
<1>1. Head(t) \in S /\ Tail(t) \in Seq(S) /\ Len(t) \in Nat \ {0}
  BY HeadTailProperties, EmptySeq
<1> DEFINE u == Append(s, Head(t)) \o Tail(t)
<1>2. u \in Seq(S) /\ s \o t \in Seq(S) /\ Len(u) = Len(s \o t)
  BY <1>1
<1>3. \A i \in 1 .. Len(u) : u[i] = (s \o t)[i]
  BY <1>1
<1> QED BY <1>2, <1>3, SeqEqual

\* Every step keeps the order and the bound of the queue.
LEMMA OrderStep ==
  TypeOK /\ OwnerInv /\ TakenInOrder /\ [Next]_vars => TakenInOrder'
<1> SUFFICES ASSUME TypeOK, OwnerInv, TakenInOrder, [Next]_vars
             PROVE  TakenInOrder'
  OBVIOUS
<1>a. \A e \in Nat : taken \o Append(queue_, e) = Append(taken \o queue_, e)
  <2>1. queue_ \in Seq(Nat) /\ taken \in Seq(Nat)
    BY DEF TypeOK
  <2> QED BY <2>1, ConcatAppend
<1> USE DEF TypeOK, TakenInOrder, setup
<1>1. ASSUME NEW ws \in SUBSET Workers, start(ws)
      PROVE  TakenInOrder'
  BY <1>1 DEF start
<1>2. CASE stop \/ Joined
  BY <1>2 DEF stop, Joined
<1>3. ASSUME NEW t \in Threads, CallRun(t)
      PROVE  TakenInOrder'
  <2>1. CASE threads_ # {}
    BY <1>3, <2>1 DEF CallRun
  <2>2. CASE threads_ = {}
    <3>1. queue_ = <<>> /\ taken = accepted
      BY <2>2 DEF OwnerInv
    <3>2. numTasks' \in Nat
      BY <1>3 DEF CallRun
    <3>3. Append(taken, numTasks') \o <<>> = Append(taken, numTasks')
      BY <3>2
    <3> QED BY <1>3, <2>2, <3>1, <3>3 DEF CallRun
  <2> QED BY <2>1, <2>2
<1>4. ASSUME NEW t \in Threads, runQueues(t)
      PROVE  TakenInOrder'
  <2>1. taken \o Append(queue_, arg[t]) = Append(taken \o queue_, arg[t])
    BY <1>a
  <2>2. Len(Append(queue_, arg[t])) = Len(queue_) + 1
    OBVIOUS
  <2> QED BY <1>4, <2>1, <2>2 DEF runQueues, isFull
<1>5. ASSUME NEW w \in Workers, take(w)
      PROVE  TakenInOrder'
  <2>1. Append(taken, Head(queue_)) \o Tail(queue_) = taken \o queue_
    BY <1>5, ConcatHeadTail DEF take
  <2>2. Len(Tail(queue_)) = Len(queue_) - 1 /\ Len(queue_) \in Nat
    BY <1>5 DEF take
  <2>3. (taken \o queue_)' = accepted'
    BY <1>5, <2>1 DEF take
  <2>4. (maxQueueSize_ > 0 => Len(queue_) <= maxQueueSize_)'
    BY <1>5, <2>2 DEF take
  <2> QED BY <2>3, <2>4
<1>6. ASSUME NEW t \in Threads, runWaits(t) \/ runStopped(t) \/ SpuriousWakeup(t)
      PROVE  TakenInOrder'
  BY <1>6 DEF runWaits, runStopped, SpuriousWakeup
<1>7. ASSUME NEW w \in Workers, CheckRunning(w) \/ takeWaits(w) \/ takeStopped(w) \/ CallTask(w)
                                  \/ TaskReturns(w)
      PROVE  TakenInOrder'
  BY <1>7 DEF CheckRunning, takeWaits, takeStopped, CallTask, TaskReturns
<1>8. CASE UNCHANGED vars
  BY <1>8 DEF vars
<1> QED BY <1>1, <1>2, <1>3, <1>4, <1>5, <1>6, <1>7, <1>8 DEF Next, Owner, InRun, Worker

(***************************************************************************)
(* Sleeping: counted in threads, a queued task or a free place that a      *)
(* sleeper could take has somebody awake who will take it.                 *)
(***************************************************************************)

\* NobodyOversleeps, said of any places, length of the queue and running_.
TakersAwake(pcs, n, running) ==
  Those(pcs, "takeWait") # {} => running /\ n <= Count(pcs, "take")

RunnersAwake(pcs, n, running, max) ==
  Those(pcs, "runWait") # {} => running /\ max <= n + Count(pcs, "run")

\* That is what NobodyOversleeps says.
LEMMA OversleepsMeans ==
  /\ NobodyOversleeps <=> /\ TakersAwake(pc, Len(queue_), running_)
                          /\ RunnersAwake(pc, Len(queue_), running_, maxQueueSize_)
  /\ NobodyOversleeps' <=> /\ TakersAwake(pc', Len(queue_'), running_')
                           /\ RunnersAwake(pc', Len(queue_'), running_', maxQueueSize_')
BY DEF NobodyOversleeps, TakersAwake, RunnersAwake, At, Those, Count

\* A thread that does not come to sleep, or does with good reason, and leaves none of
\* the counted places, disturbs nobody.
LEMMA AwakeAfterMove ==
  ASSUME TypeOK, NobodyOversleeps, NEW t \in Threads, NEW to \in Places, pc[t] # to,
         to = "takeWait" => running_ /\ Len(queue_) = 0,
         to = "runWait" => running_ /\ maxQueueSize_ <= Len(queue_),
         pc[t] = "take" => ~running_ \/ Len(queue_) = 0,
         pc[t] = "run" => ~running_ \/ maxQueueSize_ <= Len(queue_)
  PROVE  LET moved == [pc EXCEPT ![t] = to]
         IN /\ TakersAwake(moved, Len(queue_), running_)
            /\ RunnersAwake(moved, Len(queue_), running_, maxQueueSize_)
<1> DEFINE moved == [pc EXCEPT ![t] = to]
<1>1. pc \in [Threads -> Places] /\ maxQueueSize_ \in Nat /\ Len(queue_) \in Nat
  BY DEF TypeOK
<1>2. TakersAwake(pc, Len(queue_), running_) /\ RunnersAwake(pc, Len(queue_), running_, maxQueueSize_)
  BY OversleepsMeans
<1>3. /\ Count(moved, "take") \in Nat /\ Count(pc, "take") \in Nat
      /\ Count(moved, "run") \in Nat /\ Count(pc, "run") \in Nat
  BY CountType
<1>4. Those(moved, "takeWait") # {} => to = "takeWait" \/ Those(pc, "takeWait") # {}
  BY <1>1 DEF Those
<1>5. Those(moved, "runWait") # {} => to = "runWait" \/ Those(pc, "runWait") # {}
  BY <1>1 DEF Those
<1>6. pc[t] # "take" => Count(moved, "take") >= Count(pc, "take")
  <2>1. pc[t] # to => Count(moved, to) = Count(pc, to) + 1
    BY <1>1, CountIn
  <2>2. pc[t] # "take" /\ to # "take" => Those(moved, "take") = Those(pc, "take")
    BY <1>1 DEF Those
  <2> HIDE DEF moved
  <2> QED BY <1>3, <2>1, <2>2 DEF Count
<1>7. pc[t] # "run" => Count(moved, "run") >= Count(pc, "run")
  <2>1. pc[t] # to => Count(moved, to) = Count(pc, to) + 1
    BY <1>1, CountIn
  <2>2. pc[t] # "run" /\ to # "run" => Those(moved, "run") = Those(pc, "run")
    BY <1>1 DEF Those
  <2> HIDE DEF moved
  <2> QED BY <1>3, <2>1, <2>2 DEF Count
<1> HIDE DEF moved
<1>8. TakersAwake(moved, Len(queue_), running_)
  BY <1>1, <1>2, <1>3, <1>4, <1>6 DEF TakersAwake
<1>9. RunnersAwake(moved, Len(queue_), running_, maxQueueSize_)
  BY <1>1, <1>2, <1>3, <1>5, <1>7 DEF RunnersAwake
<1> QED BY <1>8, <1>9 DEF moved

\* Who a notification wakes, in numbers.
LEMMA NotifyOneCounts ==
  ASSUME NEW pcs \in [Threads -> Places], NEW waiting, NEW awake, waiting # awake,
         NotifyOne(pcs, waiting, awake)
  PROVE  /\ \/ Those(pcs, waiting) = {} /\ pc' = pcs
            \/ Those(pcs, waiting) # {} /\ Count(pc', awake) = Count(pcs, awake) + 1
         /\ \A where : where # awake => Those(pc', where) \subseteq Those(pcs, where)
         /\ \A where : where # waiting /\ where # awake => Those(pc', where) = Those(pcs, where)
<1>1. CASE Those(pcs, waiting) = {} /\ pc' = pcs
  BY <1>1
<1>2. CASE \E u \in Threads : pcs[u] = waiting /\ pc' = [pcs EXCEPT ![u] = awake]
  <2>1. PICK u \in Threads : pcs[u] = waiting /\ pc' = [pcs EXCEPT ![u] = awake]
    BY <1>2
  <2>2. Count(pc', awake) = Count(pcs, awake) + 1
    BY <2>1, CountIn
  <2>3. \A v \in Threads : v # u => pc'[v] = pcs[v]
    BY <2>1
  <2>4. pc'[u] = awake
    BY <2>1
  <2>5. \A where : where # awake => Those(pc', where) \subseteq Those(pcs, where)
    BY <2>3, <2>4 DEF Those
  <2>6. \A where : where # waiting /\ where # awake => Those(pc', where) = Those(pcs, where)
    BY <2>1, <2>3, <2>4 DEF Those
  <2>7. Those(pcs, waiting) # {}
    BY <2>1 DEF Those
  <2> QED BY <2>2, <2>5, <2>6, <2>7
<1> QED BY <1>1, <1>2, NotifyOneCases

\* run() queues a task and wakes a worker.
LEMMA AwakeAfterQueueing ==
  ASSUME TypeOK, NobodyOversleeps, NEW t \in Threads, runQueues(t)
  PROVE  NobodyOversleeps'
<1> DEFINE moved == [pc EXCEPT ![t] = Resumes(t)]
<1>1. /\ pc \in [Threads -> Places] /\ maxQueueSize_ \in Nat /\ Len(queue_) \in Nat
      /\ Len(queue_') = Len(queue_) + 1 /\ UNCHANGED <<maxQueueSize_, running_>>
      /\ running_
  BY DEF TypeOK, runQueues, setup
<1>2. TakersAwake(pc, Len(queue_), running_) /\ RunnersAwake(pc, Len(queue_), running_, maxQueueSize_)
  BY OversleepsMeans
<1>3. pc[t] = "run" /\ moved \in [Threads -> Places] /\ NotifyOne(moved, "takeWait", "take")
  BY <1>1 DEF runQueues, Resumes, Places
<1>4. Resumes(t) \in {"task", "idle"}
  BY DEF Resumes
<1>5. \A where \in {"take", "takeWait", "runWait"} : Those(moved, where) = Those(pc, where)
  BY <1>1, <1>3, <1>4 DEF Those
<1>6. Count(moved, "run") = Count(pc, "run") - 1
  <2>1. Those(moved, "run") = Those(pc, "run") \ {t} /\ t \in Those(pc, "run")
    BY <1>1, <1>3, <1>4 DEF Those
  <2> QED BY <2>1, CountType, FS_RemoveElement DEF Count
<1> HIDE DEF moved
<1>7. /\ Count(pc, "take") \in Nat /\ Count(moved, "take") \in Nat /\ Count(pc', "take") \in Nat
      /\ Count(pc, "run") \in Nat /\ Count(moved, "run") \in Nat /\ Count(pc', "run") \in Nat
  BY CountType
<1>8. /\ \/ Those(moved, "takeWait") = {} /\ pc' = moved
         \/ Those(moved, "takeWait") # {} /\ Count(pc', "take") = Count(moved, "take") + 1
      /\ Those(pc', "takeWait") \subseteq Those(moved, "takeWait")
      /\ Those(pc', "run") = Those(moved, "run")
      /\ Those(pc', "runWait") = Those(moved, "runWait")
  BY <1>3, NotifyOneCounts
<1>9. TakersAwake(pc', Len(queue_'), running_')
  BY <1>1, <1>2, <1>5, <1>7, <1>8 DEF TakersAwake, Count
<1>10. RunnersAwake(pc', Len(queue_'), running_', maxQueueSize_')
  BY <1>1, <1>2, <1>5, <1>6, <1>7, <1>8 DEF RunnersAwake, Count
<1> QED BY <1>9, <1>10, OversleepsMeans

\* take() removes a task and, from a bounded queue, wakes a caller of run().
LEMMA AwakeAfterTaking ==
  ASSUME TypeOK, NobodyOversleeps, NEW w \in Threads, take(w)
  PROVE  NobodyOversleeps'
<1> DEFINE moved == [pc EXCEPT ![w] = "taken"]
<1>1. /\ pc \in [Threads -> Places] /\ maxQueueSize_ \in Nat
      /\ Len(queue_) \in Nat \ {0} /\ Len(queue_') = Len(queue_) - 1
      /\ UNCHANGED <<maxQueueSize_, running_>>
  <2>1. queue_ \in Seq(Nat) /\ queue_ # <<>> /\ queue_' = Tail(queue_)
    BY DEF TypeOK, take
  <2> QED BY <2>1, HeadTailProperties, EmptySeq DEF TypeOK, take, setup
<1>2. TakersAwake(pc, Len(queue_), running_) /\ RunnersAwake(pc, Len(queue_), running_, maxQueueSize_)
  BY OversleepsMeans
<1>3. pc[w] = "take" /\ moved \in [Threads -> Places]
  BY <1>1 DEF take, Places
<1>4. IF maxQueueSize_ > 0 THEN NotifyOne(moved, "runWait", "run") ELSE pc' = moved
  BY DEF take
<1>5. \A where \in {"run", "takeWait", "runWait"} : Those(moved, where) = Those(pc, where)
  BY <1>1, <1>3 DEF Those
<1>6. Count(moved, "take") = Count(pc, "take") - 1
  <2>1. Those(moved, "take") = Those(pc, "take") \ {w} /\ w \in Those(pc, "take")
    BY <1>1, <1>3 DEF Those
  <2> QED BY <2>1, CountType, FS_RemoveElement DEF Count
<1> HIDE DEF moved
<1>7. /\ Count(pc, "take") \in Nat /\ Count(moved, "take") \in Nat /\ Count(pc', "take") \in Nat
      /\ Count(pc, "run") \in Nat /\ Count(moved, "run") \in Nat /\ Count(pc', "run") \in Nat
  BY CountType
<1>8. /\ maxQueueSize_ > 0 =>
           \/ Those(moved, "runWait") = {} /\ pc' = moved
           \/ Those(moved, "runWait") # {} /\ Count(pc', "run") = Count(moved, "run") + 1
      /\ Those(pc', "runWait") \subseteq Those(moved, "runWait")
      /\ Those(pc', "take") = Those(moved, "take")
      /\ Those(pc', "takeWait") = Those(moved, "takeWait")
  <2>1. CASE maxQueueSize_ > 0
    BY <1>3, <1>4, <2>1, NotifyOneCounts
  <2>2. CASE ~(maxQueueSize_ > 0)
    BY <1>4, <2>2
  <2> QED BY <2>1, <2>2
<1>9. TakersAwake(pc', Len(queue_'), running_')
  BY <1>1, <1>2, <1>5, <1>6, <1>7, <1>8 DEF TakersAwake, Count
<1>10. RunnersAwake(pc', Len(queue_'), running_', maxQueueSize_')
  BY <1>1, <1>2, <1>5, <1>7, <1>8 DEF RunnersAwake, Count
<1> QED BY <1>9, <1>10, OversleepsMeans

\* No step lets somebody oversleep.
LEMMA AwakeStep ==
  TypeOK /\ OwnerInv /\ NobodyOversleeps /\ [Next]_vars => NobodyOversleeps'
<1> SUFFICES ASSUME TypeOK, OwnerInv, NobodyOversleeps, [Next]_vars
             PROVE  NobodyOversleeps'
  OBVIOUS
<1>a. pc \in [Threads -> Places] /\ Workers \subseteq Threads /\ Len(queue_) \in Nat
  BY DEF TypeOK, Threads
<1>b. ASSUME NEW t \in Threads, NEW to \in Places, pc[t] # to, pc' = [pc EXCEPT ![t] = to],
             UNCHANGED <<maxQueueSize_, running_, queue_>>,
             to = "takeWait" => running_ /\ Len(queue_) = 0,
             to = "runWait" => running_ /\ maxQueueSize_ <= Len(queue_),
             pc[t] = "take" => ~running_ \/ Len(queue_) = 0,
             pc[t] = "run" => ~running_ \/ maxQueueSize_ <= Len(queue_)
      PROVE  NobodyOversleeps'
  BY <1>b, AwakeAfterMove, OversleepsMeans
<1>1. ASSUME NEW ws \in SUBSET Workers, start(ws)
      PROVE  NobodyOversleeps'
  <2>1. At("takeWait") = {} /\ At("runWait") = {}
    BY <1>1 DEF start, OwnerInv, NobodyOversleeps
  <2>2. At("takeWait")' = {} /\ At("runWait")' = {}
    BY <1>1, <1>a, <2>1 DEF start, At
  <2> QED BY <2>2 DEF NobodyOversleeps
<1>2. CASE stop
  <2>1. At("takeWait")' = {} /\ At("runWait")' = {}
    BY <1>2, <1>a DEF stop, At
  <2> QED BY <2>1 DEF NobodyOversleeps
<1>3. CASE Joined
  BY <1>3 DEF Joined, NobodyOversleeps, At, setup
<1>4. ASSUME NEW t \in Threads, CallRun(t)
      PROVE  NobodyOversleeps'
  <2>1. CASE threads_ = {}
    BY <1>4, <2>1 DEF CallRun, NobodyOversleeps, At, setup
  <2>2. CASE threads_ # {}
    BY <1>4, <2>2, <1>b DEF CallRun, Places, setup
  <2> QED BY <2>1, <2>2
<1>5. ASSUME NEW t \in Threads, runWaits(t)
      PROVE  NobodyOversleeps'
  BY <1>5, <1>b DEF runWaits, isFull, Places, setup
<1>6. ASSUME NEW t \in Threads, runStopped(t)
      PROVE  NobodyOversleeps'
  BY <1>6, <1>b DEF runStopped, Resumes, Places, setup
<1>7. ASSUME NEW t \in Threads, runQueues(t)
      PROVE  NobodyOversleeps'
  BY <1>7, AwakeAfterQueueing
<1>8. ASSUME NEW t \in Threads, SpuriousWakeup(t)
      PROVE  NobodyOversleeps'
  BY <1>8, <1>b DEF SpuriousWakeup, Places, setup
<1>9. ASSUME NEW w \in Workers, CheckRunning(w)
      PROVE  NobodyOversleeps'
  BY <1>9, <1>a, <1>b DEF CheckRunning, Places, setup
<1>10. ASSUME NEW w \in Workers, takeWaits(w)
       PROVE  NobodyOversleeps'
  BY <1>10, <1>a, <1>b DEF takeWaits, Places, setup
<1>11. ASSUME NEW w \in Workers, takeStopped(w)
       PROVE  NobodyOversleeps'
  BY <1>11, <1>a, <1>b DEF takeStopped, Places, setup
<1>12. ASSUME NEW w \in Workers, take(w)
       PROVE  NobodyOversleeps'
  BY <1>12, <1>a, AwakeAfterTaking
<1>15. ASSUME NEW w \in Workers, CallTask(w)
       PROVE  NobodyOversleeps'
  BY <1>15, <1>a, <1>b DEF CallTask, Places, setup
<1>13. ASSUME NEW w \in Workers, TaskReturns(w)
       PROVE  NobodyOversleeps'
  BY <1>13, <1>a, <1>b DEF TaskReturns, Places, setup
<1>14. CASE UNCHANGED vars
  BY <1>14 DEF vars, NobodyOversleeps, At
<1> QED BY <1>1, <1>2, <1>3, <1>4, <1>5, <1>6, <1>7, <1>8, <1>9, <1>10, <1>11, <1>12, <1>13, <1>14,
           <1>15 DEF Next, Owner, InRun, Worker

(***************************************************************************)
(* Each task once: run() is called with new tasks, so the tasks accepted   *)
(* differ, and the next one in the queue was not taken before.             *)
(***************************************************************************)

\* What Append does to the range of a sequence without repetitions.
LEMMA AppendRange ==
  ASSUME NEW s \in Seq(Nat), NEW e \in Nat
  PROVE  /\ Range(Append(s, e)) = Range(s) \cup {e}
         /\ IsInjective(s) /\ e \notin Range(s) => IsInjective(Append(s, e))
<1> DEFINE a == Append(s, e)  n == Len(s) + 1
<1>1. /\ DOMAIN s = 1 .. Len(s) /\ DOMAIN a = 1 .. n /\ Len(s) \in Nat
      /\ \A i \in DOMAIN s : a[i] = s[i]
      /\ a[n] = e
  OBVIOUS
<1>2. DOMAIN a = DOMAIN s \cup {n} /\ n \notin DOMAIN s
  BY <1>1
<1> HIDE DEF a, n
<1>3. Range(a) = Range(s) \cup {e}
  BY <1>1, <1>2 DEF Range
<1>4. IsInjective(s) /\ e \notin Range(s) => IsInjective(a)
  BY <1>1, <1>2 DEF Range, IsInjective
<1> QED BY <1>3, <1>4 DEF a

\* The tasks taken, and the next one, among those accepted.
LEMMA TakenAmongAccepted ==
  ASSUME TypeOK, TakenInOrder
  PROVE  /\ Range(taken) \subseteq Range(accepted)
         /\ queue_ # <<>> /\ IsInjective(accepted) => Head(queue_) \notin Range(taken)
<1>1. taken \in Seq(Nat) /\ queue_ \in Seq(Nat) /\ accepted = taken \o queue_
  BY DEF TypeOK, TakenInOrder
<1>2. /\ DOMAIN accepted = 1 .. Len(taken) + Len(queue_) /\ DOMAIN taken = 1 .. Len(taken)
      /\ Len(taken) \in Nat /\ Len(queue_) \in Nat
      /\ \A i \in DOMAIN taken : accepted[i] = taken[i]
      /\ queue_ # <<>> => Len(queue_) # 0 /\ accepted[Len(taken) + 1] = Head(queue_)
  BY <1>1
<1>3. DOMAIN taken \subseteq DOMAIN accepted /\ Len(taken) + 1 \notin DOMAIN taken
  BY <1>2
<1>4. queue_ # <<>> => Len(taken) + 1 \in DOMAIN accepted
  BY <1>2
<1>5. Range(taken) \subseteq Range(accepted)
  BY <1>2, <1>3 DEF Range
<1>6. queue_ # <<>> /\ IsInjective(accepted) => Head(queue_) \notin Range(taken)
  BY <1>2, <1>3, <1>4 DEF Range, IsInjective
<1> QED BY <1>5, <1>6

\* A thread that goes elsewhere passes no task.
LEMMA TaskInvSame ==
  ASSUME TaskInv, UNCHANGED <<accepted, numTasks>>, Passing' \subseteq Passing,
         \A t \in Passing' : arg'[t] = arg[t]
  PROVE  TaskInv'
BY DEF TaskInv

\* Every step keeps the tasks distinct.
LEMMA TaskStep ==
  TypeOK /\ TakenInOrder /\ TaskInv /\ [Next]_vars => TaskInv'
<1> SUFFICES ASSUME TypeOK, TakenInOrder, TaskInv, [Next]_vars PROVE TaskInv'
  OBVIOUS
<1>a. /\ pc \in [Threads -> Places] /\ arg \in [Threads -> Nat] /\ Workers \subseteq Threads
      /\ accepted \in Seq(Nat) /\ numTasks \in Nat /\ Passing \subseteq Threads
      /\ Passing = {t \in Threads : pc[t] = "run" \/ pc[t] = "runWait"}
  BY DEF TypeOK, Threads, Passing, At
<1>b. Passing' = {t \in Threads : pc'[t] = "run" \/ pc'[t] = "runWait"}
  BY DEF Passing, At
<1>c. \A m \in Range(accepted) : m \in Nat /\ m <= numTasks
  BY <1>a DEF TaskInv, Range
<1>1. ASSUME NEW ws \in SUBSET Workers, start(ws) PROVE TaskInv'
  BY <1>1, <1>a, <1>b, TaskInvSame DEF start
<1>2. CASE stop
  BY <1>2, <1>a, <1>b, TaskInvSame DEF stop
<1>3. CASE Joined \/ UNCHANGED vars
  BY <1>3, <1>a, <1>b, TaskInvSame DEF Joined, vars
<1>4. ASSUME NEW t \in Threads, CallRun(t) PROVE TaskInv'
  <2> DEFINE n == numTasks'
  <2>1. n = numTasks + 1 /\ n \in Nat /\ n \notin Range(accepted)
    BY <1>4, <1>a, <1>c DEF CallRun
  <2>2. CASE threads_ = {}
    <3>1. accepted' = Append(accepted, n) /\ pc' = pc /\ arg' = arg
      BY <1>4, <2>2 DEF CallRun
    <3> HIDE DEF n
    <3>2. Range(accepted') = Range(accepted) \cup {n} /\ IsInjective(accepted')
      BY <1>a, <2>1, <3>1, AppendRange DEF TaskInv
    <3>3. \A m \in Range(accepted') : m <= n
      BY <1>a, <1>c, <2>1, <3>2
    <3>4. \A u \in Passing : arg[u] \in Nat /\ arg[u] <= numTasks
      BY <1>a DEF TaskInv
    <3>5. \A u \in Passing : arg[u] <= n /\ arg[u] # n
      BY <1>a, <2>1, <3>4
    <3>6. Passing' = Passing
      BY <1>a, <1>b, <3>1
    <3>7. \A u \in Passing' : arg'[u] <= n /\ arg'[u] \notin Range(accepted')
      BY <3>1, <3>2, <3>5, <3>6 DEF TaskInv
    <3>8. \A i \in DOMAIN accepted' : accepted'[i] <= n
      BY <3>3 DEF Range
    <3>9. \A u, v \in Passing' : arg'[u] = arg'[v] => u = v
      BY <3>1, <3>6 DEF TaskInv
    <3> QED BY <3>2, <3>7, <3>8, <3>9 DEF TaskInv, n
  <2>3. CASE threads_ # {}
    <3>1. accepted' = accepted /\ arg' = [arg EXCEPT ![t] = n] /\ pc' = [pc EXCEPT ![t] = "run"]
          /\ pc[t] \in {"idle", "task"}
      BY <1>4, <2>3 DEF CallRun
    <3> HIDE DEF n
    <3>2. Passing' = Passing \cup {t} /\ t \notin Passing
      BY <1>a, <1>b, <3>1
    <3>3. \A u \in Passing : arg[u] \in Nat /\ arg[u] <= numTasks /\ arg'[u] = arg[u]
      BY <1>a, <3>1, <3>2 DEF TaskInv
    <3>4. \A u \in Passing : arg'[u] <= n /\ arg'[u] # n
      BY <1>a, <2>1, <3>3
    <3>5. arg'[t] = n
      BY <1>a, <3>1
    <3>6. \A i \in DOMAIN accepted' : accepted'[i] <= n
      <4>1. \A i \in DOMAIN accepted : accepted[i] \in Range(accepted)
        BY DEF Range
      <4> QED BY <1>a, <1>c, <2>1, <3>1, <4>1
    <3>7. n <= n
      BY <2>1
    <3> QED BY <2>1, <3>1, <3>2, <3>3, <3>4, <3>5, <3>6, <3>7 DEF TaskInv, n
  <2> QED BY <2>2, <2>3
<1>5. ASSUME NEW t \in Threads, runWaits(t) \/ SpuriousWakeup(t) PROVE TaskInv'
  BY <1>5, <1>a, <1>b, TaskInvSame DEF runWaits, SpuriousWakeup
<1>6. ASSUME NEW t \in Threads, runStopped(t) PROVE TaskInv'
  BY <1>6, <1>a, <1>b, TaskInvSame DEF runStopped, Resumes
<1>7. ASSUME NEW t \in Threads, runQueues(t) PROVE TaskInv'
  <2> DEFINE moved == [pc EXCEPT ![t] = Resumes(t)]
  <2>1. /\ accepted' = Append(accepted, arg[t]) /\ numTasks' = numTasks /\ t \in Passing
        /\ arg' = [arg EXCEPT ![t] = NoTask] /\ NotifyOne(moved, "takeWait", "take")
    BY <1>7, <1>a DEF runQueues
  <2>2. moved \in [Threads -> Places]
    BY <1>a DEF Resumes, Places
  <2> HIDE DEF moved
  <2>3. Those(pc', "run") = Those(moved, "run") /\ Those(pc', "runWait") = Those(moved, "runWait")
    BY <2>1, <2>2, NotifyOneCounts
  <2>4. Passing' = Passing \ {t}
    <3>1. Those(moved, "run") \cup Those(moved, "runWait") = Passing \ {t}
      BY <1>a DEF Those, Resumes, moved
    <3> QED BY <2>3, <3>1, <1>b DEF Those
  <2>5. arg[t] \in Nat /\ arg[t] <= numTasks /\ arg[t] \notin Range(accepted)
    BY <1>a, <2>1 DEF TaskInv
  <2>6. Range(accepted') = Range(accepted) \cup {arg[t]} /\ IsInjective(accepted')
    BY <1>a, <2>1, <2>5, AppendRange DEF TaskInv
  <2>7. \A i \in DOMAIN accepted' : accepted'[i] <= numTasks
    <3>1. \A i \in DOMAIN accepted' : accepted'[i] \in Range(accepted')
      BY DEF Range
    <3> QED BY <1>c, <2>5, <2>6, <3>1
  <2>8. \A u \in Passing' : u \in Passing /\ u # t /\ arg'[u] = arg[u]
    BY <1>a, <2>1, <2>4
  <2> QED BY <2>1, <2>6, <2>7, <2>8 DEF TaskInv
<1>8. ASSUME NEW w \in Workers,
             CheckRunning(w) \/ takeWaits(w) \/ takeStopped(w) \/ CallTask(w) \/ TaskReturns(w)
      PROVE  TaskInv'
  BY <1>8, <1>a, <1>b, TaskInvSame DEF CheckRunning, takeWaits, takeStopped, CallTask, TaskReturns
<1>9. ASSUME NEW w \in Workers, take(w) PROVE TaskInv'
  <2> DEFINE moved == [pc EXCEPT ![w] = "taken"]
  <2>1. /\ accepted' = accepted /\ numTasks' = numTasks /\ pc[w] = "take"
        /\ \A t \in Threads : t # w => arg'[t] = arg[t]
        /\ pc' = moved \/ NotifyOne(moved, "runWait", "run")
    BY <1>9, <1>a DEF take
  <2>2. \A t \in Threads : pc'[t] # moved[t] => moved[t] = "runWait" /\ pc'[t] = "run"
    <3>1. CASE pc' = moved
      BY <3>1
    <3>2. CASE NotifyOne(moved, "runWait", "run")
      <4>1. moved \in [Threads -> Places]
        BY <1>a DEF Places
      <4> HIDE DEF moved
      <4> QED BY <3>2, <4>1, NotifyOneCases
    <3> QED BY <2>1, <3>1, <3>2
  <2>3. Passing' \subseteq Passing /\ w \notin Passing
    BY <1>a, <1>b, <2>1, <2>2
  <2> QED BY <1>a, <2>1, <2>3, TaskInvSame
<1> QED BY <1>1, <1>2, <1>3, <1>4, <1>5, <1>6, <1>7, <1>8, <1>9 DEF Next, Owner, InRun, Worker

\* A step that takes and calls no task.
LEMMA CalledSame ==
  ASSUME CalledOnce, UNCHANGED <<taken, started>>, At("taken")' = At("taken"),
         \A t \in At("taken") : arg'[t] = arg[t]
  PROVE  CalledOnce'
BY DEF CalledOnce

\* Every step keeps each task called once or held by one worker.
LEMMA CalledStep ==
  TypeOK /\ OwnerInv /\ TakenInOrder /\ TaskInv /\ CalledOnce /\ [Next]_vars => CalledOnce'
<1> SUFFICES ASSUME TypeOK, OwnerInv, TakenInOrder, TaskInv, CalledOnce, [Next]_vars PROVE CalledOnce'
  OBVIOUS
<1>a. /\ pc \in [Threads -> Places] /\ arg \in [Threads -> Nat] /\ Workers \subseteq Threads
      /\ accepted \in Seq(Nat) /\ taken \in Seq(Nat) /\ started \in Seq(Nat)
      /\ numTasks \in Nat
  BY DEF TypeOK, Threads
<1>b. \A x \in Range(taken) : x \in Nat /\ x <= numTasks
  <2>1. \A x \in Range(accepted) : x \in Nat /\ x <= numTasks
    BY <1>a DEF TaskInv, Range
  <2> QED BY <2>1, TakenAmongAccepted
<1>c. At("taken") = {t \in Threads : pc[t] = "taken"} /\ At("taken")' = {t \in Threads : pc'[t] = "taken"}
  BY DEF At
<1>1. ASSUME NEW ws \in SUBSET Workers, start(ws) PROVE CalledOnce'
  BY <1>1, <1>a, <1>c, CalledSame DEF start, OwnerInv
<1>2. CASE stop
  BY <1>2, <1>a, <1>c, CalledSame DEF stop
<1>3. CASE Joined \/ UNCHANGED vars
  BY <1>3, <1>a, <1>c, CalledSame DEF Joined, vars
<1>4. ASSUME NEW t \in Threads, CallRun(t) PROVE CalledOnce'
  <2>1. CASE threads_ # {}
    BY <1>4, <1>a, <1>c, <2>1, CalledSame DEF CallRun
  <2>2. CASE threads_ = {}
    <3> DEFINE n == numTasks'
    <3>1. /\ n \in Nat /\ taken' = Append(taken, n) /\ started' = Append(started, n)
          /\ pc' = pc /\ arg' = arg
      BY <1>4, <1>a, <2>2 DEF CallRun
    <3>2. n \notin Range(taken)
      BY <1>4, <1>a, <1>b DEF CallRun
    <3> HIDE DEF n
    <3>3. Range(started) \subseteq Range(taken) /\ \A w \in At("taken") : arg[w] \in Range(taken)
      BY DEF CalledOnce
    <3>4. /\ Range(taken') = Range(taken) \cup {n} /\ Range(started') = Range(started) \cup {n}
          /\ IsInjective(started')
      BY <1>a, <3>1, <3>2, <3>3, AppendRange DEF CalledOnce
    <3>5. At("taken")' = At("taken")
      BY <1>c, <3>1
    <3> QED BY <3>1, <3>2, <3>3, <3>4, <3>5 DEF CalledOnce
  <2> QED BY <2>1, <2>2
<1>5. ASSUME NEW t \in Threads, runWaits(t) \/ runStopped(t) \/ SpuriousWakeup(t) PROVE CalledOnce'
  BY <1>5, <1>a, <1>c, CalledSame DEF runWaits, runStopped, SpuriousWakeup, Resumes
<1>6. ASSUME NEW t \in Threads, runQueues(t) PROVE CalledOnce'
  <2> DEFINE moved == [pc EXCEPT ![t] = Resumes(t)]
  <2>1. /\ UNCHANGED <<taken, started>> /\ pc[t] = "run" /\ arg' = [arg EXCEPT ![t] = NoTask]
        /\ NotifyOne(moved, "takeWait", "take")
    BY <1>6 DEF runQueues
  <2>2. moved \in [Threads -> Places]
    BY <1>a DEF Resumes, Places
  <2>3. Those(moved, "taken") = At("taken") /\ t \notin At("taken")
    BY <1>a, <1>c, <2>1 DEF Those, Resumes
  <2> HIDE DEF moved
  <2>4. Those(pc', "taken") = Those(moved, "taken")
    BY <2>1, <2>2, NotifyOneCounts
  <2>5. At("taken")' = At("taken")
    BY <1>c, <2>3, <2>4 DEF Those
  <2> QED BY <1>a, <1>c, <2>1, <2>3, <2>5, CalledSame
<1>7. ASSUME NEW w \in Workers, CheckRunning(w) \/ takeWaits(w) \/ takeStopped(w) \/ TaskReturns(w)
      PROVE  CalledOnce'
  BY <1>7, <1>a, <1>c, CalledSame DEF CheckRunning, takeWaits, takeStopped, TaskReturns
<1>8. ASSUME NEW w \in Workers, take(w) PROVE CalledOnce'
  <2> DEFINE moved == [pc EXCEPT ![w] = "taken"]  h == Head(queue_)
  <2>1. /\ taken' = Append(taken, h) /\ started' = started /\ arg' = [arg EXCEPT ![w] = h]
        /\ pc[w] = "take" /\ queue_ # <<>>
        /\ pc' = moved \/ NotifyOne(moved, "runWait", "run")
    BY <1>8 DEF take
  <2>2. h \in Nat /\ h \notin Range(taken)
    <3>1. queue_ \in Seq(Nat) /\ IsInjective(accepted)
      BY DEF TypeOK, TaskInv
    <3> QED BY <2>1, <3>1, TakenAmongAccepted, HeadTailProperties
  <2>3. At("taken")' = At("taken") \cup {w} /\ w \notin At("taken")
    <3>1. moved \in [Threads -> Places] /\ Those(moved, "taken") = At("taken") \cup {w}
      BY <1>a, <1>c DEF Those, Places
    <3>2. w \notin At("taken")
      BY <1>c, <2>1
    <3> HIDE DEF moved
    <3>3. Those(pc', "taken") = Those(moved, "taken")
      <4>1. CASE pc' = moved
        BY <4>1
      <4>2. CASE NotifyOne(moved, "runWait", "run")
        BY <3>1, <4>2, NotifyOneCounts
      <4> QED BY <2>1, <4>1, <4>2
    <3> QED BY <1>c, <3>1, <3>2, <3>3 DEF Those
  <2> HIDE DEF moved, h
  <2>4. Range(taken') = Range(taken) \cup {h}
    BY <1>a, <2>1, <2>2, AppendRange
  <2>5. arg'[w] = h /\ \A t \in At("taken") : arg'[t] = arg[t]
    BY <1>a, <1>c, <2>1, <2>3
  <2>6. Range(started) \subseteq Range(taken) /\ \A t \in At("taken") : arg[t] \in Range(taken)
    BY DEF CalledOnce
  <2>7. {arg'[t] : t \in At("taken")'} = {arg[t] : t \in At("taken")} \cup {h}
    BY <2>3, <2>5
  <2>8. Range(taken)' = Range(started)' \cup {arg'[t] : t \in At("taken")'}
    BY <2>1, <2>4, <2>7 DEF CalledOnce
  <2>9. \A u, v \in At("taken")' : arg'[u] = arg'[v] => u = v
    BY <2>2, <2>3, <2>5, <2>6 DEF CalledOnce
  <2>10. \A u \in At("taken")' : arg'[u] \notin Range(started)'
    BY <2>1, <2>2, <2>3, <2>5, <2>6 DEF CalledOnce
  <2> QED BY <2>1, <2>8, <2>9, <2>10 DEF CalledOnce
<1>9. ASSUME NEW w \in Workers, CallTask(w) PROVE CalledOnce'
  <2>1. /\ started' = Append(started, arg[w]) /\ taken' = taken /\ w \in At("taken")
        /\ arg' = [arg EXCEPT ![w] = NoTask] /\ pc' = [pc EXCEPT ![w] = "task"]
    BY <1>9, <1>a, <1>c DEF CallTask
  <2>2. At("taken")' = At("taken") \ {w}
    BY <1>a, <1>c, <2>1
  <2>3. arg[w] \in Nat /\ \A t \in At("taken") : t # w => arg'[t] = arg[t]
    BY <1>a, <1>c, <2>1
  <2>4. Range(started') = Range(started) \cup {arg[w]} /\ IsInjective(started')
    BY <1>a, <2>1, <2>3, AppendRange DEF CalledOnce
  <2>5. {arg'[t] : t \in At("taken")'} = {arg[t] : t \in At("taken") \ {w}}
    BY <2>2, <2>3
  <2>6. Range(taken)' = Range(started)' \cup {arg'[t] : t \in At("taken")'}
    BY <2>1, <2>4, <2>5 DEF CalledOnce
  <2>7. \A u, v \in At("taken")' : arg'[u] = arg'[v] => u = v
    BY <2>2, <2>3 DEF CalledOnce
  <2>8. \A u \in At("taken")' : arg'[u] \notin Range(started)'
    BY <2>1, <2>2, <2>3, <2>4 DEF CalledOnce
  <2> QED BY <2>4, <2>6, <2>7, <2>8 DEF CalledOnce
<1> QED BY <1>1, <1>2, <1>3, <1>4, <1>5, <1>6, <1>7, <1>8, <1>9 DEF Next, Owner, InRun, Worker

(***************************************************************************)
(* The theorems.                                                           *)
(***************************************************************************)

\* PoolInv holds in every reachable state.
LEMMA PoolInvariant == Spec => []PoolInv
<1>1. PoolInv /\ [Next]_vars => PoolInv'
  BY TypeStep, OwnerStep, AwakeStep, OrderStep, TaskStep, CalledStep DEF PoolInv
<1> QED BY <1>1, PoolInit, PTL DEF Spec

\* However many workers and producers there are, however long the queue may get and
\* whenever threads wake for no reason: as long as a worker sleeps, enough others are
\* awake to take every queued task, as long as a caller of run() sleeps, enough are awake to
\* fill every free place, and stop() leaves nobody asleep (ThreadPool.cc:36-66,
\* ThreadPool.h:34-41).
THEOREM PoolNeverOversleeps == Spec => []NobodyOversleeps
<1>1. PoolInv => NobodyOversleeps
  BY DEF PoolInv
<1> QED BY <1>1, PoolInvariant, PTL

\* Tasks are taken in the order in which run() queued them and the queue keeps within its
\* bound; each task taken is called once, or is held by one worker who has yet to call it
\* (ThreadPool.cc:58-64, 79-82, ThreadPool.h:34-41).
THEOREM PoolKeepsTasks == Spec => []TasksKept
<1>1. PoolInv => TasksKept
  BY DEF PoolInv, TasksKept
<1> QED BY <1>1, PoolInvariant, PTL
=============================================================================
