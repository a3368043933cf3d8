----------------------------- MODULE ThreadPool -----------------------------
(***************************************************************************)
(* gg_lib::ThreadPool: worker threads that take tasks from a queue, which  *)
(* may be bounded, producers that call run(), tasks that call run()        *)
(* themselves, and an owner that calls start() and stop().                 *)
(*                                                                         *)
(* What is done with mutex_ held is one step.  A thread in wait() is in    *)
(* "takeWait" (notEmpty_) or "runWait" (notFull_); once notified, or woken *)
(* for no reason, it is about to lock the mutex again, in "take" or "run". *)
(***************************************************************************)
EXTENDS Naturals, Sequences, FiniteSets, Functions

CONSTANTS
  Workers,          \* the threads start() can create
  Producers,        \* other threads that call run()
  QueueSizes,       \* what setMaxQueueSize may have been called with
  MaxTasks          \* bound: how often run() is called

ASSUME PoolAssumption ==
  /\ IsFiniteSet(Workers) /\ IsFiniteSet(Producers)
  /\ Workers \cap Producers = {}
  /\ QueueSizes \subseteq Nat
  /\ MaxTasks \in Nat

Threads == Workers \cup Producers
NoTask == 0

VARIABLES
  maxQueueSize_,
  nests,            \* may tasks of this program call run()?
  threads_,         \* the workers that start() created
  running_,
  queue_,
  owner,            \* how far the owner is
  pc,               \* where each thread is
  arg,              \* the task each thread passes to run(), or has taken and not started
  numTasks,         \* how many tasks were made
  accepted,         \* tasks in the order run() queued or executed them
  taken,            \* tasks in the order they were taken from the queue or executed by run()
  started           \* tasks in the order they were called

vars == <<maxQueueSize_, nests, threads_, running_, queue_, owner, pc, arg, numTasks, accepted,
          taken, started>>
setup == <<maxQueueSize_, nests>>

Init ==
  /\ maxQueueSize_ \in QueueSizes
  /\ nests \in BOOLEAN
  /\ threads_ = {}
  /\ running_ = FALSE
  /\ queue_ = <<>>
  /\ owner = "new"
  /\ pc = [t \in Threads |-> IF t \in Workers THEN "none" ELSE "idle"]
  /\ arg = [t \in Threads |-> NoTask]
  /\ numTasks = 0
  /\ accepted = <<>>
  /\ taken = <<>>
  /\ started = <<>>

isFull == maxQueueSize_ > 0 /\ Len(queue_) >= maxQueueSize_

-----------------------------------------------------------------------------
(* The condition variables: pcs is where the threads are once the caller   *)
(* of notify has done its own step.                                        *)

\* notify_one: a thread that waits, if there is one, goes on.
NotifyOne(pcs, waiting, awake) ==
  IF \E t \in Threads : pcs[t] = waiting
    THEN \E t \in Threads : pcs[t] = waiting /\ pc' = [pcs EXCEPT ![t] = awake]
    ELSE pc' = pcs

\* wait() returns although nobody notified.
SpuriousWakeup(t) ==
  /\ \/ pc[t] = "takeWait" /\ pc' = [pc EXCEPT ![t] = "take"]
     \/ pc[t] = "runWait" /\ pc' = [pc EXCEPT ![t] = "run"]
  /\ UNCHANGED <<setup, threads_, running_, queue_, owner, arg, numTasks, accepted, taken, started>>

-----------------------------------------------------------------------------
(* The owner.                                                              *)

\* start: without threads, tasks run in the callers of run().
start(ws) ==
  /\ owner = "new"
  /\ owner' = "started"
  /\ running_' = TRUE
  /\ threads_' = ws
  /\ pc' = [t \in Threads |-> IF t \in ws THEN "check" ELSE pc[t]]
  /\ UNCHANGED <<setup, queue_, arg, numTasks, accepted, taken, started>>

\* A faulty stop that does not wake the threads waiting in run().
stop_NotEmptyOnly ==
  /\ owner = "started"
  /\ owner' = "joining"
  /\ running_' = FALSE
  /\ pc' = [t \in Threads |-> IF pc[t] = "takeWait" THEN "take" ELSE pc[t]]
  /\ UNCHANGED <<setup, threads_, queue_, arg, numTasks, accepted, taken, started>>

\* The part of stop with the mutex held: everyone is notified.
stop ==
  /\ owner = "started"
  /\ owner' = "joining"
  /\ running_' = FALSE
  /\ pc' = [t \in Threads |-> IF pc[t] = "takeWait" THEN "take"
                              ELSE IF pc[t] = "runWait" THEN "run" ELSE pc[t]]
  /\ UNCHANGED <<setup, threads_, queue_, arg, numTasks, accepted, taken, started>>

\* The workers are joined.
Joined ==
  /\ owner = "joining"
  /\ \A w \in threads_ : pc[w] = "exited"
  /\ owner' = "stopped"
  /\ UNCHANGED <<setup, threads_, running_, queue_, pc, arg, numTasks, accepted, taken, started>>

-----------------------------------------------------------------------------
(* run.                                                                    *)

\* A producer, or the task of a worker, calls run().
CallRun(t) ==
  /\ owner # "new"
  /\ pc[t] = "idle" \/ (pc[t] = "task" /\ nests)
  /\ numTasks < MaxTasks
  /\ numTasks' = numTasks + 1
  /\ IF threads_ = {}
       THEN /\ accepted' = Append(accepted, numTasks')
            /\ taken' = Append(taken, numTasks')
            /\ started' = Append(started, numTasks')
            /\ UNCHANGED <<pc, arg>>
       ELSE /\ pc' = [pc EXCEPT ![t] = "run"]
            /\ arg' = [arg EXCEPT ![t] = numTasks']
            /\ UNCHANGED <<accepted, taken, started>>
  /\ UNCHANGED <<setup, threads_, running_, queue_, owner>>

\* Where a thread goes on when run() returns.
Resumes(t) == IF t \in Workers THEN "task" ELSE "idle"

runWaits(t) ==
  /\ pc[t] = "run"
  /\ isFull /\ running_
  /\ pc' = [pc EXCEPT ![t] = "runWait"]
  /\ UNCHANGED <<setup, threads_, running_, queue_, owner, arg, numTasks, accepted, taken, started>>

\* The pool was stopped: the task is dropped.
runStopped(t) ==
  /\ pc[t] = "run"
  /\ ~running_
  /\ pc' = [pc EXCEPT ![t] = Resumes(t)]
  /\ arg' = [arg EXCEPT ![t] = NoTask]
  /\ UNCHANGED <<setup, threads_, running_, queue_, owner, numTasks, accepted, taken, started>>

\* A faulty run that notifies only if the queue was empty.
runQueues_FirstOnly(t) ==
  /\ pc[t] = "run"
  /\ running_ /\ ~isFull
  /\ queue_' = Append(queue_, arg[t])
  /\ accepted' = Append(accepted, arg[t])
  /\ arg' = [arg EXCEPT ![t] = NoTask]
  /\ IF queue_ = <<>> THEN NotifyOne([pc EXCEPT ![t] = Resumes(t)], "takeWait", "take")
                      ELSE pc' = [pc EXCEPT ![t] = Resumes(t)]
  /\ UNCHANGED <<setup, threads_, running_, owner, numTasks, taken, started>>

\* A faulty run that does not notify.
runQueues_NoNotify(t) ==
  /\ pc[t] = "run"
  /\ running_ /\ ~isFull
  /\ queue_' = Append(queue_, arg[t])
  /\ accepted' = Append(accepted, arg[t])
  /\ arg' = [arg EXCEPT ![t] = NoTask]
  /\ pc' = [pc EXCEPT ![t] = Resumes(t)]
  /\ UNCHANGED <<setup, threads_, running_, owner, numTasks, taken, started>>

runQueues(t) ==
  /\ pc[t] = "run"
  /\ running_ /\ ~isFull
  /\ queue_' = Append(queue_, arg[t])
  /\ accepted' = Append(accepted, arg[t])
  /\ arg' = [arg EXCEPT ![t] = NoTask]
  /\ NotifyOne([pc EXCEPT ![t] = Resumes(t)], "takeWait", "take")
  /\ UNCHANGED <<setup, threads_, running_, owner, numTasks, taken, started>>

-----------------------------------------------------------------------------
(* runInThread of worker w.                                                *)

\* while (running_), read without the mutex.
CheckRunning(w) ==
  /\ pc[w] = "check"
  /\ pc' = [pc EXCEPT ![w] = IF running_ THEN "take" ELSE "exited"]
  /\ UNCHANGED <<setup, threads_, running_, queue_, owner, arg, numTasks, accepted, taken, started>>

takeWaits(w) ==
  /\ pc[w] = "take"
  /\ queue_ = <<>> /\ running_
  /\ pc' = [pc EXCEPT ![w] = "takeWait"]
  /\ UNCHANGED <<setup, threads_, running_, queue_, owner, arg, numTasks, accepted, taken, started>>

\* The pool was stopped and nothing is left: an empty task is returned.
takeStopped(w) ==
  /\ pc[w] = "take"
  /\ queue_ = <<>> /\ ~running_
  /\ pc' = [pc EXCEPT ![w] = "check"]
  /\ UNCHANGED <<setup, threads_, running_, queue_, owner, arg, numTasks, accepted, taken, started>>

\* A faulty take that copies the front but does not pop it.
take_NoPop(w) ==
  /\ pc[w] = "take"
  /\ queue_ # <<>>
  /\ Len(taken) < MaxTasks
  /\ taken' = Append(taken, Head(queue_))
  /\ arg' = [arg EXCEPT ![w] = Head(queue_)]
  /\ pc' = [pc EXCEPT ![w] = "taken"]
  /\ UNCHANGED <<setup, threads_, running_, queue_, owner, numTasks, accepted, started>>

\* A task is taken, whether or not the pool was stopped.
take(w) ==
  /\ pc[w] = "take"
  /\ queue_ # <<>>
  /\ queue_' = Tail(queue_)
  /\ taken' = Append(taken, Head(queue_))
  /\ arg' = [arg EXCEPT ![w] = Head(queue_)]
  /\ IF maxQueueSize_ > 0
       THEN NotifyOne([pc EXCEPT ![w] = "taken"], "runWait", "run")
       ELSE pc' = [pc EXCEPT ![w] = "taken"]
  /\ UNCHANGED <<setup, threads_, running_, owner, numTasks, accepted, started>>

\* task(), with the mutex unlocked: another worker may have taken a later task and
\* called it first.
CallTask(w) ==
  /\ pc[w] = "taken"
  /\ started' = Append(started, arg[w])
  /\ arg' = [arg EXCEPT ![w] = NoTask]
  /\ pc' = [pc EXCEPT ![w] = "task"]
  /\ UNCHANGED <<setup, threads_, running_, queue_, owner, numTasks, accepted, taken>>

\* The task returns.
TaskReturns(w) ==
  /\ pc[w] = "task"
  /\ pc' = [pc EXCEPT ![w] = "check"]
  /\ UNCHANGED <<setup, threads_, running_, queue_, owner, arg, numTasks, accepted, taken, started>>

-----------------------------------------------------------------------------

Owner == (\E ws \in SUBSET Workers : start(ws)) \/ stop \/ Joined

\* A thread that holds the processor: what it does in run() and in runInThread.
InRun(t) == runWaits(t) \/ runStopped(t) \/ runQueues(t)

Worker(w) ==
  CheckRunning(w) \/ takeWaits(w) \/ takeStopped(w) \/ take(w) \/ CallTask(w)
  \/ TaskReturns(w)

Next ==
  \/ Owner
  \/ \E t \in Threads : CallRun(t) \/ InRun(t) \/ SpuriousWakeup(t)
  \/ \E w \in Workers : Worker(w)

Spec == Init /\ [][Next]_vars

\* Every thread that is not asleep runs on, and tasks return.  Nobody is made to
\* call run or stop, and no wait ends without a notification.
Fairness ==
  /\ WF_vars(Joined)
  /\ \A t \in Threads : WF_vars(InRun(t))
  /\ \A w \in Workers : WF_vars(Worker(w))

FairSpec == Spec /\ Fairness

-----------------------------------------------------------------------------
(* Correctness.                                                            *)

Tasks == 1..MaxTasks

At(where) == {t \in Threads : pc[t] = where}

\* A worker sleeps only if enough others are awake to take every queued task, a
\* caller of run() only if enough others are awake to fill every free place, and
\* nobody sleeps once the pool is stopped (ThreadPool.cc:36-66, ThreadPool.h:34-41).
NobodyOversleeps ==
  /\ At("takeWait") # {} => running_ /\ Len(queue_) <= Cardinality(At("take"))
  /\ At("runWait") # {} =>
       running_ /\ maxQueueSize_ <= Len(queue_) + Cardinality(At("run"))

\* The queue is first in, first out, and keeps within its bound.
TakenInOrder ==
  /\ taken \o queue_ = accepted
  /\ maxQueueSize_ > 0 => Len(queue_) <= maxQueueSize_

\* Of the tasks taken, each was called once or is in the hands of one worker who has yet
\* to call it.
CalledOnce ==
  /\ IsInjective(started)
  /\ \A v, w \in At("taken") : arg[v] = arg[w] => v = w
  /\ \A w \in At("taken") : arg[w] \notin Range(started)
  /\ Range(taken) = Range(started) \cup {arg[w] : w \in At("taken")}

\* Workers take the tasks in the order they were queued, and call each one once; it is
\* the order of the calls that two workers may change, as far as a task overtakes those
\* that others hold in their hands (ThreadPool.cc:58-64, 79-82, ThreadPool.h:34-41).
TasksKept == TakenInOrder /\ CalledOnce

\* stop() returns, even if every worker is stuck in run() on a full queue
\* (ThreadPool.cc:36-46).
StopReturns == (owner = "joining") ~> (owner = "stopped")

\* A queued task is started unless the pool is stopped, and run() returns, as long
\* as tasks do not call run() of a pool whose queue is bounded.
QueuedTaskStarts ==
  \A task \in Tasks :
    ((~nests \/ maxQueueSize_ = 0) /\ (task \in Range(accepted) \/ task \in Range(arg)))
      ~> (~running_ \/ task \in Range(started))
=============================================================================
