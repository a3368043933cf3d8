-------------------------- MODULE EventLoopThread ---------------------------
(***************************************************************************)
(* gg_lib::net::EventLoopThread: a thread of its own that constructs an    *)
(* EventLoop, publishes a pointer to it and runs it.  The owner calls      *)
(* startLoop() to get the pointer and the destructor to stop the loop and  *)
(* join the thread.  The loop is module EventLoop; of its Threads only     *)
(* the owner calls it.                                                     *)
(*                                                                         *)
(* threadFunc's lock_guard protects loop_, but the destructor reads loop_  *)
(* without it, so its test, its call of quit() and threadFunc's last steps *)
(* interleave freely.                                                      *)
(***************************************************************************)
EXTENDS EventLoop

CONSTANT Owner    \* the thread that owns the EventLoopThread

ASSUME OwnerAssumption == Owner \in Threads

VARIABLES
  latch_,         \* count of thread_'s latch
  loop_,          \* is the published pointer set?
  alive,          \* the EventLoop object on threadFunc's stack exists
  thread,         \* where the new thread is
  owner,          \* where the owner is
  lostQuit,       \* the owner's quit() came before loop() was entered
  earlyQuit,      \* quit() was called ahead of the destructor
  faults          \* uses of an object that is gone

threadVars == <<vars, latch_, loop_, alive, thread, owner, lostQuit, earlyQuit, faults>>

ThreadInit ==
  /\ Init
  /\ latch_ = 1
  /\ loop_ = FALSE
  /\ alive = FALSE
  /\ thread = "none"
  /\ owner = "constructed"
  /\ lostQuit = FALSE
  /\ earlyQuit = FALSE
  /\ faults = {}

-----------------------------------------------------------------------------
(* The owner: startLoop().                                                 *)

\* startLoop: thread_.start() creates the thread and waits for its latch.
startLoop ==
  /\ owner = "constructed"
  /\ owner' = "latch"
  /\ thread' = "created"
  /\ UNCHANGED <<vars, latch_, loop_, alive, lostQuit, earlyQuit, faults>>

\* CountDownLatch::wait.
LatchWait ==
  /\ owner = "latch"
  /\ latch_ = 0
  /\ owner' = "waitLoop"
  /\ UNCHANGED <<vars, latch_, loop_, alive, thread, lostQuit, earlyQuit, faults>>

\* The while loop around cond_.wait, entered with mutex_ held.
WaitForLoop ==
  /\ owner = "waitLoop"
  /\ owner' = IF loop_ THEN "running" ELSE "asleep"
  /\ UNCHANGED <<vars, latch_, loop_, alive, thread, lostQuit, earlyQuit, faults>>

\* The owner uses the pointer it got, as long as there is a loop behind it.
OwnerCalls ==
  /\ owner = "running"
  /\ \/ (\E f \in Functors : alive /\ runInLoop(Owner, f)) /\ UNCHANGED earlyQuit
     \/ queueInLoopWakeup(Owner) /\ UNCHANGED earlyQuit
     \/ alive /\ quit(Owner) /\ earlyQuit' = TRUE
  /\ UNCHANGED <<latch_, loop_, alive, thread, owner, lostQuit, faults>>

-----------------------------------------------------------------------------
(* The owner: the destructor.                                              *)

\* ~EventLoopThread up to the test of loop_, which nothing protects.  Without
\* a loop there is nothing to stop: ~Thread detaches the thread if there is one.
DestructorTest ==
  /\ owner \in {"constructed", "running"}
  /\ caller[Owner] = "idle"
  /\ owner' = IF loop_ THEN "quit" ELSE "gone"
  /\ UNCHANGED <<vars, latch_, loop_, alive, thread, lostQuit, earlyQuit, faults>>

\* loop_->quit().  The pointer is the one just tested or is read again.
DestructorQuit ==
  /\ owner = "quit"
  /\ owner' = "join"
  /\ \/ alive /\ quit(Owner) /\ UNCHANGED faults
     \/ ~alive /\ faults' = faults \cup {"quit() on a dead loop"} /\ UNCHANGED vars
     \/ ~loop_ /\ faults' = faults \cup {"quit() on nullptr"} /\ UNCHANGED vars
  /\ lostQuit' = (thread = "published")
  /\ UNCHANGED <<latch_, loop_, alive, thread, earlyQuit>>

\* A faulty destructor that does not wait for the thread.
DestructorJoin_Detach ==
  /\ owner = "join"
  /\ owner' = "gone"
  /\ UNCHANGED <<vars, latch_, loop_, alive, thread, lostQuit, earlyQuit, faults>>

\* thread_.join(), after which the EventLoopThread is gone.
DestructorJoin ==
  /\ owner = "join"
  /\ thread = "finished"
  /\ owner' = "gone"
  /\ UNCHANGED <<vars, latch_, loop_, alive, thread, lostQuit, earlyQuit, faults>>

-----------------------------------------------------------------------------
(* The new thread: runInThread() and threadFunc().                         *)

\* A member of the EventLoopThread is used when it may be gone.
Touch(member) ==
  faults' = IF owner = "gone" THEN faults \cup {member} ELSE faults

\* runInThread: count the latch down.
runInThread ==
  /\ thread = "created"
  /\ latch_' = latch_ - 1
  /\ thread' = "started"
  /\ UNCHANGED <<vars, loop_, alive, owner, lostQuit, earlyQuit, faults>>

\* EventLoop loop; callback_ follows.
ConstructLoop ==
  /\ thread = "started"
  /\ alive' = TRUE
  /\ thread' = "callback"
  /\ UNCHANGED <<vars, latch_, loop_, owner, lostQuit, earlyQuit, faults>>

\* What callback_ and, in loop(), the callbacks of the loop thread may do.
CallbackCalls ==
  /\ thread \in {"callback", "looping"}
  /\ \/ /\ \E f \in Functors : queueInLoop(LoopThread, f) \/ runInLoop(LoopThread, f)
        /\ UNCHANGED earlyQuit
     \/ queueInLoopWakeup(LoopThread) /\ UNCHANGED earlyQuit
     \/ quit(LoopThread) /\ earlyQuit' = TRUE
  /\ UNCHANGED <<latch_, loop_, alive, thread, owner, lostQuit, faults>>

\* A faulty threadFunc that publishes the loop and notifies nobody.
Publish_NoNotify ==
  /\ thread = "callback"
  /\ caller[LoopThread] = "idle"
  /\ loop_' = TRUE
  /\ thread' = "published"
  /\ Touch("loop_")
  /\ UNCHANGED <<vars, latch_, alive, owner, lostQuit, earlyQuit>>

\* loop_ = &loop; cond_.notify_one().
Publish ==
  /\ thread = "callback"
  /\ caller[LoopThread] = "idle"
  /\ loop_' = TRUE
  /\ owner' = IF owner = "asleep" THEN "waitLoop" ELSE owner
  /\ thread' = "published"
  /\ Touch("loop_")
  /\ UNCHANGED <<vars, latch_, alive, lostQuit, earlyQuit>>

\* loop.loop() is entered ...
EnterLoop ==
  /\ thread = "published"
  /\ loop
  /\ thread' = "looping"
  /\ UNCHANGED <<latch_, loop_, alive, owner, lostQuit, earlyQuit, faults>>

\* ... goes round ...
LoopRuns ==
  /\ thread = "looping"
  /\ pc # "idle"
  /\ LoopStep
  /\ UNCHANGED <<latch_, loop_, alive, thread, owner, lostQuit, earlyQuit, faults>>

\* ... and returns: loop_ = nullptr under mutex_.
Unpublish ==
  /\ thread = "looping"
  /\ pc = "idle"
  /\ loop_' = FALSE
  /\ thread' = "unpublished"
  /\ Touch("loop_")
  /\ UNCHANGED <<vars, latch_, alive, owner, lostQuit, earlyQuit>>

\* The lock_guard is destroyed first, then the EventLoop; the thread ends.
FinishThread ==
  /\ thread = "unpublished"
  /\ alive' = FALSE
  /\ thread' = "finished"
  /\ Touch("mutex_")
  /\ UNCHANGED <<vars, latch_, loop_, owner, lostQuit, earlyQuit>>

-----------------------------------------------------------------------------

ThreadNext ==
  \/ startLoop \/ LatchWait \/ WaitForLoop \/ OwnerCalls
  \/ DestructorTest \/ DestructorQuit \/ DestructorJoin
  \/ runInThread \/ ConstructLoop \/ CallbackCalls \/ Publish \/ EnterLoop
  \/ LoopRuns \/ Unpublish \/ FinishThread

ThreadSpec == ThreadInit /\ [][ThreadNext]_threadVars

(***************************************************************************)
(* Fairness: both threads finish the calls they are in and the loop keeps  *)
(* going as in EventLoop: poll has to return only when the eventfd is      *)
(* readable, never because its time is over.  The owner need not call      *)
(* anything.                                                               *)
(***************************************************************************)
ThreadFairness ==
  /\ WF_threadVars(LatchWait)
  /\ WF_threadVars(WaitForLoop)
  /\ WF_threadVars(DestructorQuit)
  /\ WF_threadVars(DestructorJoin)
  /\ WF_threadVars(owner = "running" /\ queueInLoopWakeup(Owner)
                     /\ UNCHANGED <<latch_, loop_, alive, thread, owner, lostQuit, earlyQuit, faults>>)
  /\ WF_threadVars(thread \in {"callback", "looping"} /\ queueInLoopWakeup(LoopThread)
                     /\ UNCHANGED <<latch_, loop_, alive, thread, owner, lostQuit, earlyQuit, faults>>)
  /\ WF_threadVars(runInThread)
  /\ WF_threadVars(ConstructLoop)
  /\ WF_threadVars(Publish)
  /\ WF_threadVars(EnterLoop)
  /\ WF_threadVars(LoopRuns /\ pc # "poll")
  /\ WF_threadVars(LoopRuns /\ wakeupFd_ > 0 /\ activeChannels_' # {})
  /\ WF_threadVars(Unpublish)
  /\ WF_threadVars(FinishThread)

FairThreadSpec == ThreadSpec /\ ThreadFairness

-----------------------------------------------------------------------------
(* Properties.                                                             *)

\* No step of either thread uses the EventLoop after threadFunc has destroyed it
\* or the EventLoopThread after the owner has, and the loop that startLoop() handed
\* out exists as long as the owner may use it (EventLoopThread.cc:20-55), unless a
\* callback of the loop or the owner itself calls quit() ahead of the destructor.
NothingDangles == ~earlyQuit => faults = {} /\ (owner = "running" => alive /\ loop_)

\* startLoop() returns (EventLoopThread.cc:28-40).  A loop that quits at once may
\* be gone again before the owner gets the mutex, and then it waits for ever.
StartLoopReturns == owner \in {"latch", "waitLoop", "asleep"} ~> owner = "running" \/ earlyQuit

\* The destructor, once entered, returns with the thread stopped, also if the loop was
\* told to quit by its own callbacks (EventLoopThread.cc:20-26), unless its quit() came
\* between the publication of the loop and the start of loop(), which resets quit_
\* (EventLoop.cc:84).
DestructorReturns == owner \in {"quit", "join"} ~> owner = "gone" \/ lostQuit
=============================================================================
