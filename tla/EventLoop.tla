----------------------------- MODULE EventLoop ------------------------------
(***************************************************************************)
(* gg_lib::net::EventLoop: one thread that polls file descriptors, runs    *)
(* the callbacks of the active ones and then the functors that any thread  *)
(* queued.  The other threads share pendingFunctors_ and quit_ with it     *)
(* (under mutex_) and wake it through an eventfd.                          *)
(*                                                                         *)
(* A critical section of mutex_ is one step; the push of queueInLoop and   *)
(* the wakeup that follows it after the unlock are two.  A callback is     *)
(* opaque user code: while it runs, the loop thread may call queueInLoop,  *)
(* runInLoop and quit any number of times before it returns.               *)
(***************************************************************************)
EXTENDS Naturals, Sequences, Functions

CONSTANTS
  LoopThread,     \* the thread that constructed the EventLoop (threadId_)
  Threads,        \* the other threads
  Functors,       \* functor objects; each is handed to the loop at most once
  Channels,       \* the I/O channels registered with the poller
  WakeupChannel,  \* wakeupChannel_, the Channel of wakeupFd_
  NoCallback,     \* the loop thread is in no user callback
  MaxCounter      \* largest value an eventfd counter holds (2^64 - 2)

ASSUME LoopAssumption ==
  /\ LoopThread \notin Threads
  /\ WakeupChannel \notin Channels
  /\ NoCallback \notin Channels \cup Functors
  /\ Channels \cap Functors = {}
  /\ MaxCounter \in Nat \ {0}

VARIABLES
  pc,                       \* where the loop thread is in loop()
  looping_, quit_, callingPendingFunctors_,
  pendingFunctors_,         \* the shared vector
  functors,                 \* doPendingFunctors' own vector, what is left of it
  activeChannels_,          \* active channels the for loop has yet to handle
  callback,                 \* the channel or functor whose callback is running
  wakeupFd_,                \* the counter of the eventfd
  caller,                   \* per thread: between the two halves of queueInLoop?
  early,                    \* functors the loop thread queued outside loop()
  ran                       \* functors started, in order

vars == <<pc, looping_, quit_, callingPendingFunctors_, pendingFunctors_, functors,
          activeChannels_, callback, wakeupFd_, caller, early, ran>>

AllThreads == Threads \cup {LoopThread}

\* Functors already handed to the loop.
Handed == Range(pendingFunctors_) \cup Range(functors) \cup Range(ran)

isInLoopThread(t) == t = LoopThread

Init ==
  /\ pc = "idle"
  /\ looping_ = FALSE
  /\ quit_ = FALSE
  /\ callingPendingFunctors_ = FALSE
  /\ pendingFunctors_ = <<>>
  /\ functors = <<>>
  /\ activeChannels_ = {}
  /\ callback = NoCallback
  /\ wakeupFd_ = 0
  /\ caller = [t \in AllThreads |-> "idle"]
  /\ early = {}
  /\ ran = <<>>

-----------------------------------------------------------------------------
(* The interface any thread may call.                                      *)

\* A thread can call into the loop when it runs code of its own: the loop
\* thread when it is outside loop() or in a callback, the others always.
CanCall(t) ==
  /\ caller[t] = "idle"
  /\ isInLoopThread(t) => pc = "idle" \/ callback # NoCallback

\* An eventfd write adds to the counter; a write that would overflow it fails
\* with EAGAIN, which wakeup() only logs.
wakeup == wakeupFd_' = IF wakeupFd_ < MaxCounter THEN wakeupFd_ + 1 ELSE wakeupFd_

\* queueInLoop up to the unlock of mutex_.
queueInLoop(t, f) ==
  /\ CanCall(t)
  /\ f \notin Handed
  /\ pendingFunctors_' = Append(pendingFunctors_, f)
  /\ caller' = [caller EXCEPT ![t] = "queued"]
  /\ early' = IF isInLoopThread(t) /\ pc = "idle" THEN early \cup {f} ELSE early
  /\ UNCHANGED <<pc, looping_, quit_, callingPendingFunctors_, functors,
                 activeChannels_, callback, wakeupFd_, ran>>

\* A faulty queueInLoop that does not wake the loop for a functor queued by a
\* functor, and one that wakes it only for such functors.
queueInLoopWakeup_ForeignOnly(t) ==
  /\ caller[t] = "queued"
  /\ caller' = [caller EXCEPT ![t] = "idle"]
  /\ IF ~isInLoopThread(t) THEN wakeup ELSE UNCHANGED wakeupFd_
  /\ UNCHANGED <<pc, looping_, quit_, callingPendingFunctors_, pendingFunctors_,
                 functors, activeChannels_, callback, early, ran>>

queueInLoopWakeup_OwnOnly(t) ==
  /\ caller[t] = "queued"
  /\ caller' = [caller EXCEPT ![t] = "idle"]
  /\ IF isInLoopThread(t) /\ callingPendingFunctors_ THEN wakeup ELSE UNCHANGED wakeupFd_
  /\ UNCHANGED <<pc, looping_, quit_, callingPendingFunctors_, pendingFunctors_,
                 functors, activeChannels_, callback, early, ran>>

\* The rest of queueInLoop: wake the loop unless this is the loop thread and
\* it is going to look at pendingFunctors_ anyway.
queueInLoopWakeup(t) ==
  /\ caller[t] = "queued"
  /\ caller' = [caller EXCEPT ![t] = "idle"]
  /\ IF ~isInLoopThread(t) \/ callingPendingFunctors_
       THEN wakeup
       ELSE UNCHANGED wakeupFd_
  /\ UNCHANGED <<pc, looping_, quit_, callingPendingFunctors_, pendingFunctors_,
                 functors, activeChannels_, callback, early, ran>>

\* runInLoop: at once in the loop thread, otherwise through the queue.
runInLoop(t, f) ==
  \/ ~isInLoopThread(t) /\ queueInLoop(t, f)
  \/ /\ isInLoopThread(t)
     /\ CanCall(t)
     /\ f \notin Handed
     /\ ran' = Append(ran, f)
     /\ UNCHANGED <<pc, looping_, quit_, callingPendingFunctors_, pendingFunctors_,
                    functors, activeChannels_, callback, wakeupFd_, caller, early>>

\* A faulty quit that leaves a loop blocked in poll asleep.
quit_NoWakeup(t) ==
  /\ CanCall(t)
  /\ quit_' = TRUE
  /\ UNCHANGED <<pc, looping_, callingPendingFunctors_, pendingFunctors_, functors,
                 activeChannels_, callback, wakeupFd_, caller, early, ran>>

\* quit: the flag and the wakeup, both under mutex_.
quit(t) ==
  /\ CanCall(t)
  /\ quit_' = TRUE
  /\ IF isInLoopThread(t) THEN UNCHANGED wakeupFd_ ELSE wakeup
  /\ UNCHANGED <<pc, looping_, callingPendingFunctors_, pendingFunctors_, functors,
                 activeChannels_, callback, caller, early, ran>>

-----------------------------------------------------------------------------
(* The loop thread in loop().                                              *)

\* Entering loop(): the flag of a quit() that came earlier is overwritten.
loop ==
  /\ pc = "idle"
  /\ caller[LoopThread] = "idle"
  /\ ~looping_
  /\ looping_' = TRUE
  /\ quit_' = FALSE
  /\ pc' = "check"
  /\ UNCHANGED <<callingPendingFunctors_, pendingFunctors_, functors, activeChannels_,
                 callback, wakeupFd_, caller, early, ran>>

\* The head of the while loop.
CheckQuit ==
  /\ pc = "check"
  /\ IF quit_ THEN pc' = "idle" /\ looping_' = FALSE
              ELSE pc' = "poll" /\ UNCHANGED looping_
  /\ activeChannels_' = {}
  /\ UNCHANGED <<quit_, callingPendingFunctors_, pendingFunctors_, functors, callback,
                 wakeupFd_, caller, early, ran>>

\* poll returns because descriptors are ready: any of the I/O channels, and
\* the wakeup channel exactly when its counter is not zero.
PollReady(ready) ==
  /\ pc = "poll"
  /\ activeChannels_' = ready \cup (IF wakeupFd_ > 0 THEN {WakeupChannel} ELSE {})
  /\ activeChannels_' # {}
  /\ pc' = "events"
  /\ UNCHANGED <<looping_, quit_, callingPendingFunctors_, pendingFunctors_, functors,
                 callback, wakeupFd_, caller, early, ran>>

\* poll returns with nothing: kPollTimeMs is over, or a signal interrupts it.
PollNothing ==
  /\ pc = "poll"
  /\ activeChannels_' = {}
  /\ pc' = "events"
  /\ UNCHANGED <<looping_, quit_, callingPendingFunctors_, pendingFunctors_, functors,
                 callback, wakeupFd_, caller, early, ran>>

\* The next active channel's handleEvent: the wakeup channel reads the
\* eventfd, which resets its counter; an I/O channel starts a callback.
HandleEvent(ch) ==
  /\ pc = "events"
  /\ callback = NoCallback
  /\ ch \in activeChannels_
  /\ activeChannels_' = activeChannels_ \ {ch}
  /\ IF ch = WakeupChannel THEN wakeupFd_' = 0 /\ UNCHANGED callback
                           ELSE callback' = ch /\ UNCHANGED wakeupFd_
  /\ UNCHANGED <<pc, looping_, quit_, callingPendingFunctors_, pendingFunctors_,
                 functors, caller, early, ran>>

\* A callback returns to handleEvent or to doPendingFunctors.
CallbackReturns ==
  /\ callback # NoCallback
  /\ caller[LoopThread] = "idle"
  /\ callback' = NoCallback
  /\ UNCHANGED <<pc, looping_, quit_, callingPendingFunctors_, pendingFunctors_,
                 functors, activeChannels_, wakeupFd_, caller, early, ran>>

\* A faulty doPendingFunctors that copies the shared vector instead of
\* swapping it with an empty one.
SwapFunctors_Copy ==
  /\ pc = "events"
  /\ callback = NoCallback
  /\ activeChannels_ = {}
  /\ callingPendingFunctors_' = TRUE
  /\ functors' = pendingFunctors_
  /\ pc' = "functors"
  /\ UNCHANGED <<looping_, quit_, pendingFunctors_, activeChannels_, callback,
                 wakeupFd_, caller, early, ran>>

\* doPendingFunctors up to the unlock: take the whole queue.
SwapFunctors ==
  /\ pc = "events"
  /\ callback = NoCallback
  /\ activeChannels_ = {}
  /\ callingPendingFunctors_' = TRUE
  /\ functors' = pendingFunctors_
  /\ pendingFunctors_' = <<>>
  /\ pc' = "functors"
  /\ UNCHANGED <<looping_, quit_, activeChannels_, callback, wakeupFd_, caller,
                 early, ran>>

\* The for loop of doPendingFunctors calls its next functor.
RunFunctor ==
  /\ pc = "functors"
  /\ callback = NoCallback
  /\ functors # <<>>
  /\ callback' = Head(functors)
  /\ functors' = Tail(functors)
  /\ ran' = Append(ran, Head(functors))
  /\ UNCHANGED <<pc, looping_, quit_, callingPendingFunctors_, pendingFunctors_,
                 activeChannels_, wakeupFd_, caller, early>>

\* A faulty loop that looks at quit_ only once, before its first iteration.
EndFunctors_NoCheck ==
  /\ pc = "functors"
  /\ callback = NoCallback
  /\ functors = <<>>
  /\ callingPendingFunctors_' = FALSE
  /\ pc' = "poll"
  /\ UNCHANGED <<looping_, quit_, pendingFunctors_, functors, activeChannels_,
                 callback, wakeupFd_, caller, early, ran>>

\* The end of doPendingFunctors and of the iteration.
EndFunctors ==
  /\ pc = "functors"
  /\ callback = NoCallback
  /\ functors = <<>>
  /\ callingPendingFunctors_' = FALSE
  /\ pc' = "check"
  /\ UNCHANGED <<looping_, quit_, pendingFunctors_, functors, activeChannels_,
                 callback, wakeupFd_, caller, early, ran>>

-----------------------------------------------------------------------------

LoopStep ==
  \/ loop
  \/ CheckQuit
  \/ \E ready \in SUBSET Channels : PollReady(ready)
  \/ PollNothing
  \/ \E ch \in Channels \cup {WakeupChannel} : HandleEvent(ch)
  \/ CallbackReturns
  \/ SwapFunctors
  \/ RunFunctor
  \/ EndFunctors

ClientStep(t) ==
  \/ \E f \in Functors : queueInLoop(t, f) \/ runInLoop(t, f)
  \/ queueInLoopWakeup(t)
  \/ quit(t)

Next == LoopStep \/ \E t \in AllThreads : ClientStep(t)

Spec == Init /\ [][Next]_vars

(***************************************************************************)
(* Fairness.  The loop thread keeps going once it is in loop(), its        *)
(* callbacks return, and a thread inside queueInLoop finishes the call.    *)
(* Nobody is obliged to call anything, no I/O need ever arrive, and poll's *)
(* time-out is not relied upon: poll has to return only when the eventfd   *)
(* is readable.                                                            *)
(***************************************************************************)
Fairness ==
  /\ WF_vars(CheckQuit)
  /\ WF_vars(wakeupFd_ > 0 /\ \E ready \in SUBSET Channels : PollReady(ready))
  /\ WF_vars(\E ch \in Channels \cup {WakeupChannel} : HandleEvent(ch))
  /\ WF_vars(CallbackReturns)
  /\ WF_vars(SwapFunctors)
  /\ WF_vars(RunFunctor)
  /\ WF_vars(EndFunctors)
  /\ \A t \in AllThreads : WF_vars(queueInLoopWakeup(t))

FairSpec == Spec /\ Fairness

-----------------------------------------------------------------------------
(* Properties.                                                             *)

\* The values the loop's members take; the eventfd's counter never passes its
\* maximum, although wakeup() adds to it unread (EventLoop.cc:184-190).
TypeOK ==
  /\ pc \in {"idle", "check", "poll", "events", "functors"}
  /\ looping_ \in BOOLEAN
  /\ quit_ \in BOOLEAN
  /\ callingPendingFunctors_ \in BOOLEAN
  /\ pendingFunctors_ \in Seq(Functors)
  /\ functors \in Seq(Functors)
  /\ activeChannels_ \in SUBSET (Channels \cup {WakeupChannel})
  /\ callback \in Channels \cup Functors \cup {NoCallback}
  /\ wakeupFd_ \in 0..MaxCounter
  /\ caller \in [AllThreads -> {"idle", "queued"}]
  /\ early \in SUBSET Functors
  /\ ran \in Seq(Functors)

\* A thread that has pushed a functor and has yet to write the eventfd.
WakeupOnTheWay ==
  \/ \E t \in Threads : caller[t] = "queued"
  \/ caller[LoopThread] = "queued" /\ callingPendingFunctors_

\* A functor is waiting that was not queued by the loop thread outside loop().
LateFunctorPending == \E i \in DOMAIN pendingFunctors_ : pendingFunctors_[i] \notin early

\* No lost wakeup (EventLoop.cc:127-135 against 92-106): the loop never blocks
\* in poll over a functor or a quit request unless the eventfd is readable or
\* the thread that brought the work is about to make it so.
NoLostWakeup ==
  pc = "poll" /\ (quit_ \/ LateFunctorPending)
    => wakeupFd_ > 0 \/ (~quit_ /\ WakeupOnTheWay)

\* A functor runs at most once (doPendingFunctors, EventLoop.cc:200-211): none
\* is in the batch again, or still in the shared queue, once it was started.
RunsAtMostOnce ==
  /\ \A i, j \in DOMAIN ran : ran[i] = ran[j] => i = j
  /\ Range(ran) \cap (Range(functors) \cup Range(pendingFunctors_)) = {}

\* What clients see of the loop: the batch being run and the shared queue are one.
Promised == INSTANCE FunctorQueue WITH queue <- functors \o pendingFunctors_

\* The loop implements the queue its clients are promised: functors start in the
\* order they were handed over, though the loop takes them in batches that it swaps
\* out while other threads push (EventLoop.cc:127-135, 192-212).
ImplementsFunctorQueue == Promised!Spec

\* A quit() that finds the loop running makes loop() return (EventLoop.cc:111),
\* without the help of poll's time-out.
QuitEndsLoop == quit_ /\ looping_ ~> ~looping_

\* A functor queued while the loop runs is run, unless the loop is told to quit,
\* without the help of poll's time-out (EventLoop.cc:127-135, 200-211).
QueuedFunctorRuns ==
  \A f \in Functors :
    looping_ /\ f \in Range(pendingFunctors_) \ early ~> f \in Range(ran) \/ quit_
=============================================================================
