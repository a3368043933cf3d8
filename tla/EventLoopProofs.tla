-------------------------- MODULE EventLoopProofs ---------------------------
(***************************************************************************)
(* Proofs about EventLoop for any number of threads, functors and channels *)
(* and any eventfd limit: its type invariant, that no wakeup is lost, that *)
(* no functor runs twice, and that it implements FunctorQueue; and, of the *)
(* EventLoopThread around it, that nothing is used after it is gone.       *)
(***************************************************************************)
EXTENDS EventLoopThread, TLAPS

(***************************************************************************)
(* Sequences as the proofs use them.                                       *)
(***************************************************************************)

\* The elements of a queue after a push_back.
LEMMA RangeOfAppend ==
  ASSUME NEW S, NEW s \in Seq(S), NEW e \in S
  PROVE  Range(Append(s, e)) = Range(s) \cup {e}
<1>1. \A x : x \in Range(Append(s, e)) => x \in Range(s) \cup {e}
  BY DEF Range
<1>2. \A x \in Range(s) : x \in Range(Append(s, e))
  <2> SUFFICES ASSUME NEW i \in DOMAIN s
               PROVE  s[i] \in Range(Append(s, e))
    BY DEF Range
  <2>1. i \in DOMAIN Append(s, e) /\ Append(s, e)[i] = s[i]
    OBVIOUS
  <2> QED BY <2>1 DEF Range
<1>3. e \in Range(Append(s, e))
  <2>1. Len(s) + 1 \in DOMAIN Append(s, e) /\ Append(s, e)[Len(s) + 1] = e
    OBVIOUS
  <2> QED BY <2>1 DEF Range
<1> QED BY <1>1, <1>2, <1>3

\* A queue is its oldest element and the rest.
LEMMA RangeOfHeadTail ==
  ASSUME NEW S, NEW s \in Seq(S), s # <<>>
  PROVE  /\ Head(s) \in S
         /\ Tail(s) \in Seq(S)
         /\ Range(s) = {Head(s)} \cup Range(Tail(s))
<1>1. Head(s) \in S /\ Tail(s) \in Seq(S) /\ Len(s) >= 1
  OBVIOUS
<1>2. Len(Tail(s)) = Len(s) - 1 /\ \A i \in 1..(Len(s) - 1) : Tail(s)[i] = s[i + 1]
  OBVIOUS
<1>3. \A x : x \in Range(s) => x \in {Head(s)} \cup Range(Tail(s))
  <2> SUFFICES ASSUME NEW i \in 1..Len(s)
               PROVE  s[i] = Head(s) \/ s[i] \in Range(Tail(s))
    BY DEF Range
  <2>1. CASE i = 1
    BY <2>1
  <2>2. CASE i # 1
    <3>1. i - 1 \in DOMAIN Tail(s) /\ Tail(s)[i - 1] = s[i]
      BY <1>1, <1>2, <2>2
    <3> QED BY <3>1 DEF Range
  <2> QED BY <2>1, <2>2
<1>4. Head(s) \in Range(s)
  <2>1. 1 \in DOMAIN s /\ s[1] = Head(s)
    BY <1>1
  <2> QED BY <2>1 DEF Range
<1>5. \A x : x \in Range(Tail(s)) => x \in Range(s)
  <2> SUFFICES ASSUME NEW i \in DOMAIN Tail(s)
               PROVE  Tail(s)[i] \in Range(s)
    BY DEF Range
  <2>1. i \in 1..(Len(s) - 1)
    BY <1>1, <1>2
  <2>2. i + 1 \in DOMAIN s /\ s[i + 1] = Tail(s)[i]
    BY <1>1, <1>2, <2>1
  <2> QED BY <2>2 DEF Range
<1> QED BY <1>1, <1>3, <1>4, <1>5

\* The elements of two queues one after the other.
LEMMA RangeOfConcat ==
  ASSUME NEW S, NEW s \in Seq(S), NEW t \in Seq(S)
  PROVE  /\ s \o t \in Seq(S)
         /\ Range(s \o t) = Range(s) \cup Range(t)
<1>1. \A x : x \in Range(s \o t) => x \in Range(s) \cup Range(t)
  <2> SUFFICES ASSUME NEW i \in 1..(Len(s) + Len(t))
               PROVE  (s \o t)[i] \in Range(s) \cup Range(t)
    BY DEF Range
  <2>1. CASE i <= Len(s)
    <3>1. i \in DOMAIN s /\ (s \o t)[i] = s[i]
      BY <2>1
    <3> QED BY <3>1 DEF Range
  <2>2. CASE i > Len(s)
    <3>1. i - Len(s) \in DOMAIN t /\ (s \o t)[i] = t[i - Len(s)]
      BY <2>2
    <3> QED BY <3>1 DEF Range
  <2> QED BY <2>1, <2>2
<1>2. \A x : x \in Range(s) => x \in Range(s \o t)
  <2> SUFFICES ASSUME NEW i \in DOMAIN s
               PROVE  s[i] \in Range(s \o t)
    BY DEF Range
  <2>1. i \in DOMAIN (s \o t) /\ (s \o t)[i] = s[i]
    OBVIOUS
  <2> QED BY <2>1 DEF Range
<1>3. \A x : x \in Range(t) => x \in Range(s \o t)
  <2> SUFFICES ASSUME NEW i \in DOMAIN t
               PROVE  t[i] \in Range(s \o t)
    BY DEF Range
  <2>1. Len(s) + i \in DOMAIN (s \o t) /\ (s \o t)[Len(s) + i] = t[i]
    OBVIOUS
  <2> QED BY <2>1 DEF Range
<1> QED BY <1>1, <1>2, <1>3

(***************************************************************************)
(* runInLoop queues the functor or runs it on the spot.                    *)
(***************************************************************************)

loopvars == <<pc, looping_, quit_, callingPendingFunctors_, pendingFunctors_, functors,
              activeChannels_, callback, wakeupFd_, caller, early>>

\* runInLoop is either an immediate call or a queueInLoop (EventLoop.cc:119-125).
LEMMA RunInLoopCases ==
  ASSUME NEW t, NEW f, runInLoop(t, f)
  PROVE  \/ queueInLoop(t, f)
         \/ f \notin Handed /\ ran' = Append(ran, f) /\ UNCHANGED loopvars
BY Zenon DEF runInLoop, loopvars

(***************************************************************************)
(* Type correctness.                                                       *)
(***************************************************************************)

\* The state the constructor leaves is well typed.
LEMMA TypeInit == Init => TypeOK
<1> SUFFICES ASSUME Init PROVE TypeOK
  OBVIOUS
<1>1. caller \in [AllThreads -> {"idle", "queued"}]
  BY Zenon DEF Init
<1>2. 0 \in 0..MaxCounter
  BY LoopAssumption
<1>3. <<>> \in Seq(Functors)
  OBVIOUS
<1> QED BY <1>1, <1>2, <1>3, Zenon DEF Init, TypeOK

\* Every step preserves the types.
LEMMA TypeStep == TypeOK /\ [Next]_vars => TypeOK'
<1> SUFFICES ASSUME TypeOK, [Next]_vars
             PROVE  TypeOK'
  OBVIOUS
<1> USE LoopAssumption DEF TypeOK
<1>1. CASE loop
  BY <1>1 DEF loop
<1>2. CASE CheckQuit
  BY <1>2 DEF CheckQuit
<1>3. ASSUME NEW ready \in SUBSET Channels, PollReady(ready)
      PROVE  TypeOK'
  BY <1>3 DEF PollReady
<1>4. CASE PollNothing
  BY <1>4 DEF PollNothing
<1>5. ASSUME NEW ch \in Channels \cup {WakeupChannel}, HandleEvent(ch)
      PROVE  TypeOK'
  BY <1>5 DEF HandleEvent
<1>6. CASE CallbackReturns
  BY <1>6 DEF CallbackReturns
<1>7. CASE SwapFunctors
  BY <1>7 DEF SwapFunctors
<1>8. CASE RunFunctor
  <2>1. Head(functors) \in Functors /\ Tail(functors) \in Seq(Functors)
    BY <1>8, RangeOfHeadTail DEF RunFunctor
  <2> QED BY <1>8, <2>1 DEF RunFunctor
<1>9. CASE EndFunctors
  BY <1>9 DEF EndFunctors
<1>10. ASSUME NEW t \in AllThreads, NEW f \in Functors, queueInLoop(t, f)
       PROVE  TypeOK'
  BY <1>10 DEF queueInLoop
<1>11. ASSUME NEW t \in AllThreads, NEW f \in Functors, runInLoop(t, f)
       PROVE  TypeOK'
  <2>1. CASE queueInLoop(t, f)
    BY <1>10, <2>1
  <2>2. CASE ran' = Append(ran, f) /\ UNCHANGED loopvars
    BY <2>2 DEF loopvars
  <2> QED BY <1>11, <2>1, <2>2, RunInLoopCases
<1>12. ASSUME NEW t \in AllThreads, queueInLoopWakeup(t)
       PROVE  TypeOK'
  BY <1>12 DEF queueInLoopWakeup, wakeup
<1>13. ASSUME NEW t \in AllThreads, quit(t)
       PROVE  TypeOK'
  BY <1>13 DEF quit, wakeup
<1>14. CASE UNCHANGED vars
  BY <1>14 DEF vars
<1> QED
  BY <1>1, <1>2, <1>3, <1>4, <1>5, <1>6, <1>7, <1>8, <1>9, <1>10, <1>11, <1>12,
     <1>13, <1>14 DEF Next, LoopStep, ClientStep

\* Type correctness: in particular the eventfd counter stays within its limit
\* although no caller of wakeup() looks at it first (EventLoop.cc:184-190).
THEOREM TypeCorrect == Spec => []TypeOK
BY TypeInit, TypeStep, PTL DEF Spec

(***************************************************************************)
(* No lost wakeup.  NoLostWakeup speaks of a loop blocked in poll; what    *)
(* makes it true is settled earlier, between the swap of doPendingFunctors *)
(* and the next poll, so the invariant follows the loop thread through     *)
(* these steps.  A wakeup may still be owed by a thread that has unlocked  *)
(* mutex_; when that is the loop thread itself, it is inside a functor.    *)
(***************************************************************************)

\* What the control point says about the flags and about the loop thread.
ControlInv ==
  /\ callingPendingFunctors_ = (pc = "functors")
  /\ callback # NoCallback => pc \in {"events", "functors"}
  /\ functors # <<>> => pc = "functors"
  /\ caller[LoopThread] = "queued" => pc = "idle" \/ callback # NoCallback

\* From the swap on, a functor in the shared queue has its wakeup.
FunctorSignalled ==
  pc # "events" /\ LateFunctorPending => wakeupFd_ > 0 \/ WakeupOnTheWay

\* A quit that arrives after the loop looked at quit_ has its wakeup.
QuitSignalled == pc = "poll" /\ quit_ => wakeupFd_ > 0

WakeupInv == TypeOK /\ ControlInv /\ FunctorSignalled /\ QuitSignalled

\* Every step preserves what the loop's position says of callingPendingFunctors_.
LEMMA ControlStep == TypeOK /\ ControlInv /\ [Next]_vars => ControlInv'
<1> SUFFICES ASSUME TypeOK, ControlInv, [Next]_vars
             PROVE  ControlInv'
  OBVIOUS
<1> USE LoopAssumption DEF TypeOK, ControlInv
<1>1. CASE loop
  BY <1>1 DEF loop
<1>2. CASE CheckQuit
  BY <1>2 DEF CheckQuit
<1>3. ASSUME NEW ready \in SUBSET Channels, PollReady(ready)
      PROVE  ControlInv'
  BY <1>3 DEF PollReady
<1>4. CASE PollNothing
  BY <1>4 DEF PollNothing
<1>5. ASSUME NEW ch \in Channels \cup {WakeupChannel}, HandleEvent(ch)
      PROVE  ControlInv'
  BY <1>5 DEF HandleEvent
<1>6. CASE CallbackReturns
  BY <1>6 DEF CallbackReturns
<1>7. CASE SwapFunctors
  BY <1>7 DEF SwapFunctors
<1>8. CASE RunFunctor
  <2>1. Head(functors) # NoCallback
    BY <1>8, RangeOfHeadTail DEF RunFunctor
  <2> QED BY <1>8, <2>1 DEF RunFunctor
<1>9. CASE EndFunctors
  BY <1>9 DEF EndFunctors
<1>10. ASSUME NEW t \in AllThreads, NEW f \in Functors, queueInLoop(t, f)
       PROVE  ControlInv'
  BY <1>10 DEF queueInLoop, CanCall, isInLoopThread
<1>11. ASSUME NEW t \in AllThreads, NEW f \in Functors, runInLoop(t, f)
       PROVE  ControlInv'
  <2>1. CASE UNCHANGED loopvars
    BY <2>1 DEF loopvars
  <2> QED BY <1>10, <1>11, <2>1, RunInLoopCases
<1>12. ASSUME NEW t \in AllThreads, queueInLoopWakeup(t)
       PROVE  ControlInv'
  BY <1>12 DEF queueInLoopWakeup, AllThreads
<1>13. ASSUME NEW t \in AllThreads, quit(t)
       PROVE  ControlInv'
  BY <1>13 DEF quit
<1>14. CASE UNCHANGED vars
  BY <1>14 DEF vars
<1> QED
  BY <1>1, <1>2, <1>3, <1>4, <1>5, <1>6, <1>7, <1>8, <1>9, <1>10, <1>11, <1>12,
     <1>13, <1>14 DEF Next, LoopStep, ClientStep

\* wakeup() leaves the eventfd readable, whatever its counter was.
LEMMA WakeupMakesReadable == TypeOK /\ wakeup => wakeupFd_' > 0
BY LoopAssumption DEF TypeOK, wakeup

\* Every step preserves: a queued functor the loop will not reach by itself has
\* its wakeup on the way (EventLoop.cc:127-135).
LEMMA FunctorSignalledStep == WakeupInv /\ [Next]_vars => FunctorSignalled'
<1> SUFFICES ASSUME WakeupInv, [Next]_vars, pc' # "events", LateFunctorPending'
             PROVE  (wakeupFd_ > 0 \/ WakeupOnTheWay)'
  BY DEF FunctorSignalled
<1> DEFINE Signalled == wakeupFd_ > 0 \/ WakeupOnTheWay
<1> USE LoopAssumption DEF WakeupInv, ControlInv, FunctorSignalled
<1> USE DEF TypeOK
<1>1. CASE loop
  BY <1>1 DEF loop, LateFunctorPending, WakeupOnTheWay
<1>2. CASE CheckQuit
  BY <1>2 DEF CheckQuit, LateFunctorPending, WakeupOnTheWay
<1>3. ASSUME NEW ready \in SUBSET Channels, PollReady(ready)
      PROVE  Signalled'
  BY <1>3 DEF PollReady
<1>4. CASE PollNothing
  BY <1>4 DEF PollNothing
<1>5. ASSUME NEW ch \in Channels \cup {WakeupChannel}, HandleEvent(ch)
      PROVE  Signalled'
  BY <1>5 DEF HandleEvent
<1>6. CASE CallbackReturns
  BY <1>6 DEF CallbackReturns, LateFunctorPending, WakeupOnTheWay
<1>7. CASE SwapFunctors
  BY <1>7 DEF SwapFunctors, LateFunctorPending
<1>8. CASE RunFunctor
  BY <1>8 DEF RunFunctor, LateFunctorPending, WakeupOnTheWay
<1>9. CASE EndFunctors
  BY <1>9 DEF EndFunctors, LateFunctorPending, WakeupOnTheWay
<1>10. ASSUME NEW t \in AllThreads, NEW f \in Functors, queueInLoop(t, f)
       PROVE  Signalled'
  <2>1. CASE t \in Threads
    <3>1. caller'[t] = "queued"
      BY <1>10 DEF queueInLoop
    <3> QED BY <2>1, <3>1 DEF WakeupOnTheWay
  <2>2. CASE t = LoopThread /\ pc = "functors"
    <3>1. caller'[LoopThread] = "queued" /\ callingPendingFunctors_'
      BY <1>10, <2>2 DEF queueInLoop
    <3> QED BY <3>1 DEF WakeupOnTheWay
  <2>3. CASE t = LoopThread /\ pc = "idle"
    <3>1. f \in early' /\ early \subseteq early' /\ pendingFunctors_' = Append(pendingFunctors_, f)
      BY <1>10, <2>3 DEF queueInLoop, isInLoopThread
    <3>2. LateFunctorPending
      <4>1. PICK i \in DOMAIN pendingFunctors_' : pendingFunctors_'[i] \notin early'
        BY DEF LateFunctorPending
      <4>2. i \in DOMAIN pendingFunctors_ /\ pendingFunctors_[i] = pendingFunctors_'[i]
        BY <3>1, <4>1
      <4> QED BY <3>1, <4>1, <4>2 DEF LateFunctorPending
    <3>3. Signalled
      BY <2>3, <3>2
    <3>4. UNCHANGED <<wakeupFd_, callingPendingFunctors_>> /\ \A u \in Threads : caller'[u] = caller[u]
      BY <1>10, <2>3 DEF queueInLoop, AllThreads
    <3> QED BY <2>3, <3>3, <3>4 DEF WakeupOnTheWay
  <2>4. t = LoopThread => pc \in {"idle", "functors"}
    BY <1>10 DEF queueInLoop, CanCall, isInLoopThread
  <2> QED BY <2>1, <2>2, <2>3, <2>4 DEF AllThreads
<1>11. ASSUME NEW t \in AllThreads, NEW f \in Functors, runInLoop(t, f)
       PROVE  Signalled'
  <2>1. CASE UNCHANGED loopvars
    BY <2>1 DEF loopvars, LateFunctorPending, WakeupOnTheWay
  <2> QED BY <1>10, <1>11, <2>1, RunInLoopCases
<1>12. ASSUME NEW t \in AllThreads, queueInLoopWakeup(t)
       PROVE  Signalled'
  <2>1. CASE wakeup
    BY <2>1, WakeupMakesReadable
  <2>2. CASE ~wakeup
    <3>1. t = LoopThread /\ ~callingPendingFunctors_ /\ UNCHANGED wakeupFd_
      BY <1>12, <2>2 DEF queueInLoopWakeup, isInLoopThread
    <3>2. LateFunctorPending /\ pc # "events"
      BY <1>12 DEF queueInLoopWakeup, LateFunctorPending
    <3>3. \A u \in Threads : caller'[u] = caller[u]
      BY <1>12, <3>1 DEF queueInLoopWakeup, AllThreads
    <3> QED BY <3>1, <3>2, <3>3 DEF WakeupOnTheWay
  <2> QED BY <2>1, <2>2
<1>13. ASSUME NEW t \in AllThreads, quit(t)
       PROVE  Signalled'
  <2>1. CASE wakeup
    BY <2>1, WakeupMakesReadable
  <2>2. CASE UNCHANGED wakeupFd_
    BY <1>13, <2>2 DEF quit, LateFunctorPending, WakeupOnTheWay
  <2> QED BY <1>13, <2>1, <2>2 DEF quit
<1>14. CASE UNCHANGED vars
  BY <1>14 DEF vars, LateFunctorPending, WakeupOnTheWay
<1> QED
  BY <1>1, <1>2, <1>3, <1>4, <1>5, <1>6, <1>7, <1>8, <1>9, <1>10, <1>11, <1>12,
     <1>13, <1>14 DEF Next, LoopStep, ClientStep

\* Every step preserves: a quit_ the loop has not seen has its wakeup on the way
\* (EventLoop.cc:111-117).
LEMMA QuitSignalledStep == WakeupInv /\ [Next]_vars => QuitSignalled'
<1> SUFFICES ASSUME WakeupInv, [Next]_vars, pc' = "poll", quit_'
             PROVE  wakeupFd_' > 0
  BY DEF QuitSignalled
<1> USE LoopAssumption DEF WakeupInv, TypeOK, ControlInv, QuitSignalled
<1>1. CASE LoopStep
  BY <1>1 DEF LoopStep, loop, CheckQuit, PollReady, PollNothing, HandleEvent,
     CallbackReturns, SwapFunctors, RunFunctor, EndFunctors
<1>2. ASSUME NEW t \in AllThreads, NEW f \in Functors, queueInLoop(t, f)
      PROVE  wakeupFd_' > 0
  BY <1>2 DEF queueInLoop
<1>3. ASSUME NEW t \in AllThreads, NEW f \in Functors, runInLoop(t, f)
      PROVE  wakeupFd_' > 0
  BY <1>2, <1>3, RunInLoopCases DEF loopvars
<1>4. ASSUME NEW t \in AllThreads, queueInLoopWakeup(t)
      PROVE  wakeupFd_' > 0
  BY <1>4 DEF queueInLoopWakeup, wakeup
<1>5. ASSUME NEW t \in AllThreads, quit(t)
      PROVE  wakeupFd_' > 0
  <2>1. pc = "poll" /\ callback = NoCallback
    BY <1>5 DEF quit
  <2>2. ~isInLoopThread(t)
    BY <1>5, <2>1 DEF quit, CanCall
  <2> QED BY <1>5, <2>2, WakeupMakesReadable DEF quit
<1>6. CASE UNCHANGED vars
  BY <1>6 DEF vars
<1> QED
  BY <1>1, <1>2, <1>3, <1>4, <1>5, <1>6 DEF Next, ClientStep

\* WakeupInv is an invariant: it holds at first and no step breaks it.
LEMMA WakeupInvInductive == Spec => []WakeupInv
<1>1. Init => WakeupInv
  <2> SUFFICES ASSUME Init PROVE ControlInv /\ FunctorSignalled /\ QuitSignalled
    BY TypeInit DEF WakeupInv
  <2>1. caller[LoopThread] = "idle"
    BY Zenon DEF Init, AllThreads
  <2>2. ~LateFunctorPending
    BY DEF Init, LateFunctorPending
  <2>3. ControlInv
    BY <2>1, Zenon DEF Init, ControlInv
  <2> QED
    BY <2>2, <2>3 DEF Init, FunctorSignalled, QuitSignalled
<1>2. WakeupInv /\ [Next]_vars => WakeupInv'
  BY TypeStep, ControlStep, FunctorSignalledStep, QuitSignalledStep DEF WakeupInv
<1> QED BY <1>1, <1>2, PTL DEF Spec

\* No lost wakeup: whatever the interleaving of the threads that queue functors
\* or call quit() with the loop, the loop never blocks in poll over work that
\* nobody will wake it for (EventLoop.cc:86-135).
THEOREM NoWakeupIsLost == Spec => []NoLostWakeup
<1>1. WakeupInv => NoLostWakeup
  BY DEF WakeupInv, FunctorSignalled, QuitSignalled, NoLostWakeup
<1> QED BY <1>1, WakeupInvInductive, PTL

(***************************************************************************)
(* At most once.  A functor is in one place only: in the shared queue, in  *)
(* the batch being run, or among those that ran, and there only once.      *)
(***************************************************************************)

Distinct(s) == \A i, j \in DOMAIN s : s[i] = s[j] => i = j

OncePlaced ==
  /\ Distinct(ran)
  /\ Distinct(functors)
  /\ Distinct(pendingFunctors_)
  /\ Range(ran) \cap Range(functors) = {}
  /\ Range(ran) \cap Range(pendingFunctors_) = {}
  /\ Range(functors) \cap Range(pendingFunctors_) = {}

\* A new functor pushed to a queue of distinct functors leaves it so.
LEMMA DistinctAppend ==
  ASSUME NEW S, NEW s \in Seq(S), NEW e \in S, Distinct(s), e \notin Range(s)
  PROVE  Distinct(Append(s, e))
<1>1. \A i \in 1..Len(s) : s[i] # e
  BY DEF Range
<1> QED BY <1>1 DEF Distinct

\* Running the oldest functor of a queue of distinct ones removes it from the queue.
LEMMA DistinctTail ==
  ASSUME NEW S, NEW s \in Seq(S), s # <<>>, Distinct(s)
  PROVE  Distinct(Tail(s)) /\ Head(s) \notin Range(Tail(s))
<1>1. /\ Len(s) >= 1
      /\ Len(Tail(s)) = Len(s) - 1
      /\ DOMAIN Tail(s) = 1..(Len(s) - 1)
      /\ \A i \in 1..(Len(s) - 1) : Tail(s)[i] = s[i + 1]
  OBVIOUS
<1>2. ASSUME NEW i \in DOMAIN Tail(s), NEW j \in DOMAIN Tail(s), Tail(s)[i] = Tail(s)[j]
      PROVE  i = j
  <2>1. s[i + 1] = s[j + 1] /\ i + 1 \in DOMAIN s /\ j + 1 \in DOMAIN s
    BY <1>1, <1>2
  <2>2. i + 1 = j + 1
    BY <2>1 DEF Distinct
  <2> QED BY <1>1, <2>2
<1>3. ASSUME NEW i \in DOMAIN Tail(s), Tail(s)[i] = Head(s)
      PROVE  FALSE
  <2>1. s[i + 1] = s[1] /\ i + 1 \in DOMAIN s /\ 1 \in DOMAIN s /\ i >= 1
    BY <1>1, <1>3
  <2>2. i + 1 = 1
    BY <2>1 DEF Distinct
  <2> QED BY <1>1, <2>1, <2>2
<1> QED BY <1>2, <1>3 DEF Distinct, Range

\* The empty queue holds nothing, and nothing twice.
LEMMA EmptyIsDistinct == Distinct(<<>>) /\ Range(<<>>) = {}
BY DEF Distinct, Range

\* Every step preserves: a functor is in one place at most.
LEMMA OncePlacedStep == TypeOK /\ OncePlaced /\ [Next]_vars => OncePlaced'
<1> SUFFICES ASSUME TypeOK, OncePlaced, [Next]_vars
             PROVE  OncePlaced'
  OBVIOUS
<1>1. CASE UNCHANGED <<ran, functors, pendingFunctors_>>
  BY <1>1 DEF OncePlaced
<1>2. ASSUME NEW t \in AllThreads, NEW f \in Functors, queueInLoop(t, f)
      PROVE  OncePlaced'
  <2>1. /\ f \notin Handed
        /\ pendingFunctors_' = Append(pendingFunctors_, f)
        /\ UNCHANGED <<ran, functors>>
    BY <1>2 DEF queueInLoop
  <2>2. Distinct(pendingFunctors_') /\ Range(pendingFunctors_') = Range(pendingFunctors_) \cup {f}
    BY <2>1, DistinctAppend, RangeOfAppend DEF TypeOK, OncePlaced, Handed
  <2> QED BY <2>1, <2>2 DEF OncePlaced, Handed
<1>3. ASSUME NEW t \in AllThreads, NEW f \in Functors, runInLoop(t, f)
      PROVE  OncePlaced'
  <2>1. CASE f \notin Handed /\ ran' = Append(ran, f) /\ UNCHANGED loopvars
    <3>1. Distinct(ran') /\ Range(ran') = Range(ran) \cup {f}
      BY <2>1, DistinctAppend, RangeOfAppend DEF TypeOK, OncePlaced, Handed
    <3> QED BY <2>1, <3>1 DEF OncePlaced, Handed, loopvars
  <2> QED BY <1>2, <1>3, <2>1, RunInLoopCases
<1>4. CASE SwapFunctors
  <2>1. functors' = pendingFunctors_ /\ pendingFunctors_' = <<>> /\ UNCHANGED ran
    BY <1>4 DEF SwapFunctors
  <2> QED BY <2>1, EmptyIsDistinct DEF OncePlaced
<1>5. CASE RunFunctor
  <2>1. /\ functors # <<>>
        /\ functors' = Tail(functors)
        /\ ran' = Append(ran, Head(functors))
        /\ UNCHANGED pendingFunctors_
    BY <1>5 DEF RunFunctor
  <2>2. Head(functors) \in Functors /\ Range(functors) = {Head(functors)} \cup Range(functors')
    BY <2>1, RangeOfHeadTail DEF TypeOK
  <2>3. Distinct(functors') /\ Head(functors) \notin Range(functors')
    BY <2>1, DistinctTail DEF TypeOK, OncePlaced
  <2>4. Distinct(ran') /\ Range(ran') = Range(ran) \cup {Head(functors)}
    BY <2>1, <2>2, DistinctAppend, RangeOfAppend DEF TypeOK, OncePlaced
  <2> QED BY <2>1, <2>2, <2>3, <2>4 DEF OncePlaced
<1> QED
  BY <1>1, <1>2, <1>3, <1>4, <1>5
  DEF Next, LoopStep, ClientStep, loop, CheckQuit, PollReady, PollNothing, HandleEvent,
      CallbackReturns, EndFunctors, queueInLoopWakeup, quit, vars

\* A functor runs at most once, however the pushes of other threads interleave
\* with the swap and the for loop of doPendingFunctors (EventLoop.cc:200-211).
THEOREM NoFunctorRunsTwice == Spec => []RunsAtMostOnce
<1>1. Init => OncePlaced
  BY EmptyIsDistinct DEF Init, OncePlaced
<1>2. OncePlaced => RunsAtMostOnce
  BY DEF OncePlaced, RunsAtMostOnce, Distinct
<1> QED BY <1>1, <1>2, TypeCorrect, OncePlacedStep, PTL DEF Spec

(***************************************************************************)
(* The refinement of FunctorQueue: the batch of doPendingFunctors followed *)
(* by the shared queue is the abstract queue.  A push appends to it, a     *)
(* swap does not change it, and the for loop takes its head.               *)
(***************************************************************************)

\* A push to the second of two queues is a push to their concatenation.
LEMMA ConcatAppend ==
  ASSUME NEW S, NEW s \in Seq(S), NEW t \in Seq(S), NEW e \in S
  PROVE  s \o Append(t, e) = Append(s \o t, e)
OBVIOUS

\* The head of the first of two queues is the head of their concatenation.
LEMMA ConcatHeadTail ==
  ASSUME NEW S, NEW s \in Seq(S), NEW t \in Seq(S), s # <<>>
  PROVE  /\ s \o t # <<>>
         /\ Head(s \o t) = Head(s)
         /\ Tail(s \o t) = Tail(s) \o t
<1>1. Len(s) >= 1 /\ Tail(s) \in Seq(S) /\ Len(Tail(s)) = Len(s) - 1
  OBVIOUS
<1>2. s \o t # <<>> /\ Head(s \o t) = Head(s)
  BY <1>1
<1>3. Tail(s \o t) = Tail(s) \o t
  BY <1>1
<1> QED BY <1>2, <1>3

\* Every step of the loop or of a caller is a step of the abstract queue, or
\* leaves it as it is.
LEMMA StepRefines == TypeOK /\ ControlInv /\ [Next]_vars => [Promised!Next]_(Promised!qvars)
<1> SUFFICES ASSUME TypeOK, ControlInv, [Next]_vars
             PROVE  [Promised!Next]_(Promised!qvars)
  OBVIOUS
<1> DEFINE queue == functors \o pendingFunctors_
<1>a. pendingFunctors_ \in Seq(Functors) /\ functors \in Seq(Functors)
  BY DEF TypeOK
<1>b. Promised!Accepted = Handed
  <2>1. Range(queue) = Range(functors) \cup Range(pendingFunctors_)
    BY <1>a, RangeOfConcat
  <2>2. Promised!Accepted = Range(queue) \cup Range(ran)
    BY Zenon DEF Promised!Accepted, Promised!Range, Range
  <2> QED BY <2>1, <2>2 DEF Handed
<1>1. CASE UNCHANGED <<ran, functors, pendingFunctors_>>
  BY <1>1 DEF Promised!qvars
<1>2. ASSUME NEW t \in AllThreads, NEW f \in Functors, queueInLoop(t, f)
      PROVE  Promised!Next
  <2>1. queue' = Append(queue, f) /\ UNCHANGED ran /\ f \notin Handed
    BY <1>2, <1>a, ConcatAppend DEF queueInLoop
  <2> QED BY <1>b, <2>1 DEF Promised!Next, Promised!Post
<1>3. ASSUME NEW t \in AllThreads, NEW f \in Functors, runInLoop(t, f)
      PROVE  Promised!Next
  <2>1. CASE f \notin Handed /\ ran' = Append(ran, f) /\ UNCHANGED loopvars
    BY <1>b, <2>1 DEF Promised!Next, Promised!RunNow, loopvars
  <2> QED BY <1>2, <1>3, <2>1, RunInLoopCases
<1>4. CASE SwapFunctors
  <2>1. functors = <<>>
    BY <1>4 DEF SwapFunctors, ControlInv
  <2>2. queue' = queue /\ UNCHANGED ran
    BY <1>4, <1>a, <2>1 DEF SwapFunctors
  <2> QED BY <2>2 DEF Promised!qvars
<1>5. CASE RunFunctor
  <2>1. queue # <<>> /\ ran' = Append(ran, Head(queue)) /\ queue' = Tail(queue)
    BY <1>5, <1>a, ConcatHeadTail DEF RunFunctor
  <2> QED BY <2>1 DEF Promised!Next, Promised!RunOldest
<1> QED
  BY <1>1, <1>2, <1>3, <1>4, <1>5
  DEF Next, LoopStep, ClientStep, loop, CheckQuit, PollReady, PollNothing, HandleEvent,
      CallbackReturns, EndFunctors, queueInLoopWakeup, quit, vars

\* The EventLoop implements the queue its clients are promised: functors run one
\* at a time, in the order queueInLoop accepted them, each at most once, although
\* the loop takes them in batches while other threads push (EventLoop.cc:127-211).
THEOREM LoopImplementsQueue == Spec => ImplementsFunctorQueue
<1>1. Init => Promised!Init
  BY DEF Init, Promised!Init
<1>2. WakeupInv /\ [Next]_vars => [Promised!Next]_(Promised!qvars)
  BY StepRefines DEF WakeupInv
<1> QED
  BY <1>1, <1>2, WakeupInvInductive, PTL DEF Spec, ImplementsFunctorQueue, Promised!Spec

-----------------------------------------------------------------------------
(***************************************************************************)
(* EventLoopThread, which runs such a loop in a thread of its own.         *)
(***************************************************************************)

\* Where owner and thread can be until quit() is called early: the owner has the
\* pointer only between the publication of the loop and its own quit(), the loop returns only
\* after that, and the owner ends only before it has a thread or when the thread has ended.
Paired ==
  /\ faults = {}
  /\ alive <=> thread \in {"callback", "published", "looping", "unpublished"}
  /\ loop_ <=> thread \in {"published", "looping"}
  /\ owner = "constructed" => thread = "none"
  /\ owner \in {"running", "quit"} => thread \in {"published", "looping"}
  /\ owner = "gone" => thread \in {"none", "finished"}
  /\ quit_ => owner \in {"join", "gone"}
  /\ thread = "looping" /\ pc = "idle" => owner = "join"
  /\ thread \in {"unpublished", "finished"} => owner \in {"join", "gone"}

ThreadInv == ~earlyQuit => Paired

\* loop() returns only if it was told to.
LEMMA RunningLoop ==
  ASSUME LoopStep, pc # "idle"
  PROVE  quit_' = quit_ /\ (pc' = "idle" => quit_)
<1>1. CASE loop
  BY <1>1 DEF loop
<1>2. CASE CheckQuit
  BY <1>2 DEF CheckQuit
<1>3. ASSUME NEW ready \in SUBSET Channels, PollReady(ready) PROVE quit_' = quit_ /\ pc' # "idle"
  BY <1>3 DEF PollReady
<1>4. CASE PollNothing
  BY <1>4 DEF PollNothing
<1>5. ASSUME NEW ch \in Channels \cup {WakeupChannel}, HandleEvent(ch) PROVE quit_' = quit_ /\ pc' # "idle"
  BY <1>5 DEF HandleEvent
<1>6. CASE CallbackReturns
  BY <1>6 DEF CallbackReturns
<1>7. CASE SwapFunctors
  BY <1>7 DEF SwapFunctors
<1>8. CASE RunFunctor
  BY <1>8 DEF RunFunctor
<1>9. CASE EndFunctors
  BY <1>9 DEF EndFunctors
<1> QED BY <1>1, <1>2, <1>3, <1>4, <1>5, <1>6, <1>7, <1>8, <1>9 DEF LoopStep

\* Calls into the loop other than quit() leave quit_ and pc alone.
LEMMA OtherCalls ==
  ASSUME NEW t, NEW f, queueInLoop(t, f) \/ runInLoop(t, f) \/ queueInLoopWakeup(t)
  PROVE  UNCHANGED <<pc, quit_>>
BY DEF queueInLoop, runInLoop, queueInLoopWakeup

LEMMA ThreadStep ==
  ASSUME ThreadInv, [ThreadNext]_threadVars
  PROVE  ThreadInv'
<1> SUFFICES ASSUME ~earlyQuit' PROVE Paired'
  BY DEF ThreadInv
<1> USE DEF Paired
<1>1. ASSUME ~earlyQuit PROVE Paired
  BY <1>1 DEF ThreadInv
<1>2. CASE startLoop
  BY <1>1, <1>2 DEF startLoop, vars
<1>3. CASE LatchWait
  BY <1>1, <1>3 DEF LatchWait, vars
<1>4. CASE WaitForLoop
  BY <1>1, <1>4 DEF WaitForLoop, vars
<1>5. CASE OwnerCalls
  <2>1. UNCHANGED <<pc, quit_, earlyQuit>>
    BY <1>5, OtherCalls DEF OwnerCalls
  <2> QED BY <1>1, <1>5, <2>1 DEF OwnerCalls
<1>6. CASE DestructorTest
  BY <1>1, <1>6 DEF DestructorTest, vars
<1>7. CASE DestructorQuit
  BY <1>1, <1>7 DEF DestructorQuit, vars, quit
<1>8. CASE DestructorJoin
  BY <1>1, <1>8 DEF DestructorJoin, vars
<1>9. CASE runInThread
  BY <1>1, <1>9 DEF runInThread, vars
<1>10. CASE ConstructLoop
  BY <1>1, <1>10 DEF ConstructLoop, vars
<1>11. CASE CallbackCalls
  <2>1. UNCHANGED <<pc, quit_>> /\ UNCHANGED earlyQuit
    BY <1>11, OtherCalls DEF CallbackCalls
  <2> QED BY <1>1, <1>11, <2>1 DEF CallbackCalls
<1>12. CASE Publish
  BY <1>1, <1>12 DEF Publish, vars, Touch
<1>13. CASE EnterLoop
  BY <1>1, <1>13 DEF EnterLoop, loop
<1>14. CASE LoopRuns
  <2>1. quit_' = quit_ /\ (pc' = "idle" => quit_)
    BY <1>14, RunningLoop DEF LoopRuns
  <2> QED BY <1>1, <1>14, <2>1 DEF LoopRuns
<1>15. CASE Unpublish
  BY <1>1, <1>15 DEF Unpublish, vars, Touch
<1>16. CASE FinishThread
  BY <1>1, <1>16 DEF FinishThread, vars, Touch
<1>17. CASE UNCHANGED threadVars
  BY <1>1, <1>17 DEF threadVars, vars
<1> QED BY <1>2, <1>3, <1>4, <1>5, <1>6, <1>7, <1>8, <1>9, <1>10, <1>11, <1>12, <1>13, <1>14, <1>15,
           <1>16, <1>17 DEF ThreadNext

\* Neither the EventLoop nor the EventLoopThread is used after it is gone, and the loop that
\* startLoop() handed out exists as long as the owner may use it, although the destructor
\* reads loop_ without the lock, unless a callback of the loop or the owner itself calls
\* quit() ahead of the destructor (EventLoopThread.cc:20-55).
THEOREM NothingEverDangles == ThreadSpec => []NothingDangles
<1>1. ThreadInit => ThreadInv
  BY DEF ThreadInit, Init, ThreadInv, Paired
<1>2. ThreadInv /\ [ThreadNext]_threadVars => ThreadInv'
  BY ThreadStep
<1>3. ThreadInv => NothingDangles
  BY DEF ThreadInv, Paired, NothingDangles
<1> QED BY <1>1, <1>2, <1>3, PTL DEF ThreadSpec


\* Every step of owner and thread is one the loop allows, or none of the loop's.
LEMMA ThreadStepIsLoopStep ==
  ASSUME [ThreadNext]_threadVars
  PROVE  [Next]_vars
<1> SUFFICES ASSUME ThreadNext, ~UNCHANGED vars PROVE Next
  BY DEF threadVars
<1>1. ASSUME NEW t \in AllThreads,
             \/ \E f \in Functors : queueInLoop(t, f) \/ runInLoop(t, f)
             \/ queueInLoopWakeup(t)
             \/ quit(t)
      PROVE  Next
  BY <1>1 DEF Next, ClientStep
<1>2. Owner \in AllThreads /\ LoopThread \in AllThreads
  BY OwnerAssumption DEF AllThreads
<1>3. CASE OwnerCalls
  BY <1>1, <1>2, <1>3 DEF OwnerCalls
<1>4. CASE DestructorQuit
  BY <1>1, <1>2, <1>4 DEF DestructorQuit
<1>5. CASE CallbackCalls
  BY <1>1, <1>2, <1>5 DEF CallbackCalls
<1>6. CASE EnterLoop \/ LoopRuns
  BY <1>6 DEF EnterLoop, LoopRuns, LoopStep, Next
<1>7. CASE startLoop \/ LatchWait \/ WaitForLoop \/ DestructorTest \/ DestructorJoin
  BY <1>7 DEF startLoop, LatchWait, WaitForLoop, DestructorTest, DestructorJoin
<1>8. CASE runInThread \/ ConstructLoop \/ Publish \/ Unpublish \/ FinishThread
  BY <1>8 DEF runInThread, ConstructLoop, Publish, Unpublish, FinishThread
<1> QED BY <1>3, <1>4, <1>5, <1>6, <1>7, <1>8 DEF ThreadNext

\* An EventLoopThread uses its EventLoop only as module EventLoop lets its threads do, so
\* that no wakeup is lost and functors run in order in a loop that is published by one
\* thread and stopped by another as well (EventLoopThread.cc:20-55, EventLoop.cc:78-135).
THEOREM ThreadRunsALoop ==
  ThreadSpec => Spec /\ []NoLostWakeup /\ ImplementsFunctorQueue
<1>1. ThreadSpec => Spec
  <2>1. ThreadInit => Init
    BY DEF ThreadInit
  <2>2. [ThreadNext]_threadVars => [Next]_vars
    BY ThreadStepIsLoopStep
  <2> QED BY <2>1, <2>2, PTL DEF ThreadSpec, Spec
<1> QED BY <1>1, NoWakeupIsLost, LoopImplementsQueue
=============================================================================
