-------------------------- MODULE TimerQueueProofs --------------------------
(***************************************************************************)
(* Proofs about TimerQueue for any number of timers, any clock range and   *)
(* any length of the functor queue: types, that no timer is forgotten,     *)
(* that handleRead follows no dangling pointer as long as callbacks do not *)
(* cancel timers of the batch being run, that every active timer has one   *)
(* entry in the heap and no more, and that only timers that are due start. *)
(***************************************************************************)
EXTENDS TimerQueue, TLAPS

(***************************************************************************)
(* Types.                                                                  *)
(***************************************************************************)

\* The timerfd is set to a time in the future, and so never by accident to the
\* value that disarms it (howMuchTimeFromNow, TimerQueue.cc:24-36).
LEMMA FutureTime ==
  ASSUME TypeOK, NEW when \in Nat
  PROVE  /\ howMuchTimeFromNow(when) \in Nat
         /\ howMuchTimeFromNow(when) > now
         /\ howMuchTimeFromNow(when) <= when \/ howMuchTimeFromNow(when) <= now + 1
         /\ howMuchTimeFromNow(when) # Disarmed
BY TimerAssumption DEF TypeOK, howMuchTimeFromNow, Times, Disarmed

\* The initial state is well typed.
LEMMA TypeInit == Init => TypeOK
<1> SUFFICES ASSUME Init PROVE TypeOK
  OBVIOUS
<1>1. expiration \in [TimerIds -> Nat] /\ interval \in [TimerIds -> Nat]
  BY DEF Init
<1>4. firedAt \in [TimerIds -> Times]
  BY TimerAssumption DEF Init, Times
<1>2. 0 \in Times /\ 0 \in 0 .. MaxTimers
  BY TimerAssumption DEF Times
<1>3. <<>> \in Seq([op : {"add", "cancel"}, id : TimerIds])
  OBVIOUS
<1> QED BY <1>1, <1>2, <1>3, <1>4, Zenon DEF Init, TypeOK, Disarmed, NoTimer

\* insert keeps the heap, the map and the timerfd well typed.
LEMMA InsertType ==
  ASSUME TypeOK, NEW id \in TimerIds, NEW when \in Nat, insert(id, when)
  PROVE  /\ timers_' \in SUBSET Entries
         /\ activeTimers_' \in SUBSET TimerIds
         /\ timerfd' \in Nat
         /\ readable' \in BOOLEAN
<1>1. <<when, id>> \in Entries
  BY DEF Entries
<1>2. timers_' \in SUBSET Entries /\ activeTimers_' \in SUBSET TimerIds
  BY <1>1 DEF TypeOK, insert
<1>3. timerfd' \in Nat /\ readable' \in BOOLEAN
  BY FutureTime DEF TypeOK, insert, resetTimerfd
<1> QED BY <1>2, <1>3

\* rearm keeps the timerfd well typed.
LEMMA RearmType ==
  ASSUME TypeOK, timers_' \in SUBSET Entries, rearm
  PROVE  timerfd' \in Nat /\ readable' \in BOOLEAN
BY FutureTime DEF TypeOK, rearm, resetTimerfd, Entries

\* Every step preserves the types.
LEMMA TypeStep == TypeOK /\ [Next]_vars => TypeOK'
<1> SUFFICES ASSUME TypeOK, [Next]_vars PROVE TypeOK'
  OBVIOUS
<1> USE TimerAssumption
<1>1. CASE Tick
  <2>1. now' \in Times
    BY <1>1 DEF TypeOK, Tick, Times
  <2>2. CASE timerfd # Disarmed /\ timerfd <= now + 1
    <3>1. timerfd' = Disarmed /\ readable' = TRUE
      BY <1>1, <2>2, Zenon DEF Tick
    <3> QED BY <1>1, <2>1, <3>1 DEF TypeOK, Tick, loopvars, history, Disarmed
  <2>3. CASE ~(timerfd # Disarmed /\ timerfd <= now + 1)
    <3>1. timerfd' = timerfd /\ readable' = readable
      BY <1>1, <2>3, Zenon DEF Tick
    <3> QED BY <1>1, <2>1, <3>1 DEF TypeOK, Tick, loopvars, history
  <2> QED BY <2>2, <2>3
<1>2. ASSUME NEW when \in Times, NEW every \in Intervals, addTimer(when, every)
      PROVE  TypeOK'
  <2>1. numCreated \in TimerIds /\ numCreated' \in 0 .. MaxTimers /\ when \in Nat
    BY <1>2 DEF TypeOK, addTimer, Create, TimerIds, Times
  <2>2. insert(numCreated, when)
    BY <1>2 DEF addTimer
  <2>3. expiration' \in [TimerIds -> Nat] /\ interval' \in [TimerIds -> Nat]
    BY <1>2, <2>1 DEF TypeOK, addTimer, Create
  <2> QED BY <1>2, <2>1, <2>2, <2>3, InsertType DEF TypeOK, addTimer, loopvars, history
<1>3. ASSUME NEW when \in Times, NEW every \in Intervals, addTimerQueued(when, every)
      PROVE  TypeOK'
  <2>1. numCreated \in TimerIds /\ numCreated' \in 0 .. MaxTimers /\ when \in Nat
    BY <1>3 DEF TypeOK, addTimerQueued, Create, TimerIds, Times
  <2>2. expiration' \in [TimerIds -> Nat] /\ interval' \in [TimerIds -> Nat]
    BY <1>3, <2>1 DEF TypeOK, addTimerQueued, Create
  <2>3. pending' \in Seq([op : {"add", "cancel"}, id : TimerIds])
    BY <1>3, <2>1 DEF TypeOK, addTimerQueued
  <2> QED BY <1>3, <2>1, <2>2, <2>3 DEF TypeOK, addTimerQueued, loopvars, history
<1>4. ASSUME NEW id \in TimerIds, cancel(id)
      PROVE  TypeOK'
  BY <1>4 DEF TypeOK, cancel, cancelInLoop, loopvars
<1>5. ASSUME NEW id \in TimerIds, cancelQueued(id)
      PROVE  TypeOK'
  <2>1. pending' \in Seq([op : {"add", "cancel"}, id : TimerIds])
    BY <1>5 DEF TypeOK, cancelQueued
  <2> QED BY <1>5, <2>1 DEF TypeOK, cancelQueued, timervars, loopvars, history
<1>6. CASE Poll
  BY <1>6 DEF TypeOK, Poll, timervars, history
<1>7. CASE handleRead
  BY <1>7 DEF TypeOK, handleRead, getExpired, history
<1>8. CASE run
  <2>1. PICK e \in unrun :
          /\ unrun' = unrun \ {e}
          /\ IF e[2] \in activeTimers_
               THEN /\ current' = e[2] /\ fired' = fired \cup {e[2]} /\ UNCHANGED pc
                    /\ firedAt' = [firedAt EXCEPT ![e[2]] = readTime]
               ELSE pc' = "undefined" /\ UNCHANGED <<current, fired, firedAt>>
    BY <1>8 DEF run
  <2>2. e[2] \in TimerIds
    BY DEF TypeOK, Entries
  <2>3. firedAt' \in [TimerIds -> Times]
    BY <2>1, <2>2 DEF TypeOK
  <2> QED BY <1>8, <2>1, <2>2, <2>3 DEF TypeOK, run, timervars
<1>9. CASE reset
  <2>1. Restarted \subseteq TimerIds /\ \A id \in Restarted : readTime + interval[id] \in Nat
    BY DEF TypeOK, Restarted, Entries, Times
  <2>2. timers_' \in SUBSET Entries
    BY <1>9, <2>1 DEF TypeOK, reset, Cleaned, Entries
  <2>3. expiration' \in [TimerIds -> Nat]
    BY <1>9, <2>1 DEF TypeOK, reset
  <2>4. timerfd' \in Nat /\ readable' \in BOOLEAN
    BY <1>9, <2>2, RearmType DEF reset
  <2>5. activeTimers_' \in SUBSET TimerIds
    BY <1>9 DEF TypeOK, reset
  <2> QED BY <1>9, <2>2, <2>3, <2>4, <2>5 DEF TypeOK, reset, history
<1>10. CASE resetDeleted
  BY <1>10 DEF TypeOK, resetDeleted, timervars, history
<1>11. CASE StartFunctors
  BY <1>11 DEF TypeOK, StartFunctors, timervars, history
<1>12. CASE RunFunctor
  <2>a. pending # <<>> /\ pending' = Tail(pending)
    BY <1>12 DEF RunFunctor
  <2>b. ASSUME NEW S, pending \in Seq(S)
        PROVE  Head(pending) \in S /\ Tail(pending) \in Seq(S)
    BY <2>a, <2>b
  <2>1. /\ Head(pending) \in [op : {"add", "cancel"}, id : TimerIds]
        /\ pending' \in Seq([op : {"add", "cancel"}, id : TimerIds])
    BY <2>a, <2>b DEF TypeOK
  <2>2. Head(pending).id \in TimerIds /\ expiration[Head(pending).id] \in Nat
    BY <2>1 DEF TypeOK
  <2>3. CASE addTimerInLoop(Head(pending).id)
    <3>1. insert(Head(pending).id, expiration[Head(pending).id])
      BY <2>3 DEF addTimerInLoop
    <3>2. /\ timers_' \in SUBSET Entries
          /\ activeTimers_' \in SUBSET TimerIds
          /\ timerfd' \in Nat
          /\ readable' \in BOOLEAN
      BY <2>2, <3>1, InsertType
    <3> QED BY <1>12, <2>1, <2>3, <3>2 DEF TypeOK, RunFunctor, addTimerInLoop, loopvars, history
  <2>4. CASE cancelInLoop(Head(pending).id)
    BY <1>12, <2>1, <2>2, <2>4 DEF TypeOK, RunFunctor, cancelInLoop, loopvars
  <2> QED BY <1>12, <2>3, <2>4 DEF RunFunctor
<1>13. CASE EndIteration
  BY <1>13 DEF TypeOK, EndIteration, timervars, history
<1>14. CASE UNCHANGED vars
  BY <1>14 DEF TypeOK, vars
<1> QED
  BY <1>1, <1>2, <1>3, <1>4, <1>5, <1>6, <1>7, <1>8, <1>9, <1>10, <1>11, <1>12, <1>13,
     <1>14 DEF Next

\* Type correctness of the timer queue.
THEOREM TypeCorrect == Spec => []TypeOK
BY TypeInit, TypeStep, PTL DEF Spec

(***************************************************************************)
(* No timer is forgotten.  While handleRead runs, the timerfd has been     *)
(* read and nothing is promised for the heap until reset() sets it again.  *)
(* But reset() does not set it when the earliest expiration is zero, which *)
(* Timestamp::valid() takes for none; such an entry was inserted by a      *)
(* callback, and the invariant is that this insertion set the timerfd.     *)
(***************************************************************************)

ZeroArmed == pc = "handleRead" => \A e \in timers_ : e[1] = 0 => CoveredBy(e)

ArmedInv == TypeOK /\ EarliestArmed /\ ZeroArmed

\* The passing of time keeps what the timerfd covers.
LEMMA TickCovers ==
  ASSUME TypeOK, Tick, NEW e \in Entries, CoveredBy(e)
  PROVE  CoveredBy(e)'
<1>1. now' = now + 1 /\ now \in Nat /\ timerfd \in Nat
  BY TimerAssumption DEF TypeOK, Tick, Times
<1>2. CASE timerfd # Disarmed /\ timerfd <= now + 1
  BY <1>2, Zenon DEF Tick, CoveredBy
<1>3. CASE ~(timerfd # Disarmed /\ timerfd <= now + 1)
  <2>1. UNCHANGED <<timerfd, readable>>
    BY <1>3, Zenon DEF Tick
  <2>2. readable \/ (timerfd # Disarmed /\ timerfd <= e[1])
    BY <1>3 DEF CoveredBy
  <2> QED BY <2>1, <2>2 DEF CoveredBy
<1> QED BY <1>2, <1>3

\* Setting the timerfd for a time covers every entry that is not earlier.
LEMMA ResetCovers ==
  ASSUME TypeOK, NEW when \in Nat, resetTimerfd(when), now' = now,
         NEW e \in Entries, when <= e[1]
  PROVE  CoveredBy(e)'
<1>1. now \in Nat /\ e[1] \in Nat
  BY TimerAssumption DEF TypeOK, Times, Entries
<1>2. /\ timerfd' \in Nat
      /\ timerfd' # Disarmed
      /\ timerfd' <= when \/ timerfd' <= now + 1
  BY FutureTime DEF resetTimerfd
<1>3. timerfd' <= e[1] \/ timerfd' <= now' + 1
  BY <1>1, <1>2
<1> QED BY <1>2, <1>3 DEF CoveredBy, Disarmed

\* If an entry is covered, so is one that is not earlier.
LEMMA LaterCovered ==
  ASSUME TypeOK, NEW d \in Entries, NEW e \in Entries, CoveredBy(d), d[1] <= e[1]
  PROVE  CoveredBy(e)
BY TimerAssumption DEF TypeOK, CoveredBy, Entries, Times

\* insert covers the new entry and uncovers none, whether all entries of the
\* heap were covered or only those at time zero.
LEMMA InsertCovers ==
  ASSUME TypeOK, NEW id \in TimerIds, NEW when \in Nat, insert(id, when), now' = now
  PROVE  /\ (\A e \in timers_ : CoveredBy(e)) => (\A e \in timers_ : CoveredBy(e))'
         /\ (\A e \in timers_ : e[1] = 0 => CoveredBy(e))
              => (\A e \in timers_ : e[1] = 0 => CoveredBy(e))'
<1> DEFINE new == <<when, id>>
<1>1. timers_' = timers_ \cup {new} /\ new \in Entries /\ new[1] = when
  BY DEF insert, Entries
<1>2. timers_ \subseteq Entries /\ \A e \in timers_ : e[1] \in Nat
  BY DEF TypeOK, Entries
<1>3. CASE \A e \in timers_ : when < e[1]
  <2>1. resetTimerfd(when)
    BY <1>3 DEF insert
  <2>2. \A e \in timers_' : e \in Entries /\ when <= e[1]
    BY <1>1, <1>2, <1>3
  <2> QED BY <2>1, <2>2, ResetCovers
<1>4. CASE ~(\A e \in timers_ : when < e[1])
  <2>1. UNCHANGED <<timerfd, readable, now>>
    BY <1>4 DEF insert
  <2>2. PICK d \in timers_ : d[1] <= when
    BY <1>2, <1>4
  <2>3. CoveredBy(d) => CoveredBy(new)
    BY <1>1, <1>2, <2>2, LaterCovered
  <2>4. when = 0 => d[1] = 0
    BY <1>2, <2>2
  <2>5. \A e \in timers_' : CoveredBy(e)' <=> CoveredBy(e)
    BY <2>1 DEF CoveredBy
  <2> QED BY <1>1, <2>2, <2>3, <2>4, <2>5
<1> QED BY <1>3, <1>4

\* At the end of handleRead reset() covers what is left in the heap.
LEMMA ResetRestores ==
  ASSUME ArmedInv, reset
  PROVE  (\A e \in timers_ : CoveredBy(e))'
<1>1. TypeOK' /\ TypeOK
  BY TypeStep DEF ArmedInv, Next
<1>2. now' = now /\ pc = "handleRead" /\ rearm
  BY DEF reset
<1>3. timers_' \subseteq Entries
  BY <1>1 DEF TypeOK
<1>4. CASE timers_' = {}
  BY <1>4
<1>5. ASSUME NEW z \in timers_', z[1] = 0, UNCHANGED <<timerfd, readable>>
      PROVE  (\A e \in timers_ : CoveredBy(e))'
  <2>1. z \in timers_
    <3>1. z \in timers_ \cup {<<readTime + interval[id], id>> : id \in Restarted}
      BY DEF reset, Cleaned
    <3>2. \A id \in Restarted : readTime + interval[id] > 0
      <4> TAKE id \in Restarted
      <4>1. id \in TimerIds /\ interval[id] > 0
        BY <1>1 DEF TypeOK, Restarted, repeat, Entries
      <4>2. readTime \in Nat /\ interval[id] \in Nat
        BY <1>1, <4>1, TimerAssumption DEF TypeOK, Times
      <4> QED BY <4>1, <4>2
    <3> QED BY <1>5, <3>1, <3>2
  <2>2. CoveredBy(z) /\ z \in Entries
    BY <1>1, <1>2, <1>5, <2>1 DEF ArmedInv, ZeroArmed, TypeOK
  <2>3. \A e \in timers_' : CoveredBy(e)
    BY <1>1, <1>3, <1>5, <2>2, LaterCovered DEF Entries
  <2> QED BY <1>2, <1>5, <2>3 DEF CoveredBy
<1>6. ASSUME NEW t \in timers_', \A d \in timers_' : t[1] <= d[1], resetTimerfd(t[1])
      PROVE  (\A e \in timers_ : CoveredBy(e))'
  <2>1. t[1] \in Nat
    BY <1>3 DEF Entries
  <2> QED BY <1>1, <1>2, <1>3, <1>6, <2>1, ResetCovers
<1> QED BY <1>2, <1>4, <1>5, <1>6 DEF rearm

\* Every step preserves the invariant.
LEMMA ArmedStep == ArmedInv /\ [Next]_vars => ArmedInv'
<1> SUFFICES ASSUME ArmedInv, [Next]_vars PROVE EarliestArmed' /\ ZeroArmed'
  BY TypeStep DEF ArmedInv
<1>a. TypeOK /\ TypeOK' /\ timers_ \subseteq Entries
  BY TypeStep DEF ArmedInv, TypeOK
<1> USE DEF ArmedInv, EarliestArmed, ZeroArmed
<1>1. CASE Tick
  <2>1. pc' = pc /\ timers_' = timers_
    BY <1>1 DEF Tick, loopvars
  <2> QED BY <1>1, <1>a, <2>1, TickCovers
<1>2. ASSUME NEW when \in Times, NEW every \in Intervals, addTimer(when, every)
      PROVE  EarliestArmed' /\ ZeroArmed'
  <2>1. numCreated \in TimerIds /\ when \in Nat
    BY <1>2, <1>a, TimerAssumption DEF TypeOK, addTimer, Create, TimerIds, Times
  <2>2. insert(numCreated, when) /\ now' = now /\ pc' = pc
    BY <1>2 DEF addTimer, loopvars
  <2> QED BY <1>a, <2>1, <2>2, InsertCovers
<1>3. CASE RunFunctor
  <2>1. now' = now /\ pc' = pc /\ pc = "functors" /\ pending # <<>>
    BY <1>3 DEF RunFunctor, loopvars
  <2>2. CASE addTimerInLoop(Head(pending).id)
    <3>1. Head(pending).id \in TimerIds /\ expiration[Head(pending).id] \in Nat
      <4>1. ASSUME NEW S, pending \in Seq(S) PROVE Head(pending) \in S
        BY <2>1, <4>1
      <4>2. Head(pending) \in [op : {"add", "cancel"}, id : TimerIds]
        BY <1>a, <4>1 DEF TypeOK
      <4> QED BY <1>a, <4>2 DEF TypeOK
    <3>2. insert(Head(pending).id, expiration[Head(pending).id])
      BY <2>2 DEF addTimerInLoop
    <3> QED BY <1>a, <2>1, <3>1, <3>2, InsertCovers
  <2>3. CASE cancelInLoop(Head(pending).id)
    BY <2>1, <2>3 DEF cancelInLoop, CoveredBy
  <2> QED BY <1>3, <2>2, <2>3 DEF RunFunctor
<1>4. CASE handleRead
  <2>1. pc' = "handleRead" /\ \A e \in timers_' : e[1] > now
    BY <1>4 DEF handleRead
  <2>2. now \in Nat
    BY <1>a, TimerAssumption DEF TypeOK, Times
  <2> QED BY <2>1, <2>2
<1>5. CASE reset
  <2>1. pc' = "events"
    BY <1>5 DEF reset
  <2> QED BY <1>5, <2>1, ResetRestores
<1>6. CASE UNCHANGED <<now, timers_, timerfd, readable>> /\ (pc' = pc \/ pc' = "undefined")
  BY <1>6 DEF CoveredBy
<1>7. CASE /\ UNCHANGED <<now, timers_, timerfd, readable>>
           /\ pc \in {"poll", "events", "functors"} /\ pc' \in {"poll", "events", "functors"}
  BY <1>7 DEF CoveredBy
<1>8. ASSUME NEW when \in Times, NEW every \in Intervals, addTimerQueued(when, every)
      PROVE  EarliestArmed' /\ ZeroArmed'
  BY <1>6, <1>8 DEF addTimerQueued, loopvars
<1>9. ASSUME NEW id \in TimerIds, cancel(id) \/ cancelQueued(id)
      PROVE  EarliestArmed' /\ ZeroArmed'
  BY <1>6, <1>9 DEF cancel, cancelInLoop, cancelQueued, timervars, loopvars
<1>10. CASE run \/ resetDeleted
  BY <1>6, <1>10 DEF run, resetDeleted, timervars
<1>11. CASE Poll \/ StartFunctors \/ EndIteration
  BY <1>7, <1>11 DEF Poll, StartFunctors, EndIteration, timervars
<1>12. CASE UNCHANGED vars
  BY <1>6, <1>12 DEF vars
<1> QED
  BY <1>1, <1>2, <1>3, <1>4, <1>5, <1>8, <1>9, <1>10, <1>11, <1>12 DEF Next

\* No timer is forgotten: whenever the loop is outside handleRead, the timerfd has
\* expired or is set no later than every entry of the heap needs, whatever threads
\* and callbacks add and cancel, and however late handleRead is
\* (TimerQueue.cc:99-107, 142-184).
THEOREM NoTimerIsForgotten == Spec => []EarliestArmed
<1>1. Init => ArmedInv
  BY TypeInit DEF ArmedInv, EarliestArmed, ZeroArmed, Init
<1>2. ArmedInv => EarliestArmed
  BY DEF ArmedInv
<1> QED BY <1>1, <1>2, ArmedStep, PTL DEF Spec

(***************************************************************************)
(* Pointers of the batch.  handleRead keeps raw pointers to the expired    *)
(* timers while user code runs.  They stay good as long as no callback     *)
(* cancels a timer of the batch: all else that deletes timers runs outside *)
(* handleRead or in reset() itself.                                        *)
(***************************************************************************)

BatchInv ==
  /\ unrun \subseteq expired
  /\ ~batchCancelled =>
       /\ pc # "undefined"
       /\ pc = "handleRead" => \A e \in expired : e[2] \in activeTimers_

\* As long as callbacks cancel no timer of the batch being run, handleRead and
\* reset follow no pointer to a deleted Timer (TimerQueue.cc:114-153).
THEOREM NoDanglingTimer == Spec => []KeptBatchIsSafe
<1>1. Init => BatchInv
  BY DEF Init, BatchInv
<1>2. BatchInv /\ [Next]_vars => BatchInv'
  <2> SUFFICES ASSUME BatchInv, [Next]_vars PROVE BatchInv'
    OBVIOUS
  <2> USE DEF BatchInv
  <2>1. CASE Tick
    BY <2>1 DEF Tick, loopvars, history
  <2>2. ASSUME NEW when \in Times, NEW every \in Intervals,
               addTimer(when, every) \/ addTimerQueued(when, every)
        PROVE  BatchInv'
    BY <2>2 DEF addTimer, addTimerQueued, insert, loopvars, history
  <2>3. ASSUME NEW id \in TimerIds, cancel(id) \/ cancelQueued(id)
        PROVE  BatchInv'
    BY <2>3 DEF cancel, cancelQueued, cancelInLoop, timervars, loopvars, history
  <2>4. CASE Poll \/ StartFunctors \/ EndIteration
    BY <2>4 DEF Poll, StartFunctors, EndIteration, timervars, history
  <2>5. CASE handleRead
    BY <2>5 DEF handleRead, getExpired, history
  <2>6. CASE run
    BY <2>6 DEF run, timervars
  <2>7. CASE reset
    BY <2>7 DEF reset, history
  <2>8. CASE resetDeleted
    BY <2>8 DEF resetDeleted, history
  <2>9. CASE RunFunctor
    BY <2>9 DEF RunFunctor, addTimerInLoop, cancelInLoop, loopvars, history
  <2>10. CASE UNCHANGED vars
    BY <2>10 DEF vars
  <2> QED
    BY <2>1, <2>2, <2>3, <2>4, <2>5, <2>6, <2>7, <2>8, <2>9, <2>10 DEF Next
<1>3. BatchInv => KeptBatchIsSafe
  BY DEF BatchInv, KeptBatchIsSafe
<1> QED BY <1>1, <1>2, <1>3, PTL DEF Spec

(***************************************************************************)
(* Entries.  The heap keeps the entries of timers that were cancelled, and *)
(* add and cancel functors may be queued for one timer in any order; that  *)
(* a timer has one entry rests on its number being given out once, on an   *)
(* add that is still to come having left no trace, and on the heap and the *)
(* batch of handleRead having no entry in common.                          *)
(***************************************************************************)

\* A timer's number is in use in the heap or the batch.
HasEntry(id) == \E e \in timers_ \cup expired : e[2] = id

\* A number is used only once it was given out.
Numbered ==
  /\ \A id \in activeTimers_ \cup cancelled \cup fired : id < numCreated
  /\ \A e \in timers_ \cup expired : e[2] < numCreated
  /\ \A i \in DOMAIN pending : pending[i].id < numCreated

\* A timer whose add is still to come has left no trace, and is added once.
AddIsFirst ==
  /\ \A id \in TimerIds : AddPending(id) =>
       id \notin activeTimers_ \cup fired /\ ~HasEntry(id)
  /\ \A i, j \in DOMAIN pending :
       pending[i].op = "add" /\ pending[j].op = "add" /\ pending[i].id = pending[j].id => i = j

\* Heap and batch are two places.
Apart ==
  /\ expired # {} => pc \in {"handleRead", "undefined"}
  /\ \A e \in expired : e \notin timers_ /\ e[1] <= readTime

\* A timer that exists has one entry, at its expiration.
Placed ==
  \A id \in activeTimers_ :
    /\ <<expiration[id], id>> \in timers_ \cup expired
    /\ \A e \in timers_ \cup expired : e[2] = id => e = <<expiration[id], id>>

\* A timer that runs once and has run exists only until reset, and is not run again.
Spent ==
  \A id \in fired : id \in activeTimers_ /\ ~repeat(id) =>
    /\ \E e \in expired : e[2] = id
    /\ \A e \in unrun : e[2] # id

EntryInv == Numbered /\ AddIsFirst /\ Apart /\ Placed /\ Spent

\* A timer that is new to heap and map is inserted.
LEMMA InsertPlaces ==
  ASSUME TypeOK, Placed, Apart, NEW id \in TimerIds, NEW when \in Nat,
         ~HasEntry(id), id \notin activeTimers_,
         timers_' = timers_ \cup {<<when, id>>}, activeTimers_' = activeTimers_ \cup {id},
         expiration'[id] = when, \A j \in TimerIds : j # id => expiration'[j] = expiration[j],
         UNCHANGED <<expired, pc, readTime>>
  PROVE  Placed' /\ Apart'
<1> DEFINE new == <<when, id>>
<1>1. new[1] = when /\ new[2] = id
  OBVIOUS
<1>2. \A e \in timers_ \cup expired : e[2] # id
  BY DEF HasEntry
<1>3. Apart'
  BY <1>1, <1>2 DEF Apart
<1>4. Placed'
  <2> SUFFICES ASSUME NEW j \in activeTimers_'
               PROVE  /\ <<expiration'[j], j>> \in timers_' \cup expired'
                      /\ \A e \in timers_' \cup expired' : e[2] = j => e = <<expiration'[j], j>>
    BY DEF Placed
  <2>1. CASE j = id
    BY <1>1, <1>2, <2>1
  <2>2. CASE j # id
    <3>1. j \in activeTimers_ /\ j \in TimerIds
      BY <2>2 DEF TypeOK
    <3>2. expiration'[j] = expiration[j]
      BY <2>2, <3>1
    <3> HIDE DEF new
    <3>3. timers_' = timers_ \cup {new}
      BY DEF new
    <3> QED BY <1>1, <2>2, <3>1, <3>2, <3>3 DEF Placed
  <2> QED BY <2>1, <2>2
<1> QED BY <1>3, <1>4

\* Functors that are queued and taken.
LEMMA PendingAppend ==
  ASSUME TypeOK, NEW r \in [op : {"add", "cancel"}, id : TimerIds], pending' = Append(pending, r)
  PROVE  /\ DOMAIN pending' = DOMAIN pending \cup {Len(pending) + 1}
         /\ Len(pending) + 1 \notin DOMAIN pending
         /\ pending'[Len(pending) + 1] = r
         /\ \A i \in DOMAIN pending : pending'[i] = pending[i]
<1> DEFINE S == [op : {"add", "cancel"}, id : TimerIds]
<1>1. pending \in Seq(S)
  BY DEF TypeOK
<1> HIDE DEF S
<1> QED BY <1>1

LEMMA PendingTail ==
  ASSUME TypeOK, pending # <<>>, pending' = Tail(pending)
  PROVE  /\ \A i \in DOMAIN pending' :
              i \in Nat /\ i + 1 \in DOMAIN pending /\ i + 1 # 1 /\ pending'[i] = pending[i + 1]
         /\ 1 \in DOMAIN pending /\ Head(pending) = pending[1]
<1> DEFINE S == [op : {"add", "cancel"}, id : TimerIds]
<1>1. pending \in Seq(S)
  BY DEF TypeOK
<1> HIDE DEF S
<1> QED BY <1>1

\* The functors waiting for the loop are about timers of the model.
LEMMA PendingIds ==
  ASSUME TypeOK
  PROVE  \A i \in DOMAIN pending : pending[i].id \in TimerIds
<1> DEFINE S == [op : {"add", "cancel"}, id : TimerIds]
<1>1. \A r \in S : r.id \in TimerIds
  OBVIOUS
<1>2. pending \in Seq(S)
  BY DEF TypeOK
<1> HIDE DEF S
<1>3. \A i \in DOMAIN pending : pending[i] \in S
  BY <1>2
<1> QED BY <1>1, <1>3

LEMMA EntryStep == TypeOK /\ EntryInv /\ [Next]_vars => EntryInv'
<1> SUFFICES ASSUME TypeOK, EntryInv, [Next]_vars PROVE EntryInv'
  OBVIOUS
<1>a. numCreated \in Nat /\ now \in Nat
  BY TimerAssumption DEF TypeOK, Times
<1>b. Numbered /\ AddIsFirst /\ Apart /\ Placed /\ Spent
  BY DEF EntryInv
<1>1. CASE Tick
  <2>1. UNCHANGED <<numCreated, expiration, interval, timers_, activeTimers_, pending, pc, expired,
                    unrun, readTime, cancelled, fired>>
    BY <1>1 DEF Tick, loopvars, history
  <2>2. Numbered' /\ AddIsFirst' /\ Placed' /\ Spent'
    BY <1>b, <2>1 DEF Numbered, AddIsFirst, AddPending, HasEntry, Placed, Spent, repeat
  <2>3. Apart'
    BY <1>b, <2>1 DEF Apart
  <2> QED BY <2>2, <2>3 DEF EntryInv
<1>2. ASSUME NEW when \in Times, NEW every \in Intervals, addTimer(when, every)
      PROVE  EntryInv'
  <2>1. numCreated \in TimerIds /\ when \in Nat /\ numCreated' = numCreated + 1
    BY <1>2, TimerAssumption DEF TypeOK, addTimer, Create, TimerIds, Times
  <2>2. /\ timers_' = timers_ \cup {<<when, numCreated>>}
        /\ activeTimers_' = activeTimers_ \cup {numCreated}
        /\ UNCHANGED <<readTime, pending, pc, expired, unrun, cancelled, fired>>
    BY <1>2 DEF addTimer, insert, loopvars, history
  <2>3. /\ expiration'[numCreated] = when
        /\ \A j \in TimerIds : j # numCreated => expiration'[j] = expiration[j]
        /\ \A j \in TimerIds : j # numCreated => interval'[j] = interval[j]
    BY <1>2, <2>1 DEF TypeOK, addTimer, Create
  <2>4. ~HasEntry(numCreated) /\ numCreated \notin activeTimers_ \cup cancelled \cup fired
        /\ ~AddPending(numCreated)
    BY <1>a, <1>b DEF Numbered, HasEntry, AddPending
  <2>5. Placed' /\ Apart'
    BY <1>b, <2>1, <2>2, <2>3, <2>4, InsertPlaces
  <2>6. Numbered'
    <3>1. \A id \in TimerIds : id \in Nat
      BY TimerAssumption DEF TimerIds
    <3>2. \A id \in TimerIds : id < numCreated => id < numCreated'
      BY <1>a, <2>1, <3>1
    <3>3. \A e \in timers_ \cup expired : e[2] \in TimerIds
      BY DEF TypeOK, Entries
    <3>4. \A i \in DOMAIN pending : pending[i].id \in TimerIds
      BY PendingIds
    <3>5. numCreated < numCreated'
      BY <1>a, <2>1
    <3>6. \A e \in timers_' \cup expired' : e[2] < numCreated'
      BY <1>b, <2>2, <3>2, <3>3, <3>5 DEF Numbered
    <3>7. \A id \in activeTimers_' \cup cancelled' \cup fired' : id < numCreated'
      BY <1>b, <2>2, <3>2, <3>5 DEF Numbered, TypeOK
    <3> QED BY <1>b, <2>2, <3>2, <3>4, <3>6, <3>7 DEF Numbered
  <2>7. AddIsFirst'
    <3>1. \A id \in TimerIds : AddPending(id)' <=> AddPending(id)
      BY <2>2 DEF AddPending
    <3>2. \A id \in TimerIds : id # numCreated => (HasEntry(id)' <=> HasEntry(id))
      BY <2>2 DEF HasEntry
    <3> QED BY <1>b, <2>2, <2>4, <3>1, <3>2 DEF AddIsFirst
  <2>8. Spent'
    BY <1>b, <2>1, <2>2, <2>3, <2>4 DEF Spent, repeat, TypeOK
  <2> QED BY <2>5, <2>6, <2>7, <2>8 DEF EntryInv
<1>3. ASSUME NEW when \in Times, NEW every \in Intervals, addTimerQueued(when, every)
      PROVE  EntryInv'
  <2>1. numCreated \in TimerIds /\ when \in Nat /\ numCreated' = numCreated + 1
    BY <1>3, TimerAssumption DEF TypeOK, addTimerQueued, Create, TimerIds, Times
  <2>2. /\ UNCHANGED <<timers_, activeTimers_, readTime, pc, expired, unrun, cancelled, fired>>
        /\ pending' = Append(pending, [op |-> "add", id |-> numCreated])
    BY <1>3 DEF addTimerQueued, loopvars, history
  <2>3. /\ \A j \in TimerIds : j # numCreated => expiration'[j] = expiration[j]
        /\ \A j \in TimerIds : j # numCreated => interval'[j] = interval[j]
    BY <1>3, <2>1 DEF TypeOK, addTimerQueued, Create
  <2>4. ~HasEntry(numCreated) /\ numCreated \notin activeTimers_ \cup cancelled \cup fired
        /\ ~AddPending(numCreated)
    BY <1>a, <1>b DEF Numbered, HasEntry, AddPending
  <2> DEFINE r == [op |-> "add", id |-> numCreated]  n == Len(pending) + 1
  <2>5. /\ DOMAIN pending' = DOMAIN pending \cup {n} /\ n \notin DOMAIN pending
        /\ pending'[n] = r
        /\ \A i \in DOMAIN pending : pending'[i] = pending[i]
    BY <2>1, <2>2, PendingAppend
  <2>6. r.op = "add" /\ r.id = numCreated
    OBVIOUS
  <2> HIDE DEF r, n
  <2>7. Numbered'
    <3>1. \A id \in TimerIds : id \in Nat
      BY TimerAssumption DEF TimerIds
    <3>2. \A id \in TimerIds : id < numCreated => id < numCreated'
      BY <1>a, <2>1, <3>1
    <3>3. \A e \in timers_ \cup expired : e[2] \in TimerIds
      BY DEF TypeOK, Entries
    <3>4. \A i \in DOMAIN pending : pending[i].id \in TimerIds
      BY PendingIds
    <3>5. numCreated < numCreated'
      BY <1>a, <2>1
    <3>6. \A e \in timers_' \cup expired' : e[2] < numCreated'
      BY <1>b, <2>2, <3>2, <3>3 DEF Numbered
    <3>7. \A id \in activeTimers_' \cup cancelled' \cup fired' : id < numCreated'
      BY <1>b, <2>2, <3>2 DEF Numbered, TypeOK
    <3>8. \A i \in DOMAIN pending' : pending'[i].id < numCreated'
      BY <1>b, <2>5, <2>6, <3>2, <3>4, <3>5 DEF Numbered
    <3> QED BY <3>6, <3>7, <3>8 DEF Numbered
  <2>8. AddIsFirst'
    <3>1. \A id \in TimerIds : AddPending(id)' => AddPending(id) \/ id = numCreated
      BY <2>5, <2>6 DEF AddPending
    <3>2. \A id \in TimerIds : HasEntry(id)' <=> HasEntry(id)
      BY <2>2 DEF HasEntry
    <3>3. \A i \in DOMAIN pending : pending[i].op = "add" => pending[i].id # numCreated
      BY <2>4 DEF AddPending
    <3>4. \A i, j \in DOMAIN pending' :
            pending'[i].op = "add" /\ pending'[j].op = "add" /\ pending'[i].id = pending'[j].id => i = j
      BY <1>b, <2>5, <2>6, <3>3 DEF AddIsFirst
    <3> QED BY <1>b, <2>2, <2>4, <3>1, <3>2, <3>4 DEF AddIsFirst
  <2>9. Placed' /\ Apart'
    BY <1>b, <2>2, <2>3, <2>4 DEF Placed, Apart, TypeOK
  <2>10. Spent'
    BY <1>b, <2>2, <2>3, <2>4 DEF Spent, repeat, TypeOK
  <2> QED BY <2>7, <2>8, <2>9, <2>10 DEF EntryInv
<1>4. ASSUME NEW id \in TimerIds, id < numCreated, cancelInLoop(id),
             UNCHANGED <<readTime, numCreated, interval, pc, expired, unrun>>,
             pending' = pending \/ (pending # <<>> /\ pending' = Tail(pending))
      PROVE  EntryInv'
  <2>1. /\ activeTimers_' = activeTimers_ \ {id}
        /\ cancelled' = cancelled \cup {id}
        /\ UNCHANGED <<expiration, timers_, fired>>
    BY <1>4 DEF cancelInLoop
  <2>2. Placed' /\ Apart' /\ Spent'
    BY <1>4, <1>b, <2>1 DEF Placed, Apart, Spent, repeat
  <2>3. Numbered' /\ AddIsFirst'
    <3>0. \A j \in TimerIds : HasEntry(j)' <=> HasEntry(j)
      BY <1>4, <2>1 DEF HasEntry
    <3>1. CASE pending' = pending
      <4>1. \A j \in TimerIds : AddPending(j)' <=> AddPending(j)
        BY <3>1 DEF AddPending
      <4> QED BY <1>4, <1>b, <2>1, <3>0, <3>1, <4>1 DEF Numbered, AddIsFirst
    <3>2. CASE pending # <<>> /\ pending' = Tail(pending)
      <4>1. \A i \in DOMAIN pending' : i \in Nat /\ i + 1 \in DOMAIN pending /\ pending'[i] = pending[i + 1]
        BY <3>2, PendingTail
      <4>2. \A j \in TimerIds : AddPending(j)' => AddPending(j)
        BY <4>1 DEF AddPending
      <4>3. \A i, j \in DOMAIN pending' :
              pending'[i].op = "add" /\ pending'[j].op = "add" /\ pending'[i].id = pending'[j].id => i = j
        <5>1. \A i, j \in DOMAIN pending' :
                pending'[i].op = "add" /\ pending'[j].op = "add" /\ pending'[i].id = pending'[j].id
                  => i + 1 = j + 1
          BY <1>b, <4>1 DEF AddIsFirst
        <5> QED BY <4>1, <5>1
      <4>4. \A i \in DOMAIN pending' : pending'[i].id < numCreated
        BY <1>b, <4>1 DEF Numbered
      <4> QED BY <1>4, <1>b, <2>1, <3>0, <4>2, <4>3, <4>4 DEF Numbered, AddIsFirst
    <3> QED BY <1>4, <3>1, <3>2
  <2> QED BY <2>2, <2>3 DEF EntryInv
<1>5. ASSUME NEW id \in TimerIds, cancel(id) PROVE EntryInv'
  BY <1>4, <1>5 DEF cancel, loopvars
<1>6. ASSUME NEW id \in TimerIds, cancelQueued(id) PROVE EntryInv'
  <2>1. /\ UNCHANGED <<readTime, numCreated, expiration, interval, timers_, activeTimers_, pc, expired,
                       unrun, cancelled, fired>>
        /\ id < numCreated /\ pending' = Append(pending, [op |-> "cancel", id |-> id])
    BY <1>6 DEF cancelQueued, timervars, loopvars, history
  <2> DEFINE r == [op |-> "cancel", id |-> id]  n == Len(pending) + 1
  <2>2. /\ DOMAIN pending' = DOMAIN pending \cup {n}
        /\ pending'[n] = r
        /\ \A i \in DOMAIN pending : pending'[i] = pending[i]
    BY <2>1, PendingAppend
  <2>3. r.op = "cancel" /\ r.id = id
    OBVIOUS
  <2> HIDE DEF r, n
  <2>4. Placed' /\ Apart' /\ Spent'
    BY <1>b, <2>1 DEF Placed, Apart, Spent, repeat
  <2>5. \A j \in TimerIds : (AddPending(j)' => AddPending(j)) /\ (HasEntry(j)' <=> HasEntry(j))
    BY <2>1, <2>2, <2>3 DEF AddPending, HasEntry
  <2>6. Numbered'
    BY <1>b, <2>1, <2>2, <2>3 DEF Numbered
  <2>7. \A i, j \in DOMAIN pending' :
          pending'[i].op = "add" /\ pending'[j].op = "add" /\ pending'[i].id = pending'[j].id => i = j
    BY <1>b, <2>2, <2>3 DEF AddIsFirst
  <2>8. AddIsFirst'
    BY <1>b, <2>1, <2>5, <2>7 DEF AddIsFirst
  <2> QED BY <2>4, <2>6, <2>8 DEF EntryInv
<1>7. CASE RunFunctor
  <2>1. /\ pending # <<>> /\ pending' = Tail(pending)
        /\ UNCHANGED <<readTime, numCreated, interval, pc, expired, unrun>>
    BY <1>7 DEF RunFunctor, loopvars
  <2>2. /\ \A i \in DOMAIN pending' :
              i \in Nat /\ i + 1 \in DOMAIN pending /\ i + 1 # 1 /\ pending'[i] = pending[i + 1]
        /\ 1 \in DOMAIN pending /\ Head(pending) = pending[1]
    BY <2>1, PendingTail
  <2> DEFINE h == pending[1].id
  <2>3. h \in TimerIds /\ h < numCreated
    BY <1>b, <2>2, PendingIds DEF Numbered
  <2>4. CASE pending[1].op = "cancel" /\ cancelInLoop(h)
    BY <1>4, <2>1, <2>3, <2>4
  <2>5. CASE pending[1].op = "add" /\ addTimerInLoop(h)
    <3>1. AddPending(h)
      BY <2>2, <2>5 DEF AddPending
    <3>2. h \notin activeTimers_ \cup fired /\ ~HasEntry(h)
      BY <1>b, <2>3, <3>1 DEF AddIsFirst
    <3>3. /\ timers_' = timers_ \cup {<<expiration[h], h>>}
          /\ activeTimers_' = activeTimers_ \cup {h}
          /\ UNCHANGED <<expiration, cancelled, fired>>
      BY <2>5 DEF addTimerInLoop, insert, history
    <3>4. expiration[h] \in Nat
      BY <2>3 DEF TypeOK
    <3>5. \A i \in DOMAIN pending' : pending'[i].op = "add" => pending'[i].id # h
      BY <1>b, <2>2, <2>5 DEF AddIsFirst
    <3> HIDE DEF h
    <3>6. Placed' /\ Apart'
      BY <1>b, <2>1, <2>3, <3>2, <3>3, <3>4, InsertPlaces
    <3>7. \A j \in TimerIds : AddPending(j)' => AddPending(j) /\ j # h
      BY <2>2, <3>5 DEF AddPending
    <3>8. \A j \in TimerIds : j # h => (HasEntry(j)' <=> HasEntry(j))
      BY <2>1, <3>3 DEF HasEntry
    <3>9. \A i, j \in DOMAIN pending' :
            pending'[i].op = "add" /\ pending'[j].op = "add" /\ pending'[i].id = pending'[j].id => i = j
      <4>1. \A i, j \in DOMAIN pending' :
              pending'[i].op = "add" /\ pending'[j].op = "add" /\ pending'[i].id = pending'[j].id
                => i + 1 = j + 1
        BY <1>b, <2>2 DEF AddIsFirst
      <4> QED BY <2>2, <4>1
    <3>10. AddIsFirst'
      BY <1>b, <3>3, <3>7, <3>8, <3>9 DEF AddIsFirst
    <3>11. Numbered'
      <4>1. \A i \in DOMAIN pending' : pending'[i].id < numCreated
        BY <1>b, <2>2 DEF Numbered
      <4> QED BY <1>b, <2>1, <2>3, <3>3, <4>1 DEF Numbered
    <3>12. Spent'
      BY <1>b, <2>1, <3>2, <3>3 DEF Spent, repeat
    <3> QED BY <3>6, <3>10, <3>11, <3>12 DEF EntryInv
  <2> QED BY <1>7, <2>2, <2>4, <2>5 DEF RunFunctor
<1>8. CASE handleRead
  <2>1. /\ UNCHANGED <<now, numCreated, expiration, interval, activeTimers_, pending, cancelled, fired>>
        /\ timers_' = {e \in timers_ : e[1] > now}
        /\ expired' = {e \in timers_ : e[1] <= now /\ e[2] \in activeTimers_}
        /\ unrun' = expired' /\ pc' = "handleRead" /\ pc = "events" /\ readTime' = now
    BY <1>8 DEF handleRead, getExpired, history
  <2>2. expired = {}
    BY <1>b, <2>1 DEF Apart
  <2>3. \A e \in timers_ : e[1] \in Nat /\ e[2] \in TimerIds
    BY DEF TypeOK, Entries
  <2>4. Apart'
    BY <1>a, <2>1, <2>3 DEF Apart
  <2>5. Placed'
    <3>1. \A id \in activeTimers_ : <<expiration[id], id>> \in timers_ =>
            <<expiration[id], id>> \in timers_' \cup expired'
      <4> TAKE id \in activeTimers_
      <4>1. expiration[id] \in Nat
        BY DEF TypeOK
      <4> QED BY <1>a, <2>1, <4>1
    <3> QED BY <1>b, <2>1, <2>2, <3>1 DEF Placed
  <2>6. Numbered' /\ AddIsFirst'
    BY <1>b, <2>1, <2>2 DEF Numbered, AddIsFirst, AddPending, HasEntry
  <2>7. Spent'
    BY <1>b, <2>1, <2>2 DEF Spent, repeat
  <2> QED BY <2>4, <2>5, <2>6, <2>7 DEF EntryInv
<1>9. CASE run
  <2>1. /\ UNCHANGED <<readTime, numCreated, expiration, interval, timers_, activeTimers_, pending, expired,
                       cancelled>>
        /\ pc = "handleRead"
    BY <1>9 DEF run, timervars
  <2>2. PICK e \in unrun :
          /\ unrun' = unrun \ {e}
          /\ \/ e[2] \in activeTimers_ /\ fired' = fired \cup {e[2]} /\ pc' = pc
             \/ e[2] \notin activeTimers_ /\ fired' = fired /\ pc' = "undefined"
    BY <1>9 DEF run
  <2>3. e \in expired /\ unrun \subseteq expired
    BY DEF TypeOK
  <2>4. Placed' /\ Apart'
    BY <1>b, <2>1, <2>2 DEF Placed, Apart
  <2>5. Numbered'
    BY <1>b, <2>1, <2>2, <2>3 DEF Numbered
  <2>6. AddIsFirst'
    <3>1. \A j \in TimerIds : (AddPending(j)' <=> AddPending(j)) /\ (HasEntry(j)' <=> HasEntry(j))
      BY <2>1 DEF AddPending, HasEntry
    <3>2. HasEntry(e[2])
      BY <2>3 DEF HasEntry
    <3> QED BY <1>b, <2>1, <2>2, <3>1, <3>2 DEF AddIsFirst
  <2>7. Spent'
    <3>1. e[2] \in activeTimers_ => \A d \in unrun' : d[2] # e[2]
      BY <1>b, <2>2, <2>3 DEF Placed
    <3> QED BY <1>b, <2>1, <2>2, <2>3, <3>1 DEF Spent, repeat
  <2> QED BY <2>4, <2>5, <2>6, <2>7 DEF EntryInv
<1>10. CASE reset
  <2>1. /\ UNCHANGED <<now, numCreated, interval, pending, unrun, cancelled, fired>>
        /\ unrun = {} /\ expired' = {} /\ pc' = "events"
        /\ \A e \in expired : e[2] \in activeTimers_
    BY <1>10 DEF reset, history
  <2> DEFINE new == {<<readTime + interval[id], id>> : id \in Restarted}
             heap == timers_ \cup new
  <2>2. /\ activeTimers_' = activeTimers_ \ ({e[2] : e \in expired} \ Restarted)
        /\ timers_' = Cleaned(heap, activeTimers_')
        /\ expiration' = [id \in TimerIds |->
                            IF id \in Restarted THEN readTime + interval[id] ELSE expiration[id]]
    BY <1>10 DEF reset
  <2>3. Restarted \subseteq activeTimers_ /\ \A id \in Restarted : \E e \in expired : e[2] = id
    BY DEF Restarted
  <2>4. \A e \in new : e[2] \in Restarted /\ e = <<expiration'[e[2]], e[2]>>
    BY <2>2, <2>3 DEF TypeOK
  <2>5. \A id \in Restarted : <<expiration'[id], id>> \in new
    BY <2>2, <2>3 DEF TypeOK
  <2>6. timers_' \subseteq heap
    BY <2>2 DEF Cleaned
  <2>7. \A e \in heap : e[2] \in activeTimers_' => e \in timers_'
    <3>1. \A e \in heap : Before(e, e)
      <4>1. \A e \in heap : e[1] \in Nat /\ e[2] \in TimerIds
        <5>1. \A id \in Restarted : id \in TimerIds /\ readTime + interval[id] \in Nat
          BY <2>3 DEF TypeOK, Times
        <5> QED BY <5>1 DEF TypeOK, Entries
      <4>2. \A id \in TimerIds : id \in Nat
        BY TimerAssumption DEF TimerIds
      <4> QED BY <4>1, <4>2 DEF Before
    <3> QED BY <2>2, <3>1 DEF Cleaned
  <2>8. \A id \in Restarted : \A e \in timers_ : e[2] # id
    <3> TAKE id \in Restarted
    <3>1. PICK d \in expired : d[2] = id
      BY <2>3
    <3>2. d = <<expiration[id], id>> /\ \A e \in timers_ : e[2] = id => e = <<expiration[id], id>>
      BY <1>b, <2>3, <3>1 DEF Placed
    <3>3. d \notin timers_
      BY <1>b DEF Apart
    <3> QED BY <3>2, <3>3
  <2> HIDE DEF new
  <2>9. Placed'
    <3> SUFFICES ASSUME NEW id \in activeTimers_'
                 PROVE  /\ <<expiration'[id], id>> \in timers_' \cup expired'
                        /\ \A e \in timers_' \cup expired' : e[2] = id => e = <<expiration'[id], id>>
      BY DEF Placed
    <3>1. CASE id \in Restarted
      <4>1. <<expiration'[id], id>> \in timers_'
        BY <2>5, <2>7, <3>1
      <4>2. \A e \in timers_' : e[2] = id => e = <<expiration'[id], id>>
        BY <2>4, <2>6, <2>8, <3>1
      <4> QED BY <2>1, <4>1, <4>2
    <3>2. CASE id \notin Restarted
      <4>1. id \in activeTimers_ /\ id \in TimerIds /\ \A e \in expired : e[2] # id
        BY <2>2, <3>2 DEF TypeOK
      <4>2. expiration'[id] = expiration[id]
        BY <2>2, <3>2, <4>1
      <4>3. <<expiration[id], id>> \in timers_ /\ \A e \in timers_ : e[2] = id => e = <<expiration[id], id>>
        <5>1. <<expiration[id], id>> \notin expired
          BY <4>1
        <5> QED BY <1>b, <4>1, <5>1 DEF Placed
      <4>4. <<expiration[id], id>> \in timers_'
        BY <2>7, <4>3
      <4>5. \A e \in timers_' : e[2] = id => e \in timers_
        BY <2>4, <2>6, <3>2
      <4> QED BY <2>1, <4>2, <4>3, <4>4, <4>5
    <3> QED BY <3>1, <3>2
  <2>10. Apart'
    BY <2>1 DEF Apart
  <2>11. \A e \in timers_' : HasEntry(e[2])
    BY <2>3, <2>4, <2>6 DEF HasEntry
  <2>12. Numbered'
    <3>1. \A e \in timers_' : e[2] < numCreated
      BY <1>b, <2>11 DEF HasEntry, Numbered
    <3> QED BY <1>b, <2>1, <2>2, <3>1 DEF Numbered
  <2>13. AddIsFirst'
    <3>1. \A j \in TimerIds : (AddPending(j)' <=> AddPending(j)) /\ (HasEntry(j)' => HasEntry(j))
      BY <2>1, <2>11 DEF AddPending, HasEntry
    <3> QED BY <1>b, <2>1, <2>2, <3>1 DEF AddIsFirst
  <2>14. Spent'
    BY <1>b, <2>1, <2>2 DEF Spent, repeat, Restarted
  <2> QED BY <2>9, <2>10, <2>12, <2>13, <2>14 DEF EntryInv
<1>11. CASE Poll \/ StartFunctors \/ EndIteration \/ resetDeleted \/ UNCHANGED vars
  <2>1. /\ UNCHANGED <<readTime, numCreated, expiration, interval, timers_, activeTimers_, pending, expired,
                       unrun, cancelled, fired>>
        /\ pc' = pc \/ pc \in {"poll", "events", "functors"} \/ pc' = "undefined"
    BY <1>11 DEF Poll, StartFunctors, EndIteration, resetDeleted, timervars, history, vars
  <2>2. Apart'
    BY <1>b, <2>1 DEF Apart
  <2>3. Numbered' /\ AddIsFirst' /\ Placed' /\ Spent'
    BY <1>b, <2>1 DEF Numbered, AddIsFirst, AddPending, HasEntry, Placed, Spent, repeat
  <2> QED BY <2>2, <2>3 DEF EntryInv
<1> QED BY <1>1, <1>2, <1>3, <1>5, <1>6, <1>7, <1>8, <1>9, <1>10, <1>11 DEF Next

(***************************************************************************)
(* Cancels.  A cancel deletes the timer for good unless the add is still   *)
(* to come.                                                                *)
(***************************************************************************)

\* A timer that was cancelled exists, or will, only if its last cancel ran too early.
Lost == \A id \in cancelled : id \in activeTimers_ \/ AddPending(id) => id \in overtaken

LEMMA LostStep == TypeOK /\ EntryInv /\ Lost /\ [Next]_vars => Lost'
<1> SUFFICES ASSUME TypeOK, EntryInv, Lost, [Next]_vars PROVE Lost'
  OBVIOUS
<1>a. cancelled \subseteq TimerIds /\ numCreated \in Nat
  BY TimerAssumption DEF TypeOK
<1>b. numCreated \notin cancelled
  BY <1>a DEF EntryInv, Numbered
<1>1. ASSUME UNCHANGED <<cancelled, overtaken, pending>>, activeTimers_' \subseteq activeTimers_
      PROVE  Lost'
  BY <1>1 DEF Lost, AddPending
<1>2. CASE Tick \/ Poll \/ handleRead \/ run \/ resetDeleted \/ StartFunctors \/ EndIteration
           \/ UNCHANGED vars
  BY <1>1, <1>2 DEF Tick, Poll, handleRead, run, resetDeleted, StartFunctors, EndIteration, timervars,
                    history, vars
<1>3. CASE reset
  BY <1>1, <1>3 DEF reset, history
<1>4. ASSUME NEW when \in Times, NEW every \in Intervals, addTimer(when, every) PROVE Lost'
  BY <1>4, <1>b DEF addTimer, insert, history, Lost, AddPending
<1>5. ASSUME NEW when \in Times, NEW every \in Intervals, addTimerQueued(when, every) PROVE Lost'
  <2> DEFINE r == [op |-> "add", id |-> numCreated]  n == Len(pending) + 1
  <2>1. numCreated \in TimerIds /\ UNCHANGED <<activeTimers_, cancelled, overtaken>>
    BY <1>5, TimerAssumption DEF TypeOK, addTimerQueued, Create, TimerIds, history
  <2>2. /\ DOMAIN pending' = DOMAIN pending \cup {n}
        /\ pending'[n] = r
        /\ \A i \in DOMAIN pending : pending'[i] = pending[i]
    BY <1>5, <2>1, PendingAppend DEF addTimerQueued
  <2>3. r.id = numCreated
    OBVIOUS
  <2> HIDE DEF r, n
  <2>4. \A j : AddPending(j)' => AddPending(j) \/ j = numCreated
    BY <2>2, <2>3 DEF AddPending
  <2> QED BY <1>b, <2>1, <2>4 DEF Lost
<1>6. ASSUME NEW id \in TimerIds, cancelInLoop(id),
             pending' = pending \/ (pending # <<>> /\ pending' = Tail(pending))
      PROVE  Lost'
  <2>1. \A j : AddPending(j)' => AddPending(j)
    <3>1. CASE pending' = pending
      BY <3>1 DEF AddPending
    <3>2. CASE pending # <<>> /\ pending' = Tail(pending)
      <4>1. \A i \in DOMAIN pending' : i + 1 \in DOMAIN pending /\ pending'[i] = pending[i + 1]
        BY <3>2, PendingTail
      <4> QED BY <4>1 DEF AddPending
    <3> QED BY <1>6, <3>1, <3>2
  <2>2. /\ activeTimers_' = activeTimers_ \ {id} /\ cancelled' = cancelled \cup {id}
        /\ overtaken' = IF AddPending(id) THEN overtaken \cup {id} ELSE overtaken \ {id}
    BY <1>6 DEF cancelInLoop
  <2> SUFFICES ASSUME NEW j \in cancelled', j \in activeTimers_' \/ AddPending(j)'
               PROVE  j \in overtaken'
    BY DEF Lost
  <2>3. CASE j = id
    BY <2>1, <2>2, <2>3
  <2>4. CASE j # id
    BY <2>1, <2>2, <2>4 DEF Lost
  <2> QED BY <2>3, <2>4
<1>7. ASSUME NEW id \in TimerIds, cancel(id) PROVE Lost'
  BY <1>6, <1>7 DEF cancel
<1>8. ASSUME NEW id \in TimerIds, cancelQueued(id) PROVE Lost'
  <2> DEFINE r == [op |-> "cancel", id |-> id]  n == Len(pending) + 1
  <2>1. /\ DOMAIN pending' = DOMAIN pending \cup {n}
        /\ pending'[n] = r
        /\ \A i \in DOMAIN pending : pending'[i] = pending[i]
    BY <1>8, PendingAppend DEF cancelQueued
  <2>2. r.op = "cancel"
    OBVIOUS
  <2> HIDE DEF r, n
  <2>3. \A j : AddPending(j)' => AddPending(j)
    BY <2>1, <2>2 DEF AddPending
  <2> QED BY <1>8, <2>3 DEF cancelQueued, timervars, history, Lost
<1>9. CASE RunFunctor
  <2>1. /\ pending # <<>> /\ pending' = Tail(pending)
        /\ \A i \in DOMAIN pending' : i + 1 \in DOMAIN pending /\ pending'[i] = pending[i + 1]
        /\ 1 \in DOMAIN pending /\ Head(pending) = pending[1]
    BY <1>9, PendingTail DEF RunFunctor
  <2> DEFINE h == pending[1].id
  <2>2. h \in TimerIds
    BY <2>1, PendingIds
  <2>3. CASE pending[1].op = "cancel" /\ cancelInLoop(h)
    BY <1>6, <2>1, <2>2, <2>3
  <2>4. CASE pending[1].op = "add" /\ addTimerInLoop(h)
    <3>1. AddPending(h)
      BY <2>1, <2>4 DEF AddPending
    <3>2. activeTimers_' = activeTimers_ \cup {h} /\ UNCHANGED <<cancelled, overtaken>>
      BY <2>4 DEF addTimerInLoop, insert, history
    <3> HIDE DEF h
    <3>3. \A j : AddPending(j)' => AddPending(j)
      BY <2>1 DEF AddPending
    <3> QED BY <3>1, <3>2, <3>3 DEF Lost
  <2> QED BY <1>9, <2>1, <2>3, <2>4 DEF RunFunctor
<1> QED BY <1>2, <1>3, <1>4, <1>5, <1>7, <1>8, <1>9 DEF Next

(***************************************************************************)
(* Repetition.  A repeating timer that ran is put an interval after the    *)
(* clock reading of its batch.                                             *)
(***************************************************************************)

\* It is either there already or waits for reset, not to be run again before.
Paced ==
  \A id \in fired : id \in activeTimers_ /\ repeat(id) =>
    \/ firedAt[id] + interval[id] <= expiration[id]
    \/ firedAt[id] = readTime /\ (\E e \in expired : e[2] = id) /\ \A e \in unrun : e[2] # id

LEMMA PacedStep == TypeOK /\ EntryInv /\ Paced /\ [Next]_vars => Paced'
<1> SUFFICES ASSUME TypeOK, EntryInv, Paced, [Next]_vars PROVE Paced'
  OBVIOUS
<1>a. Numbered /\ AddIsFirst /\ Apart /\ Placed
  BY DEF EntryInv
<1>b. fired \subseteq TimerIds /\ numCreated \notin fired
  <2>1. numCreated \in Nat
    BY TimerAssumption DEF TypeOK
  <2> QED BY <1>a, <2>1 DEF TypeOK, Numbered
<1>1. ASSUME UNCHANGED <<fired, firedAt, readTime, expired, unrun>>,
             \A id \in fired : /\ id \in activeTimers_' => id \in activeTimers_
                               /\ expiration'[id] = expiration[id] /\ interval'[id] = interval[id]
      PROVE  Paced'
  BY <1>1 DEF Paced, repeat
<1>2. CASE Tick \/ Poll \/ resetDeleted \/ StartFunctors \/ EndIteration \/ UNCHANGED vars
  BY <1>1, <1>2 DEF Tick, Poll, resetDeleted, StartFunctors, EndIteration, timervars, loopvars, history, vars
<1>3. ASSUME NEW when \in Times, NEW every \in Intervals,
             addTimer(when, every) \/ addTimerQueued(when, every)
      PROVE  Paced'
  <2>1. /\ UNCHANGED <<fired, firedAt, readTime, expired, unrun>>
        /\ activeTimers_' \subseteq activeTimers_ \cup {numCreated}
    BY <1>3 DEF addTimer, addTimerQueued, insert, loopvars, history
  <2>2. \A id \in TimerIds : id # numCreated => expiration'[id] = expiration[id] /\ interval'[id] = interval[id]
    BY <1>3 DEF TypeOK, addTimer, addTimerQueued, Create
  <2> QED BY <1>1, <1>b, <2>1, <2>2
<1>4. ASSUME NEW id \in TimerIds, cancel(id) \/ cancelQueued(id) PROVE Paced'
  BY <1>1, <1>4 DEF cancel, cancelQueued, cancelInLoop, timervars, loopvars, history
<1>5. CASE RunFunctor
  <2>1. /\ pending # <<>> /\ 1 \in DOMAIN pending /\ Head(pending) = pending[1]
    BY <1>5, PendingTail DEF RunFunctor
  <2> DEFINE h == pending[1].id
  <2>2. CASE cancelInLoop(h)
    BY <1>1, <1>5, <2>2 DEF RunFunctor, cancelInLoop, loopvars
  <2>3. CASE pending[1].op = "add" /\ addTimerInLoop(h)
    <3>1. h \in TimerIds /\ AddPending(h)
      BY <2>1, <2>3, PendingIds DEF AddPending
    <3>2. h \notin fired
      BY <1>a, <3>1 DEF AddIsFirst
    <3>3. /\ UNCHANGED <<fired, firedAt, readTime, expired, unrun, expiration, interval>>
          /\ activeTimers_' = activeTimers_ \cup {h}
      BY <1>5, <2>3 DEF RunFunctor, addTimerInLoop, insert, loopvars, history
    <3> HIDE DEF h
    <3> QED BY <1>1, <3>2, <3>3
  <2> QED BY <1>5, <2>1, <2>2, <2>3 DEF RunFunctor
<1>6. CASE handleRead
  <2>1. /\ UNCHANGED <<fired, firedAt, expiration, interval, activeTimers_>> /\ pc = "events"
    BY <1>6 DEF handleRead, history
  <2>2. expired = {}
    BY <1>a, <2>1 DEF Apart
  <2> QED BY <2>1, <2>2 DEF Paced, repeat
<1>7. CASE run
  <2>1. UNCHANGED <<readTime, expiration, interval, activeTimers_, expired>>
    BY <1>7 DEF run, timervars
  <2>2. PICK e \in unrun :
          /\ unrun' = unrun \ {e}
          /\ \/ /\ e[2] \in activeTimers_ /\ fired' = fired \cup {e[2]}
                /\ firedAt' = [firedAt EXCEPT ![e[2]] = readTime]
             \/ e[2] \notin activeTimers_ /\ fired' = fired /\ firedAt' = firedAt
    BY <1>7 DEF run
  <2>3. e \in expired /\ unrun \subseteq expired /\ e[2] \in TimerIds
    BY DEF TypeOK, Entries
  <2>4. CASE e[2] \notin activeTimers_ /\ fired' = fired /\ firedAt' = firedAt
    BY <2>1, <2>2, <2>4 DEF Paced, repeat
  <2>5. CASE /\ e[2] \in activeTimers_ /\ fired' = fired \cup {e[2]}
             /\ firedAt' = [firedAt EXCEPT ![e[2]] = readTime]
    <3>1. \A d \in unrun' : d[2] # e[2]
      BY <1>a, <2>2, <2>3, <2>5 DEF Placed
    <3>2. firedAt'[e[2]] = readTime /\ \A id \in TimerIds : id # e[2] => firedAt'[id] = firedAt[id]
      BY <2>3, <2>5 DEF TypeOK
    <3> SUFFICES ASSUME NEW id \in fired', id \in activeTimers_', repeat(id)'
                 PROVE  \/ firedAt'[id] + interval'[id] <= expiration'[id]
                        \/ /\ firedAt'[id] = readTime'
                           /\ \E d \in expired' : d[2] = id
                           /\ \A d \in unrun' : d[2] # id
      BY DEF Paced
    <3>3. CASE id = e[2]
      BY <2>1, <2>3, <3>1, <3>2, <3>3
    <3>4. CASE id # e[2]
      <4>1. id \in fired /\ id \in activeTimers_ /\ repeat(id) /\ id \in TimerIds
        BY <1>b, <2>1, <2>5, <3>4 DEF repeat
      <4> QED BY <2>1, <2>2, <3>2, <3>4, <4>1 DEF Paced
    <3> QED BY <3>3, <3>4
  <2> QED BY <2>2, <2>4, <2>5
<1>8. CASE reset
  <2>1. /\ UNCHANGED <<fired, firedAt, interval, readTime>> /\ expired' = {} /\ unrun = {}
        /\ activeTimers_' = activeTimers_ \ ({e[2] : e \in expired} \ Restarted)
        /\ expiration' = [id \in TimerIds |->
                            IF id \in Restarted THEN readTime + interval[id] ELSE expiration[id]]
    BY <1>8 DEF reset, history
  <2> SUFFICES ASSUME NEW id \in fired, id \in activeTimers_', repeat(id)
               PROVE  firedAt[id] + interval[id] <= expiration'[id]
    BY <2>1 DEF Paced, repeat
  <2>2. /\ id \in TimerIds /\ id \in activeTimers_ /\ firedAt[id] \in Nat /\ interval[id] \in Nat
        /\ expiration[id] \in Nat /\ readTime \in Nat
    BY <1>b, <2>1, TimerAssumption DEF TypeOK, Times
  <2>3. CASE id \in Restarted
    <3>1. expiration'[id] = readTime + interval[id]
      BY <2>1, <2>2, <2>3
    <3>2. PICK e \in expired : e[2] = id
      BY <2>3 DEF Restarted
    <3>3. e = <<expiration[id], id>> /\ e[1] <= readTime
      BY <1>a, <2>2, <3>2 DEF Placed, Apart
    <3>4. expiration[id] <= readTime
      BY <3>3
    <3>5. firedAt[id] + interval[id] <= expiration[id] \/ firedAt[id] = readTime
      BY <2>2 DEF Paced
    <3> QED BY <2>2, <3>1, <3>4, <3>5
  <2>4. CASE id \notin Restarted
    <3>1. expiration'[id] = expiration[id] /\ \A e \in expired : e[2] # id
      BY <2>1, <2>2, <2>4
    <3> QED BY <2>2, <3>1 DEF Paced
  <2> QED BY <2>3, <2>4
<1> QED BY <1>2, <1>3, <1>4, <1>5, <1>6, <1>7, <1>8 DEF Next

LEMMA EntryAlways == Spec => [](TypeOK /\ EntryInv /\ Lost /\ Paced)
<1>1. Init => EntryInv /\ Lost /\ Paced
  BY DEF Init, EntryInv, Numbered, AddIsFirst, AddPending, HasEntry, Apart, Placed, Spent, Lost, Paced
<1> QED BY <1>1, TypeInit, TypeStep, EntryStep, LostStep, PacedStep, PTL DEF Spec

\* Heap and map agree: every timer that exists has exactly one entry, at its expiration, in the
\* heap or among the expired, however adds and cancels of threads and callbacks interleave
\* (TimerQueue.cc:125-184).
THEOREM OneEntryForEach == Spec => []OneEntryEach
<1>1. EntryInv => OneEntryEach
  BY DEF EntryInv, Placed, OneEntryEach
<1> QED BY <1>1, EntryAlways, PTL

\* A callback is started only for a timer that is due; that was not cancelled, except ahead of
\* its own add; and that has not run, or repeats and ran at least an interval ago
\* (TimerQueue.cc:89-153).
THEOREM OnlyDueTimersStart == Spec => StartsOnlyDueTimers
<1>1. TypeOK /\ EntryInv /\ Lost /\ Paced /\ [Next]_vars =>
        [current' # current /\ current' # NoTimer =>
           /\ current' \in cancelled => current' \in overtaken
           /\ expiration[current'] <= readTime
           /\ current' \in fired =>
                repeat(current') /\ firedAt[current'] + interval[current'] <= readTime]_vars
  <2> SUFFICES ASSUME TypeOK, EntryInv, Lost, Paced, Next, current' # current, current' # NoTimer
               PROVE  /\ current' \in cancelled => current' \in overtaken
                      /\ expiration[current'] <= readTime
                      /\ current' \in fired =>
                           repeat(current') /\ firedAt[current'] + interval[current'] <= readTime
    OBVIOUS
  <2>1. run
    BY DEF Next, Tick, addTimer, addTimerQueued, cancel, cancelQueued, Poll, handleRead, reset,
           resetDeleted, StartFunctors, RunFunctor, EndIteration, loopvars
  <2>2. PICK e \in unrun : e[2] \in activeTimers_ /\ current' = e[2]
    BY <2>1 DEF run
  <2>3. e \in expired /\ Apart /\ Placed /\ Spent
    BY DEF TypeOK, EntryInv
  <2>4. e = <<expiration[e[2]], e[2]>> /\ e[1] <= readTime
    BY <2>2, <2>3 DEF Placed, Apart
  <2>5. expiration[e[2]] <= readTime
    BY <2>4
  <2>6. e[2] \in cancelled => e[2] \in overtaken
    BY <2>2 DEF Lost
  <2>7. ASSUME e[2] \in fired
        PROVE  repeat(e[2]) /\ firedAt[e[2]] + interval[e[2]] <= readTime
    <3>1. repeat(e[2])
      BY <2>2, <2>3, <2>7 DEF Spent
    <3>2. firedAt[e[2]] + interval[e[2]] <= expiration[e[2]]
      BY <2>2, <2>7, <3>1 DEF Paced
    <3>3. /\ firedAt[e[2]] \in Nat /\ interval[e[2]] \in Nat /\ expiration[e[2]] \in Nat
          /\ readTime \in Nat
      BY <2>2, TimerAssumption DEF TypeOK, Times
    <3> QED BY <2>5, <3>1, <3>2, <3>3
  <2> QED BY <2>2, <2>5, <2>6, <2>7
<1> QED BY <1>1, EntryAlways, PTL DEF Spec, StartsOnlyDueTimers
=============================================================================
