----------------------------- MODULE TimerQueue -----------------------------
(***************************************************************************)
(* gg_lib::net::TimerQueue: the timers of one EventLoop.  timers_ is a     *)
(* heap of <<expiration, id>> entries that may be stale, activeTimers_     *)
(* owns the Timer objects, and one timerfd wakes the loop for the earliest *)
(* entry.  Other threads add and cancel through the loop's functor queue   *)
(* (module FunctorQueue); the loop thread does so at once, also from the   *)
(* callback of a timer while handleRead walks the expired ones.            *)
(*                                                                         *)
(* Time is counted in units of 100 us, the shortest time the timerfd is    *)
(* ever set to.  One clock stands for the system clock of Timestamp::now() *)
(* and the monotonic clock of the timerfd.                                 *)
(***************************************************************************)
EXTENDS Naturals, Sequences

CONSTANTS
  MaxTimers,        \* bound: how many timers are ever created
  MaxTime,          \* bound: the clock stops here
  MaxPending,       \* bound: length of the functor queue
  Intervals         \* intervals of repeating timers; 0 is a timer that runs once

ASSUME TimerAssumption ==
  /\ MaxTimers \in Nat
  /\ MaxTime \in Nat
  /\ Intervals \subseteq Nat

TimerIds == 0 .. MaxTimers - 1      \* Timer::sequence()
Times == 0 .. MaxTime
NoTimer == MaxTimers                \* the loop thread is in no timer's callback
Disarmed == 0                       \* it_value of a timerfd that is not set

VARIABLES
  now,             \* the clock
  numCreated,      \* s_numCreated_
  expiration,      \* expiration_ of each timer
  interval,        \* interval_ of each timer
  timers_,         \* the heap, as the set of its entries
  activeTimers_,   \* ids of the timers that exist
  timerfd,         \* when the timerfd is going to expire
  readable,        \* it expired and was not read
  pending,         \* add and cancel functors queued by other threads
  pc,              \* where the loop thread is in its iteration
  ready,           \* poll found the timerfd readable
  readTime,        \* handleRead's now
  expired,         \* handleRead's vector, as the set of its entries
  unrun,           \* those of them the for loop has yet to reach
  current,         \* the timer whose callback runs
  cancelled,       \* timers that cancelInLoop was called for
  overtaken,       \* those of them whose last cancelInLoop ran ahead of addTimerInLoop
  fired,           \* timers whose callback was called
  firedAt,         \* readTime of the handleRead that called it last
  batchCancelled   \* a callback has cancelled a timer of the batch being run

vars == <<now, numCreated, expiration, interval, timers_, activeTimers_, timerfd,
          readable, pending, pc, ready, readTime, expired, unrun, current,
          cancelled, overtaken, fired, firedAt, batchCancelled>>

timervars == <<expiration, timers_, activeTimers_, timerfd, readable>>
loopvars == <<pc, ready, readTime, expired, unrun, current>>
history == <<cancelled, overtaken, fired, firedAt, batchCancelled>>

repeat(id) == interval[id] > 0

\* The order of the heap: std::greater on pairs.
Before(d, e) == d[1] < e[1] \/ (d[1] = e[1] /\ d[2] <= e[2])

Init ==
  /\ now = 0
  /\ numCreated = 0
  /\ expiration = [id \in TimerIds |-> 0]
  /\ interval = [id \in TimerIds |-> 0]
  /\ timers_ = {}
  /\ activeTimers_ = {}
  /\ timerfd = Disarmed
  /\ readable = FALSE
  /\ pending = <<>>
  /\ pc = "functors"            \* user code that precedes loop()
  /\ ready = FALSE
  /\ readTime = 0
  /\ expired = {}
  /\ unrun = {}
  /\ current = NoTimer
  /\ cancelled = {}
  /\ overtaken = {}
  /\ fired = {}
  /\ firedAt = [id \in TimerIds |-> 0]
  /\ batchCancelled = FALSE

-----------------------------------------------------------------------------
(* The timerfd.                                                            *)

\* The absolute time that howMuchTimeFromNow makes the timerfd expire at.
howMuchTimeFromNow(when) == IF when <= now THEN now + 1 ELSE when

\* timerfd_settime also forgets an expiry that was not read.
resetTimerfd(when) ==
  /\ timerfd' = howMuchTimeFromNow(when)
  /\ readable' = FALSE

Tick ==
  /\ now < MaxTime
  /\ now' = now + 1
  /\ IF timerfd # Disarmed /\ timerfd <= now + 1
       THEN timerfd' = Disarmed /\ readable' = TRUE
       ELSE UNCHANGED <<timerfd, readable>>
  /\ UNCHANGED <<numCreated, expiration, interval, timers_, activeTimers_, pending,
                 loopvars, history>>

-----------------------------------------------------------------------------
(* The operations in the loop thread.                                      *)

\* A faulty insert that sets the timerfd only when the heap was empty.
insert_EmptyOnly(id, when) ==
  /\ timers_' = timers_ \cup {<<when, id>>}
  /\ activeTimers_' = activeTimers_ \cup {id}
  /\ IF timers_ = {} THEN resetTimerfd(when) ELSE UNCHANGED <<timerfd, readable>>

\* insert, and the resetTimerfd of addTimerInLoop when the new timer is ahead
\* of the heap's top, or the heap is empty.
insert(id, when) ==
  /\ timers_' = timers_ \cup {<<when, id>>}
  /\ activeTimers_' = activeTimers_ \cup {id}
  /\ IF \A e \in timers_ : when < e[1]
       THEN resetTimerfd(when)
       ELSE UNCHANGED <<timerfd, readable>>

addTimerInLoop(id) == insert(id, expiration[id]) /\ UNCHANGED <<expiration, history>>

\* The functor of addTimerInLoop for this timer has yet to run.
AddPending(id) == \E i \in DOMAIN pending : pending[i].op = "add" /\ pending[i].id = id

\* cancelInLoop deletes the Timer; its entry stays in the heap.  It does nothing to a
\* timer that does not exist, be it that it ran and is gone or that its add is queued.
cancelInLoop(id) ==
  /\ activeTimers_' = activeTimers_ \ {id}
  /\ cancelled' = cancelled \cup {id}
  /\ overtaken' = IF AddPending(id) THEN overtaken \cup {id} ELSE overtaken \ {id}
  /\ batchCancelled' = (batchCancelled \/ \E e \in expired : e[2] = id)
  /\ UNCHANGED <<expiration, timers_, timerfd, readable, fired, firedAt>>

-----------------------------------------------------------------------------
(* The interface.  User code runs in the loop thread in the callbacks of   *)
(* other channels, in functors and in the callbacks of timers.             *)

InUserCode == pc \in {"events", "functors"} \/ (pc = "handleRead" /\ current # NoTimer)

\* new Timer(cb, when, every).
Create(when, every) ==
  /\ numCreated < MaxTimers
  /\ numCreated' = numCreated + 1
  /\ interval' = [interval EXCEPT ![numCreated] = every]

\* addTimer in the loop thread.
addTimer(when, every) ==
  /\ InUserCode
  /\ Create(when, every)
  /\ expiration' = [expiration EXCEPT ![numCreated] = when]
  /\ insert(numCreated, when)
  /\ UNCHANGED <<now, pending, loopvars, history>>

\* addTimer in another thread: through the functor queue.
addTimerQueued(when, every) ==
  /\ Len(pending) < MaxPending
  /\ Create(when, every)
  /\ expiration' = [expiration EXCEPT ![numCreated] = when]
  /\ pending' = Append(pending, [op |-> "add", id |-> numCreated])
  /\ UNCHANGED <<now, timers_, activeTimers_, timerfd, readable, loopvars, history>>

\* cancel in the loop thread.
cancel(id) ==
  /\ InUserCode
  /\ id < numCreated
  /\ cancelInLoop(id)
  /\ UNCHANGED <<now, numCreated, interval, pending, loopvars>>

\* cancel in another thread.
cancelQueued(id) ==
  /\ Len(pending) < MaxPending
  /\ id < numCreated
  /\ pending' = Append(pending, [op |-> "cancel", id |-> id])
  /\ UNCHANGED <<now, numCreated, interval, timervars, loopvars, history>>

-----------------------------------------------------------------------------
(* The iteration of the loop, as far as timers are concerned.              *)

Poll ==
  /\ pc = "poll"
  /\ pc' = "events"
  /\ ready' = readable
  /\ UNCHANGED <<now, numCreated, interval, timervars, pending, readTime, expired,
                 unrun, current, history>>

\* A faulty getExpired that leaves out the look-up in activeTimers_.
getExpired_NoLookup(at) == {e \in timers_ : e[1] <= at}

\* getExpired: the entries that are due are popped; those of timers that still
\* exist make the vector.
getExpired(at) == {e \in timers_ : e[1] <= at /\ e[2] \in activeTimers_}

\* handleRead up to the for loop.
handleRead ==
  /\ pc = "events"
  /\ ready
  /\ ready' = FALSE
  /\ readTime' = now
  /\ readable' = FALSE
  /\ expired' = getExpired(now)
  /\ unrun' = getExpired(now)
  /\ timers_' = {e \in timers_ : e[1] > now}
  /\ pc' = "handleRead"
  /\ UNCHANGED <<now, numCreated, expiration, interval, activeTimers_, timerfd, pending,
                 current, history>>

\* The next ptr->run().  The pointer is followed even if a callback before it
\* had the timer deleted: what the program does from then on is undefined.
run ==
  /\ pc = "handleRead"
  /\ \E e \in unrun :
       /\ \A d \in unrun : Before(e, d)
       /\ unrun' = unrun \ {e}
       /\ IF e[2] \in activeTimers_
            THEN /\ current' = e[2]
                 /\ fired' = fired \cup {e[2]}
                 /\ firedAt' = [firedAt EXCEPT ![e[2]] = readTime]
                 /\ UNCHANGED pc
            ELSE pc' = "undefined" /\ UNCHANGED <<current, fired, firedAt>>
  /\ UNCHANGED <<now, numCreated, interval, timervars, pending, ready, readTime, expired,
                 cancelled, overtaken, batchCancelled>>

\* A faulty reset that restarts the timers that run once, too.
Restarted_All == {id \in {e[2] : e \in expired} : id \in activeTimers_}

\* The repeating timers of the batch that still exist go back into the heap.
Restarted == {id \in {e[2] : e \in expired} : repeat(id) /\ id \in activeTimers_}

\* A faulty clean-up that also pops the first entry that is not stale.
Cleaned_OneMore(heap, active) ==
  {e \in heap : \E d \in heap : d # e /\ d[2] \in active /\ Before(d, e)}

\* The heap once the stale entries on top of it are popped.
Cleaned(heap, active) == {e \in heap : \E d \in heap : d[2] \in active /\ Before(d, e)}

\* The timerfd is set for the top of the heap, if its expiration is valid(),
\* which is to say not zero.
rearm ==
  \/ /\ timers_' = {} \/ \E e \in timers_' : e[1] = 0
     /\ UNCHANGED <<timerfd, readable>>
  \/ \E e \in timers_' :
       /\ e[1] > 0
       /\ \A d \in timers_' : e[1] <= d[1]
       /\ resetTimerfd(e[1])

\* reset, and the end of handleRead.
reset ==
  /\ pc = "handleRead"
  /\ unrun = {}
  /\ \A e \in expired : e[2] \in activeTimers_
  /\ expiration' = [id \in TimerIds |->
                      IF id \in Restarted THEN readTime + interval[id] ELSE expiration[id]]
  /\ activeTimers_' = activeTimers_ \ ({e[2] : e \in expired} \ Restarted)
  /\ timers_' = Cleaned(timers_ \cup {<<readTime + interval[id], id>> : id \in Restarted},
                        activeTimers_')
  /\ rearm
  /\ expired' = {}
  /\ current' = NoTimer
  /\ pc' = "events"
  /\ UNCHANGED <<now, numCreated, interval, pending, ready, readTime, unrun, history>>

\* reset follows the pointer to each expired timer, deleted or not, to ask it
\* for the id it would look up.
resetDeleted ==
  /\ pc = "handleRead"
  /\ unrun = {}
  /\ \E e \in expired : e[2] \notin activeTimers_
  /\ pc' = "undefined"
  /\ UNCHANGED <<now, numCreated, interval, timervars, pending, ready, readTime, expired,
                 unrun, current, history>>

\* The channels are done; doPendingFunctors follows.
StartFunctors ==
  /\ pc = "events"
  /\ ~ready
  /\ pc' = "functors"
  /\ UNCHANGED <<now, numCreated, interval, timervars, pending, ready, readTime, expired,
                 unrun, current, history>>

\* doPendingFunctors runs an add or a cancel of another thread.
RunFunctor ==
  /\ pc = "functors"
  /\ pending # <<>>
  /\ pending' = Tail(pending)
  /\ \/ Head(pending).op = "add" /\ addTimerInLoop(Head(pending).id)
     \/ Head(pending).op = "cancel" /\ cancelInLoop(Head(pending).id)
  /\ UNCHANGED <<now, numCreated, interval, loopvars>>

\* Back to poll; functors queued meanwhile have woken the loop.
EndIteration ==
  /\ pc = "functors"
  /\ pc' = "poll"
  /\ UNCHANGED <<now, numCreated, interval, timervars, pending, ready, readTime, expired,
                 unrun, current, history>>

-----------------------------------------------------------------------------

Next ==
  \/ Tick
  \/ \E when \in Times, every \in Intervals :
       addTimer(when, every) \/ addTimerQueued(when, every)
  \/ \E id \in TimerIds : cancel(id) \/ cancelQueued(id)
  \/ Poll \/ handleRead \/ run \/ reset \/ resetDeleted \/ StartFunctors \/ RunFunctor \/ EndIteration

Spec == Init /\ [][Next]_vars

-----------------------------------------------------------------------------
(* Properties.                                                             *)

Entries == Nat \X TimerIds

\* The values the members take; the callbacks still to run are among the expired
\* (TimerQueue.cc:114-123), and a timer runs only once it exists.
TypeOK ==
  /\ now \in Times
  /\ numCreated \in 0 .. MaxTimers
  /\ expiration \in [TimerIds -> Nat]
  /\ interval \in [TimerIds -> Nat]
  /\ timers_ \in SUBSET Entries
  /\ activeTimers_ \in SUBSET TimerIds
  /\ timerfd \in Nat
  /\ readable \in BOOLEAN
  /\ pending \in Seq([op : {"add", "cancel"}, id : TimerIds])
  /\ pc \in {"poll", "events", "handleRead", "functors", "undefined"}
  /\ ready \in BOOLEAN
  /\ readTime \in Times
  /\ expired \in SUBSET Entries
  /\ unrun \in SUBSET expired
  /\ current \in TimerIds \cup {NoTimer}
  /\ cancelled \in SUBSET TimerIds
  /\ overtaken \in SUBSET TimerIds
  /\ fired \in SUBSET TimerIds
  /\ firedAt \in [TimerIds -> Times]
  /\ batchCancelled \in BOOLEAN

\* The timerfd is going to expire no later than is right for this entry.
CoveredBy(e) ==
  readable \/ (timerfd # Disarmed /\ (timerfd <= e[1] \/ timerfd <= now + 1))

\* No timer is forgotten (TimerQueue.cc:99-107, 142-184): outside handleRead, the
\* timerfd has expired or is set for every entry of the heap, stale entries and
\* those whose time is over included.
EarliestArmed ==
  pc \notin {"handleRead", "undefined"} => \A e \in timers_ : CoveredBy(e)

\* The heap and the map agree (TimerQueue.cc:125-184): every timer that exists has
\* exactly one entry, at its own expiration, in the heap or among the expired.
OneEntryEach ==
  pc # "undefined" =>
    \A id \in activeTimers_ :
      {e \in timers_ \cup expired : e[2] = id} = {<<expiration[id], id>>}

\* As long as no callback cancels a timer of the batch being run, its own timer
\* included, handleRead and reset follow no pointer to a deleted Timer
\* (TimerQueue.cc:114-153).
KeptBatchIsSafe == ~batchCancelled => pc # "undefined"

\* A callback is started (TimerQueue.cc:89-153) only for a timer
\*   - that was not cancelled, unless the last cancel ran ahead of the timer's own add,
\*     which was still queued: such a cancel finds nothing to erase and is lost;
\*   - that was due when the clock was read;
\*   - that has not run, or else repeats and last ran in a batch whose clock reading is
\*     at least its interval back.
\* A cancel of a timer of the batch being run is the case of KeptBatchIsSafe.
StartsOnlyDueTimers ==
  [][current' # current /\ current' # NoTimer =>
       /\ current' \in cancelled => current' \in overtaken
       /\ expiration[current'] <= readTime
       /\ current' \in fired =>
            repeat(current') /\ firedAt[current'] + interval[current'] <= readTime]_vars
=============================================================================
