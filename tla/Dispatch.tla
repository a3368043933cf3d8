------------------------------ MODULE Dispatch ------------------------------
(***************************************************************************)
(* The Channels of one EventLoop, the Poller that watches their            *)
(* descriptors, PollPoller or EPollPoller, and the part of                 *)
(* EventLoop::loop() that hands out events: poll, handleEvent on every     *)
(* channel of activeChannels_, pending functors.                           *)
(*                                                                         *)
(* Handlers and functors are user code of the loop thread and may, as they *)
(* run, construct channels, change their interest, remove and destroy      *)
(* them.  A descriptor is used again once its channel is gone.             *)
(* activeChannels_ holds raw pointers.  A failing assertion or the use of  *)
(* a channel that is gone is recorded and the model stops: a debug build   *)
(* aborts there, a release build goes on with what it happens to find.     *)
(***************************************************************************)
EXTENDS Integers, Sequences, FiniteSets

CONSTANTS
  Channels,             \* channel objects, numbered in the order of their construction
  Fds,                  \* descriptors
  Events,               \* what a channel can be interested in
  kInitEventListSize    \* the first size of EPollPoller's array, 64 in the code

NoChannel == 0

ASSUME DispatchAssumption ==
  /\ Channels \subseteq Nat \ {0}
  /\ Fds \subseteq Nat
  /\ "HUP" \notin Events
  /\ kInitEventListSize \in Nat \ {0}

VARIABLES
  kind,                 \* which poller newDefaultPoller made
  poller,               \* its state
  life,                 \* of every channel object
  fd_, events_, addedToLoop_,      \* members of the channels
  activeChannels_,      \* the channels the last poll reported
  wanted,               \* channels ready for their interest then and not handled since
  next,                 \* the next of them
  currentActiveChannel_,
  pc,                   \* where the loop is
  careful,              \* user code has kept the rules below
  failed                \* assertions that failed, pointers followed to what is gone

channelVars == <<life, fd_, events_, addedToLoop_>>
loopVars == <<activeChannels_, wanted, next, currentActiveChannel_, pc>>
vars == <<kind, poller, channelVars, loopVars, careful, failed>>

PP == INSTANCE PollPoller
EP == INSTANCE EPollPoller

Init ==
  /\ kind \in {"PollPoller", "EPollPoller"}       \* newDefaultPoller
  /\ poller = IF kind = "PollPoller" THEN PP!Empty ELSE EP!Empty
  /\ life = [c \in Channels |-> "none"]
  /\ fd_ = [c \in Channels |-> -1]
  /\ events_ = [c \in Channels |-> {}]
  /\ addedToLoop_ = [c \in Channels |-> FALSE]
  /\ activeChannels_ = << >>
  /\ wanted = {}
  /\ next = 1
  /\ currentActiveChannel_ = NoChannel
  /\ pc = "functors"
  /\ careful = TRUE
  /\ failed = {}

-----------------------------------------------------------------------------
(* Calls of user code: from handlers, and from functors.  The first come   *)
(* before loop(), which is like a functor here.                            *)

eventHandling_ == pc = "events"

UserCode == failed = {} /\ (pc = "functors" \/ currentActiveChannel_ # NoChannel)

inActiveChannels(c) == \E i \in DOMAIN activeChannels_ : activeChannels_[i] = c

FreeFds == Fds \ {fd_[c] : c \in {d \in Channels : life[d] \in {"exists", "removed"}}}

\* Channel::Channel, on the descriptor the kernel gives, the lowest that is free.
Construct(c, fd) ==
  /\ UserCode
  /\ life[c] = "none" /\ \A d \in Channels : d < c => life[d] # "none"
  /\ fd \in FreeFds /\ \A other \in FreeFds : fd <= other
  /\ life' = [life EXCEPT ![c] = "exists"]
  /\ fd_' = [fd_ EXCEPT ![c] = fd]
  /\ poller' = IF kind = "PollPoller" THEN PP!Constructed(poller, c) ELSE EP!Constructed(poller, c)
  /\ UNCHANGED <<kind, events_, addedToLoop_, loopVars, careful, failed>>

\* enableReading, disableWriting and so on, and update.
Update(c, events) ==
  /\ UserCode
  /\ life[c] = "exists"
  /\ events_' = [events_ EXCEPT ![c] = events]
  /\ addedToLoop_' = [addedToLoop_ EXCEPT ![c] = TRUE]
  /\ IF kind = "PollPoller"
       THEN /\ poller' = PP!updateChannel(poller, c, fd_[c], events)
            /\ failed' = failed \cup PP!updateFails(poller, c, fd_[c])
       ELSE /\ poller' = EP!updateChannel(poller, c, fd_[c], events)
            /\ failed' = failed \cup EP!updateFails(poller, c, fd_[c], events)
  /\ careful' = (careful /\ (events = {} => events_[c] # {}))
  /\ UNCHANGED <<kind, life, fd_, loopVars>>

enable(c) == \E e \in Events : Update(c, events_[c] \cup {e})
disable(c) == \E e \in events_[c] : Update(c, events_[c] \ {e})
disableAll(c) == Update(c, {})

\* Channel::remove and EventLoop::removeChannel.  A channel is removed once, before
\* it is destroyed, when it has given up its interest.
Remove(c) ==
  /\ UserCode
  /\ addedToLoop_[c]
  /\ events_[c] = {}
  /\ addedToLoop_' = [addedToLoop_ EXCEPT ![c] = FALSE]
  /\ LET inBatch == eventHandling_ /\ currentActiveChannel_ # c /\ inActiveChannels(c)
         asserts == IF inBatch THEN {"EventLoop.cc:167"} ELSE {}
     IN /\ careful' = (careful /\ ~inBatch)
        /\ IF kind = "PollPoller"
             THEN /\ poller' = PP!removeChannel(poller, c, fd_[c])
                  /\ failed' = failed \cup asserts \cup PP!removeFails(poller, c, fd_[c])
             ELSE /\ poller' = EP!removeChannel(poller, c, fd_[c])
                  /\ failed' = failed \cup asserts \cup EP!removeFails(poller, c, fd_[c])
  /\ life' = [life EXCEPT ![c] = "removed"]
  /\ UNCHANGED <<kind, fd_, events_, loopVars>>

\* Poller::hasChannel.
hasChannel(c) ==
  fd_[c] \in DOMAIN poller.channels_ /\ poller.channels_[fd_[c]] = c

\* Channel::~Channel, and its owner closes the descriptor.  Never called in the
\* channel's own handler.
Destroy(c) ==
  /\ UserCode
  /\ life[c] = "removed"
  /\ currentActiveChannel_ # c
  /\ life' = [life EXCEPT ![c] = "gone"]
  /\ failed' = IF hasChannel(c) THEN {"Channel.cc:29"} ELSE {}
  /\ UNCHANGED <<kind, poller, fd_, events_, addedToLoop_, loopVars, careful>>

-----------------------------------------------------------------------------
(* EventLoop::loop().                                                      *)

\* poll, with whatever the descriptors are ready for.
Poll ==
  /\ pc = "poll"
  /\ \E ready \in [Fds -> {{}, {"HUP"}} \cup {{e} : e \in Events}] :
       /\ wanted' = {c \in Channels : life[c] = "exists" /\ ready[fd_[c]] \cap events_[c] # {}}
       /\ IF kind = "PollPoller"
            THEN /\ activeChannels_' \in PP!fillActiveChannels(poller, ready)
                 /\ UNCHANGED poller
            ELSE /\ activeChannels_' \in EP!fillActiveChannels(poller, ready)
                 /\ poller' = EP!Resized(poller, Len(activeChannels_'))
  /\ pc' = "events"
  /\ UNCHANGED <<kind, channelVars, next, currentActiveChannel_, careful, failed>>

\* The for loop takes the next channel and calls its handleEvent.
handleEvent ==
  /\ pc = "events"
  /\ currentActiveChannel_ = NoChannel
  /\ next <= Len(activeChannels_)
  /\ LET c == activeChannels_[next] IN
       IF life[c] = "gone"
         THEN /\ failed' = failed \cup {"EventLoop.cc:101"}
              /\ UNCHANGED <<currentActiveChannel_, wanted>>
         ELSE /\ currentActiveChannel_' = c
              /\ wanted' = wanted \ {c}
              /\ UNCHANGED failed
  /\ next' = next + 1
  /\ UNCHANGED <<kind, poller, channelVars, activeChannels_, pc, careful>>

\* handleEvent returns.
Return ==
  /\ pc = "events"
  /\ currentActiveChannel_ # NoChannel
  /\ currentActiveChannel_' = NoChannel
  /\ UNCHANGED <<kind, poller, channelVars, activeChannels_, wanted, next, pc, careful, failed>>

\* The end of the for loop, and doPendingFunctors.
EndEvents ==
  /\ pc = "events"
  /\ currentActiveChannel_ = NoChannel
  /\ next > Len(activeChannels_)
  /\ pc' = "functors"
  /\ UNCHANGED <<kind, poller, channelVars, activeChannels_, wanted, next, currentActiveChannel_,
                 careful, failed>>

\* The end of the iteration; the next one begins with activeChannels_.clear().
EndFunctors ==
  /\ pc = "functors"
  /\ pc' = "poll"
  /\ activeChannels_' = << >>
  /\ next' = 1
  /\ UNCHANGED <<kind, poller, channelVars, wanted, currentActiveChannel_, careful, failed>>

loop == failed = {} /\ (Poll \/ handleEvent \/ Return \/ EndEvents \/ EndFunctors)

Next ==
  \/ \E c \in Channels :
       \/ \E fd \in Fds : Construct(c, fd)
       \/ enable(c)
       \/ disable(c)
       \/ disableAll(c)
       \/ Remove(c)
       \/ Destroy(c)
  \/ loop

Spec == Init /\ [][Next]_vars

\* The loop goes on and user code returns.
FairSpec == Spec /\ WF_vars(loop)
-----------------------------------------------------------------------------
(* Properties.                                                             *)

\* Whichever poller is used, it watches the channels with an interest, for that
\* interest, and reports no others: updateChannel, removeChannel and
\* fillActiveChannels of both keep their tables with the channels' events_ while
\* channels come and go and descriptors are used again.
Abstract == INSTANCE Poller WITH
  watched <- IF kind = "PollPoller" THEN PP!Watched(poller) ELSE EP!Watched(poller)

ImplementsPoller == Abstract!Spec

\* If user code gives up only interests it has and removes, in a handler, no other
\* channel of the batch, then no assertion of Channel, EventLoop and the pollers
\* fails and loop() never follows a pointer to a channel that is gone.
SafeDispatch == careful => failed = {}

\* A channel that is ready for its interest whenever poll looks is handled again and
\* again, however often its interest was given up and taken up before and whichever
\* entries were moved (EPollPoller.cc:77-121, PollPoller.cc:36-88).
ReadyIsHandled == \A c \in Channels : []<>(failed # {} \/ c \notin wanted)
=============================================================================
