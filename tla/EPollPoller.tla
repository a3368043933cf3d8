---------------------------- MODULE EPollPoller -----------------------------
(***************************************************************************)
(* gg_lib::net::EPollPoller as operators on a record of its members, of    *)
(* the index_ of every Channel, and of the interest list of its epoll      *)
(* descriptor (`epoll`, in the kernel).  listSize is the size of events_,  *)
(* the array epoll_wait fills.                                             *)
(***************************************************************************)
EXTENDS Integers, Sequences, FiniteSets, Tables

CONSTANTS
  Channels,
  kInitEventListSize

Empty == [channels_ |-> << >>, index_ |-> [c \in Channels |-> "kNew"], epoll |-> << >>,
          listSize |-> kInitEventListSize]

\* A new Channel object in the place of c.
Constructed(p, c) == [p EXCEPT !.index_[c] = "kNew"]

hasChannel(p, c, fd) == fd \in DOMAIN p.channels_ /\ p.channels_[fd] = c

\* update(EPOLL_CTL_ADD or EPOLL_CTL_MOD), and update(EPOLL_CTL_DEL).
Add(p, c, fd, events) == [p EXCEPT !.epoll = Put(@, fd, [ptr |-> c, events |-> events])]
Del(p, fd) == [p EXCEPT !.epoll = Erase(@, fd)]

\* Assertions of updateChannel that fail, and an epoll_ctl that adds a descriptor twice
\* or modifies one that is not there.
updateFails(p, c, fd, events) ==
  (IF p.index_[c] = "kNew" /\ fd \in DOMAIN p.channels_ THEN {"EPollPoller.cc:84"} ELSE {})
    \cup (IF p.index_[c] # "kNew" /\ ~hasChannel(p, c, fd) THEN {"EPollPoller.cc:95"} ELSE {})
    \cup (IF \/ p.index_[c] # "kAdded" /\ fd \in DOMAIN p.epoll
             \/ p.index_[c] = "kAdded" /\ events # {} /\ fd \notin DOMAIN p.epoll
          THEN {"EPollPoller.cc:134"} ELSE {})

\* A faulty updateChannel that leaves index_ at kAdded when it takes the channel out of epoll.
updateChannel_StaysAdded(p, c, fd, events) ==
  CASE p.index_[c] # "kAdded" ->
         Add([p EXCEPT !.channels_ = Put(@, fd, c), !.index_[c] = "kAdded"], c, fd, events)
    [] p.index_[c] = "kAdded" -> IF events = {} THEN Del(p, fd) ELSE Add(p, c, fd, events)

\* A faulty updateChannel that takes a channel out of epoll for good.
updateChannel_NotAgain(p, c, fd, events) ==
  CASE p.index_[c] = "kNew" ->
         Add([p EXCEPT !.channels_ = Put(@, fd, c), !.index_[c] = "kAdded"], c, fd, events)
    [] p.index_[c] = "kDeleted" -> p
    [] p.index_[c] = "kAdded" ->
         IF events = {} THEN Del([p EXCEPT !.index_[c] = "kDeleted"], fd)
                        ELSE Add(p, c, fd, events)

\* A channel that is not in epoll is added even if it is interested in nothing.
updateChannel(p, c, fd, events) ==
  CASE p.index_[c] = "kNew" ->
         Add([p EXCEPT !.channels_ = Put(@, fd, c), !.index_[c] = "kAdded"], c, fd, events)
    [] p.index_[c] = "kDeleted" -> Add([p EXCEPT !.index_[c] = "kAdded"], c, fd, events)
    [] p.index_[c] = "kAdded" ->
         IF events = {} THEN Del([p EXCEPT !.index_[c] = "kDeleted"], fd)
                        ELSE Add(p, c, fd, events)

\* Assertions of removeChannel that fail.
removeFails(p, c, fd) ==
  (IF hasChannel(p, c, fd) THEN {} ELSE {"EPollPoller.cc:111"})
    \cup (IF p.index_[c] = "kNew" THEN {"EPollPoller.cc:114"} ELSE {})

removeChannel(p, c, fd) ==
  LET erased == [p EXCEPT !.channels_ = Erase(@, fd), !.index_[c] = "kNew"]
  IN IF p.index_[c] = "kAdded" THEN Del(erased, fd) ELSE erased

\* The channels whose descriptors epoll looks at, with the events it looks for.
Watched(p) ==
  [c \in {p.epoll[fd].ptr : fd \in DOMAIN p.epoll} |->
     p.epoll[CHOOSE fd \in DOMAIN p.epoll : p.epoll[fd].ptr = c].events]

\* The end of poll: a full array is doubled.
Resized(p, numEvents) ==
  IF numEvents = p.listSize THEN [p EXCEPT !.listSize = 2 * @] ELSE p

\* What epoll_wait and fillActiveChannels may give: as many of the descriptors with
\* events as there is room for, each as the pointer it was added with.  The order and the
\* choice are left open; Linux takes turns.
fillActiveChannels(p, ready) ==
  LET revents(fd) == ready[fd] \cap (p.epoll[fd].events \cup {"HUP"})
      hit == {fd \in DOMAIN p.epoll : revents(fd) # {}}
      n == IF Cardinality(hit) < p.listSize THEN Cardinality(hit) ELSE p.listSize
      orders == {s \in [1..n -> hit] : \A i, j \in 1..n : s[i] = s[j] => i = j}
  IN {[i \in 1..n |-> p.epoll[s[i]].ptr] : s \in orders}
=============================================================================
