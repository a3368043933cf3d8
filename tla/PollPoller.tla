----------------------------- MODULE PollPoller -----------------------------
(***************************************************************************)
(* gg_lib::net::PollPoller as operators on a record of its members and of  *)
(* the index_ of every Channel.  pollfds_ is the array for poll(2); an     *)
(* entry with the negative descriptor -fd - 1 is not looked at.  An index_ *)
(* counts from 0, and is -1 in a Channel that was never registered.        *)
(***************************************************************************)
EXTENDS Integers, Sequences, FiniteSets, Tables

CONSTANT Channels

Empty == [pollfds_ |-> <<>>, channels_ |-> << >>, index_ |-> [c \in Channels |-> -1]]

\* A new Channel object in the place of c.
Constructed(p, c) == [p EXCEPT !.index_[c] = -1]

Ignored(fd) == -fd - 1

hasChannel(p, c, fd) == fd \in DOMAIN p.channels_ /\ p.channels_[fd] = c

\* Assertions of updateChannel that fail.
updateFails(p, c, fd) ==
  LET idx == p.index_[c] IN
  IF idx < 0
    THEN IF fd \in DOMAIN p.channels_ THEN {"PollPoller.cc:40"} ELSE {}
    ELSE (IF hasChannel(p, c, fd) THEN {} ELSE {"PollPoller.cc:51"})
           \cup (IF idx >= Len(p.pollfds_) THEN {"PollPoller.cc:53"}
                 ELSE IF p.pollfds_[idx + 1].fd \in {fd, Ignored(fd)} THEN {}
                 ELSE {"PollPoller.cc:55"})

\* A faulty updateChannel that leaves the descriptor of a channel without interest to poll(2).
updateChannel_StillLooks(p, c, fd, events) ==
  IF p.index_[c] < 0
    THEN [p EXCEPT !.pollfds_ = Append(@, [fd |-> fd, events |-> events]),
                   !.index_[c] = Len(p.pollfds_),
                   !.channels_ = Put(@, fd, c)]
    ELSE [p EXCEPT !.pollfds_[p.index_[c] + 1].events = events]

updateChannel(p, c, fd, events) ==
  IF p.index_[c] < 0
    THEN [p EXCEPT !.pollfds_ = Append(@, [fd |-> fd, events |-> events]),
                   !.index_[c] = Len(p.pollfds_),
                   !.channels_ = Put(@, fd, c)]
    ELSE [p EXCEPT !.pollfds_[p.index_[c] + 1] =
            [fd |-> IF events = {} THEN Ignored(fd) ELSE fd, events |-> events]]

\* Assertions of removeChannel that fail.
removeFails(p, c, fd) ==
  LET idx == p.index_[c] IN
  (IF hasChannel(p, c, fd) THEN {} ELSE {"PollPoller.cc:70"})
    \cup (IF idx \notin 0 .. Len(p.pollfds_) - 1 THEN {"PollPoller.cc:74"}
          ELSE IF p.pollfds_[idx + 1].fd = Ignored(fd) THEN {}
          ELSE {"PollPoller.cc:76"})

\* The last entry takes the place of the one that goes.
removeChannel(p, c, fd) ==
  LET idx == p.index_[c]
      n == Len(p.pollfds_)
      back == p.pollfds_[n].fd
      channelAtEnd == IF back < 0 THEN -back - 1 ELSE back
      erased == Erase(p.channels_, fd)
  IN [p EXCEPT !.channels_ = erased,
               !.pollfds_ = SubSeq([@ EXCEPT ![idx + 1] = p.pollfds_[n]], 1, n - 1),
               !.index_ = IF idx # n - 1 THEN [@ EXCEPT ![erased[channelAtEnd]] = idx] ELSE @]

\* The channels whose descriptors poll(2) looks at, with the events it looks for.
Watched(p) ==
  LET looked == {i \in DOMAIN p.pollfds_ : p.pollfds_[i].fd >= 0}
      channel(i) == p.channels_[p.pollfds_[i].fd]
  IN [c \in {channel(i) : i \in looked} |->
        p.pollfds_[CHOOSE i \in looked : channel(i) = c].events]

\* What poll(2) and fillActiveChannels give: the entries with events, in the order of
\* the array, each as the channel that channels_ has for its descriptor.
fillActiveChannels(p, ready) ==
  LET revents(pfd) == IF pfd.fd < 0 THEN {} ELSE ready[pfd.fd] \cap (pfd.events \cup {"HUP"})
      hit == {i \in DOMAIN p.pollfds_ : revents(p.pollfds_[i]) # {}}
      n == Cardinality(hit)
      orders == {s \in [1..n -> hit] : \A i, j \in 1..n : i < j => s[i] < s[j]}
  IN {[i \in 1..n |-> p.channels_[p.pollfds_[s[i]].fd]] : s \in orders}
=============================================================================
