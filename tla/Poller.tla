------------------------------- MODULE Poller -------------------------------
(***************************************************************************)
(* What an EventLoop and the owners of Channels rely on in a Poller: it    *)
(* watches the channels that are interested in something, for just that    *)
(* and for hang-ups, and reports only channels it watches.                 *)
(*                                                                         *)
(* Nothing is promised about a channel that gives up an interest it does   *)
(* not have: it may or may not be watched for hang-ups.                    *)
(***************************************************************************)
EXTENDS Integers, Sequences, Tables

CONSTANTS Channels, Events

VARIABLES
  events_,     \* the interest of every channel
  watched,     \* the interest with which a channel is watched
  activeChannels_     \* the channels the last poll reported

pvars == <<events_, watched, activeChannels_>>

Init ==
  /\ events_ = [c \in Channels |-> {}]
  /\ watched = << >>
  /\ activeChannels_ = << >>

\* The channel changes its interest.
Update(c, events) ==
  /\ events_' = [events_ EXCEPT ![c] = events]
  /\ \/ events # {} /\ watched' = Put(watched, c, events)
     \/ events = {} /\ watched' = Erase(watched, c)
     \/ events = {} /\ events_[c] = {} /\ watched' = Put(watched, c, {})
  /\ UNCHANGED activeChannels_

\* A channel without interest is removed.
Remove(c) ==
  /\ events_[c] = {}
  /\ watched' = Erase(watched, c)
  /\ UNCHANGED <<events_, activeChannels_>>

\* Only watched channels are reported, each at most once.
Poll(list) ==
  /\ \A i \in DOMAIN list :
       /\ list[i] \in DOMAIN watched
       /\ \A j \in 1 .. i - 1 : list[j] # list[i]
  /\ activeChannels_' = list
  /\ UNCHANGED <<events_, watched>>

Next ==
  \/ \E c \in Channels, events \in SUBSET Events : Update(c, events)
  \/ \E c \in Channels : Remove(c)
  \/ Poll(activeChannels_')

Spec == Init /\ [][Next]_pvars
=============================================================================
