--------------------------- MODULE DispatchProofs ---------------------------
(***************************************************************************)
(* Proofs about Dispatch for any number of channels, descriptors and kinds *)
(* of events: both pollers keep their tables with the channels, so that    *)
(* they implement Poller, and user code that keeps the rules meets neither *)
(* a failing assertion nor a channel that is gone.                         *)
(***************************************************************************)
EXTENDS Dispatch, Tables, FiniteSetTheorems, SequenceTheorems, TLAPS

(***************************************************************************)
(* Tables of channels: added is the set of channels a poller was told of,  *)
(* fds their descriptors, evs their interest.                              *)
(***************************************************************************)

Pollfd == [fd : Int, events : SUBSET Events]

\* Channels do not share descriptors.
Apart(added, fds) ==
  /\ \A c \in added : fds[c] \in Nat
  /\ \A c, d \in added : fds[c] = fds[d] => c = d

\* channels_ has the added channels.
MapFits(map, added, fds) ==
  /\ DOMAIN map = {fds[c] : c \in added}
  /\ \A c \in added : map[fds[c]] = c

LEMMA MapAdd ==
  ASSUME NEW map, NEW added, NEW fds, NEW c, MapFits(map, added, fds),
         \A d \in added : fds[d] = fds[c] => d = c
  PROVE  MapFits(Put(map, fds[c], c), added \cup {c}, fds)
<1> DEFINE m == Put(map, fds[c], c)
<1>1. DOMAIN m = DOMAIN map \cup {fds[c]} /\ m[fds[c]] = c
      /\ \A k \in DOMAIN map : k # fds[c] => m[k] = map[k]
  BY DEF Put
<1> HIDE DEF m
<1>2. DOMAIN m = {fds[d] : d \in added \cup {c}}
  BY <1>1 DEF MapFits
<1>3. ASSUME NEW d \in added \cup {c} PROVE m[fds[d]] = d
  <2>1. CASE d = c
    BY <1>1, <2>1
  <2>2. CASE d # c
    <3>1. d \in added /\ fds[d] # fds[c] /\ fds[d] \in DOMAIN map /\ map[fds[d]] = d
      BY <2>2 DEF MapFits
    <3> QED BY <1>1, <3>1
  <2> QED BY <2>1, <2>2
<1>4. MapFits(m, added \cup {c}, fds)
  BY <1>2, <1>3 DEF MapFits
<1> QED BY <1>4 DEF m

LEMMA MapErase ==
  ASSUME NEW map, NEW added, NEW fds, NEW c \in added, MapFits(map, added, fds), Apart(added, fds)
  PROVE  MapFits(Erase(map, fds[c]), added \ {c}, fds)
<1> DEFINE m == Erase(map, fds[c])
<1>1. DOMAIN m = DOMAIN map \ {fds[c]} /\ \A k \in DOMAIN m : m[k] = map[k]
  BY DEF Erase
<1> HIDE DEF m
<1>2. \A d \in added \ {c} : d \in added /\ fds[d] # fds[c]
  BY DEF Apart
<1>3. DOMAIN m = {fds[d] : d \in added \ {c}}
  BY <1>1, <1>2 DEF MapFits
<1>4. ASSUME NEW d \in added \ {c} PROVE m[fds[d]] = d
  <2>1. fds[d] \in DOMAIN m
    BY <1>3
  <2> QED BY <1>1, <2>1 DEF MapFits
<1>5. MapFits(m, added \ {c}, fds)
  BY <1>3, <1>4 DEF MapFits
<1> QED BY <1>5 DEF m

-----------------------------------------------------------------------------
(***************************************************************************)
(* PollPoller: a is pollfds_, x is index_.                                 *)
(***************************************************************************)

\* An entry is looked at for the interest of its channel, or ignored if there is none.
EntryFits(entry, fd, events) ==
  /\ entry.events = events
  /\ entry.fd = fd \/ (entry.fd = PP!Ignored(fd) /\ events = {})

\* The array has one entry for every added channel, at its index.
PollFits(a, x, added, fds, evs) ==
  /\ \A c \in added : x[c] \in 0 .. Len(a) - 1 /\ EntryFits(a[x[c] + 1], fds[c], evs[c])
  /\ \A i \in 1..Len(a) : \E c \in added : x[c] + 1 = i

\* The entries of some channels have moved at most.
SameEntries(a, x, b, y, some) == \A c \in some : b[y[c] + 1] = a[x[c] + 1]

Agree(f, g, some) == \A c \in some : g[c] = f[c]

\* An entry for c at the end, and in the place of the one c had.
Appends(a, x, c, entry, b, y) == b = Append(a, entry) /\ y = [x EXCEPT ![c] = Len(a)]

Sets(a, x, c, entry, b) == b = [a EXCEPT ![x[c] + 1] = entry]

\* The last entry, which e has, in the place of the one of c.
Moves(a, x, c, e, b, y) ==
  /\ b = SubSeq([a EXCEPT ![x[c] + 1] = a[Len(a)]], 1, Len(a) - 1)
  /\ y = IF x[c] # Len(a) - 1 THEN [x EXCEPT ![e] = x[c]] ELSE x

\* What an entry for c gives.
Placed(a, x, b, y, others, c, entry) == SameEntries(a, x, b, y, others) /\ b[y[c] + 1] = entry

\* An entry tells its descriptor.
LEMMA EntryTells ==
  ASSUME NEW entry, NEW fd \in Nat, NEW other \in Nat, NEW events, NEW events2,
         EntryFits(entry, fd, events), EntryFits(entry, other, events2)
  PROVE  fd = other
BY DEF EntryFits, PP!Ignored

\* So two channels never share an entry.
LEMMA EntriesApart ==
  ASSUME NEW a, NEW x, NEW added, NEW fds, NEW evs, PollFits(a, x, added, fds, evs), Apart(added, fds),
         NEW c \in added, NEW d \in added, x[c] = x[d]
  PROVE  c = d
<1>1. EntryFits(a[x[c] + 1], fds[c], evs[c]) /\ EntryFits(a[x[c] + 1], fds[d], evs[d])
  BY DEF PollFits
<1>2. fds[c] \in Nat /\ fds[d] \in Nat
  BY DEF Apart
<1>3. fds[c] = fds[d]
  BY <1>1, <1>2, EntryTells
<1> QED BY <1>3 DEF Apart

\* updateChannel of a channel that is new: an entry at the end.
LEMMA PollAdd ==
  ASSUME NEW a \in Seq(Pollfd), NEW x \in [Channels -> Int], NEW added \in SUBSET Channels,
         NEW fds, NEW evs, NEW c \in Channels \ added, NEW entry \in Pollfd, NEW evs2,
         PollFits(a, x, added, fds, evs), EntryFits(entry, fds[c], evs2[c]),
         Agree(evs, evs2, added), NEW b, NEW y, Appends(a, x, c, entry, b, y)
  PROVE  PollFits(b, y, added \cup {c}, fds, evs2) /\ Placed(a, x, b, y, added, c, entry)
<1> USE DEF Appends
<1> DEFINE n == Len(a)
<1>1. n \in Nat /\ Len(b) = n + 1 /\ b[n + 1] = entry /\ \A i \in 1..n : b[i] = a[i]
  BY AppendProperties
<1>2. y[c] = n /\ \A d \in added : y[d] = x[d] /\ d # c
  OBVIOUS
<1> HIDE DEF n
<1>3. ASSUME NEW d \in added \cup {c}
      PROVE  /\ y[d] \in 0 .. Len(b) - 1 /\ EntryFits(b[y[d] + 1], fds[d], evs2[d])
             /\ b[y[d] + 1] = IF d = c THEN entry ELSE a[x[d] + 1]
  <2>1. CASE d = c
    <3>1. n \in 0 .. Len(b) - 1
      BY <1>1
    <3> QED BY <1>1, <1>2, <2>1, <3>1
  <2>2. CASE d \in added
    <3>1. x[d] \in 0 .. n - 1 /\ EntryFits(a[x[d] + 1], fds[d], evs[d])
      BY <2>2 DEF PollFits, n
    <3>2. x[d] + 1 \in 1..n /\ x[d] \in 0 .. Len(b) - 1
      BY <1>1, <3>1
    <3> QED BY <1>1, <1>2, <2>2, <3>1, <3>2 DEF Agree
  <2> QED BY <2>1, <2>2
<1>4. ASSUME NEW i \in 1..Len(b) PROVE \E d \in added \cup {c} : y[d] + 1 = i
  <2>1. CASE i = n + 1
    BY <1>2, <2>1
  <2>2. CASE i # n + 1
    <3>1. i \in 1..n
      BY <1>1, <2>2
    <3>2. PICK d \in added : x[d] + 1 = i
      BY <3>1 DEF PollFits, n
    <3> QED BY <1>2, <3>2
  <2> QED BY <2>1, <2>2
<1>5. PollFits(b, y, added \cup {c}, fds, evs2)
  BY <1>3, <1>4 DEF PollFits
<1>6. Placed(a, x, b, y, added, c, entry)
  BY <1>2, <1>3 DEF Placed, SameEntries
<1> QED BY <1>5, <1>6

\* updateChannel of a channel that has an entry.
LEMMA PollSet ==
  ASSUME NEW a \in Seq(Pollfd), NEW x \in [Channels -> Int], NEW added \in SUBSET Channels,
         NEW fds, NEW evs, NEW c \in added, NEW entry \in Pollfd, NEW evs2,
         PollFits(a, x, added, fds, evs), Apart(added, fds), EntryFits(entry, fds[c], evs2[c]),
         Agree(evs, evs2, added \ {c}), NEW b, Sets(a, x, c, entry, b)
  PROVE  /\ b \in Seq(Pollfd)
         /\ PollFits(b, x, added, fds, evs2)
         /\ Placed(a, x, b, x, added \ {c}, c, entry)
<1> USE DEF Sets
<1> DEFINE k == x[c] + 1
<1>1. x[c] \in 0 .. Len(a) - 1
  BY DEF PollFits
<1>2. k \in 1..Len(a) /\ Len(a) \in Nat
  BY <1>1
<1>3. b \in Seq(Pollfd) /\ Len(b) = Len(a) /\ b[k] = entry /\ \A i \in 1..Len(a) : i # k => b[i] = a[i]
  BY <1>2
<1>4. ASSUME NEW d \in added
      PROVE  /\ x[d] \in 0 .. Len(b) - 1 /\ EntryFits(b[x[d] + 1], fds[d], evs2[d])
             /\ d # c => b[x[d] + 1] = a[x[d] + 1]
  <2>1. x[d] \in 0 .. Len(a) - 1 /\ EntryFits(a[x[d] + 1], fds[d], evs[d])
    BY DEF PollFits
  <2>2. CASE d = c
    BY <1>3, <2>1, <2>2
  <2>3. CASE d # c
    <3>1. x[d] # x[c]
      BY <2>3, EntriesApart
    <3>2. x[d] + 1 \in 1..Len(a) /\ x[d] + 1 # k
      BY <1>1, <1>2, <2>1, <3>1
    <3> QED BY <1>3, <2>1, <2>3, <3>2 DEF Agree
  <2> QED BY <2>2, <2>3
<1>5. \A i \in 1..Len(b) : \E d \in added : x[d] + 1 = i
  BY <1>3 DEF PollFits
<1>6. PollFits(b, x, added, fds, evs2)
  BY <1>4, <1>5 DEF PollFits
<1>7. Placed(a, x, b, x, added \ {c}, c, entry)
  BY <1>3, <1>4 DEF Placed, SameEntries
<1> QED BY <1>3, <1>6, <1>7

\* removeChannel: the last entry takes the place of the one that goes.
LEMMA PollRemove ==
  ASSUME NEW a \in Seq(Pollfd), NEW x \in [Channels -> Int], NEW added \in SUBSET Channels,
         NEW fds, NEW evs, NEW c \in added, PollFits(a, x, added, fds, evs), Apart(added, fds),
         NEW e \in added, x[e] + 1 = Len(a), NEW b, NEW y, Moves(a, x, c, e, b, y)
  PROVE  /\ b \in Seq(Pollfd) /\ y \in [Channels -> Int]
         /\ PollFits(b, y, added \ {c}, fds, evs)
         /\ SameEntries(a, x, b, y, added \ {c})
<1> USE DEF Moves
<1> DEFINE k == x[c] + 1
           n == Len(a)
           w == [a EXCEPT ![k] = a[n]]
<1>1. x[c] \in 0 .. n - 1 /\ n \in Nat
  BY DEF PollFits
<1>2. k \in 1..n /\ n - 1 \in Nat
  BY <1>1
<1>3. n \in 1..n /\ a[n] \in Pollfd
  BY <1>2
<1>4. w \in Seq(Pollfd) /\ Len(w) = n /\ w[k] = a[n] /\ \A i \in 1..n : i # k => w[i] = a[i]
  BY <1>2, <1>3
<1> HIDE DEF w
<1>5. b = SubSeq(w, 1, n - 1)
  BY DEF w
<1>6. b \in Seq(Pollfd) /\ Len(b) = n - 1 /\ \A i \in 1 .. n - 1 : b[i] = w[i]
  <2>1. \A i \in 1 .. n - 1 : w[i] \in Pollfd
    BY <1>2, <1>4
  <2> DEFINE l == n - 1
  <2>2. l \in Nat /\ 1..l \subseteq DOMAIN w
    BY <1>2, <1>4
  <2> HIDE DEF l
  <2>3. /\ SubSeq(w, 1, l) \in Seq(Pollfd)
        /\ Len(SubSeq(w, 1, l)) = IF 1 <= l THEN l - 1 + 1 ELSE 0
        /\ \A i \in 1 .. l - 1 + 1 : SubSeq(w, 1, l)[i] = w[1 + i - 1]
    BY <1>4, <2>1, <2>2, SubSeqProperties DEF l
  <2>4. Len(SubSeq(w, 1, l)) = l /\ \A i \in 1..l : SubSeq(w, 1, l)[i] = w[i]
    BY <2>2, <2>3
  <2> QED BY <1>5, <2>3, <2>4 DEF l
<1>7. y \in [Channels -> Int]
  OBVIOUS
<1>8. x[c] = n - 1 <=> e = c
  <2>1. x[e] = n - 1
    BY <1>1
  <2> QED BY <2>1, EntriesApart
<1>9. ASSUME NEW d \in added \ {c}
      PROVE  /\ d = e => y[d] = x[c] /\ x[c] # n - 1
             /\ d # e => y[d] = x[d] /\ x[d] # n - 1 /\ x[d] # x[c]
  <2>1. CASE d = e
    BY <1>8, <2>1
  <2>2. CASE d # e
    <3>1. x[d] # x[c] /\ x[d] # x[e]
      BY <2>2, EntriesApart
    <3>2. x[e] = n - 1
      BY <1>1
    <3>3. y[d] = x[d]
      BY <2>2
    <3> QED BY <2>2, <3>1, <3>2, <3>3
  <2> QED BY <2>1, <2>2
<1>10. ASSUME NEW d \in added \ {c}
       PROVE  /\ y[d] \in 0 .. Len(b) - 1 /\ EntryFits(b[y[d] + 1], fds[d], evs[d])
              /\ b[y[d] + 1] = a[x[d] + 1]
  <2>1. x[d] \in 0 .. n - 1 /\ EntryFits(a[x[d] + 1], fds[d], evs[d])
    BY DEF PollFits
  <2>2. CASE d = e
    <3>1. y[d] = x[c] /\ x[c] # n - 1
      BY <1>9, <2>2
    <3>2. x[c] \in 0 .. Len(b) - 1 /\ k \in 1 .. n - 1
      BY <1>1, <1>6, <3>1
    <3>3. b[k] = a[n] /\ x[d] + 1 = n
      BY <1>4, <1>6, <2>2, <3>2
    <3> QED BY <2>1, <3>1, <3>2, <3>3
  <2>3. CASE d # e
    <3>1. y[d] = x[d] /\ x[d] # n - 1 /\ x[d] # x[c]
      BY <1>9, <2>3
    <3>2. x[d] \in 0 .. Len(b) - 1 /\ x[d] + 1 \in 1 .. n - 1 /\ x[d] + 1 # k /\ x[d] + 1 \in 1..n
      BY <1>1, <1>6, <2>1, <3>1
    <3>3. b[x[d] + 1] = a[x[d] + 1]
      BY <1>4, <1>6, <3>2
    <3> QED BY <2>1, <3>1, <3>2, <3>3
  <2> QED BY <2>2, <2>3
<1>11. ASSUME NEW i \in 1..Len(b) PROVE \E d \in added \ {c} : y[d] + 1 = i
  <2>1. i \in 1..n /\ i # n
    BY <1>2, <1>6
  <2>2. CASE i = k
    <3>1. e # c
      BY <1>1, <1>8, <2>1, <2>2
    <3>2. y[e] = x[c]
      BY <1>9, <3>1
    <3> QED BY <2>2, <3>1, <3>2
  <2>3. CASE i # k
    <3>1. PICK d \in added : x[d] + 1 = i
      BY <2>1 DEF PollFits
    <3>2. d # c /\ d # e
      BY <2>1, <2>3, <3>1
    <3>3. y[d] = x[d]
      BY <1>9, <3>2
    <3> QED BY <3>1, <3>2, <3>3
  <2> QED BY <2>2, <2>3
<1> HIDE DEF k, n
<1> QED BY <1>6, <1>7, <1>10, <1>11 DEF PollFits, SameEntries

\* The channels poll(2) looks at.
PollLooked(a, x, added) == {c \in added : a[x[c] + 1].fd >= 0}

LEMMA PollWatches ==
  ASSUME NEW p, p.pollfds_ \in Seq(Pollfd), NEW added, NEW fds, NEW evs,
         MapFits(p.channels_, added, fds), PollFits(p.pollfds_, p.index_, added, fds, evs), Apart(added, fds)
  PROVE  PP!Watched(p) = [c \in PollLooked(p.pollfds_, p.index_, added) |-> evs[c]]
<1> DEFINE a == p.pollfds_
           x == p.index_
           m == p.channels_
           looked == {i \in DOMAIN a : a[i].fd >= 0}
           channel(i) == m[a[i].fd]
           L == PollLooked(a, x, added)
<1>1. PP!Watched(p) = [c \in {channel(i) : i \in looked} |-> a[CHOOSE i \in looked : channel(i) = c].events]
  BY DEF PP!Watched
<1>2. a \in Seq(Pollfd) /\ DOMAIN a = 1..Len(a) /\ Len(a) \in Nat
  OBVIOUS
<1> HIDE DEF a, x, m
<1>3. MapFits(m, added, fds) /\ PollFits(a, x, added, fds, evs)
  BY DEF a, x, m
<1>4. ASSUME NEW c \in L PROVE x[c] + 1 \in looked /\ channel(x[c] + 1) = c /\ a[x[c] + 1].events = evs[c]
  <2>1. c \in added /\ a[x[c] + 1].fd >= 0
    BY DEF PollLooked
  <2>2. x[c] \in 0 .. Len(a) - 1 /\ EntryFits(a[x[c] + 1], fds[c], evs[c]) /\ fds[c] \in Nat
    BY <1>3, <2>1 DEF PollFits, Apart
  <2>3. x[c] + 1 \in DOMAIN a
    BY <1>2, <2>2
  <2>4. a[x[c] + 1].fd = fds[c]
    BY <2>1, <2>2 DEF EntryFits, PP!Ignored
  <2> QED BY <1>3, <2>1, <2>2, <2>3, <2>4 DEF EntryFits, MapFits
<1>5. ASSUME NEW i \in looked PROVE \E c \in L : i = x[c] + 1
  <2>1. i \in 1..Len(a) /\ a[i].fd >= 0
    BY <1>2
  <2>2. PICK c \in added : x[c] + 1 = i
    BY <1>3, <2>1 DEF PollFits
  <2> QED BY <2>1, <2>2 DEF PollLooked
<1> HIDE DEF looked, channel, L
<1>6. {channel(i) : i \in looked} = L
  BY <1>4, <1>5
<1>7. ASSUME NEW c \in L PROVE a[CHOOSE i \in looked : channel(i) = c].events = evs[c]
  <2> DEFINE i == CHOOSE j \in looked : channel(j) = c
  <2>1. i \in looked /\ channel(i) = c
    BY <1>4
  <2>2. PICK d \in L : i = x[d] + 1
    BY <1>5, <2>1
  <2>3. d = c
    BY <1>4, <2>1, <2>2
  <2> QED BY <1>4, <2>2, <2>3
<1> QED BY <1>1, <1>6, <1>7 DEF L, a, x

-----------------------------------------------------------------------------
(***************************************************************************)
(* EPollPoller: x is index_, e the table of the epoll descriptor.          *)
(***************************************************************************)

\* The channels epoll looks at.
EPollLooked(x, added) == {c \in added : x[c] = "kAdded"}

\* epoll has the added channels that are not deleted, and those have no interest.
EPollFits(x, e, added, fds, evs) ==
  /\ \A c \in added : x[c] \in {"kAdded", "kDeleted"} /\ (x[c] = "kDeleted" => evs[c] = {})
  /\ DOMAIN e = {fds[c] : c \in EPollLooked(x, added)}
  /\ \A c \in EPollLooked(x, added) : e[fds[c]] = [ptr |-> c, events |-> evs[c]]

EntryPut(e, c, fds, evs, f) == f = Put(e, fds[c], [ptr |-> c, events |-> evs[c]])

EntryErased(e, c, fds, f) == f = Erase(e, fds[c])

\* update(EPOLL_CTL_ADD) and update(EPOLL_CTL_MOD).
LEMMA EPollAdd ==
  ASSUME NEW x, NEW y, NEW e, NEW added, NEW fds, NEW evs, NEW evs2, NEW c,
         EPollFits(x, e, added, fds, evs), Apart(added \cup {c}, fds),
         y[c] = "kAdded", Agree(x, y, added \ {c}), Agree(evs, evs2, added \ {c}),
         NEW f, EntryPut(e, c, fds, evs2, f)
  PROVE  EPollFits(y, f, added \cup {c}, fds, evs2)
<1> USE DEF Agree
<1> DEFINE entry == [ptr |-> c, events |-> evs2[c]]
           L == EPollLooked(x, added)
           M == EPollLooked(y, added \cup {c})
<1>1. M = L \cup {c}
  BY DEF EPollLooked
<1>2. DOMAIN f = DOMAIN e \cup {fds[c]} /\ f[fds[c]] = entry /\ \A k \in DOMAIN e : k # fds[c] => f[k] = e[k]
  BY DEF Put, EntryPut
<1>3. \A d \in added \cup {c} : y[d] \in {"kAdded", "kDeleted"} /\ (y[d] = "kDeleted" => evs2[d] = {})
  BY DEF EPollFits
<1>4. DOMAIN e = {fds[d] : d \in L} /\ \A d \in L : d \in added /\ e[fds[d]] = [ptr |-> d, events |-> evs[d]]
  BY DEF EPollFits, EPollLooked
<1> HIDE DEF L, M
<1>5. DOMAIN f = {fds[d] : d \in M}
  BY <1>1, <1>2, <1>4
<1>6. ASSUME NEW d \in M PROVE f[fds[d]] = [ptr |-> d, events |-> evs2[d]]
  <2>1. CASE d = c
    BY <1>2, <2>1
  <2>2. CASE d # c
    <3>1. d \in L /\ d \in added /\ fds[d] # fds[c]
      BY <1>1, <1>4, <2>2 DEF Apart
    <3>2. fds[d] \in DOMAIN e /\ e[fds[d]] = [ptr |-> d, events |-> evs[d]] /\ evs2[d] = evs[d]
      BY <1>4, <2>2, <3>1
    <3> QED BY <1>2, <3>1, <3>2
  <2> QED BY <2>1, <2>2
<1>7. EPollFits(y, f, added \cup {c}, fds, evs2)
  BY <1>3, <1>5, <1>6 DEF EPollFits, M
<1> QED BY <1>7

\* update(EPOLL_CTL_DEL).
LEMMA EPollErase ==
  ASSUME NEW x, NEW y, NEW e, NEW added, NEW rest, NEW fds, NEW evs, NEW evs2, NEW c \in added,
         EPollFits(x, e, added, fds, evs), Apart(added, fds),
         rest = added \ {c} \/ (rest = added /\ y[c] = "kDeleted" /\ evs2[c] = {}),
         Agree(x, y, added \ {c}), Agree(evs, evs2, added \ {c}), NEW f, EntryErased(e, c, fds, f)
  PROVE  EPollFits(y, f, rest, fds, evs2)
<1> USE DEF Agree
<1> DEFINE L == EPollLooked(x, added)
           M == EPollLooked(y, rest)
<1>1. M = L \ {c}
  BY DEF EPollLooked
<1>2. DOMAIN f = DOMAIN e \ {fds[c]} /\ \A k \in DOMAIN f : f[k] = e[k]
  BY DEF Erase, EntryErased
<1>3. \A d \in rest : y[d] \in {"kAdded", "kDeleted"} /\ (y[d] = "kDeleted" => evs2[d] = {})
  BY DEF EPollFits
<1>4. DOMAIN e = {fds[d] : d \in L} /\ \A d \in L : d \in added /\ e[fds[d]] = [ptr |-> d, events |-> evs[d]]
  BY DEF EPollFits, EPollLooked
<1> HIDE DEF L, M
<1>5. \A d \in M : d \in L /\ d # c /\ fds[d] # fds[c] /\ evs2[d] = evs[d]
  BY <1>1, <1>4 DEF Apart
<1>6. DOMAIN f = {fds[d] : d \in M}
  BY <1>1, <1>2, <1>4, <1>5
<1>7. ASSUME NEW d \in M PROVE f[fds[d]] = [ptr |-> d, events |-> evs2[d]]
  <2>1. fds[d] \in DOMAIN f
    BY <1>6
  <2> QED BY <1>2, <1>4, <1>5, <2>1
<1>8. EPollFits(y, f, rest, fds, evs2)
  BY <1>3, <1>6, <1>7 DEF EPollFits, M
<1> QED BY <1>8

\* removeChannel of a channel that epoll does not have.
LEMMA EPollForget ==
  ASSUME NEW x, NEW y, NEW e, NEW added, NEW fds, NEW evs, NEW c \in added,
         EPollFits(x, e, added, fds, evs), x[c] # "kAdded", Agree(x, y, added \ {c})
  PROVE  /\ EPollFits(y, e, added \ {c}, fds, evs)
         /\ EPollLooked(y, added \ {c}) = EPollLooked(x, added) \ {c}
<1> USE DEF Agree
<1>1. EPollLooked(y, added \ {c}) = EPollLooked(x, added) /\ c \notin EPollLooked(x, added)
  BY DEF EPollLooked
<1>2. \A d \in added \ {c} : y[d] \in {"kAdded", "kDeleted"} /\ (y[d] = "kDeleted" => evs[d] = {})
  BY DEF EPollFits
<1> QED BY <1>1, <1>2 DEF EPollFits

LEMMA EPollWatches ==
  ASSUME NEW p, NEW added, NEW fds, NEW evs, EPollFits(p.index_, p.epoll, added, fds, evs), Apart(added, fds)
  PROVE  EP!Watched(p) = [c \in EPollLooked(p.index_, added) |-> evs[c]]
<1> DEFINE e == p.epoll
           L == EPollLooked(p.index_, added)
<1>1. EP!Watched(p) =
        [c \in {e[fd].ptr : fd \in DOMAIN e} |-> e[CHOOSE fd \in DOMAIN e : e[fd].ptr = c].events]
  BY DEF EP!Watched
<1>2. DOMAIN e = {fds[d] : d \in L} /\ \A d \in L : d \in added /\ e[fds[d]] = [ptr |-> d, events |-> evs[d]]
  BY DEF EPollFits, EPollLooked
<1> HIDE DEF e, L
<1>3. ASSUME NEW d \in L PROVE e[fds[d]].ptr = d /\ e[fds[d]].events = evs[d] /\ fds[d] \in DOMAIN e
  <2>1. e[fds[d]] = [ptr |-> d, events |-> evs[d]]
    BY <1>2
  <2>2. fds[d] \in DOMAIN e
    BY <1>2
  <2> QED BY <2>1, <2>2
<1>4. {e[fd].ptr : fd \in DOMAIN e} = L
  BY <1>2, <1>3
<1>5. ASSUME NEW c \in L PROVE e[CHOOSE fd \in DOMAIN e : e[fd].ptr = c].events = evs[c]
  <2> DEFINE g == CHOOSE fd \in DOMAIN e : e[fd].ptr = c
  <2>1. g \in DOMAIN e /\ e[g].ptr = c
    BY <1>3
  <2>2. PICK d \in L : g = fds[d]
    BY <1>2, <2>1
  <2>3. d = c
    BY <1>3, <2>1, <2>2
  <2> QED BY <1>3, <2>2, <2>3
<1> QED BY <1>1, <1>4, <1>5 DEF L

-----------------------------------------------------------------------------
(***************************************************************************)
(* The pollers' operations.  fresh has the channels that can still be      *)
(* added.                                                                  *)
(***************************************************************************)

PollTables(p, fresh, added, fds, evs) ==
  /\ p = [pollfds_ |-> p.pollfds_, channels_ |-> p.channels_, index_ |-> p.index_]
  /\ p.pollfds_ \in Seq(Pollfd)
  /\ p.index_ \in [Channels -> Int]
  /\ \A c \in fresh : p.index_[c] = -1
  /\ MapFits(p.channels_, added, fds)
  /\ PollFits(p.pollfds_, p.index_, added, fds, evs)

\* No entry without interest is looked at.
PollQuiet(p, added, fds, evs) ==
  \A c \in added : evs[c] = {} => p.pollfds_[p.index_[c] + 1].fd = PP!Ignored(fds[c])

EPollTables(p, fresh, added, fds, evs) ==
  /\ p = [channels_ |-> p.channels_, index_ |-> p.index_, epoll |-> p.epoll, listSize |-> p.listSize]
  /\ p.index_ \in [Channels -> {"kNew", "kAdded", "kDeleted"}]
  /\ \A c \in fresh : p.index_[c] = "kNew"
  /\ p.listSize \in Nat \ {0}
  /\ IsFiniteSet(DOMAIN p.epoll)
  /\ MapFits(p.channels_, added, fds)
  /\ EPollFits(p.index_, p.epoll, added, fds, evs)

\* What updateChannel changes in what is looked at.
PollChanged(p, q, c, added, events) ==
  PollLooked(q.pollfds_, q.index_, added \cup {c}) =
    IF c \in added /\ events = {} THEN PollLooked(p.pollfds_, p.index_, added) \ {c}
    ELSE PollLooked(p.pollfds_, p.index_, added) \cup {c}

EPollChanged(p, q, c, added, events) ==
  EPollLooked(q.index_, added \cup {c}) =
    IF c \in added /\ p.index_[c] = "kAdded" /\ events = {} THEN EPollLooked(p.index_, added) \ {c}
    ELSE EPollLooked(p.index_, added) \cup {c}

\* What removeChannel changes in it.
PollDropped(p, q, c, added) ==
  PollLooked(q.pollfds_, q.index_, added \ {c}) = PollLooked(p.pollfds_, p.index_, added) \ {c}

EPollDropped(p, q, c, added) == EPollLooked(q.index_, added \ {c}) = EPollLooked(p.index_, added) \ {c}

LEMMA PollUpdate ==
  ASSUME NEW p, NEW fresh \in SUBSET Channels, NEW added \in SUBSET Channels, fresh \cap added = {},
         NEW fds, NEW evs, NEW evs2, PollTables(p, fresh, added, fds, evs),
         NEW c \in fresh \cup added, Apart(added \cup {c}, fds),
         NEW events \in SUBSET Events, evs2[c] = events, Agree(evs, evs2, added \ {c}),
         NEW q, q = PP!updateChannel(p, c, fds[c], events)
  PROVE  /\ PP!updateFails(p, c, fds[c]) = {}
         /\ PollTables(q, fresh \ {c}, added \cup {c}, fds, evs2)
         /\ PollChanged(p, q, c, added, events)
         /\ PollQuiet(p, added, fds, evs) /\ (events = {} => c \in added)
              => PollQuiet(q, added \cup {c}, fds, evs2)
<1> USE DEF Agree
<1> DEFINE a == p.pollfds_
           m == p.channels_
           x == p.index_
           fd == fds[c]
<1>1. /\ p = [pollfds_ |-> a, channels_ |-> m, index_ |-> x] /\ a \in Seq(Pollfd) /\ x \in [Channels -> Int]
      /\ MapFits(m, added, fds) /\ PollFits(a, x, added, fds, evs)
  BY DEF PollTables
<1>2. c \in Channels /\ fd \in Nat
  BY DEF Apart
<1>3. Apart(added, fds) /\ \A d \in added : fds[d] = fds[c] => d = c
  BY DEF Apart
<1> HIDE DEF a, m, x, fd
<1>4. CASE c \in fresh
  <2> DEFINE entry == [fd |-> fd, events |-> events]
             b == Append(a, entry)
             y == [x EXCEPT ![c] = Len(a)]
             mm == Put(m, fd, c)
  <2>1. c \notin added /\ x[c] = -1 /\ x[c] < 0
    BY <1>4 DEF PollTables, x
  <2>2. entry \in Pollfd /\ EntryFits(entry, fd, events) /\ entry.fd = fd
    BY <1>2 DEF Pollfd, EntryFits
  <2>3. PP!updateChannel(p, c, fd, events) = [p EXCEPT !.pollfds_ = b, !.index_ = y, !.channels_ = mm]
    BY <2>1 DEF PP!updateChannel, PP!Put, Put, a, m, x
  <2> HIDE DEF b, y, mm, entry
  <2>4. q = [pollfds_ |-> b, channels_ |-> mm, index_ |-> y]
    BY <1>1, <2>3 DEF fd
  <2>5. q.pollfds_ = b /\ q.channels_ = mm /\ q.index_ = y
    BY <2>4
  <2>6. b \in Seq(Pollfd) /\ y \in [Channels -> Int] /\ \A d \in fresh \ {c} : y[d] = x[d]
    BY <1>1, <1>2, <2>2, AppendProperties DEF b, y
  <2>7. MapFits(mm, added \cup {c}, fds)
    BY <1>1, <1>3, MapAdd DEF mm, fd
  <2>8. /\ PollFits(b, y, added \cup {c}, fds, evs2)
        /\ SameEntries(a, x, b, y, added)
        /\ b[y[c] + 1] = entry
    <3>1. Agree(evs, evs2, added)
      BY <2>1 DEF Agree
    <3>2. EntryFits(entry, fds[c], evs2[c])
      BY <2>2 DEF fd
    <3>3. Appends(a, x, c, entry, b, y)
      BY DEF Appends, b, y
    <3>4. c \in Channels \ added /\ entry \in Pollfd
      BY <1>2, <2>1, <2>2
    <3>5. a \in Seq(Pollfd) /\ x \in [Channels -> Int] /\ PollFits(a, x, added, fds, evs)
      BY <1>1
    <3>6. PollFits(b, y, added \cup {c}, fds, evs2) /\ Placed(a, x, b, y, added, c, entry)
      BY ONLY <3>1, <3>2, <3>3, <3>4, <3>5, PollAdd, added \in SUBSET Channels
    <3> QED BY <3>6 DEF Placed
  <2>9. PP!updateFails(p, c, fds[c]) = {}
    <3>1. fd \notin DOMAIN m
      BY <1>1, <1>3, <2>1 DEF MapFits, fd
    <3> QED BY <2>1, <3>1 DEF PP!updateFails, m, x, fd
  <2>10. PollTables(q, fresh \ {c}, added \cup {c}, fds, evs2)
    <3>1. \A d \in fresh \ {c} : q.index_[d] = -1
      BY <2>5, <2>6 DEF PollTables, x
    <3> QED BY <2>4, <2>5, <2>6, <2>7, <2>8, <3>1 DEF PollTables
  <2>11. PollLooked(b, y, added \cup {c}) = PollLooked(a, x, added) \cup {c}
    <3>1. b[y[c] + 1].fd >= 0
      BY <1>2, <2>2, <2>8
    <3> QED BY <2>1, <2>8, <3>1 DEF PollLooked, SameEntries
  <2>12. ASSUME PollQuiet(p, added, fds, evs), events # {} PROVE PollQuiet(q, added \cup {c}, fds, evs2)
    <3> SUFFICES ASSUME NEW d \in added \cup {c}, evs2[d] = {}
                 PROVE  b[y[d] + 1].fd = PP!Ignored(fds[d])
      BY <2>5 DEF PollQuiet
    <3>1. d # c /\ d \in added /\ evs[d] = {}
      BY <2>12
    <3> QED BY <2>8, <2>12, <3>1 DEF PollQuiet, SameEntries, a, x
  <2> QED BY <2>1, <2>5, <2>9, <2>10, <2>11, <2>12 DEF PollChanged, a, x
<1>5. CASE c \in added
  <2> DEFINE entry == [fd |-> IF events = {} THEN PP!Ignored(fd) ELSE fd, events |-> events]
             b == [a EXCEPT ![x[c] + 1] = entry]
             mm == Put(m, fd, c)
  <2>1. x[c] \in 0 .. Len(a) - 1 /\ EntryFits(a[x[c] + 1], fd, evs[c]) /\ Len(a) \in Nat
    BY <1>1, <1>5 DEF PollFits, fd
  <2>2. entry \in Pollfd /\ EntryFits(entry, fd, events)
        /\ entry.fd = IF events = {} THEN PP!Ignored(fd) ELSE fd
    BY <1>2 DEF Pollfd, EntryFits, PP!Ignored
  <2>3. PP!updateChannel(p, c, fd, events) = [p EXCEPT !.pollfds_ = b]
    <3>1. ~(x[c] < 0)
      BY <2>1
    <3> QED BY <3>1 DEF PP!updateChannel, a, x
  <2> HIDE DEF b, entry
  <2>4. q = [pollfds_ |-> b, channels_ |-> m, index_ |-> x]
    BY <1>1, <2>3 DEF fd
  <2>5. q.pollfds_ = b /\ q.channels_ = m /\ q.index_ = x
    BY <2>4
  <2>6. added \cup {c} = added /\ \A d \in fresh \ {c} : d \in fresh
    BY <1>5
  <2>7. /\ b \in Seq(Pollfd)
        /\ PollFits(b, x, added, fds, evs2)
        /\ SameEntries(a, x, b, x, added \ {c})
        /\ b[x[c] + 1] = entry
    <3>1. EntryFits(entry, fds[c], evs2[c])
      BY <2>2 DEF fd
    <3>2. Sets(a, x, c, entry, b)
      BY DEF Sets, b
    <3>3. Agree(evs, evs2, added \ {c})
      BY DEF Agree
    <3>4. c \in added /\ entry \in Pollfd /\ Apart(added, fds)
      BY <1>3, <1>5, <2>2
    <3>5. a \in Seq(Pollfd) /\ x \in [Channels -> Int] /\ PollFits(a, x, added, fds, evs)
      BY <1>1
    <3>6. /\ b \in Seq(Pollfd)
          /\ PollFits(b, x, added, fds, evs2)
          /\ Placed(a, x, b, x, added \ {c}, c, entry)
      BY ONLY <3>1, <3>2, <3>3, <3>4, <3>5, PollSet, added \in SUBSET Channels
    <3> QED BY <3>6 DEF Placed
  <2>8. PP!updateFails(p, c, fds[c]) = {}
    <3>1. ~(x[c] < 0) /\ ~(x[c] >= Len(a))
      BY <2>1
    <3>2. a[x[c] + 1].fd \in {fd, PP!Ignored(fd)}
      BY <2>1 DEF EntryFits
    <3>3. PP!hasChannel(p, c, fd)
      BY <1>1, <1>5 DEF PP!hasChannel, MapFits, m, fd
    <3> QED BY <3>1, <3>2, <3>3 DEF PP!updateFails, a, x, fd
  <2>9. PollTables(q, fresh \ {c}, added, fds, evs2)
    <3>1. \A d \in fresh \ {c} : q.index_[d] = -1
      BY <2>5 DEF PollTables, x
    <3> QED BY <1>1, <2>4, <2>5, <2>7, <3>1 DEF PollTables
  <2>10. PollLooked(b, x, added) =
           IF events = {} THEN PollLooked(a, x, added) \ {c} ELSE PollLooked(a, x, added) \cup {c}
    <3>1. b[x[c] + 1].fd >= 0 <=> events # {}
      BY <1>2, <2>2, <2>7 DEF PP!Ignored
    <3> QED BY <1>5, <2>7, <3>1 DEF PollLooked, SameEntries
  <2>11. ASSUME PollQuiet(p, added, fds, evs) PROVE PollQuiet(q, added, fds, evs2)
    <3> SUFFICES ASSUME NEW d \in added, evs2[d] = {}
                 PROVE  b[x[d] + 1].fd = PP!Ignored(fds[d])
      BY <2>5 DEF PollQuiet
    <3>1. CASE d = c
      BY <2>2, <2>7, <3>1 DEF fd
    <3>2. CASE d # c
      BY <2>7, <2>11, <3>2 DEF PollQuiet, SameEntries, a, x
    <3> QED BY <3>1, <3>2
  <2> QED BY <1>5, <2>5, <2>6, <2>8, <2>9, <2>10, <2>11 DEF PollChanged, a, x
<1> QED BY <1>4, <1>5

LEMMA PollRemoves ==
  ASSUME NEW p, NEW fresh \in SUBSET Channels, NEW added \in SUBSET Channels, fresh \cap added = {},
         NEW fds, NEW evs, PollTables(p, fresh, added, fds, evs), Apart(added, fds),
         NEW c \in added, evs[c] = {}, NEW q, q = PP!removeChannel(p, c, fds[c])
  PROVE  /\ PollQuiet(p, added, fds, evs) =>
              PP!removeFails(p, c, fds[c]) = {} /\ PollQuiet(q, added \ {c}, fds, evs)
         /\ PollTables(q, fresh, added \ {c}, fds, evs)
         /\ PollDropped(p, q, c, added)
<1> DEFINE a == p.pollfds_
           m == p.channels_
           x == p.index_
           fd == fds[c]
           n == Len(a)
           back == a[n].fd
           last == IF back < 0 THEN -back - 1 ELSE back
           mm == Erase(m, fd)
           b == SubSeq([a EXCEPT ![x[c] + 1] = a[n]], 1, n - 1)
           y == IF x[c] # n - 1 THEN [x EXCEPT ![mm[last]] = x[c]] ELSE x
<1>1. /\ p = [pollfds_ |-> a, channels_ |-> m, index_ |-> x] /\ a \in Seq(Pollfd) /\ x \in [Channels -> Int]
      /\ MapFits(m, added, fds) /\ PollFits(a, x, added, fds, evs)
  BY DEF PollTables
<1>2. PP!removeChannel(p, c, fd) = [p EXCEPT !.channels_ = mm, !.pollfds_ = b, !.index_ = y]
  BY DEF PP!removeChannel, PP!Erase, Erase
<1> HIDE DEF a, m, x, b, y, mm
<1>3. q = [pollfds_ |-> b, channels_ |-> mm, index_ |-> y]
  BY <1>1, <1>2
<1>4. q.pollfds_ = b /\ q.channels_ = mm /\ q.index_ = y
  BY <1>3
<1>5. x[c] \in 0 .. n - 1 /\ n \in Nat /\ EntryFits(a[x[c] + 1], fd, evs[c]) /\ fd \in Nat
  <2>1. n \in Nat
    BY <1>1
  <2> QED BY <1>1, <2>1 DEF PollFits, Apart
<1>6. PICK e \in added : x[e] + 1 = n
  <2>1. n \in 1..n
    BY <1>5
  <2> QED BY <1>1, <2>1 DEF PollFits
<1>7. MapFits(mm, added \ {c}, fds)
  BY <1>1, MapErase DEF mm
<1>8. x[c] # n - 1 => mm[last] = e /\ e # c
  <2>1. EntryFits(a[n], fds[e], evs[e]) /\ fds[e] \in Nat
    BY <1>1, <1>6 DEF PollFits, Apart
  <2>2. last = fds[e]
    BY <2>1 DEF EntryFits, PP!Ignored
  <2>3. x[c] # n - 1 => e # c
    BY <1>5, <1>6
  <2> QED BY <1>7, <2>2, <2>3 DEF MapFits
<1>9. Moves(a, x, c, e, b, y)
  BY <1>8 DEF Moves, b, y
<1>10. /\ b \in Seq(Pollfd) /\ y \in [Channels -> Int]
       /\ PollFits(b, y, added \ {c}, fds, evs)
       /\ SameEntries(a, x, b, y, added \ {c})
  <2>1. a \in Seq(Pollfd) /\ x \in [Channels -> Int] /\ PollFits(a, x, added, fds, evs)
    BY <1>1
  <2>2. x[e] + 1 = Len(a)
    BY <1>6
  <2> QED BY ONLY <1>9, <2>1, <2>2, PollRemove, added \in SUBSET Channels, Apart(added, fds), c \in added, e \in added
<1>11. PollTables(q, fresh, added \ {c}, fds, evs)
  <2>1. \A d \in fresh : y[d] = -1
    <3>1. \A d \in fresh : x[d] = -1 /\ d # e
      BY DEF PollTables, x
    <3> QED BY <1>1, <1>8, <3>1 DEF y
  <2> QED BY <1>3, <1>4, <1>7, <1>10, <2>1 DEF PollTables
<1>12. PollLooked(b, y, added \ {c}) = PollLooked(a, x, added) \ {c}
  BY <1>10 DEF PollLooked, SameEntries
<1>13. ASSUME PollQuiet(p, added, fds, evs)
       PROVE  PP!removeFails(p, c, fds[c]) = {} /\ PollQuiet(q, added \ {c}, fds, evs)
  <2>1. PollQuiet(q, added \ {c}, fds, evs)
    BY <1>4, <1>10, <1>13 DEF PollQuiet, SameEntries, a, x
  <2>2. PP!hasChannel(p, c, fd)
    BY <1>1 DEF PP!hasChannel, MapFits, m
  <2>3. a[x[c] + 1].fd = PP!Ignored(fd)
    BY <1>13 DEF PollQuiet, a, x
  <2>4. PP!removeFails(p, c, fd) = {}
    BY <1>5, <2>2, <2>3 DEF PP!removeFails, a, x
  <2> QED BY <2>1, <2>4
<1> QED BY <1>4, <1>11, <1>12, <1>13 DEF PollDropped, a, x

LEMMA EPollUpdate ==
  ASSUME NEW p, NEW fresh \in SUBSET Channels, NEW added \in SUBSET Channels, fresh \cap added = {},
         NEW fds, NEW evs, NEW evs2, EPollTables(p, fresh, added, fds, evs),
         NEW c \in fresh \cup added, Apart(added \cup {c}, fds),
         NEW events \in SUBSET Events, evs2[c] = events, Agree(evs, evs2, added \ {c}),
         NEW q, q = EP!updateChannel(p, c, fds[c], events)
  PROVE  /\ EP!updateFails(p, c, fds[c], events) = {}
         /\ EPollTables(q, fresh \ {c}, added \cup {c}, fds, evs2)
         /\ EPollChanged(p, q, c, added, events)
<1> USE DEF Agree, EPollChanged
<1> DEFINE m == p.channels_
           x == p.index_
           e == p.epoll
           z == p.listSize
           fd == fds[c]
           entry == [ptr |-> c, events |-> events]
           y == [x EXCEPT ![c] = "kAdded"]
           yy == [x EXCEPT ![c] = "kDeleted"]
           f == Put(e, fd, entry)
           ff == Erase(e, fd)
           mm == Put(m, fd, c)
<1>1. /\ p = [channels_ |-> m, index_ |-> x, epoll |-> e, listSize |-> z]
      /\ x \in [Channels -> {"kNew", "kAdded", "kDeleted"}] /\ z \in Nat \ {0} /\ IsFiniteSet(DOMAIN e)
      /\ MapFits(m, added, fds) /\ EPollFits(x, e, added, fds, evs)
  BY DEF EPollTables
<1>2. /\ x[c] = "kNew" => EP!updateChannel(p, c, fd, events) =
                            [p EXCEPT !.channels_ = mm, !.index_ = y, !.epoll = f]
      /\ x[c] = "kDeleted" => EP!updateChannel(p, c, fd, events) = [p EXCEPT !.index_ = y, !.epoll = f]
      /\ x[c] = "kAdded" /\ events # {} => EP!updateChannel(p, c, fd, events) = [p EXCEPT !.epoll = f]
      /\ x[c] = "kAdded" /\ events = {} =>
           EP!updateChannel(p, c, fd, events) = [p EXCEPT !.index_ = yy, !.epoll = ff]
  BY <1>1 DEF EP!updateChannel, EP!Add, EP!Del, EP!Put, EP!Erase, Put, Erase
<1>3. fd \in Nat /\ c \in Channels /\ Apart(added, fds)
      /\ \A d \in added : fds[d] = fd => d = c
  BY DEF Apart
<1>4. Agree(evs, evs2, added \ {c}) /\ Agree(x, y, added \ {c}) /\ Agree(x, yy, added \ {c})
      /\ y[c] = "kAdded" /\ yy[c] = "kDeleted"
      /\ y \in [Channels -> {"kNew", "kAdded", "kDeleted"}]
      /\ yy \in [Channels -> {"kNew", "kAdded", "kDeleted"}]
  BY <1>1, <1>3 DEF Agree
<1>5. IsFiniteSet(DOMAIN f) /\ IsFiniteSet(DOMAIN ff)
  <2>1. DOMAIN f = DOMAIN e \cup {fd} /\ DOMAIN ff = DOMAIN e \ {fd}
    BY DEF Put, Erase
  <2> QED BY <1>1, <2>1, FS_AddElement, FS_RemoveElement
<1>6. EPollFits(y, f, added \cup {c}, fds, evs2)
      /\ EPollLooked(y, added \cup {c}) = EPollLooked(x, added) \cup {c}
  <2>1. EntryPut(e, c, fds, evs2, f)
    BY DEF EntryPut
  <2> HIDE DEF y, x, e, f
  <2>2. EPollFits(y, f, added \cup {c}, fds, evs2)
    BY ONLY <1>1, <1>4, <2>1, EPollAdd, Apart(added \cup {c}, fds)
  <2>3. EPollLooked(y, added \cup {c}) = EPollLooked(x, added) \cup {c}
    BY <1>4 DEF EPollLooked, Agree
  <2> QED BY <2>2, <2>3
<1>7. (c \in fresh => x[c] = "kNew") /\ (c \in added => x[c] \in {"kAdded", "kDeleted"})
      /\ (fd \in DOMAIN m <=> c \in added) /\ (c \in added => m[fd] = c)
      /\ (fd \in DOMAIN e <=> c \in added /\ x[c] = "kAdded")
  <2>1. (c \in fresh => x[c] = "kNew")
    BY DEF EPollTables
  <2>2. c \in added => x[c] \in {"kAdded", "kDeleted"}
    BY <1>1 DEF EPollFits
  <2>3. (fd \in DOMAIN m <=> c \in added) /\ (c \in added => m[fd] = c)
    BY <1>1, <1>3 DEF MapFits
  <2>4. fd \in DOMAIN e <=> c \in added /\ x[c] = "kAdded"
    BY <1>1, <1>3 DEF EPollFits, EPollLooked
  <2> QED BY <2>1, <2>2, <2>3, <2>4
<1>8. EP!updateFails(p, c, fds[c], events) = {}
  BY <1>7 DEF EP!updateFails, EP!hasChannel
<1> HIDE DEF m, x, e, z, y, yy, f, ff, mm, fd
<1>9. CASE c \in fresh
  <2>1. c \notin added /\ x[c] = "kNew"
    BY <1>7, <1>9
  <2>2. q = [channels_ |-> mm, index_ |-> y, epoll |-> f, listSize |-> z]
    BY <1>1, <1>2, <2>1 DEF fd
  <2>3. q.channels_ = mm /\ q.index_ = y /\ q.epoll = f /\ q.listSize = z
    BY <2>2
  <2>4. MapFits(mm, added \cup {c}, fds)
    BY <1>1, <1>3, MapAdd DEF mm, fd
  <2>5. \A d \in fresh \ {c} : y[d] = "kNew"
    BY <1>1 DEF EPollTables, x, y
  <2>6. EPollTables(q, fresh \ {c}, added \cup {c}, fds, evs2)
    BY <1>1, <1>4, <1>5, <1>6, <2>2, <2>3, <2>4, <2>5 DEF EPollTables
  <2> QED BY <1>6, <1>8, <2>1, <2>3, <2>6 DEF x
<1>10. CASE c \in added
  <2>1. added \cup {c} = added /\ x[c] \in {"kAdded", "kDeleted"} /\ c \notin fresh
    BY <1>7, <1>10
  <2>2. CASE x[c] = "kDeleted" \/ events # {}
    <3>1. x[c] = "kAdded" => y = x
      BY <1>1 DEF y
    <3>2. q = [channels_ |-> m, index_ |-> y, epoll |-> f, listSize |-> z]
      <4>1. CASE x[c] = "kDeleted"
        BY <1>1, <1>2, <4>1 DEF fd
      <4>2. CASE x[c] = "kAdded" /\ events # {}
        BY <1>1, <1>2, <3>1, <4>2 DEF fd
      <4> QED BY <2>1, <2>2, <4>1, <4>2
    <3>3. q.channels_ = m /\ q.index_ = y /\ q.epoll = f /\ q.listSize = z
      BY <3>2
    <3>4. \A d \in fresh \ {c} : y[d] = "kNew"
      BY <1>1 DEF EPollTables, x, y
    <3>5. EPollTables(q, fresh \ {c}, added, fds, evs2)
      BY <1>1, <1>4, <1>5, <1>6, <2>1, <3>2, <3>3, <3>4 DEF EPollTables
    <3> QED BY <1>6, <1>8, <2>1, <2>2, <3>3, <3>5 DEF x
  <2>3. CASE x[c] = "kAdded" /\ events = {}
    <3>1. q = [channels_ |-> m, index_ |-> yy, epoll |-> ff, listSize |-> z]
      BY <1>1, <1>2, <2>3 DEF fd
    <3>2. q.channels_ = m /\ q.index_ = yy /\ q.epoll = ff /\ q.listSize = z
      BY <3>1
    <3>3. EPollFits(yy, ff, added, fds, evs2) /\ EPollLooked(yy, added) = EPollLooked(x, added) \ {c}
      <4>1. evs2[c] = {}
        BY <2>3
      <4>2. EntryErased(e, c, fds, ff)
        BY DEF EntryErased, ff, fd
      <4>3. EPollFits(yy, ff, added, fds, evs2)
        BY ONLY <1>1, <1>3, <1>4, <1>10, <4>1, <4>2, EPollErase
      <4>4. EPollLooked(yy, added) = EPollLooked(x, added) \ {c}
        BY <1>4, <1>10 DEF EPollLooked, Agree
      <4> QED BY <4>3, <4>4
    <3>4. \A d \in fresh \ {c} : yy[d] = "kNew"
      BY <1>1 DEF EPollTables, x, yy
    <3>5. EPollTables(q, fresh \ {c}, added, fds, evs2)
      BY <1>1, <1>4, <1>5, <3>1, <3>2, <3>3, <3>4 DEF EPollTables
    <3> QED BY <1>8, <2>1, <2>3, <3>2, <3>3, <3>5 DEF x
  <2> QED BY <2>1, <2>2, <2>3
<1> QED BY <1>9, <1>10

LEMMA EPollRemoves ==
  ASSUME NEW p, NEW fresh \in SUBSET Channels, NEW added \in SUBSET Channels, fresh \cap added = {},
         NEW fds, NEW evs, EPollTables(p, fresh, added, fds, evs), Apart(added, fds),
         NEW c \in added, NEW q, q = EP!removeChannel(p, c, fds[c])
  PROVE  /\ EP!removeFails(p, c, fds[c]) = {}
         /\ EPollTables(q, fresh, added \ {c}, fds, evs)
         /\ EPollDropped(p, q, c, added)
<1> USE DEF EPollDropped
<1> DEFINE m == p.channels_
           x == p.index_
           e == p.epoll
           z == p.listSize
           fd == fds[c]
           y == [x EXCEPT ![c] = "kNew"]
           f == Erase(e, fd)
           mm == Erase(m, fd)
<1>1. /\ p = [channels_ |-> m, index_ |-> x, epoll |-> e, listSize |-> z]
      /\ x \in [Channels -> {"kNew", "kAdded", "kDeleted"}] /\ z \in Nat \ {0} /\ IsFiniteSet(DOMAIN e)
      /\ MapFits(m, added, fds) /\ EPollFits(x, e, added, fds, evs)
  BY DEF EPollTables
<1>2. EP!removeChannel(p, c, fd) =
        IF x[c] = "kAdded" THEN [p EXCEPT !.channels_ = mm, !.index_ = y, !.epoll = f]
        ELSE [p EXCEPT !.channels_ = mm, !.index_ = y]
  BY DEF EP!removeChannel, EP!Del, EP!Erase, Erase
<1>3. Agree(evs, evs, added \ {c}) /\ Agree(x, y, added \ {c}) /\ y[c] = "kNew"
      /\ y \in [Channels -> {"kNew", "kAdded", "kDeleted"}]
  BY <1>1 DEF Agree
<1>4. IsFiniteSet(DOMAIN f)
  <2>1. DOMAIN f = DOMAIN e \ {fd}
    BY DEF Erase
  <2> QED BY <1>1, <2>1, FS_RemoveElement
<1>5. MapFits(mm, added \ {c}, fds)
  BY <1>1, MapErase
<1>6. x[c] \in {"kAdded", "kDeleted"}
  BY <1>1 DEF EPollFits
<1>7. EP!removeFails(p, c, fds[c]) = {}
  <2>1. EP!hasChannel(p, c, fds[c])
    BY <1>1 DEF EP!hasChannel, MapFits
  <2> QED BY <1>6, <2>1 DEF EP!removeFails
<1>8. \A d \in fresh : y[d] = "kNew"
  BY <1>1 DEF EPollTables
<1>9. EntryErased(e, c, fds, f)
  BY DEF EntryErased
<1>10. EPollLooked(y, added \ {c}) = EPollLooked(x, added) \ {c}
  BY <1>3 DEF EPollLooked, Agree
<1> HIDE DEF m, x, e, z, y, f, mm, fd
<1>11. CASE x[c] = "kAdded"
  <2>1. q = [channels_ |-> mm, index_ |-> y, epoll |-> f, listSize |-> z]
    BY <1>1, <1>2, <1>11 DEF fd
  <2>2. q.channels_ = mm /\ q.index_ = y /\ q.epoll = f /\ q.listSize = z
    BY <2>1
  <2>3. EPollFits(y, f, added \ {c}, fds, evs)
    BY ONLY <1>1, <1>3, <1>9, EPollErase, c \in added, Apart(added, fds)
  <2>4. EPollTables(q, fresh, added \ {c}, fds, evs)
    BY <1>1, <1>3, <1>4, <1>5, <1>8, <2>1, <2>2, <2>3 DEF EPollTables
  <2> QED BY <1>7, <1>10, <2>2, <2>4 DEF x
<1>12. CASE x[c] # "kAdded"
  <2>1. q = [channels_ |-> mm, index_ |-> y, epoll |-> e, listSize |-> z]
    BY <1>1, <1>2, <1>12 DEF fd
  <2>2. q.channels_ = mm /\ q.index_ = y /\ q.epoll = e /\ q.listSize = z
    BY <2>1
  <2>3. EPollFits(y, e, added \ {c}, fds, evs)
    BY <1>1, <1>3, <1>12, EPollForget
  <2>4. EPollTables(q, fresh, added \ {c}, fds, evs)
    BY <1>1, <1>3, <1>5, <1>8, <2>1, <2>2, <2>3 DEF EPollTables
  <2> QED BY <1>7, <1>10, <2>2, <2>4 DEF x
<1> QED BY <1>11, <1>12

\* A channel that is constructed anew.
LEMMA PollConstructs ==
  ASSUME NEW p, NEW fresh \in SUBSET Channels, NEW added \in SUBSET Channels, NEW fds, NEW fds2, NEW evs,
         PollTables(p, fresh, added, fds, evs), NEW c \in fresh, c \notin added, Agree(fds, fds2, added)
  PROVE  PP!Constructed(p, c) = p /\ PollTables(p, fresh, added, fds2, evs)
<1>1. p.index_ \in [Channels -> Int] /\ p.index_[c] = -1
      /\ p = [pollfds_ |-> p.pollfds_, channels_ |-> p.channels_, index_ |-> p.index_]
  BY DEF PollTables
<1> DEFINE x == p.index_
<1>2. [x EXCEPT ![c] = -1] = x
  BY <1>1
<1>3. PP!Constructed(p, c) = [p EXCEPT !.index_ = [x EXCEPT ![c] = -1]]
  BY DEF PP!Constructed
<1> HIDE DEF x
<1>4. PP!Constructed(p, c) = p
  BY <1>1, <1>2, <1>3 DEF x
<1>5. MapFits(p.channels_, added, fds2)
  BY DEF MapFits, PollTables, Agree
<1>6. PollFits(p.pollfds_, p.index_, added, fds2, evs)
  BY DEF PollFits, PollTables, Agree
<1> QED BY <1>4, <1>5, <1>6 DEF PollTables

LEMMA EPollConstructs ==
  ASSUME NEW p, NEW fresh \in SUBSET Channels, NEW added \in SUBSET Channels, NEW fds, NEW fds2, NEW evs,
         EPollTables(p, fresh, added, fds, evs), NEW c \in fresh, c \notin added, Agree(fds, fds2, added)
  PROVE  EP!Constructed(p, c) = p /\ EPollTables(p, fresh, added, fds2, evs)
<1>1. p.index_ \in [Channels -> {"kNew", "kAdded", "kDeleted"}] /\ p.index_[c] = "kNew"
      /\ p = [channels_ |-> p.channels_, index_ |-> p.index_, epoll |-> p.epoll, listSize |-> p.listSize]
  BY DEF EPollTables
<1> DEFINE x == p.index_
<1>2. [x EXCEPT ![c] = "kNew"] = x
  BY <1>1
<1>3. EP!Constructed(p, c) = [p EXCEPT !.index_ = [x EXCEPT ![c] = "kNew"]]
  BY DEF EP!Constructed
<1> HIDE DEF x
<1>4. EP!Constructed(p, c) = p
  BY <1>1, <1>2, <1>3 DEF x
<1>5. MapFits(p.channels_, added, fds2)
  BY DEF MapFits, EPollTables, Agree
<1>6. EPollFits(p.index_, p.epoll, added, fds2, evs)
  <2>1. \A c1 \in EPollLooked(p.index_, added) : fds2[c1] = fds[c1]
    BY DEF EPollLooked, Agree
  <2> QED BY <2>1 DEF EPollFits, EPollTables
<1> QED BY <1>4, <1>5, <1>6 DEF EPollTables

\* A list of channels in which none comes twice.
ListOf(list, some) ==
  /\ list \in Seq(some)
  /\ \A i, j \in DOMAIN list : list[i] = list[j] => i = j

\* What poll reports are channels it looks at.
LEMMA PollReports ==
  ASSUME NEW p, NEW fresh, NEW added, NEW fds, NEW evs, NEW ready,
         PollTables(p, fresh, added, fds, evs), Apart(added, fds),
         NEW list \in PP!fillActiveChannels(p, ready)
  PROVE  ListOf(list, PollLooked(p.pollfds_, p.index_, added))
<1> DEFINE a == p.pollfds_
           m == p.channels_
           x == p.index_
           L == PollLooked(a, x, added)
           revents(pfd) == IF pfd.fd < 0 THEN {} ELSE ready[pfd.fd] \cap (pfd.events \cup {"HUP"})
           hit == {i \in DOMAIN a : revents(a[i]) # {}}
           n == Cardinality(hit)
<1>1. a \in Seq(Pollfd) /\ MapFits(m, added, fds) /\ PollFits(a, x, added, fds, evs)
  BY DEF PollTables
<1>2. PICK s \in [1..n -> hit] :
        /\ \A i, j \in 1..n : i < j => s[i] < s[j]
        /\ list = [i \in 1..n |-> m[a[s[i]].fd]]
  <2> DEFINE orders == {s \in [1..n -> hit] : \A i, j \in 1..n : i < j => s[i] < s[j]}
  <2>1. list \in {[i \in 1..n |-> m[a[s[i]].fd]] : s \in orders}
    <3>1. Cardinality(hit) = PP!Cardinality(hit)
      BY DEF Cardinality, PP!Cardinality
    <3> QED BY <3>1 DEF PP!fillActiveChannels
  <2> HIDE DEF n, hit, m, a
  <2> QED BY <2>1
<1>3. n \in Nat /\ hit \subseteq 1..Len(a)
  <2>1. hit \subseteq 1..Len(a) /\ Len(a) \in Nat
    BY <1>1
  <2>2. IsFiniteSet(hit)
    BY <2>1, FS_Interval, FS_Subset
  <2> QED BY <2>1, <2>2, FS_CardinalityType
<1> HIDE DEF a, m, x, n
<1>4. \A i, j \in 1..n : s[i] = s[j] => i = j
  <2> SUFFICES ASSUME NEW i \in 1..n, NEW j \in 1..n, s[i] = s[j] PROVE i = j
    OBVIOUS
  <2>1. s[i] \in Int /\ s[j] \in Int
    BY <1>3
  <2>2. i \in Int /\ j \in Int
    OBVIOUS
  <2> QED BY <1>2, <2>1, <2>2
<1>5. ASSUME NEW i \in hit PROVE \E c \in L : x[c] + 1 = i /\ m[a[i].fd] = c
  <2>1. i \in 1..Len(a) /\ ~(a[i].fd < 0)
    BY <1>3
  <2>2. PICK c \in added : x[c] + 1 = i
    BY <1>1, <2>1 DEF PollFits
  <2>3. EntryFits(a[i], fds[c], evs[c]) /\ fds[c] \in Nat
    BY <1>1, <2>2 DEF PollFits, Apart
  <2>4. a[i].fd = fds[c] /\ a[i].fd >= 0
    BY <2>1, <2>3 DEF EntryFits, PP!Ignored
  <2> QED BY <1>1, <2>2, <2>4 DEF PollLooked, MapFits
<1> HIDE DEF hit, L
<1>6. ASSUME NEW i \in 1..n PROVE list[i] \in L /\ x[list[i]] + 1 = s[i]
  <2>1. s[i] \in hit /\ list[i] = m[a[s[i]].fd]
    BY <1>2
  <2> QED BY <1>5, <2>1
<1>7. DOMAIN list = 1..n
  BY <1>2
<1>8. list \in Seq(L)
  <2>1. list \in [1..n -> L]
    BY <1>2, <1>6, <1>7
  <2> QED BY <1>3, <2>1
<1>9. \A i, j \in DOMAIN list : list[i] = list[j] => i = j
  BY <1>4, <1>6, <1>7
<1> QED BY <1>8, <1>9 DEF ListOf, L, a, x

LEMMA EPollReports ==
  ASSUME NEW p, NEW fresh, NEW added, NEW fds, NEW evs, NEW ready,
         EPollTables(p, fresh, added, fds, evs), Apart(added, fds),
         NEW list \in EP!fillActiveChannels(p, ready)
  PROVE  ListOf(list, EPollLooked(p.index_, added))
<1> DEFINE e == p.epoll
           z == p.listSize
           L == EPollLooked(p.index_, added)
           hit == {fd \in DOMAIN e : ready[fd] \cap (e[fd].events \cup {"HUP"}) # {}}
           n == IF Cardinality(hit) < z THEN Cardinality(hit) ELSE z
<1>1. EPollFits(p.index_, e, added, fds, evs) /\ IsFiniteSet(DOMAIN e) /\ z \in Nat
  BY DEF EPollTables
<1>2. PICK s \in [1..n -> hit] :
        /\ \A i, j \in 1..n : s[i] = s[j] => i = j
        /\ list = [i \in 1..n |-> e[s[i]].ptr]
  <2> DEFINE orders == {s \in [1..n -> hit] : \A i, j \in 1..n : s[i] = s[j] => i = j}
  <2>1. list \in {[i \in 1..n |-> e[s[i]].ptr] : s \in orders}
    <3>1. Cardinality(hit) = EP!Cardinality(hit)
      BY DEF Cardinality, EP!Cardinality
    <3> DEFINE k == IF EP!Cardinality(hit) < z THEN EP!Cardinality(hit) ELSE z
    <3>2. list \in {[i \in 1..k |-> e[s[i]].ptr] :
                      s \in {s \in [1..k -> hit] : \A i, j \in 1..k : s[i] = s[j] => i = j}}
      BY DEF EP!fillActiveChannels
    <3>3. k = n
      BY <3>1
    <3> HIDE DEF k, n, hit, e, z
    <3> QED BY <3>2, <3>3
  <2> HIDE DEF n, hit, e
  <2> QED BY <2>1
<1>3. n \in Nat /\ hit \subseteq DOMAIN e
  <2>1. IsFiniteSet(hit)
    BY <1>1, FS_Subset
  <2>2. Cardinality(hit) \in Nat
    BY <2>1, FS_CardinalityType
  <2> QED BY <1>1, <2>2
<1> HIDE DEF e, z, n
<1>4. ASSUME NEW fd \in hit PROVE e[fd].ptr \in L /\ fds[e[fd].ptr] = fd
  <2>1. fd \in {fds[c] : c \in L}
    BY <1>1, <1>3 DEF EPollFits
  <2>2. PICK c \in L : fd = fds[c]
    BY <2>1
  <2>3. e[fd] = [ptr |-> c, events |-> evs[c]]
    BY <1>1, <2>2 DEF EPollFits
  <2> QED BY <2>2, <2>3
<1> HIDE DEF hit, L
<1>5. ASSUME NEW i \in 1..n PROVE list[i] \in L /\ fds[list[i]] = s[i]
  <2>1. s[i] \in hit /\ list[i] = e[s[i]].ptr
    BY <1>2
  <2> QED BY <1>4, <2>1
<1>6. DOMAIN list = 1..n
  BY <1>2
<1>7. list \in Seq(L)
  <2>1. list \in [1..n -> L]
    BY <1>2, <1>5, <1>6
  <2> QED BY <1>3, <2>1
<1>8. \A i, j \in DOMAIN list : list[i] = list[j] => i = j
  BY <1>2, <1>5, <1>6
<1> QED BY <1>7, <1>8 DEF ListOf, L

\* The end of EPollPoller::poll.
LEMMA EPollResizes ==
  ASSUME NEW p, NEW fresh, NEW added, NEW fds, NEW evs, EPollTables(p, fresh, added, fds, evs),
         NEW num, NEW q, q = EP!Resized(p, num)
  PROVE  EPollTables(q, fresh, added, fds, evs) /\ q.index_ = p.index_ /\ q.epoll = p.epoll
<1>1. CASE num = p.listSize
  <2>1. q = [p EXCEPT !.listSize = 2 * p.listSize]
    BY <1>1 DEF EP!Resized
  <2>2. q = [channels_ |-> p.channels_, index_ |-> p.index_, epoll |-> p.epoll, listSize |-> 2 * p.listSize]
    BY <2>1 DEF EPollTables
  <2>3. q.channels_ = p.channels_ /\ q.index_ = p.index_ /\ q.epoll = p.epoll /\ q.listSize = 2 * p.listSize
    BY <2>2
  <2>4. q.listSize \in Nat \ {0}
    BY <2>3 DEF EPollTables
  <2> QED BY <2>2, <2>3, <2>4 DEF EPollTables
<1>2. CASE num # p.listSize
  BY <1>2 DEF EP!Resized
<1> QED BY <1>1, <1>2

-----------------------------------------------------------------------------
(***************************************************************************)
(* The invariant.                                                          *)
(***************************************************************************)

\* Channels that have their descriptor.
Living(c) == life[c] \in {"exists", "removed"}

ChannelInv ==
  /\ life \in [Channels -> {"none", "exists", "removed", "gone"}]
  /\ fd_ \in [Channels -> Int]
  /\ events_ \in [Channels -> SUBSET Events]
  /\ addedToLoop_ \in [Channels -> BOOLEAN]
  /\ \A c \in Channels :
       /\ addedToLoop_[c] => life[c] = "exists"
       /\ events_[c] # {} => addedToLoop_[c]
       /\ Living(c) => fd_[c] \in Fds
  /\ \A c, d \in Channels : Living(c) /\ Living(d) /\ fd_[c] = fd_[d] => c = d

\* The channels the poller has been told of, and those it may still be told of.
Added == {c \in Channels : addedToLoop_[c]}
Fresh == {c \in Channels : life[c] \in {"none", "exists"} /\ ~addedToLoop_[c]}

TablesInv ==
  /\ kind \in {"PollPoller", "EPollPoller"}
  /\ kind = "PollPoller" => PollTables(poller, Fresh, Added, fd_, events_)
  /\ kind = "EPollPoller" => EPollTables(poller, Fresh, Added, fd_, events_)

\* Where the loop is in its list.
LoopInv ==
  /\ pc \in {"poll", "events", "functors"}
  /\ next \in Nat \ {0}
  /\ ListOf(activeChannels_, Channels)
  /\ currentActiveChannel_ # NoChannel =>
       pc = "events" /\ next - 1 \in DOMAIN activeChannels_ /\ currentActiveChannel_ = activeChannels_[next - 1]

\* What the rules for user code are good for.
CarefulInv ==
  /\ failed = {}
  /\ pc = "events" => \A i \in DOMAIN activeChannels_ : i >= next => life[activeChannels_[i]] = "exists"
  /\ kind = "PollPoller" => PollQuiet(poller, Added, fd_, events_)

DispatchInv ==
  /\ ChannelInv
  /\ TablesInv
  /\ LoopInv
  /\ careful => CarefulInv

\* The channels the poller looks at.
Looked == IF kind = "PollPoller" THEN PollLooked(poller.pollfds_, poller.index_, Added)
                                 ELSE EPollLooked(poller.index_, Added)

\* What the poller watches, as Dispatch maps it to Poller.
WatchedNow == IF kind = "PollPoller" THEN PP!Watched(poller) ELSE EP!Watched(poller)

LEMMA AddedApart == ChannelInv => Apart(Added, fd_)
BY DispatchAssumption DEF ChannelInv, Apart, Added, Living

LEMMA WatchedIs == ChannelInv /\ TablesInv => WatchedNow = [c \in Looked |-> events_[c]]
<1> SUFFICES ASSUME ChannelInv, TablesInv PROVE WatchedNow = [c \in Looked |-> events_[c]]
  OBVIOUS
<1>1. Apart(Added, fd_)
  BY AddedApart
<1>2. CASE kind = "PollPoller"
  <2>1. poller.pollfds_ \in Seq(Pollfd) /\ MapFits(poller.channels_, Added, fd_)
        /\ PollFits(poller.pollfds_, poller.index_, Added, fd_, events_)
    BY <1>2 DEF TablesInv, PollTables
  <2>2. PP!Watched(poller) = [c \in PollLooked(poller.pollfds_, poller.index_, Added) |-> events_[c]]
    BY ONLY <1>1, <2>1, PollWatches
  <2> QED BY <1>2, <2>2 DEF WatchedNow, Looked
<1>3. CASE kind = "EPollPoller"
  <2>1. EPollFits(poller.index_, poller.epoll, Added, fd_, events_)
    BY <1>3 DEF TablesInv, EPollTables
  <2>2. EP!Watched(poller) = [c \in EPollLooked(poller.index_, Added) |-> events_[c]]
    BY <1>1, <2>1, EPollWatches
  <2> QED BY <1>3, <2>2 DEF WatchedNow, Looked
<1> QED BY <1>2, <1>3 DEF TablesInv

LEMMA WatchedWillBe == (ChannelInv /\ TablesInv => WatchedNow = [c \in Looked |-> events_[c]])'
BY WatchedIs, PTL

LEMMA InitDispatch == Init => DispatchInv
<1> SUFFICES ASSUME Init PROVE DispatchInv
  OBVIOUS
<1> USE DEF Init
<1>1. Added = {} /\ Fresh = Channels
  BY DEF Added, Fresh
<1>2. ChannelInv
  BY DEF ChannelInv, Living
<1>3. ASSUME kind = "PollPoller" PROVE PollTables(poller, Fresh, Added, fd_, events_)
  <2>1. poller = [pollfds_ |-> <<>>, channels_ |-> << >>, index_ |-> [c \in Channels |-> -1]]
    BY <1>3 DEF PP!Empty
  <2>2. poller.pollfds_ = <<>> /\ poller.channels_ = <<>> /\ poller.index_ = [c \in Channels |-> -1]
    BY <2>1
  <2>3. <<>> \in Seq(Pollfd) /\ Len(<<>>) = 0 /\ DOMAIN <<>> = {}
    OBVIOUS
  <2>4. MapFits(poller.channels_, Added, fd_)
    BY <1>1, <2>2, <2>3 DEF MapFits
  <2>5. PollFits(poller.pollfds_, poller.index_, Added, fd_, events_)
    BY <1>1, <2>2, <2>3 DEF PollFits
  <2>6. poller.index_ \in [Channels -> Int] /\ \A c \in Fresh : poller.index_[c] = -1
    BY <1>1, <2>2
  <2>7. poller = [pollfds_ |-> poller.pollfds_, channels_ |-> poller.channels_, index_ |-> poller.index_]
    BY <2>1, <2>2
  <2>8. poller.pollfds_ \in Seq(Pollfd)
    BY <2>2, <2>3
  <2> QED BY <2>4, <2>5, <2>6, <2>7, <2>8 DEF PollTables
<1>4. ASSUME kind = "EPollPoller" PROVE EPollTables(poller, Fresh, Added, fd_, events_)
  <2>1. poller = [channels_ |-> << >>, index_ |-> [c \in Channels |-> "kNew"], epoll |-> << >>,
                  listSize |-> kInitEventListSize]
    BY <1>4 DEF EP!Empty
  <2>2. poller.channels_ = <<>> /\ poller.index_ = [c \in Channels |-> "kNew"] /\ poller.epoll = <<>>
        /\ poller.listSize = kInitEventListSize
    BY <2>1
  <2>3. DOMAIN <<>> = {} /\ IsFiniteSet({})
    BY FS_EmptySet
  <2>4. MapFits(poller.channels_, Added, fd_)
    BY <1>1, <2>2, <2>3 DEF MapFits
  <2>5. EPollFits(poller.index_, poller.epoll, Added, fd_, events_)
    BY <1>1, <2>2, <2>3 DEF EPollFits, EPollLooked
  <2> QED BY <1>1, <2>1, <2>2, <2>3, <2>4, <2>5, DispatchAssumption DEF EPollTables
<1>5. TablesInv
  BY <1>3, <1>4 DEF TablesInv
<1>6. LoopInv
  <2>1. <<>> \in Seq(Channels) /\ DOMAIN <<>> = {}
    OBVIOUS
  <2> QED BY <2>1 DEF LoopInv, ListOf
<1>7. CarefulInv
  BY <1>1 DEF CarefulInv, PollQuiet
<1> QED BY <1>2, <1>5, <1>6, <1>7 DEF DispatchInv

-----------------------------------------------------------------------------
(***************************************************************************)
(* The steps.                                                              *)
(***************************************************************************)

\* How an update may change what is looked at.
LooksAfter(c, events) ==
  \/ events # {} /\ Looked' = Looked \cup {c}
  \/ events = {} /\ Looked' = Looked \ {c}
  \/ events = {} /\ events_[c] = {} /\ Looked' = Looked \cup {c}

LEMMA ConstructStep ==
  ASSUME DispatchInv, NEW c \in Channels, NEW fd \in Fds, Construct(c, fd)
  PROVE  DispatchInv' /\ Looked' = Looked
<1> USE DEF Construct, channelVars, loopVars
<1>1. c \in Fresh /\ c \notin Added /\ ~addedToLoop_[c] /\ life[c] = "none"
  BY DEF DispatchInv, ChannelInv, Fresh, Added
<1>2. Added' = Added /\ Fresh' = Fresh
  BY <1>1 DEF Added, Fresh, DispatchInv, ChannelInv
<1>3. Agree(fd_, fd_', Added)
  BY <1>1 DEF Agree, DispatchInv, ChannelInv, Added
<1>4. ChannelInv'
  <2>1. life' \in [Channels -> {"none", "exists", "removed", "gone"}] /\ fd_' \in [Channels -> Int]
    BY DispatchAssumption DEF DispatchInv, ChannelInv
  <2>2. \A d \in Channels : (Living(d))' <=> (Living(d) \/ d = c)
    BY DEF DispatchInv, ChannelInv, Living
  <2>3. fd_'[c] = fd /\ \A d \in Channels : d # c => fd_'[d] = fd_[d] /\ life'[d] = life[d]
    BY DEF DispatchInv, ChannelInv
  <2>4. \A d \in Channels : Living(d) => fd_[d] # fd /\ d # c
    BY <1>1 DEF FreeFds, Living
  <2>5. \A d \in Channels : /\ addedToLoop_'[d] => life'[d] = "exists"
                            /\ events_'[d] # {} => addedToLoop_'[d]
                            /\ (Living(d))' => fd_'[d] \in Fds
    BY <1>1, <2>2, <2>3 DEF DispatchInv, ChannelInv
  <2>6. ASSUME NEW d \in Channels, NEW e \in Channels, (Living(d))', (Living(e))', fd_'[d] = fd_'[e]
        PROVE  d = e
    BY <2>2, <2>3, <2>4, <2>6 DEF DispatchInv, ChannelInv
  <2>7. UNCHANGED <<events_, addedToLoop_>>
    OBVIOUS
  <2> QED BY <2>1, <2>5, <2>6, <2>7 DEF DispatchInv, ChannelInv
<1>5. CASE kind = "PollPoller"
  <2>1. PollTables(poller, Fresh, Added, fd_, events_)
    BY <1>5 DEF DispatchInv, TablesInv
  <2>2. Fresh \in SUBSET Channels /\ Added \in SUBSET Channels
    BY DEF Fresh, Added
  <2>3. PP!Constructed(poller, c) = poller /\ PollTables(poller, Fresh, Added, fd_', events_)
    BY ONLY <1>1, <1>3, <2>1, <2>2, PollConstructs
  <2>4. poller' = poller /\ UNCHANGED <<kind, events_>>
    BY <1>5, <2>3
  <2>5. TablesInv'
    BY <1>2, <1>5, <2>3, <2>4 DEF TablesInv
  <2>6. Looked' = Looked
    BY <1>2, <2>4 DEF Looked
  <2>7. careful => PollQuiet(poller, Added, fd_', events_)
    BY <1>3, <1>5 DEF DispatchInv, CarefulInv, PollQuiet, Agree
  <2>8. LoopInv' /\ (careful => CarefulInv)'
    <3>1. LoopInv'
      BY DEF DispatchInv, LoopInv
    <3>2. careful => \A i \in DOMAIN activeChannels_ :
              pc = "events" /\ i >= next => life'[activeChannels_[i]] = "exists"
      BY DEF DispatchInv, CarefulInv, ChannelInv, LoopInv, ListOf
    <3> QED BY <1>2, <1>5, <2>4, <2>7, <3>1, <3>2 DEF DispatchInv, CarefulInv
  <2> QED BY <1>4, <2>5, <2>6, <2>8 DEF DispatchInv
<1>6. CASE kind = "EPollPoller"
  <2>1. EPollTables(poller, Fresh, Added, fd_, events_)
    BY <1>6 DEF DispatchInv, TablesInv
  <2>2. Fresh \in SUBSET Channels /\ Added \in SUBSET Channels
    BY DEF Fresh, Added
  <2>3. EP!Constructed(poller, c) = poller /\ EPollTables(poller, Fresh, Added, fd_', events_)
    BY ONLY <1>1, <1>3, <2>1, <2>2, EPollConstructs
  <2>4. poller' = poller /\ UNCHANGED <<kind, events_>>
    BY <1>6, <2>3
  <2>5. TablesInv'
    BY <1>2, <1>6, <2>3, <2>4 DEF TablesInv
  <2>6. Looked' = Looked
    BY <1>2, <2>4 DEF Looked
  <2>7. LoopInv' /\ (careful => CarefulInv)'
    <3>1. LoopInv'
      BY DEF DispatchInv, LoopInv
    <3>2. careful => \A i \in DOMAIN activeChannels_ :
              pc = "events" /\ i >= next => life'[activeChannels_[i]] = "exists"
      BY DEF DispatchInv, CarefulInv, ChannelInv, LoopInv, ListOf
    <3> QED BY <1>6, <2>4, <3>1, <3>2 DEF DispatchInv, CarefulInv
  <2> QED BY <1>4, <2>5, <2>6, <2>7 DEF DispatchInv
<1> QED BY <1>5, <1>6 DEF DispatchInv, TablesInv

LEMMA UpdateStep ==
  ASSUME DispatchInv, NEW c \in Channels, NEW events \in SUBSET Events, Update(c, events)
  PROVE  DispatchInv' /\ LooksAfter(c, events)
<1> USE DEF Update, loopVars
<1>1. life[c] = "exists" /\ c \in Fresh \cup Added /\ (c \in Fresh => ~addedToLoop_[c] /\ events_[c] = {})
  BY DEF DispatchInv, ChannelInv, Fresh, Added
<1>2. Added' = Added \cup {c} /\ Fresh' = Fresh \ {c} /\ Fresh \cap Added = {}
  BY <1>1 DEF Added, Fresh, DispatchInv, ChannelInv
<1>3. Fresh \in SUBSET Channels /\ Added \in SUBSET Channels
  BY DEF Fresh, Added
<1>4. events_'[c] = events /\ Agree(events_, events_', Added \ {c})
  BY DEF DispatchInv, ChannelInv, Added, Agree
<1>5. ChannelInv'
  BY <1>1 DEF DispatchInv, ChannelInv, Living
<1>6. Apart(Added \cup {c}, fd_)
  BY <1>1, DispatchAssumption DEF DispatchInv, ChannelInv, Apart, Added, Living
<1>7. LoopInv'
  BY DEF DispatchInv, LoopInv
<1>8. kind' = kind /\ fd_' = fd_ /\ life' = life
  OBVIOUS
<1>9. CASE kind = "PollPoller"
  <2>1. PollTables(poller, Fresh, Added, fd_, events_)
    BY <1>9 DEF DispatchInv, TablesInv
  <2>2. poller' = PP!updateChannel(poller, c, fd_[c], events)
    BY <1>9
  <2>3. /\ PP!updateFails(poller, c, fd_[c]) = {}
        /\ PollTables(poller', Fresh \ {c}, Added \cup {c}, fd_, events_')
        /\ PollChanged(poller, poller', c, Added, events)
        /\ PollQuiet(poller, Added, fd_, events_) /\ (events = {} => c \in Added)
              => PollQuiet(poller', Added \cup {c}, fd_, events_')
    BY ONLY <1>1, <1>2, <1>3, <1>4, <1>6, <2>1, <2>2, PollUpdate, events \in SUBSET Events
  <2>4. TablesInv'
    BY <1>2, <1>8, <1>9, <2>3 DEF TablesInv
  <2>5. LooksAfter(c, events)
    BY <1>1, <1>2, <1>8, <1>9, <2>3 DEF LooksAfter, Looked, PollChanged
  <2>6. (careful => CarefulInv)'
    <3> SUFFICES ASSUME careful' PROVE CarefulInv'
      OBVIOUS
    <3>1. careful /\ (events = {} => events_[c] # {})
      OBVIOUS
    <3>2. events = {} => c \in Added
      BY <1>1, <3>1
    <3>3. CarefulInv
      BY <3>1 DEF DispatchInv
    <3>4. failed' = {}
      BY <1>9, <2>3, <3>3 DEF CarefulInv
    <3> QED BY <1>2, <1>8, <1>9, <2>3, <3>2, <3>3, <3>4 DEF CarefulInv
  <2> QED BY <1>5, <1>7, <2>4, <2>5, <2>6 DEF DispatchInv
<1>10. CASE kind = "EPollPoller"
  <2>1. EPollTables(poller, Fresh, Added, fd_, events_)
    BY <1>10 DEF DispatchInv, TablesInv
  <2>2. poller' = EP!updateChannel(poller, c, fd_[c], events)
    BY <1>10
  <2>3. /\ EP!updateFails(poller, c, fd_[c], events) = {}
        /\ EPollTables(poller', Fresh \ {c}, Added \cup {c}, fd_, events_')
        /\ EPollChanged(poller, poller', c, Added, events)
    BY ONLY <1>1, <1>2, <1>3, <1>4, <1>6, <2>1, <2>2, EPollUpdate, events \in SUBSET Events
  <2>4. TablesInv'
    BY <1>2, <1>8, <1>10, <2>3 DEF TablesInv
  <2>5. c \in Added /\ poller.index_[c] # "kAdded" => events_[c] = {}
    BY <2>1 DEF EPollTables, EPollFits
  <2>6. LooksAfter(c, events)
    BY <1>1, <1>2, <1>8, <1>10, <2>3, <2>5 DEF LooksAfter, Looked, EPollChanged
  <2>7. (careful => CarefulInv)'
    <3> SUFFICES ASSUME careful' PROVE CarefulInv'
      OBVIOUS
    <3>1. CarefulInv
      BY DEF DispatchInv
    <3>2. failed' = {}
      BY <1>10, <2>3, <3>1 DEF CarefulInv
    <3> QED BY <1>8, <1>10, <3>1, <3>2 DEF CarefulInv
  <2> QED BY <1>5, <1>7, <2>4, <2>6, <2>7 DEF DispatchInv
<1> QED BY <1>9, <1>10 DEF DispatchInv, TablesInv

LEMMA RemoveStep ==
  ASSUME DispatchInv, NEW c \in Channels, Remove(c)
  PROVE  DispatchInv' /\ Looked' = Looked \ {c}
<1> USE DEF Remove, loopVars
<1> DEFINE inBatch == eventHandling_ /\ currentActiveChannel_ # c /\ inActiveChannels(c)
           asserts == IF inBatch THEN {"EventLoop.cc:167"} ELSE {}
<1>1. life[c] = "exists" /\ c \in Added /\ events_[c] = {}
  BY DEF DispatchInv, ChannelInv, Added
<1>2. Added' = Added \ {c} /\ Fresh' = Fresh /\ Fresh \cap Added = {}
  BY <1>1 DEF Added, Fresh, DispatchInv, ChannelInv
<1>3. Fresh \in SUBSET Channels /\ Added \in SUBSET Channels
  BY DEF Fresh, Added
<1>4. ChannelInv'
  BY <1>1 DEF DispatchInv, ChannelInv, Living
<1>5. Apart(Added, fd_)
  BY AddedApart DEF DispatchInv
<1>6. LoopInv'
  BY DEF DispatchInv, LoopInv
<1>7. UNCHANGED <<kind, fd_, events_, pc, activeChannels_, next>> /\ careful' = (careful /\ ~inBatch)
  OBVIOUS
<1>8. ASSUME careful' PROVE careful /\ ~inBatch /\ asserts = {} /\ CarefulInv
  BY <1>7, <1>8 DEF DispatchInv
<1>9. ASSUME careful', pc = "events", NEW i \in DOMAIN activeChannels_, i >= next
      PROVE  life'[activeChannels_[i]] = "exists"
  <2>1. life[activeChannels_[i]] = "exists" /\ activeChannels_[i] \in Channels
    BY <1>8, <1>9 DEF CarefulInv, DispatchInv, LoopInv, ListOf
  <2>2. activeChannels_[i] # c
    <3>1. CASE currentActiveChannel_ = c
      <4>1. next - 1 \in DOMAIN activeChannels_ /\ c = activeChannels_[next - 1]
        BY <3>1, DispatchAssumption DEF DispatchInv, LoopInv, NoChannel
      <4>2. next - 1 # i
        BY <1>9 DEF DispatchInv, LoopInv
      <4> QED BY <4>1, <4>2 DEF DispatchInv, LoopInv, ListOf
    <3>2. CASE currentActiveChannel_ # c
      BY <1>8, <1>9, <3>2 DEF eventHandling_, inActiveChannels
    <3> QED BY <3>1, <3>2
  <2> QED BY <2>1, <2>2 DEF DispatchInv, ChannelInv
<1>10. CASE kind = "PollPoller"
  <2>1. PollTables(poller, Fresh, Added, fd_, events_)
    BY <1>10 DEF DispatchInv, TablesInv
  <2>2. poller' = PP!removeChannel(poller, c, fd_[c])
    BY <1>10
  <2>3. /\ PollQuiet(poller, Added, fd_, events_) =>
             PP!removeFails(poller, c, fd_[c]) = {} /\ PollQuiet(poller', Added \ {c}, fd_, events_)
        /\ PollTables(poller', Fresh, Added \ {c}, fd_, events_)
        /\ PollDropped(poller, poller', c, Added)
    BY ONLY <1>1, <1>2, <1>3, <1>5, <2>1, <2>2, PollRemoves
  <2>4. TablesInv'
    BY <1>2, <1>7, <1>10, <2>3 DEF TablesInv
  <2>5. Looked' = Looked \ {c}
    BY <1>2, <1>7, <1>10, <2>3 DEF PollDropped, Looked
  <2>6. (careful => CarefulInv)'
    <3> SUFFICES ASSUME careful' PROVE CarefulInv'
      OBVIOUS
    <3>1. PollQuiet(poller, Added, fd_, events_) /\ failed = {}
      BY <1>8, <1>10 DEF CarefulInv
    <3>2. failed' = failed \cup asserts \cup PP!removeFails(poller, c, fd_[c])
      BY <1>10
    <3>3. failed' = {}
      BY <1>8, <2>3, <3>1, <3>2
    <3> QED BY <1>2, <1>7, <1>9, <2>3, <3>1, <3>3 DEF CarefulInv
  <2> QED BY <1>4, <1>6, <2>4, <2>5, <2>6 DEF DispatchInv
<1>11. CASE kind = "EPollPoller"
  <2>1. EPollTables(poller, Fresh, Added, fd_, events_)
    BY <1>11 DEF DispatchInv, TablesInv
  <2>2. poller' = EP!removeChannel(poller, c, fd_[c])
    BY <1>11
  <2>3. /\ EP!removeFails(poller, c, fd_[c]) = {}
        /\ EPollTables(poller', Fresh, Added \ {c}, fd_, events_)
        /\ EPollDropped(poller, poller', c, Added)
    BY ONLY <1>1, <1>2, <1>3, <1>5, <2>1, <2>2, EPollRemoves
  <2>4. TablesInv'
    BY <1>2, <1>7, <1>11, <2>3 DEF TablesInv
  <2>5. Looked' = Looked \ {c}
    BY <1>2, <1>7, <1>11, <2>3 DEF EPollDropped, Looked
  <2>6. (careful => CarefulInv)'
    <3> SUFFICES ASSUME careful' PROVE CarefulInv'
      OBVIOUS
    <3>1. failed = {}
      BY <1>8 DEF CarefulInv
    <3>2. failed' = failed \cup asserts \cup EP!removeFails(poller, c, fd_[c])
      BY <1>11
    <3>3. failed' = {}
      BY <1>8, <2>3, <3>1, <3>2
    <3> QED BY <1>7, <1>9, <1>11, <3>3 DEF CarefulInv
  <2> QED BY <1>4, <1>6, <2>4, <2>5, <2>6 DEF DispatchInv
<1> QED BY <1>10, <1>11 DEF DispatchInv, TablesInv

LEMMA DestroyStep ==
  ASSUME DispatchInv, NEW c \in Channels, Destroy(c)
  PROVE  DispatchInv' /\ Looked' = Looked
<1> USE DEF Destroy, loopVars
<1>1. life[c] = "removed" /\ c \notin Added
  BY DEF DispatchInv, ChannelInv, Added
<1>2. Added' = Added /\ Fresh' = Fresh
  BY <1>1 DEF Added, Fresh, DispatchInv, ChannelInv
<1>3. ChannelInv'
  BY <1>1 DEF DispatchInv, ChannelInv, Living
<1>4. UNCHANGED <<kind, poller, fd_, events_, addedToLoop_, activeChannels_, next, pc, currentActiveChannel_, careful>>
  OBVIOUS
<1>5. TablesInv' /\ LoopInv' /\ Looked' = Looked
  BY <1>2, <1>4 DEF DispatchInv, TablesInv, LoopInv, Looked
<1>6. MapFits(poller.channels_, Added, fd_)
  BY DEF DispatchInv, TablesInv, PollTables, EPollTables
<1>7. ~hasChannel(c)
  <2>1. \A d \in Added : d # c /\ fd_[d] # fd_[c]
    BY <1>1 DEF DispatchInv, ChannelInv, Living, Added
  <2> QED BY <1>6, <2>1 DEF hasChannel, MapFits
<1>8. (careful => CarefulInv)'
  <2> SUFFICES ASSUME careful PROVE CarefulInv'
    BY <1>4
  <2>1. CarefulInv
    BY DEF DispatchInv
  <2>2. failed' = {}
    BY <1>7
  <2>3. pc = "events" => \A i \in DOMAIN activeChannels_ : i >= next => life'[activeChannels_[i]] = "exists"
    BY <1>1, <2>1 DEF CarefulInv, DispatchInv, ChannelInv
  <2>4. kind = "PollPoller" => PollQuiet(poller, Added, fd_, events_)
    BY <2>1 DEF CarefulInv
  <2> QED BY <1>2, <1>4, <2>2, <2>3, <2>4 DEF CarefulInv
<1> QED BY <1>3, <1>5, <1>8 DEF DispatchInv

\* poll reports channels it looks at, which exist.
LEMMA PollStep ==
  ASSUME DispatchInv, Poll, failed = {}
  PROVE  DispatchInv' /\ Looked' = Looked /\ ListOf(activeChannels_', Looked)
<1> USE DEF Poll, channelVars
<1>1. Apart(Added, fd_)
  BY AddedApart DEF DispatchInv
<1>2. UNCHANGED <<kind, life, fd_, events_, addedToLoop_, next, currentActiveChannel_, careful, failed>>
      /\ pc' = "events" /\ pc = "poll"
  OBVIOUS
<1>3. Added' = Added /\ Fresh' = Fresh
  BY <1>2 DEF Added, Fresh
<1>4. TablesInv' /\ Looked' = Looked /\ ListOf(activeChannels_', Looked)
      /\ (kind = "PollPoller" => poller' = poller)
  <2>1. CASE kind = "PollPoller"
    <3>1. PollTables(poller, Fresh, Added, fd_, events_)
      BY <2>1 DEF DispatchInv, TablesInv
    <3>2. PICK ready : activeChannels_' \in PP!fillActiveChannels(poller, ready) /\ poller' = poller
      BY <2>1
    <3>3. ListOf(activeChannels_', PollLooked(poller.pollfds_, poller.index_, Added))
      BY ONLY <1>1, <3>1, <3>2, PollReports
    <3> QED BY <1>2, <1>3, <2>1, <3>1, <3>2, <3>3 DEF TablesInv, Looked
  <2>2. CASE kind = "EPollPoller"
    <3>1. EPollTables(poller, Fresh, Added, fd_, events_)
      BY <2>2 DEF DispatchInv, TablesInv
    <3>2. PICK ready : /\ activeChannels_' \in EP!fillActiveChannels(poller, ready)
                       /\ poller' = EP!Resized(poller, Len(activeChannels_'))
      BY <2>2
    <3>3. ListOf(activeChannels_', EPollLooked(poller.index_, Added))
      BY ONLY <1>1, <3>1, <3>2, EPollReports
    <3>4. EPollTables(poller', Fresh, Added, fd_, events_) /\ poller'.index_ = poller.index_
      BY ONLY <3>1, <3>2, EPollResizes
    <3> QED BY <1>2, <1>3, <2>2, <3>3, <3>4 DEF TablesInv, Looked
  <2> QED BY <2>1, <2>2 DEF DispatchInv, TablesInv
<1>5. Looked \subseteq Added /\ Added \subseteq Channels /\ \A c \in Added : life[c] = "exists"
  BY DEF Looked, PollLooked, EPollLooked, Added, DispatchInv, ChannelInv
<1>6. ChannelInv'
  BY <1>2 DEF DispatchInv, ChannelInv, Living
<1> DEFINE list == activeChannels_'
<1>7. list \in Seq(Looked) /\ \A i, j \in DOMAIN list : list[i] = list[j] => i = j
  BY <1>4 DEF ListOf
<1> HIDE DEF list
<1>8. \A i \in DOMAIN list : list[i] \in Looked
  BY <1>7
<1>9. list \in Seq(Channels)
  <2>1. list \in [1..Len(list) -> Channels] /\ Len(list) \in Nat
    BY <1>5, <1>7, <1>8
  <2> QED BY <2>1
<1>10. LoopInv'
  <2>1. currentActiveChannel_' = NoChannel
    BY <1>2 DEF DispatchInv, LoopInv
  <2>2. ListOf(activeChannels_', Channels)
    BY <1>7, <1>9 DEF ListOf, list
  <2>3. next' \in Nat \ {0}
    BY <1>2 DEF DispatchInv, LoopInv
  <2> QED BY <1>2, <2>1, <2>2, <2>3 DEF LoopInv
<1>11. (careful => CarefulInv)'
  <2>1. \A i \in DOMAIN list : life[list[i]] = "exists"
    BY <1>5, <1>8
  <2>2. careful /\ kind = "PollPoller" => PollQuiet(poller, Added, fd_, events_)
    BY DEF DispatchInv, CarefulInv
  <2> QED BY <1>2, <1>3, <1>4, <2>1, <2>2 DEF CarefulInv, list
<1> QED BY <1>4, <1>6, <1>10, <1>11 DEF DispatchInv

\* The other steps of the loop.
LEMMA LoopStep ==
  ASSUME DispatchInv, failed = {}, handleEvent \/ Return \/ EndEvents \/ EndFunctors
  PROVE  DispatchInv' /\ Looked' = Looked
<1> USE DEF channelVars
<1>1. UNCHANGED <<kind, poller, life, fd_, events_, addedToLoop_, careful>>
  BY DEF handleEvent, Return, EndEvents, EndFunctors
<1>2. Added' = Added /\ Fresh' = Fresh
  BY <1>1 DEF Added, Fresh
<1>3. ChannelInv' /\ TablesInv' /\ Looked' = Looked
  BY <1>1, <1>2 DEF DispatchInv, ChannelInv, Living, TablesInv, Looked
<1>4. careful /\ kind = "PollPoller" => (PollQuiet(poller, Added, fd_, events_))'
  BY <1>1, <1>2 DEF DispatchInv, CarefulInv
<1>5. LoopInv /\ (careful => CarefulInv)
  BY DEF DispatchInv
<1>6. CASE handleEvent
  <2> DEFINE c == activeChannels_[next]
  <2>1. next \in DOMAIN activeChannels_ /\ next + 1 - 1 = next /\ next + 1 \in Nat \ {0}
    BY <1>5, <1>6 DEF handleEvent, LoopInv, ListOf
  <2>2. UNCHANGED <<activeChannels_, pc>> /\ next' = next + 1 /\ pc = "events" /\ currentActiveChannel_ = NoChannel
    BY <1>6 DEF handleEvent
  <2>3. currentActiveChannel_' \in {NoChannel, c}
    BY <1>6 DEF handleEvent
  <2>4. LoopInv'
    BY <1>5, <2>1, <2>2, <2>3 DEF LoopInv
  <2>5. ASSUME careful PROVE CarefulInv'
    <3>1. life[c] = "exists"
      BY <1>5, <2>1, <2>2, <2>5 DEF CarefulInv, LoopInv
    <3>2. failed' = {}
      BY <1>6, <3>1 DEF handleEvent
    <3>3. \A i \in DOMAIN activeChannels_ : i >= next + 1 => i >= next
      BY <1>5 DEF LoopInv, ListOf
    <3> QED BY <1>1, <1>4, <1>5, <2>2, <2>5, <3>2, <3>3 DEF CarefulInv
  <2> QED BY <1>1, <1>3, <2>4, <2>5 DEF DispatchInv
<1>7. CASE Return
  BY <1>1, <1>3, <1>4, <1>5, <1>7 DEF Return, LoopInv, CarefulInv, DispatchInv
<1>8. CASE EndEvents
  BY <1>1, <1>3, <1>4, <1>5, <1>8 DEF EndEvents, LoopInv, CarefulInv, DispatchInv
<1>9. CASE EndFunctors
  <2>1. ListOf(<<>>, Channels)
    BY DEF ListOf
  <2>2. currentActiveChannel_' = NoChannel
    BY <1>5, <1>9 DEF EndFunctors, LoopInv
  <2>3. LoopInv'
    BY <1>9, <2>1, <2>2 DEF EndFunctors, LoopInv
  <2> QED BY <1>1, <1>3, <1>4, <1>5, <1>9, <2>3 DEF EndFunctors, CarefulInv, DispatchInv
<1> QED BY <1>6, <1>7, <1>8, <1>9

LEMMA UserUpdates ==
  ASSUME DispatchInv, NEW c \in Channels, enable(c) \/ disable(c) \/ disableAll(c)
  PROVE  \E events \in SUBSET Events : Update(c, events)
<1>1. events_[c] \in SUBSET Events
  BY DEF DispatchInv, ChannelInv
<1>2. CASE enable(c)
  <2>1. PICK e \in Events : Update(c, events_[c] \cup {e})
    BY <1>2 DEF enable
  <2>2. events_[c] \cup {e} \in SUBSET Events
    BY <1>1
  <2> QED BY <2>1, <2>2
<1>3. CASE disable(c)
  <2>1. PICK e \in events_[c] : Update(c, events_[c] \ {e})
    BY <1>3 DEF disable
  <2>2. events_[c] \ {e} \in SUBSET Events
    BY <1>1
  <2> QED BY <2>1, <2>2
<1>4. CASE disableAll(c)
  BY <1>4 DEF disableAll
<1> QED BY <1>2, <1>3, <1>4

LEMMA StutterStep ==
  ASSUME DispatchInv, UNCHANGED vars
  PROVE  DispatchInv'
<1> USE DEF vars, channelVars, loopVars
<1>1. Added' = Added /\ Fresh' = Fresh
  BY DEF Added, Fresh
<1>2. ChannelInv'
  BY DEF DispatchInv, ChannelInv, Living
<1>3. TablesInv' /\ LoopInv' /\ (careful => CarefulInv)'
  BY <1>1 DEF DispatchInv, TablesInv, LoopInv, CarefulInv
<1> QED BY <1>2, <1>3 DEF DispatchInv

LEMMA NextStep ==
  ASSUME DispatchInv, [Next]_vars
  PROVE  DispatchInv'
<1>1. ASSUME NEW c \in Channels, NEW fd \in Fds, Construct(c, fd) PROVE DispatchInv'
  BY <1>1, ConstructStep
<1>2. ASSUME NEW c \in Channels, enable(c) \/ disable(c) \/ disableAll(c) PROVE DispatchInv'
  <2>1. PICK events \in SUBSET Events : Update(c, events)
    BY <1>2, UserUpdates
  <2> QED BY <2>1, UpdateStep
<1>3. ASSUME NEW c \in Channels, Remove(c) PROVE DispatchInv'
  BY <1>3, RemoveStep
<1>4. ASSUME NEW c \in Channels, Destroy(c) PROVE DispatchInv'
  BY <1>4, DestroyStep
<1>5. CASE loop
  BY <1>5, PollStep, LoopStep DEF loop
<1>6. CASE UNCHANGED vars
  BY <1>6, StutterStep
<1> QED BY <1>1, <1>2, <1>3, <1>4, <1>5, <1>6 DEF Next

\* The tables of both pollers agree with the channels, and with careful user code all
\* channels that are still to be handled exist.
THEOREM DispatchIsSound == Spec => []DispatchInv
<1>1. DispatchInv /\ [Next]_vars => DispatchInv'
  BY NextStep
<1> QED BY <1>1, InitDispatch, PTL DEF Spec

\* If user code gives up only interests it has and removes, in a handler, no other channel
\* of the batch, no assertion of Channel, EventLoop and the pollers fails and loop() never
\* follows a pointer to a channel that is gone.
THEOREM DispatchIsSafe == Spec => []SafeDispatch
<1>1. DispatchInv => SafeDispatch
  BY DEF DispatchInv, CarefulInv, SafeDispatch
<1> QED BY <1>1, DispatchIsSound, PTL

-----------------------------------------------------------------------------
(***************************************************************************)
(* Both pollers implement Poller.                                          *)
(***************************************************************************)

pollerVars == <<events_, WatchedNow, activeChannels_>>

\* w has the interest of some channels.
Interests(w, some, evs) == w = [d \in some |-> evs[d]]

\* What is watched, after a step that looks at one channel more or less.
LEMMA WatchMore ==
  ASSUME NEW some, NEW more, NEW evs, NEW evs2, NEW c, NEW w, NEW v, Interests(w, some, evs),
         Interests(v, more, evs2), more = some \cup {c}, Agree(evs, evs2, some \ {c})
  PROVE  v = Abstract!Put(w, c, evs2[c])
BY DEF Abstract!Put, Agree, Interests

LEMMA WatchLess ==
  ASSUME NEW some, NEW less, NEW evs, NEW evs2, NEW c, NEW w, NEW v, Interests(w, some, evs),
         Interests(v, less, evs2), less = some \ {c}, Agree(evs, evs2, some \ {c})
  PROVE  v = Abstract!Erase(w, c)
BY DEF Abstract!Erase, Agree, Interests

LEMMA PollerStep ==
  ASSUME DispatchInv, [Next]_vars
  PROVE  [Abstract!Next]_pollerVars
<1>1. WatchedNow = [c \in Looked |-> events_[c]]
  BY WatchedIs DEF DispatchInv
<1>2. WatchedNow' = [c \in Looked' |-> events_'[c]]
  BY NextStep, WatchedWillBe DEF DispatchInv
<1> DEFINE w == WatchedNow
           v == WatchedNow'
<1>W. Interests(w, Looked, events_) /\ Interests(v, Looked', events_')
  BY <1>1, <1>2 DEF Interests
<1> HIDE DEF w, v
<1>3. Looked \subseteq Channels
  BY DEF Looked, PollLooked, EPollLooked, Added
<1>4. ASSUME Looked' = Looked, UNCHANGED <<events_, activeChannels_>> PROVE UNCHANGED pollerVars
  BY <1>1, <1>2, <1>4 DEF pollerVars
<1>5. ASSUME NEW c \in Channels, NEW events \in SUBSET Events, Update(c, events) PROVE Abstract!Next
  <2>1. LooksAfter(c, events)
    BY <1>5, UpdateStep
  <2>2. events_' = [events_ EXCEPT ![c] = events] /\ UNCHANGED activeChannels_
    BY <1>5 DEF Update, loopVars
  <2>3. events_'[c] = events /\ Agree(events_, events_', Looked \ {c})
    BY <1>3, <2>2 DEF Agree, DispatchInv, ChannelInv
  <2>4. Looked' = Looked \cup {c} => WatchedNow' = Abstract!Put(WatchedNow, c, events)
    <3>1. ASSUME Looked' = Looked \cup {c} PROVE v = Abstract!Put(w, c, events)
      BY ONLY <1>W, <2>3, <3>1, WatchMore
    <3> QED BY <3>1 DEF v, w
  <2>5. Looked' = Looked \ {c} => WatchedNow' = Abstract!Erase(WatchedNow, c)
    <3>1. ASSUME Looked' = Looked \ {c} PROVE v = Abstract!Erase(w, c)
      BY ONLY <1>W, <2>3, <3>1, WatchLess
    <3> QED BY <3>1 DEF v, w
  <2>6. Abstract!Update(c, events)
    BY <2>1, <2>2, <2>4, <2>5 DEF Abstract!Update, LooksAfter, WatchedNow
  <2> QED BY <2>6 DEF Abstract!Next
<1>6. ASSUME NEW c \in Channels, Remove(c) PROVE Abstract!Next
  <2>1. Looked' = Looked \ {c}
    BY <1>6, RemoveStep
  <2>2. UNCHANGED <<events_, activeChannels_>> /\ events_[c] = {}
    BY <1>6 DEF Remove, loopVars
  <2>3. Agree(events_, events_', Looked \ {c})
    BY <2>2 DEF Agree
  <2>4. WatchedNow' = Abstract!Erase(WatchedNow, c)
    <3>1. v = Abstract!Erase(w, c)
      BY ONLY <1>W, <2>1, <2>3, WatchLess
    <3> QED BY <3>1 DEF v, w
  <2>5. Abstract!Remove(c)
    BY <2>2, <2>4 DEF Abstract!Remove, WatchedNow
  <2> QED BY <2>5 DEF Abstract!Next
<1>7. ASSUME Poll, failed = {} PROVE Abstract!Next
  <2>1. Looked' = Looked /\ ListOf(activeChannels_', Looked)
    BY <1>7, PollStep
  <2>2. UNCHANGED events_
    BY <1>7 DEF Poll, channelVars
  <2>3. WatchedNow' = WatchedNow /\ DOMAIN WatchedNow = Looked
    BY <1>1, <1>2, <2>1, <2>2
  <2> DEFINE list == activeChannels_'
  <2>4. list \in Seq(Looked) /\ \A i, j \in DOMAIN list : list[i] = list[j] => i = j
    BY <2>1 DEF ListOf
  <2> HIDE DEF list
  <2>5. ASSUME NEW i \in DOMAIN list PROVE list[i] \in DOMAIN WatchedNow /\ \A j \in 1 .. i - 1 : list[j] # list[i]
    <3>1. list[i] \in DOMAIN WatchedNow
      BY <2>3, <2>4
    <3>2. ASSUME NEW j \in 1 .. i - 1 PROVE list[j] # list[i]
      <4>1. j \in DOMAIN list /\ j # i
        BY <2>4
      <4> QED BY <2>4, <4>1
    <3> QED BY <3>1, <3>2
  <2>6. Abstract!Poll(activeChannels_')
    BY <2>2, <2>3, <2>5 DEF Abstract!Poll, WatchedNow, list
  <2> QED BY <2>6 DEF Abstract!Next
<1>8. ASSUME EndFunctors, failed = {} PROVE Abstract!Next
  <2>1. Looked' = Looked
    BY <1>8, LoopStep
  <2>2. UNCHANGED events_ /\ activeChannels_' = <<>>
    BY <1>8 DEF EndFunctors, channelVars
  <2>3. WatchedNow' = WatchedNow /\ DOMAIN <<>> = {}
    BY <1>1, <1>2, <2>1, <2>2
  <2>4. Abstract!Poll(activeChannels_')
    BY <2>2, <2>3 DEF Abstract!Poll, WatchedNow
  <2> QED BY <2>4 DEF Abstract!Next
<1>9. ASSUME NEW c \in Channels, NEW fd \in Fds, Construct(c, fd) PROVE UNCHANGED pollerVars
  BY <1>4, <1>9, ConstructStep DEF Construct, loopVars
<1>10. ASSUME NEW c \in Channels, Destroy(c) PROVE UNCHANGED pollerVars
  BY <1>4, <1>10, DestroyStep DEF Destroy, loopVars
<1>11. ASSUME handleEvent \/ Return \/ EndEvents, failed = {} PROVE UNCHANGED pollerVars
  <2>1. Looked' = Looked
    BY <1>11, LoopStep
  <2> QED BY <1>4, <1>11, <2>1 DEF handleEvent, Return, EndEvents, channelVars
<1>12. ASSUME UNCHANGED vars PROVE UNCHANGED pollerVars
  BY <1>12 DEF vars, channelVars, loopVars, pollerVars, WatchedNow
<1>13. ASSUME NEW c \in Channels, enable(c) \/ disable(c) \/ disableAll(c) PROVE Abstract!Next
  BY <1>5, <1>13, UserUpdates
<1>14. CASE loop
  BY <1>7, <1>8, <1>11, <1>14 DEF loop
<1> QED BY <1>6, <1>9, <1>10, <1>12, <1>13, <1>14 DEF Next

\* Whichever poller is used, it watches the channels with an interest, for that interest, and
\* reports only channels it watches, each at most once: updateChannel, removeChannel and
\* fillActiveChannels of both keep their tables with the channels' events_ while channels come
\* and go and descriptors are used again, whether user code is careful or not.
THEOREM PollersArePollers == Spec => ImplementsPoller
<1>1. Init => Abstract!Init
  <2> SUFFICES ASSUME Init PROVE Abstract!Init
    OBVIOUS
  <2>1. DispatchInv
    BY InitDispatch
  <2>2. WatchedNow = [c \in Looked |-> events_[c]] /\ Looked = {}
    <3>1. Added = {}
      BY DEF Init, Added
    <3> QED BY <2>1, <3>1, WatchedIs DEF DispatchInv, Looked, PollLooked, EPollLooked
  <2>3. WatchedNow = <<>>
    BY <2>2
  <2> QED BY <2>3 DEF Init, Abstract!Init, WatchedNow
<1>2. DispatchInv /\ [Next]_vars => [Abstract!Next]_pollerVars
  BY PollerStep
<1>3. Abstract!Spec <=> Abstract!Init /\ [][Abstract!Next]_pollerVars
  BY DEF Abstract!Spec, Abstract!pvars, pollerVars, WatchedNow
<1>4. Spec => Abstract!Spec
  BY <1>1, <1>2, <1>3, DispatchIsSound, PTL DEF Spec
<1> QED BY <1>4 DEF ImplementsPoller
=============================================================================
