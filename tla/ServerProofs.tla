---------------------------- MODULE ServerProofs ----------------------------
(***************************************************************************)
(* Proof about Server for any number of peers, io threads and descriptors: *)
(* a server that is not destroyed too early ends cleanly.                  *)
(***************************************************************************)
EXTENDS Server, SequenceTheorems, TLAPS

(***************************************************************************)
(* Loops and what they still have to run.                                  *)
(***************************************************************************)

Ops == {"connectEstablished", "connectDestroyed", "removeConnectionInLoop"}
Functors == [op : Ops, conn : Peers]
Stages == {"none", "waiting", "refused", "freed"} \cup Live

\* The stages in which a connection still needs somebody.
Busy == {"connecting", "up", "down"}

\* The rest of a batch, and the functors that wait for the next one.
Queue(bat, trn, pend) == SubSeq(bat, trn, Len(bat)) \o pend

QueuesOf(pend, bat, trn) == [l \in AllLoops |-> Queue(bat[l], trn[l], pend[l])]

\* Loops are numbered up to the greatest number of threads.
LEMMA ThreadsAreLoops ==
  /\ ThreadNums \subseteq Nat
  /\ 0 \in AllLoops /\ AllLoops \subseteq Nat
  /\ \A num \in ThreadNums : \A l \in 0..num : l \in AllLoops
<1>1. PICK most \in ThreadNums : \A num \in ThreadNums : num <= most
  BY ServerAssumption
<1>2. \A num \in ThreadNums : most >= num
  BY <1>1, ServerAssumption
<1>3. Max(ThreadNums) \in ThreadNums /\ \A num \in ThreadNums : Max(ThreadNums) >= num
  BY <1>2 DEF Max
<1>4. Max(ThreadNums) \in Nat
  BY <1>3, ServerAssumption
<1>5. 0 \in AllLoops /\ AllLoops \subseteq Nat
  BY <1>4 DEF AllLoops
<1>6. ASSUME NEW num \in ThreadNums, NEW l \in 0..num PROVE l \in AllLoops
  <2>1. num \in Nat /\ Max(ThreadNums) >= num
    BY <1>3, ServerAssumption
  <2> QED BY <1>4, <2>1 DEF AllLoops
<1> QED BY <1>5, <1>6, ServerAssumption

\* What is in a queue.
IsQueue(q, b, t, p, S) ==
  /\ q \in Seq(S)
  /\ Len(q) = (Len(b) + 1 - t) + Len(p)
  /\ \A i \in 1 .. (Len(b) + 1 - t) + Len(p) :
       q[i] = IF i <= Len(b) + 1 - t THEN b[t + i - 1] ELSE p[i - (Len(b) + 1 - t)]

LEMMA QueueIs ==
  ASSUME NEW S, NEW b \in Seq(S), NEW t \in Nat \ {0}, t <= Len(b) + 1, NEW p \in Seq(S)
  PROVE  IsQueue(Queue(b, t, p), b, t, p, S)
<1> DEFINE r == SubSeq(b, t, Len(b))
<1>1. \A i \in t..Len(b) : b[i] \in S
  OBVIOUS
<1>2. /\ r \in Seq(S)
      /\ Len(r) = IF t <= Len(b) THEN Len(b) - t + 1 ELSE 0
      /\ \A i \in 1 .. Len(b) - t + 1 : r[i] = b[t + i - 1]
  BY <1>1, SubSeqProperties
<1> HIDE DEF r
<1>3. Len(r) = Len(b) + 1 - t /\ Len(r) \in Nat /\ Len(b) - t + 1 = Len(b) + 1 - t
  BY <1>2
<1>4. /\ r \o p \in Seq(S)
      /\ Len(r \o p) = Len(r) + Len(p)
      /\ \A i \in 1 .. Len(r) + Len(p) : (r \o p)[i] = IF i <= Len(r) THEN r[i] ELSE p[i - Len(r)]
  BY <1>2, ConcatProperties
<1>5. Queue(b, t, p) = r \o p
  BY DEF Queue, r
<1>6. ASSUME NEW i \in 1 .. Len(r) + Len(p)
      PROVE  (r \o p)[i] = IF i <= Len(r) THEN b[t + i - 1] ELSE p[i - Len(r)]
  <2>1. CASE i <= Len(r)
    <3>1. i \in 1 .. Len(b) - t + 1
      BY <1>3, <2>1
    <3>2. (r \o p)[i] = r[i] /\ r[i] = b[t + i - 1]
      BY <1>2, <1>4, <2>1, <3>1
    <3> QED BY <2>1, <3>2
  <2>2. CASE ~(i <= Len(r))
    BY <1>4, <2>2
  <2> QED BY <2>1, <2>2
<1> QED BY <1>3, <1>4, <1>5, <1>6 DEF IsQueue

\* A functor is queued.
LEMMA QueueAppend ==
  ASSUME NEW S, NEW b \in Seq(S), NEW t \in Nat \ {0}, t <= Len(b) + 1, NEW p \in Seq(S), NEW f \in S
  PROVE  Queue(b, t, Append(p, f)) = Append(Queue(b, t, p), f)
<1> DEFINE n == Len(b) + 1 - t
           q == Queue(b, t, p)
           a == Append(p, f)
           r == Queue(b, t, a)
<1>1. IsQueue(q, b, t, p, S)
  BY QueueIs
<1>2. a \in Seq(S) /\ Len(a) = Len(p) + 1 /\ a[Len(p) + 1] = f /\ \A i \in 1..Len(p) : a[i] = p[i]
  BY AppendProperties
<1>3. IsQueue(r, b, t, a, S)
  <2> HIDE DEF a
  <2> QED BY <1>2, QueueIs
<1> HIDE DEF a, q, r
<1>4. /\ q \in Seq(S) /\ Len(q) = n + Len(p)
      /\ \A i \in 1 .. n + Len(p) : q[i] = IF i <= n THEN b[t + i - 1] ELSE p[i - n]
  BY <1>1 DEF IsQueue
<1>5. /\ r \in Seq(S) /\ Len(r) = n + Len(a)
      /\ \A i \in 1 .. n + Len(a) : r[i] = IF i <= n THEN b[t + i - 1] ELSE a[i - n]
  BY <1>3 DEF IsQueue
<1>6. n \in Nat /\ Len(p) \in Nat
  OBVIOUS
<1> HIDE DEF n
<1>7. /\ Append(q, f) \in Seq(S) /\ Len(Append(q, f)) = Len(q) + 1
      /\ Append(q, f)[Len(q) + 1] = f /\ \A i \in 1..Len(q) : Append(q, f)[i] = q[i]
  BY <1>4, AppendProperties
<1>8. ASSUME NEW i \in 1..Len(r) PROVE r[i] = Append(q, f)[i]
  <2>0. i \in 1 .. n + Len(p) + 1 /\ r[i] = (IF i <= n THEN b[t + i - 1] ELSE a[i - n])
    BY <1>2, <1>5, <1>6
  <2>1. CASE i <= n
    BY <1>4, <1>6, <1>7, <2>0, <2>1
  <2>2. CASE ~(i <= n) /\ i # n + Len(p) + 1
    <3>1. i - n \in 1..Len(p) /\ i \in 1 .. n + Len(p)
      BY <1>6, <2>0, <2>2
    <3> QED BY <1>2, <1>4, <1>7, <2>0, <2>2, <3>1
  <2>3. CASE i = n + Len(p) + 1
    <3>1. ~(i <= n) /\ i - n = Len(p) + 1 /\ i = Len(q) + 1
      BY <1>4, <1>6, <2>3
    <3> QED BY <1>2, <1>7, <2>0, <3>1
  <2> QED BY <2>1, <2>2, <2>3
<1>9. Len(r) = Len(Append(q, f))
  BY <1>2, <1>4, <1>5, <1>6, <1>7
<1>10. r = Append(q, f)
  BY <1>5, <1>7, <1>8, <1>9, SeqEqual
<1> QED BY <1>10 DEF a, q, r

\* a is q without its first element.
Rest(q, a) ==
  /\ 1 \in DOMAIN q
  /\ \A i \in DOMAIN a : i \in Nat /\ i + 1 \in DOMAIN q /\ i + 1 # 1 /\ a[i] = q[i + 1]
  /\ \A i \in DOMAIN q : i # 1 => \E j \in DOMAIN a : i = j + 1

\* The next functor of the batch is taken.
LEMMA QueueRun ==
  ASSUME NEW S, NEW b \in Seq(S), NEW t \in Nat \ {0}, t <= Len(b), NEW p \in Seq(S)
  PROVE  Queue(b, t, p)[1] = b[t] /\ Rest(Queue(b, t, p), Queue(b, t + 1, p))
<1> DEFINE n == Len(b) + 1 - t
           m == Len(b) + 1 - (t + 1)
           u == t + 1
           q == Queue(b, t, p)
           r == Queue(b, u, p)
<1>1. IsQueue(q, b, t, p, S)
  BY QueueIs
<1>2. u \in Nat \ {0} /\ u <= Len(b) + 1
  OBVIOUS
<1>3. IsQueue(r, b, u, p, S)
  <2> HIDE DEF u
  <2> QED BY <1>2, QueueIs
<1> HIDE DEF q, r
<1>4. /\ q \in Seq(S) /\ Len(q) = n + Len(p)
      /\ \A i \in 1 .. n + Len(p) : q[i] = IF i <= n THEN b[t + i - 1] ELSE p[i - n]
  BY <1>1 DEF IsQueue
<1>5. /\ r \in Seq(S) /\ Len(r) = m + Len(p)
      /\ \A i \in 1 .. m + Len(p) : r[i] = IF i <= m THEN b[(t + 1) + i - 1] ELSE p[i - m]
  BY <1>3 DEF IsQueue
<1>6. m \in Nat /\ n = m + 1 /\ Len(p) \in Nat
  OBVIOUS
<1>7. DOMAIN q = 1 .. n + Len(p) /\ DOMAIN r = 1 .. m + Len(p)
  BY <1>4, <1>5
<1> HIDE DEF n, m, u
<1>8. 1 \in DOMAIN q /\ q[1] = b[t]
  <2>1. 1 \in 1 .. n + Len(p) /\ 1 <= n /\ t + 1 - 1 = t
    BY <1>6
  <2> QED BY <1>4, <1>7, <2>1
<1>9. ASSUME NEW i \in DOMAIN r
      PROVE  i \in Nat /\ i + 1 \in DOMAIN q /\ i + 1 # 1 /\ r[i] = q[i + 1]
  <2>0. i \in 1 .. m + Len(p) /\ i \in Nat
    BY <1>6, <1>7
  <2>1. /\ i + 1 \in 1 .. n + Len(p) /\ i + 1 # 1
        /\ (t + 1) + i - 1 = t + (i + 1) - 1 /\ i - m = (i + 1) - n
    <3>1. i + 1 \in 1 .. n + Len(p)
      BY <1>6, <2>0
    <3>2. i + 1 # 1
      BY <2>0
    <3>3. (t + 1) + i - 1 = t + (i + 1) - 1
      BY <2>0
    <3>4. i - m = (i + 1) - n
      BY <1>6, <2>0
    <3> QED BY <3>1, <3>2, <3>3, <3>4
  <2>2. CASE i <= m
    <3>1. i + 1 <= n
      BY <1>6, <2>0, <2>2
    <3> QED BY <1>4, <1>5, <1>7, <2>0, <2>1, <2>2, <3>1
  <2>3. CASE ~(i <= m)
    <3>1. ~(i + 1 <= n)
      BY <1>6, <2>0, <2>3
    <3> QED BY <1>4, <1>5, <1>7, <2>0, <2>1, <2>3, <3>1
  <2> QED BY <2>2, <2>3
<1>10. ASSUME NEW i \in DOMAIN q, i # 1 PROVE \E j \in DOMAIN r : i = j + 1
  <2>1. i - 1 \in DOMAIN r /\ i = (i - 1) + 1
    BY <1>6, <1>7, <1>10
  <2> QED BY <2>1
<1>11. q[1] = b[t] /\ Rest(q, r)
  BY <1>8, <1>9, <1>10 DEF Rest
<1> QED BY <1>11 DEF q, r, u

-----------------------------------------------------------------------------
(***************************************************************************)
(* Connections, the server's map of them, and the functors that wait.      *)
(***************************************************************************)

\* A functor meets a connection in the stage it was queued for.  Only a server with io
\* threads queues removeConnectionInLoop.
Fits(num, op, stage, inMap) ==
  \/ op = "connectEstablished" /\ stage = "connecting"
  \/ op = "removeConnectionInLoop" /\ stage = "down" /\ inMap /\ num > 0
  \/ op = "connectDestroyed" /\ stage = "down" /\ ~inMap

\* The server holds every connection that needs it, and no other.
Mapped(stage, inMap) == (stage \in {"connecting", "up"} => inMap) /\ (inMap => stage \in Busy)

\* p's functor waits.
Awaited(p, q) == \E l \in AllLoops : \E i \in DOMAIN q[l] : q[l][i].conn = p

\* No connection has two functors waiting.
OneEach(q) ==
  \A l, m \in AllLoops : \A i \in DOMAIN q[l], j \in DOMAIN q[m] :
    q[l][i].conn = q[m][j].conn => l = m /\ i = j

\* Everything is in order for every connection but p.
TidyBut(p, num, stages, map, q) ==
  /\ \A o \in Peers \ {p} : Mapped(stages[o], o \in map) /\ (stages[o] = "down" => Awaited(o, q))
  /\ \A l \in AllLoops : \A i \in DOMAIN q[l] :
       /\ q[l][i].conn # p
       /\ Fits(num, q[l][i].op, stages[q[l][i].conn], q[l][i].conn \in map)
  /\ OneEach(q)

Tidy(num, stages, map, q) ==
  /\ \A o \in Peers : Mapped(stages[o], o \in map) /\ (stages[o] = "down" => Awaited(o, q))
  /\ \A l \in AllLoops : \A i \in DOMAIN q[l] :
       Fits(num, q[l][i].op, stages[q[l][i].conn], q[l][i].conn \in map)
  /\ OneEach(q)

LEMMA QueuedIs ==
  ASSUME NEW q \in [AllLoops -> Seq(Functors)], NEW l \in AllLoops, NEW i \in DOMAIN q[l]
  PROVE  q[l][i] \in Functors /\ q[l][i].conn \in Peers /\ q[l][i].op \in Ops
<1>1. q[l][i] \in Functors
  OBVIOUS
<1> QED BY <1>1 DEF Functors

\* Only what is busy counts.
LEMMA TidySame ==
  ASSUME NEW num, NEW stages, NEW others2, NEW map, NEW q \in [AllLoops -> Seq(Functors)],
         Tidy(num, stages, map, q),
         \A o \in Peers : stages[o] = others2[o] \/ (stages[o] \notin Busy /\ others2[o] \notin Busy)
  PROVE  Tidy(num, others2, map, q)
<1>1. ASSUME NEW o \in Peers
      PROVE  Mapped(others2[o], o \in map) /\ (others2[o] = "down" => Awaited(o, q))
  BY <1>1 DEF Tidy, Mapped, Busy
<1>2. ASSUME NEW l \in AllLoops, NEW i \in DOMAIN q[l]
      PROVE  Fits(num, q[l][i].op, others2[q[l][i].conn], q[l][i].conn \in map)
  <2>1. q[l][i].conn \in Peers
    BY QueuedIs
  <2> QED BY <2>1 DEF Tidy, Fits, Busy
<1> QED BY <1>1, <1>2 DEF Tidy

\* A connection that no functor waits for may be looked at on its own.
LEMMA TidyApart ==
  ASSUME NEW num, NEW stages, NEW map, NEW q \in [AllLoops -> Seq(Functors)], NEW p \in Peers,
         Tidy(num, stages, map, q), ~Awaited(p, q)
  PROVE  TidyBut(p, num, stages, map, q)
BY DEF Tidy, TidyBut, Awaited

\* So may the connection whose functor is taken.
LEMMA TidyRun ==
  ASSUME NEW num, NEW stages, NEW map, NEW q \in [AllLoops -> Seq(Functors)],
         NEW r \in [AllLoops -> Seq(Functors)], NEW k \in AllLoops,
         Tidy(num, stages, map, q), Rest(q[k], r[k]), \A l \in AllLoops : l # k => r[l] = q[l]
  PROVE  /\ q[k][1].conn \in Peers
         /\ Fits(num, q[k][1].op, stages[q[k][1].conn], q[k][1].conn \in map)
         /\ TidyBut(q[k][1].conn, num, stages, map, r)
<1> DEFINE p == q[k][1].conn
           Was(l, i) == IF l = k THEN i + 1 ELSE i
<1>1. 1 \in DOMAIN q[k] /\ p \in Peers
  <2>1. 1 \in DOMAIN q[k]
    BY DEF Rest
  <2>2. q[k][1] \in Functors
    BY <2>1
  <2> QED BY <2>1, <2>2 DEF Functors
<1>2. Fits(num, q[k][1].op, stages[p], p \in map)
  BY <1>1 DEF Tidy
<1>3. ASSUME NEW l \in AllLoops, NEW i \in DOMAIN r[l]
      PROVE  /\ Was(l, i) \in DOMAIN q[l] /\ r[l][i] = q[l][Was(l, i)]
             /\ ~(l = k /\ Was(l, i) = 1)
  BY <1>3 DEF Rest
<1>4. ASSUME NEW l \in AllLoops, NEW i \in DOMAIN q[l], ~(l = k /\ i = 1)
      PROVE  \E j \in DOMAIN r[l] : i = Was(l, j)
  BY <1>4 DEF Rest
<1>5. ASSUME NEW l \in AllLoops, NEW i \in DOMAIN r[l], NEW j \in DOMAIN r[l], Was(l, i) = Was(l, j)
      PROVE  i = j
  <2>1. i \in Nat /\ j \in Nat
    OBVIOUS
  <2> QED BY <1>5, <2>1
<1> HIDE DEF Was
<1>6. ASSUME NEW l \in AllLoops, NEW i \in DOMAIN r[l]
      PROVE  r[l][i].conn # p /\ Fits(num, r[l][i].op, stages[r[l][i].conn], r[l][i].conn \in map)
  <2>1. Was(l, i) \in DOMAIN q[l] /\ r[l][i] = q[l][Was(l, i)] /\ ~(l = k /\ Was(l, i) = 1)
    BY <1>3
  <2>2. q[l][Was(l, i)].conn # p
    BY <1>1, <2>1 DEF Tidy, OneEach
  <2> QED BY <2>1, <2>2 DEF Tidy
<1>7. OneEach(r)
  <2> SUFFICES ASSUME NEW l \in AllLoops, NEW m \in AllLoops, NEW i \in DOMAIN r[l], NEW j \in DOMAIN r[m],
                      r[l][i].conn = r[m][j].conn
               PROVE  l = m /\ i = j
    BY DEF OneEach
  <2>1. Was(l, i) \in DOMAIN q[l] /\ Was(m, j) \in DOMAIN q[m]
        /\ q[l][Was(l, i)].conn = q[m][Was(m, j)].conn
    BY <1>3
  <2>2. l = m /\ Was(l, i) = Was(m, j)
    BY <2>1 DEF Tidy, OneEach
  <2> QED BY <1>5, <2>2
<1>8. ASSUME NEW o \in Peers \ {p}
      PROVE  Mapped(stages[o], o \in map) /\ (stages[o] = "down" => Awaited(o, r))
  <2>1. ASSUME stages[o] = "down" PROVE Awaited(o, r)
    <3>1. PICK l \in AllLoops : \E i \in DOMAIN q[l] : q[l][i].conn = o
      BY <2>1 DEF Tidy, Awaited
    <3>2. PICK i \in DOMAIN q[l] : q[l][i].conn = o
      BY <3>1
    <3>3. PICK j \in DOMAIN r[l] : i = Was(l, j)
      BY <1>4, <3>2
    <3>4. r[l][j].conn = o
      BY <1>3, <3>2, <3>3
    <3> QED BY <3>4 DEF Awaited
  <2> QED BY <2>1 DEF Tidy
<1> QED BY <1>1, <1>2, <1>6, <1>7, <1>8 DEF TidyBut

\* What happens to p alone.
LEMMA TidyMove ==
  ASSUME NEW num, NEW stages, NEW map, NEW q \in [AllLoops -> Seq(Functors)], NEW p \in Peers,
         NEW stages2, NEW map2, TidyBut(p, num, stages, map, q),
         \A o \in Peers : o # p => stages2[o] = stages[o] /\ (o \in map2 <=> o \in map)
  PROVE  TidyBut(p, num, stages2, map2, q)
<1>1. ASSUME NEW o \in Peers \ {p}
      PROVE  Mapped(stages2[o], o \in map2) /\ (stages2[o] = "down" => Awaited(o, q))
  BY <1>1 DEF TidyBut, Mapped
<1>2. ASSUME NEW l \in AllLoops, NEW i \in DOMAIN q[l]
      PROVE  /\ q[l][i].conn # p
             /\ Fits(num, q[l][i].op, stages2[q[l][i].conn], q[l][i].conn \in map2)
  <2>1. q[l][i].conn \in Peers /\ q[l][i].conn # p
    BY QueuedIs DEF TidyBut
  <2> QED BY <2>1 DEF TidyBut, Fits
<1> QED BY <1>1, <1>2 DEF TidyBut

\* p needs no functor ...
LEMMA TidyAgain ==
  ASSUME NEW num, NEW stages, NEW map, NEW q \in [AllLoops -> Seq(Functors)], NEW p \in Peers,
         TidyBut(p, num, stages, map, q), Mapped(stages[p], p \in map), stages[p] # "down"
  PROVE  Tidy(num, stages, map, q)
BY DEF TidyBut, Tidy

\* ... or gets one.
LEMMA TidyAdd ==
  ASSUME NEW num, NEW stages, NEW map, NEW q \in [AllLoops -> Seq(Functors)], NEW p \in Peers,
         TidyBut(p, num, stages, map, q), Mapped(stages[p], p \in map),
         NEW op \in Ops, Fits(num, op, stages[p], p \in map), NEW k \in AllLoops
  PROVE  Tidy(num, stages, map, queueInLoop(q, k, op, p))
<1> DEFINE f == Functor(op, p)
           a == Append(q[k], f)
           r == [q EXCEPT ![k] = a]
           n == Len(q[k])
<1>1. f \in Functors /\ f.op = op /\ f.conn = p
  BY DEF Functor, Functors
<1> HIDE DEF f
<1>2. q[k] \in Seq(Functors) /\ n \in Nat /\ DOMAIN q[k] = 1..n
  OBVIOUS
<1>3. a \in Seq(Functors) /\ Len(a) = n + 1 /\ a[n + 1] = f /\ \A i \in 1..n : a[i] = q[k][i]
  BY <1>1, <1>2, AppendProperties
<1>4. DOMAIN a = 1 .. n + 1
  BY <1>3
<1>5. r[k] = a /\ \A l \in AllLoops : l # k => r[l] = q[l]
  OBVIOUS
<1> HIDE DEF a, n, r
<1>6. ASSUME NEW l \in AllLoops, NEW i \in DOMAIN r[l]
      PROVE  \/ i \in DOMAIN q[l] /\ r[l][i] = q[l][i]
             \/ l = k /\ i = n + 1 /\ r[l][i] = f
  <2>1. CASE l = k
    <3>1. i = n + 1 \/ i \in 1..n
      BY <1>2, <1>4, <1>5, <2>1
    <3> QED BY <1>2, <1>3, <1>5, <2>1, <3>1
  <2> QED BY <1>5, <2>1
<1>7. ASSUME NEW l \in AllLoops, NEW i \in DOMAIN q[l] PROVE i \in DOMAIN r[l] /\ r[l][i] = q[l][i]
  <2>1. CASE l = k
    <3>1. i \in 1..n /\ i \in 1 .. n + 1
      BY <1>2, <2>1
    <3> QED BY <1>3, <1>4, <1>5, <2>1, <3>1
  <2> QED BY <1>5, <2>1
<1>8. n + 1 \in DOMAIN r[k] /\ r[k][n + 1] = f
  BY <1>2, <1>3, <1>4, <1>5
<1>9. ASSUME NEW o \in Peers
      PROVE  Mapped(stages[o], o \in map) /\ (stages[o] = "down" => Awaited(o, r))
  <2>1. CASE o = p
    <3>1. Awaited(p, r)
      BY <1>1, <1>8 DEF Awaited
    <3> QED BY <2>1, <3>1
  <2>2. CASE o # p
    <3>1. Awaited(o, q) => Awaited(o, r)
      BY <1>7 DEF Awaited
    <3> QED BY <2>2, <3>1 DEF TidyBut
  <2> QED BY <2>1, <2>2
<1>10. ASSUME NEW l \in AllLoops, NEW i \in DOMAIN r[l]
       PROVE  Fits(num, r[l][i].op, stages[r[l][i].conn], r[l][i].conn \in map)
  BY <1>1, <1>6 DEF TidyBut
<1>11. OneEach(r)
  <2> SUFFICES ASSUME NEW l \in AllLoops, NEW m \in AllLoops, NEW i \in DOMAIN r[l], NEW j \in DOMAIN r[m],
                      r[l][i].conn = r[m][j].conn
               PROVE  l = m /\ i = j
    BY DEF OneEach
  <2>1. CASE i \in DOMAIN q[l] /\ r[l][i] = q[l][i] /\ j \in DOMAIN q[m] /\ r[m][j] = q[m][j]
    BY <2>1 DEF TidyBut, OneEach
  <2>2. CASE l = k /\ i = n + 1 /\ r[l][i] = f /\ m = k /\ j = n + 1 /\ r[m][j] = f
    BY <2>2
  <2>3. CASE i \in DOMAIN q[l] /\ r[l][i] = q[l][i] /\ r[m][j] = f
    BY <1>1, <2>3 DEF TidyBut
  <2>4. CASE r[l][i] = f /\ j \in DOMAIN q[m] /\ r[m][j] = q[m][j]
    BY <1>1, <2>4 DEF TidyBut
  <2> QED BY <1>6, <2>1, <2>2, <2>3, <2>4
<1>12. Tidy(num, stages, map, r)
  BY <1>9, <1>10, <1>11 DEF Tidy
<1> QED BY <1>12 DEF r, a, f, queueInLoop


-----------------------------------------------------------------------------
(***************************************************************************)
(* The inductive invariant.                                                *)
(***************************************************************************)

ServerTypes ==
  /\ server \in {"new", "started", "destroying", "joining", "gone"}
  /\ numThreads_ \in ThreadNums
  /\ next_ \in Nat
  /\ numThreads_ > 0 => next_ < numThreads_
  /\ connections_ \subseteq Peers
  /\ conn \in [Peers -> Stages]
  /\ loop \in [Peers -> 0..numThreads_]
  /\ quit_ \subseteq 1..numThreads_

\* Between its batches a loop has none, and the loops of the pool run from start on.
LoopTypes ==
  /\ at \in [AllLoops -> {"poll", "functors", "ended"}]
  /\ pending \in [AllLoops -> Seq(Functors)]
  /\ batch \in [AllLoops -> Seq(Functors)]
  /\ turn \in [AllLoops -> Nat \ {0}]
  /\ \A l \in AllLoops :
       /\ turn[l] <= Len(batch[l]) + 1
       /\ at[l] # "functors" => batch[l] = <<>> /\ turn[l] = 1
       /\ at[l] # "ended" => l <= numThreads_
       /\ server = "new" /\ l # 0 => at[l] = "ended"

Queues == QueuesOf(pending, batch, turn)

\* What holds when the end of the server comes.
EndInv ==
  /\ acceptor # "idle" => server = "started"
  /\ server \in {"destroying", "joining", "gone"} /\ numThreads_ > 0
       => \A p \in Peers : conn[p] \notin Busy
  /\ server \in {"joining", "gone"} => connections_ = {}
  /\ quit_ # {} => server \in {"joining", "gone"}
  /\ numThreads_ = 0 => \A p \in Peers : conn[p] # "connecting"

CleanInv ==
  /\ failed = {}
  /\ ServerTypes
  /\ LoopTypes
  /\ Tidy(numThreads_, conn, connections_, Queues)
  /\ EndInv

\* Nothing is promised of a server that was destroyed too early.
ServerInv ==
  /\ hasty => server \notin {"new", "started"}
  /\ ~hasty => CleanInv

LEMMA QueuesType ==
  ASSUME NEW pend \in [AllLoops -> Seq(Functors)], NEW bat \in [AllLoops -> Seq(Functors)],
         NEW trn \in [AllLoops -> Nat \ {0}], \A l \in AllLoops : trn[l] <= Len(bat[l]) + 1
  PROVE  QueuesOf(pend, bat, trn) \in [AllLoops -> Seq(Functors)]
<1> SUFFICES ASSUME NEW l \in AllLoops PROVE Queue(bat[l], trn[l], pend[l]) \in Seq(Functors)
  BY DEF QueuesOf
<1>1. /\ bat[l] \in Seq(Functors) /\ pend[l] \in Seq(Functors)
      /\ trn[l] \in Nat \ {0} /\ trn[l] <= Len(bat[l]) + 1
  OBVIOUS
<1> QED BY <1>1, QueueIs DEF IsQueue

\* What waits is held by a queue or a batch.
LEMMA QueuesHold ==
  ASSUME NEW pend \in [AllLoops -> Seq(Functors)], NEW bat \in [AllLoops -> Seq(Functors)],
         NEW trn \in [AllLoops -> Nat \ {0}], \A l \in AllLoops : trn[l] <= Len(bat[l]) + 1,
         NEW l \in AllLoops, NEW i \in DOMAIN QueuesOf(pend, bat, trn)[l]
  PROVE  QueuesOf(pend, bat, trn)[l][i] \in ToSet(pend[l]) \cup ToSet(bat[l])
<1> DEFINE b == bat[l]
           p == pend[l]
           t == trn[l]
           q == Queue(b, t, p)
<1>1. b \in Seq(Functors) /\ p \in Seq(Functors) /\ t \in Nat \ {0} /\ t <= Len(b) + 1
  OBVIOUS
<1>2. QueuesOf(pend, bat, trn)[l] = q /\ i \in DOMAIN q
  BY DEF QueuesOf
<1> HIDE DEF b, p, t
<1>3. IsQueue(q, b, t, p, Functors)
  BY <1>1, QueueIs
<1> HIDE DEF q
<1>4. i \in 1 .. (Len(b) + 1 - t) + Len(p)
  BY <1>2, <1>3 DEF IsQueue
<1>5. q[i] = IF i <= Len(b) + 1 - t THEN b[t + i - 1] ELSE p[i - (Len(b) + 1 - t)]
  BY <1>3, <1>4 DEF IsQueue
<1>6. CASE i <= Len(b) + 1 - t
  <2>1. t + i - 1 \in DOMAIN b
    BY <1>1, <1>4, <1>6
  <2>2. q[i] \in ToSet(b)
    BY <1>5, <1>6, <2>1 DEF ToSet
  <2> QED BY <1>2, <2>2 DEF b, p
<1>7. CASE ~(i <= Len(b) + 1 - t)
  <2>1. i - (Len(b) + 1 - t) \in DOMAIN p
    BY <1>1, <1>4, <1>7
  <2>2. q[i] \in ToSet(p)
    BY <1>5, <1>7, <2>1 DEF ToSet
  <2> QED BY <1>2, <2>2 DEF b, p
<1> QED BY <1>6, <1>7

\* The loops' sequences have their types.
Fine(pend, bat, trn) ==
  /\ pend \in [AllLoops -> Seq(Functors)] /\ bat \in [AllLoops -> Seq(Functors)]
  /\ trn \in [AllLoops -> Nat \ {0}]
  /\ \A l \in AllLoops : trn[l] <= Len(bat[l]) + 1

\* queueInLoop appends to what waits.
LEMMA QueuesAppend ==
  ASSUME NEW pend, NEW bat, NEW trn, Fine(pend, bat, trn),
         NEW k \in AllLoops, NEW op \in Ops, NEW p \in Peers
  PROVE  /\ queueInLoop(pend, k, op, p) \in [AllLoops -> Seq(Functors)]
         /\ QueuesOf(queueInLoop(pend, k, op, p), bat, trn) = queueInLoop(QueuesOf(pend, bat, trn), k, op, p)
<1> DEFINE f == Functor(op, p)
           a == [pend EXCEPT ![k] = Append(@, f)]
           q == QueuesOf(pend, bat, trn)
           r == [q EXCEPT ![k] = Append(@, f)]
<1>0. /\ pend \in [AllLoops -> Seq(Functors)] /\ bat \in [AllLoops -> Seq(Functors)]
      /\ trn \in [AllLoops -> Nat \ {0}] /\ \A l \in AllLoops : trn[l] <= Len(bat[l]) + 1
  BY DEF Fine
<1>1. f \in Functors
  BY DEF Functor, Functors
<1>2. a = queueInLoop(pend, k, op, p)
  BY DEF queueInLoop
<1> HIDE DEF f
<1>3. Append(pend[k], f) \in Seq(Functors)
  BY <1>0, <1>1
<1>4. a \in [AllLoops -> Seq(Functors)] /\ a[k] = Append(pend[k], f)
      /\ \A l \in AllLoops : l # k => a[l] = pend[l]
  BY <1>0, <1>3
<1> HIDE DEF a
<1>5. q = [l \in AllLoops |-> Queue(bat[l], trn[l], pend[l])]
  BY DEF QueuesOf
<1>6. QueuesOf(a, bat, trn) = [l \in AllLoops |-> Queue(bat[l], trn[l], a[l])]
  BY DEF QueuesOf
<1> HIDE DEF q
<1>7. ASSUME NEW l \in AllLoops PROVE Queue(bat[l], trn[l], a[l]) = r[l]
  <2>1. CASE l = k
    <3>1. /\ bat[l] \in Seq(Functors) /\ pend[l] \in Seq(Functors)
          /\ trn[l] \in Nat \ {0} /\ trn[l] <= Len(bat[l]) + 1
      BY <1>0
    <3>2. Queue(bat[l], trn[l], Append(pend[l], f)) = Append(Queue(bat[l], trn[l], pend[l]), f)
      <4> DEFINE b == bat[l]
                 t == trn[l]
                 w == pend[l]
      <4>1. b \in Seq(Functors) /\ w \in Seq(Functors) /\ t \in Nat \ {0} /\ t <= Len(b) + 1
        BY <3>1
      <4> HIDE DEF b, t, w
      <4>2. Queue(b, t, Append(w, f)) = Append(Queue(b, t, w), f)
        BY ONLY <1>1, <4>1, QueueAppend
      <4> QED BY <4>2 DEF b, t, w
    <3>3. r[k] = Append(q[k], f) /\ q[k] = Queue(bat[k], trn[k], pend[k])
      BY <1>5
    <3> QED BY <1>4, <2>1, <3>2, <3>3
  <2>2. CASE l # k
    <3>1. r[l] = q[l] /\ q[l] = Queue(bat[l], trn[l], pend[l])
      BY <1>5, <2>2
    <3> QED BY <1>4, <2>2, <3>1
  <2> QED BY <2>1, <2>2
<1>8. r = [l \in AllLoops |-> r[l]]
  BY <1>5
<1>9. QueuesOf(a, bat, trn) = r
  BY <1>6, <1>7, <1>8
<1>10. r = queueInLoop(q, k, op, p)
  BY DEF queueInLoop, f
<1> QED BY <1>2, <1>4, <1>9, <1>10 DEF q

\* Taking the next functor of a batch.
Taken(pend, bat, trn, next, k) ==
  /\ next \in [AllLoops -> Nat \ {0}]
  /\ \A l \in AllLoops : next[l] <= Len(bat[l]) + 1
  /\ QueuesOf(pend, bat, trn)[k][1] = bat[k][trn[k]]
  /\ Rest(QueuesOf(pend, bat, trn)[k], QueuesOf(pend, bat, next)[k])
  /\ \A l \in AllLoops : l # k => QueuesOf(pend, bat, next)[l] = QueuesOf(pend, bat, trn)[l]

LEMMA QueuesRun ==
  ASSUME NEW pend, NEW bat, NEW trn, Fine(pend, bat, trn), NEW k \in AllLoops, trn[k] <= Len(bat[k]),
         NEW next, next = [trn EXCEPT ![k] = @ + 1]
  PROVE  Taken(pend, bat, trn, next, k)
<1>0. /\ pend \in [AllLoops -> Seq(Functors)] /\ bat \in [AllLoops -> Seq(Functors)]
      /\ trn \in [AllLoops -> Nat \ {0}] /\ \A l \in AllLoops : trn[l] <= Len(bat[l]) + 1
  BY DEF Fine
<1>1. /\ bat[k] \in Seq(Functors) /\ pend[k] \in Seq(Functors)
      /\ trn[k] \in Nat \ {0} /\ trn[k] <= Len(bat[k])
  BY <1>0
<1>2. next[k] = trn[k] + 1 /\ \A l \in AllLoops : l # k => next[l] = trn[l]
  BY <1>0
<1>3. /\ Queue(bat[k], trn[k], pend[k])[1] = bat[k][trn[k]]
      /\ Rest(Queue(bat[k], trn[k], pend[k]), Queue(bat[k], trn[k] + 1, pend[k]))
  BY <1>1, QueueRun
<1>4. \A l \in AllLoops : /\ QueuesOf(pend, bat, trn)[l] = Queue(bat[l], trn[l], pend[l])
                          /\ QueuesOf(pend, bat, next)[l] = Queue(bat[l], next[l], pend[l])
  BY DEF QueuesOf
<1>5. next \in [AllLoops -> Nat \ {0}]
  <2>1. trn[k] + 1 \in Nat \ {0}
    BY <1>1
  <2> QED BY <1>0, <2>1
<1>6. \A l \in AllLoops : next[l] <= Len(bat[l]) + 1
  <2> TAKE l \in AllLoops
  <2>1. CASE l = k
    <3>1. Len(bat[k]) \in Nat
      BY <1>1
    <3> QED BY <1>1, <1>2, <2>1, <3>1
  <2> QED BY <1>0, <1>2, <2>1
<1> QED BY <1>2, <1>3, <1>4, <1>5, <1>6 DEF Taken


-----------------------------------------------------------------------------
(***************************************************************************)
(* Steps.                                                                  *)
(***************************************************************************)

\* Where everything is tidy, only connections that are removed are freed.
LEMMA SettleDoes ==
  ASSUME NEW num, NEW stages \in [Peers -> Stages], NEW map,
         NEW pend \in [AllLoops -> Seq(Functors)], NEW bat \in [AllLoops -> Seq(Functors)],
         NEW trn \in [AllLoops -> Nat \ {0}], \A l \in AllLoops : trn[l] <= Len(bat[l]) + 1,
         Tidy(num, stages, map, QueuesOf(pend, bat, trn)), Settle(stages, map, pend, bat)
  PROVE  /\ conn' \in [Peers -> Stages]
         /\ \A p \in Peers : conn'[p] = stages[p] \/ (stages[p] \notin Busy /\ conn'[p] \notin Busy)
         /\ connections_' = map /\ pending' = pend /\ batch' = bat /\ failed' = failed
         /\ Tidy(num, conn', map, QueuesOf(pend, bat, trn))
<1> DEFINE held == map \cup {f.conn : f \in UNION {ToSet(pend[l]) \cup ToSet(bat[l]) : l \in AllLoops}}
           gone == {p \in Peers : stages[p] \in Live /\ p \notin held}
           q == QueuesOf(pend, bat, trn)
<1>1. /\ conn' = [p \in Peers |-> IF p \in gone THEN "freed" ELSE stages[p]]
      /\ connections_' = map /\ pending' = pend /\ batch' = bat
      /\ failed' = failed \cup {FreedTooSoon(stages[p]) : p \in {g \in gone : stages[g] # "removed"}}
  BY DEF Settle
<1>2. q \in [AllLoops -> Seq(Functors)]
  BY QueuesType
<1>3. ASSUME NEW p \in gone PROVE stages[p] = "removed"
  <2>1. p \in Peers /\ stages[p] \in Live /\ p \notin map
    OBVIOUS
  <2>2. stages[p] \notin {"connecting", "up"}
    BY <2>1 DEF Tidy, Mapped
  <2>3. ASSUME stages[p] = "down" PROVE FALSE
    <3>1. PICK l \in AllLoops : \E i \in DOMAIN q[l] : q[l][i].conn = p
      BY <2>1, <2>3 DEF Tidy, Awaited
    <3>2. PICK i \in DOMAIN q[l] : q[l][i].conn = p
      BY <3>1
    <3>3. q[l][i] \in ToSet(pend[l]) \cup ToSet(bat[l])
      BY QueuesHold
    <3>4. q[l][i] \in UNION {ToSet(pend[m]) \cup ToSet(bat[m]) : m \in AllLoops}
      BY <3>3
    <3> QED BY <3>2, <3>4
  <2> QED BY <2>1, <2>2, <2>3 DEF Live
<1> HIDE DEF gone, q
<1>4. failed' = failed
  <2>1. {g \in gone : stages[g] # "removed"} = {}
    BY <1>3
  <2> QED BY <1>1, <2>1
<1>5. ASSUME NEW p \in Peers
      PROVE  /\ conn'[p] \in Stages
             /\ conn'[p] = stages[p] \/ (stages[p] \notin Busy /\ conn'[p] \notin Busy)
  BY <1>1, <1>3 DEF Stages, Busy
<1>6. conn' \in [Peers -> Stages]
  BY <1>1, <1>5
<1>7. Tidy(num, conn', map, q)
  <2>1. Tidy(num, stages, map, q)
    BY DEF q
  <2>2. \A p \in Peers : stages[p] = conn'[p] \/ (stages[p] \notin Busy /\ conn'[p] \notin Busy)
    BY <1>5
  <2> QED BY <1>2, <2>1, <2>2, TidySame
<1> QED BY <1>1, <1>4, <1>5, <1>6, <1>7 DEF q

\* A connection that is not down and not connecting has no functor.
LEMMA NotAwaited ==
  ASSUME NEW num, NEW stages, NEW map, NEW q \in [AllLoops -> Seq(Functors)], NEW p \in Peers,
         Tidy(num, stages, map, q), stages[p] \notin {"connecting", "down"}
  PROVE  ~Awaited(p, q)
BY DEF Tidy, Fits, Awaited

\* Steps that leave the server, the pool and the loops alone keep what is known of the end.
LEMMA EndKept ==
  ASSUME EndInv, UNCHANGED <<server, numThreads_, quit_, acceptor>>, connections_' \subseteq connections_,
         \A p \in Peers : conn'[p] \in Busy => conn[p] \in Busy,
         numThreads_ = 0 => \A p \in Peers : conn'[p] # "connecting"
  PROVE  EndInv'
BY DEF EndInv

\* What a step that settles leaves to show.
LEMMA SettleKeeps ==
  ASSUME CleanInv, UNCHANGED <<server, numThreads_, quit_, at, hasty>>,
         next_' \in Nat, numThreads_ > 0 => next_' < numThreads_, loop' \in [Peers -> 0..numThreads_],
         NEW stages \in [Peers -> Stages], NEW map \in SUBSET Peers,
         NEW pend \in [AllLoops -> Seq(Functors)],
         turn' \in [AllLoops -> Nat \ {0}],
         \A l \in AllLoops : turn'[l] <= Len(batch[l]) + 1 /\ (at[l] # "functors" => turn'[l] = turn[l]),
         Tidy(numThreads_, stages, map, QueuesOf(pend, batch, turn')),
         Settle(stages, map, pend, batch)
  PROVE  /\ failed' = {} /\ ServerTypes' /\ LoopTypes'
         /\ Tidy(numThreads_, conn, connections_, Queues)'
         /\ connections_' = map
         /\ \A p \in Peers : conn'[p] = stages[p] \/ (stages[p] \notin Busy /\ conn'[p] \notin Busy)
<1>1. batch \in [AllLoops -> Seq(Functors)]
  BY DEF CleanInv, LoopTypes
<1> DEFINE t == turn'
<1>2. t \in [AllLoops -> Nat \ {0}] /\ \A l \in AllLoops : t[l] <= Len(batch[l]) + 1
  OBVIOUS
<1>2a. Tidy(numThreads_, stages, map, QueuesOf(pend, batch, t))
  OBVIOUS
<1> HIDE DEF t
<1>3. /\ conn' \in [Peers -> Stages]
      /\ \A p \in Peers : conn'[p] = stages[p] \/ (stages[p] \notin Busy /\ conn'[p] \notin Busy)
      /\ connections_' = map /\ pending' = pend /\ batch' = batch /\ failed' = failed
      /\ Tidy(numThreads_, conn', map, QueuesOf(pend, batch, t))
  BY ONLY <1>1, <1>2, <1>2a, SettleDoes, Settle(stages, map, pend, batch), stages \in [Peers -> Stages],
          pend \in [AllLoops -> Seq(Functors)]
<1>4. failed' = {}
  BY <1>3 DEF CleanInv
<1>5. ServerTypes'
  BY <1>3 DEF CleanInv, ServerTypes
<1>6. LoopTypes'
  BY <1>1, <1>2, <1>3 DEF CleanInv, LoopTypes, t
<1>7. Tidy(numThreads_, conn, connections_, Queues)'
  BY <1>3 DEF Queues, t
<1> QED BY <1>3, <1>4, <1>5, <1>6, <1>7


LEMMA CleanType ==
  ASSUME CleanInv
  PROVE  /\ pending \in [AllLoops -> Seq(Functors)] /\ batch \in [AllLoops -> Seq(Functors)]
         /\ turn \in [AllLoops -> Nat \ {0}] /\ \A l \in AllLoops : turn[l] <= Len(batch[l]) + 1
         /\ Queues \in [AllLoops -> Seq(Functors)]
         /\ numThreads_ \in Nat /\ \A l \in 0..numThreads_ : l \in AllLoops
<1>1. /\ pending \in [AllLoops -> Seq(Functors)] /\ batch \in [AllLoops -> Seq(Functors)]
      /\ turn \in [AllLoops -> Nat \ {0}] /\ \A l \in AllLoops : turn[l] <= Len(batch[l]) + 1
  BY DEF CleanInv, LoopTypes
<1>2. numThreads_ \in Nat /\ \A l \in 0..numThreads_ : l \in AllLoops
  BY ThreadsAreLoops DEF CleanInv, ServerTypes
<1>3. Queues \in [AllLoops -> Seq(Functors)]
  BY <1>1, QueuesType DEF Queues
<1> QED BY <1>1, <1>2, <1>3

\* A step that moves p to another stage or out of the map, or into it, where no functor of
\* p waits (any more).  Done is what it leaves.
Done(p, stage, map) ==
  /\ failed' = {} /\ ServerTypes' /\ LoopTypes'
  /\ Tidy(numThreads_, conn, connections_, Queues)'
  /\ connections_' = map
  /\ conn'[p] = stage \/ (stage \notin Busy /\ conn'[p] \notin Busy)
  /\ \A o \in Peers : o # p => conn'[o] = conn[o] \/ (conn[o] \notin Busy /\ conn'[o] \notin Busy)

\* Loops and pool in such a step: at most the turn of a batch and next_ change.
LoopsGoOn ==
  /\ UNCHANGED <<server, numThreads_, quit_, at, hasty>>
  /\ next_' \in Nat
  /\ numThreads_ > 0 => next_' < numThreads_
  /\ loop' \in [Peers -> 0..numThreads_]
  /\ turn' \in [AllLoops -> Nat \ {0}]
  /\ \A l \in AllLoops : turn'[l] <= Len(batch[l]) + 1 /\ (at[l] # "functors" => turn'[l] = turn[l])

LEMMA StageMoves ==
  ASSUME CleanInv, NEW p \in Peers, NEW stage \in Stages, NEW map, NEW q \in [AllLoops -> Seq(Functors)],
         \A o \in Peers : o # p => (o \in map <=> o \in connections_),
         TidyBut(p, numThreads_, conn, connections_, q)
  PROVE  /\ [conn EXCEPT ![p] = stage] \in [Peers -> Stages]
         /\ [conn EXCEPT ![p] = stage][p] = stage
         /\ \A o \in Peers : o # p => [conn EXCEPT ![p] = stage][o] = conn[o]
         /\ TidyBut(p, numThreads_, [conn EXCEPT ![p] = stage], map, q)
<1> DEFINE stages == [conn EXCEPT ![p] = stage]
<1>1. /\ stages \in [Peers -> Stages] /\ stages[p] = stage
      /\ \A o \in Peers : o # p => stages[o] = conn[o]
  BY DEF CleanInv, ServerTypes
<1> HIDE DEF stages
<1>2. TidyBut(p, numThreads_, stages, map, q)
  BY <1>1, TidyMove
<1> QED BY <1>1, <1>2 DEF stages

\* It gets a functor ...
LEMMA HandOver ==
  ASSUME CleanInv, LoopsGoOn, NEW p \in Peers, NEW stage \in Stages, NEW map \in SUBSET Peers,
         NEW op \in Ops, NEW k \in AllLoops,
         \A o \in Peers : o # p => (o \in map <=> o \in connections_),
         TidyBut(p, numThreads_, conn, connections_, QueuesOf(pending, batch, turn')),
         Mapped(stage, p \in map), Fits(numThreads_, op, stage, p \in map),
         Settle([conn EXCEPT ![p] = stage], map, queueInLoop(pending, k, op, p), batch)
  PROVE  Done(p, stage, map)
<1> DEFINE stages == [conn EXCEPT ![p] = stage]
           pend == queueInLoop(pending, k, op, p)
           t == turn'
           w == QueuesOf(pending, batch, t)
           q == queueInLoop(w, k, op, p)
<1>1. /\ pending \in [AllLoops -> Seq(Functors)] /\ batch \in [AllLoops -> Seq(Functors)]
  BY CleanType
<1>2. t \in [AllLoops -> Nat \ {0}] /\ \A l \in AllLoops : t[l] <= Len(batch[l]) + 1
  BY DEF LoopsGoOn
<1>3. TidyBut(p, numThreads_, conn, connections_, w)
  OBVIOUS
<1>4. Settle(stages, map, pend, batch)
  OBVIOUS
<1> HIDE DEF t
<1>5. w \in [AllLoops -> Seq(Functors)]
  BY <1>1, <1>2, QueuesType
<1>6. pend \in [AllLoops -> Seq(Functors)] /\ QueuesOf(pend, batch, t) = q
  <2>1. Fine(pending, batch, t)
    BY <1>1, <1>2 DEF Fine
  <2> QED BY <2>1, QueuesAppend
<1> HIDE DEF w
<1>7. /\ stages \in [Peers -> Stages] /\ stages[p] = stage
      /\ \A o \in Peers : o # p => stages[o] = conn[o]
      /\ TidyBut(p, numThreads_, stages, map, w)
  BY <1>3, <1>5, StageMoves
<1> HIDE DEF stages
<1>8. Tidy(numThreads_, stages, map, q)
  BY <1>5, <1>7, TidyAdd
<1> HIDE DEF q, pend
<1>9. Tidy(numThreads_, stages, map, QueuesOf(pend, batch, turn'))
  BY <1>6, <1>8 DEF t
<1>10. /\ failed' = {} /\ ServerTypes' /\ LoopTypes'
       /\ Tidy(numThreads_, conn, connections_, Queues)'
       /\ connections_' = map
       /\ \A o \in Peers : conn'[o] = stages[o] \/ (stages[o] \notin Busy /\ conn'[o] \notin Busy)
  BY <1>4, <1>6, <1>7, <1>9, SettleKeeps DEF LoopsGoOn
<1> QED BY <1>7, <1>10 DEF Done

\* ... or needs none.
LEMMA MoveOn ==
  ASSUME CleanInv, LoopsGoOn, NEW p \in Peers, NEW stage \in Stages, NEW map \in SUBSET Peers,
         \A o \in Peers : o # p => (o \in map <=> o \in connections_),
         TidyBut(p, numThreads_, conn, connections_, QueuesOf(pending, batch, turn')),
         Mapped(stage, p \in map), stage # "down",
         Settle([conn EXCEPT ![p] = stage], map, pending, batch)
  PROVE  Done(p, stage, map)
<1> DEFINE stages == [conn EXCEPT ![p] = stage]
           t == turn'
           w == QueuesOf(pending, batch, t)
<1>1. /\ pending \in [AllLoops -> Seq(Functors)] /\ batch \in [AllLoops -> Seq(Functors)]
  BY CleanType
<1>2. t \in [AllLoops -> Nat \ {0}] /\ \A l \in AllLoops : t[l] <= Len(batch[l]) + 1
  BY DEF LoopsGoOn
<1>3. TidyBut(p, numThreads_, conn, connections_, w)
  OBVIOUS
<1>4. Settle(stages, map, pending, batch)
  OBVIOUS
<1> HIDE DEF t
<1>5. w \in [AllLoops -> Seq(Functors)]
  BY <1>1, <1>2, QueuesType
<1> HIDE DEF w
<1>6. /\ stages \in [Peers -> Stages] /\ stages[p] = stage
      /\ \A o \in Peers : o # p => stages[o] = conn[o]
      /\ TidyBut(p, numThreads_, stages, map, w)
  BY <1>3, <1>5, StageMoves
<1> HIDE DEF stages
<1>7. Tidy(numThreads_, stages, map, w)
  BY <1>5, <1>6, TidyAgain
<1>8. Tidy(numThreads_, stages, map, QueuesOf(pending, batch, turn'))
  BY <1>7 DEF t, w
<1>9. /\ failed' = {} /\ ServerTypes' /\ LoopTypes'
      /\ Tidy(numThreads_, conn, connections_, Queues)'
      /\ connections_' = map
      /\ \A o \in Peers : conn'[o] = stages[o] \/ (stages[o] \notin Busy /\ conn'[o] \notin Busy)
  BY <1>1, <1>4, <1>6, <1>8, SettleKeeps DEF LoopsGoOn
<1> QED BY <1>6, <1>9 DEF Done

\* The end, when p was busy before.
LEMMA DoneEnds ==
  ASSUME CleanInv, UNCHANGED <<server, numThreads_, quit_, acceptor>>,
         NEW p \in Peers, NEW stage, NEW map \in SUBSET connections_, Done(p, stage, map),
         conn[p] \in Busy, stage # "connecting"
  PROVE  CleanInv'
<1>1. \A o \in Peers : conn'[o] \in Busy => conn[o] \in Busy
  BY DEF Done
<1>2. numThreads_ = 0 => \A o \in Peers : conn'[o] # "connecting"
  BY DEF Done, CleanInv, EndInv, Busy
<1>3. EndInv'
  BY <1>1, <1>2, EndKept DEF CleanInv, Done
<1> QED BY <1>3 DEF CleanInv, Done

\* handleClose: the connection was in the map and had no functor; now it gets one.
LEMMA HandleClose ==
  ASSUME CleanInv, NEW p \in Peers, handleClose(p)
  PROVE  CleanInv'
<1> DEFINE stages == [conn EXCEPT ![p] = "down"]
<1>0. /\ conn[p] = "up" /\ UNCHANGED <<server, poolVars, loop, closed, loopVars, acceptVars, hasty>>
      /\ IF server = "gone" THEN Fail({"TcpServer.cc:81"})
         ELSE IF loop[p] = 0 THEN removeConnectionInLoop(p, stages)
         ELSE Settle(stages, connections_, queueInLoop(pending, 0, "removeConnectionInLoop", p), batch)
  BY DEF handleClose
<1>1. UNCHANGED <<server, numThreads_, next_, quit_, at, turn, hasty, loop, acceptor>>
  BY <1>0 DEF poolVars, loopVars, acceptVars
<1>2. p \in connections_ /\ connections_ \subseteq Peers
  BY <1>0 DEF CleanInv, Tidy, Mapped, ServerTypes
<1>3. server # "gone"
  BY <1>2 DEF CleanInv, EndInv
<1>4. LoopsGoOn
  BY <1>1, CleanType DEF LoopsGoOn, CleanInv, ServerTypes
<1>5. TidyBut(p, numThreads_, conn, connections_, QueuesOf(pending, batch, turn'))
  <2>1. Tidy(numThreads_, conn, connections_, Queues) /\ conn[p] \notin {"connecting", "down"}
    BY <1>0 DEF CleanInv
  <2>2. ~Awaited(p, Queues)
    BY <2>1, CleanType, NotAwaited
  <2>3. TidyBut(p, numThreads_, conn, connections_, Queues)
    BY <2>1, <2>2, CleanType, TidyApart
  <2> QED BY <1>1, <2>3 DEF Queues
<1>6. "down" \in Stages /\ Mapped("down", p \in connections_) /\ Mapped("down", p \in connections_ \ {p})
  BY DEF Stages, Live, Mapped, Busy
<1>7. CASE loop[p] = 0
  <2> DEFINE map == connections_ \ {p}
  <2>1. Settle(stages, map, queueInLoop(pending, 0, "connectDestroyed", p), batch)
    BY <1>0, <1>3, <1>7 DEF removeConnectionInLoop
  <2>2. /\ "connectDestroyed" \in Ops /\ Fits(numThreads_, "connectDestroyed", "down", p \in map)
        /\ Mapped("down", p \in map)
    BY <1>6 DEF Fits, Ops
  <2>3. /\ map \in SUBSET Peers /\ map \in SUBSET connections_
        /\ \A o \in Peers : o # p => (o \in map <=> o \in connections_)
    BY <1>2
  <2> HIDE DEF map
  <2>4. Done(p, "down", map)
    BY <1>4, <1>5, <1>6, <2>1, <2>2, <2>3, ThreadsAreLoops, HandOver
  <2> QED BY <1>0, <1>1, <2>3, <2>4, DoneEnds DEF Busy
<1>8. CASE loop[p] # 0
  <2>1. Settle(stages, connections_, queueInLoop(pending, 0, "removeConnectionInLoop", p), batch)
    BY <1>0, <1>3, <1>8
  <2>2. numThreads_ > 0
    <3>1. loop[p] \in 0..numThreads_
      BY DEF CleanInv, ServerTypes
    <3> QED BY <1>8, <3>1, CleanType
  <2>3. /\ "removeConnectionInLoop" \in Ops
        /\ Fits(numThreads_, "removeConnectionInLoop", "down", p \in connections_)
    BY <1>2, <2>2 DEF Fits, Ops
  <2>4. Done(p, "down", connections_)
    BY <1>2, <1>4, <1>5, <1>6, <2>1, <2>3, ThreadsAreLoops, HandOver
  <2> QED BY <1>0, <1>1, <2>4, DoneEnds DEF Busy
<1> QED BY <1>7, <1>8


\* Where nobody is busy nothing waits.
LEMMA NothingWaits ==
  ASSUME CleanInv, \A p \in Peers : conn[p] \notin Busy, NEW l \in AllLoops
  PROVE  Queues[l] = <<>>
<1>1. Queues \in [AllLoops -> Seq(Functors)]
  BY CleanType
<1>2. ASSUME NEW i \in DOMAIN Queues[l] PROVE FALSE
  <2>1. Queues[l][i].conn \in Peers
    BY <1>1, QueuedIs
  <2> QED BY <2>1 DEF CleanInv, Tidy, Fits, Busy
<1>3. Queues[l] \in Seq(Functors)
  BY <1>1
<1>4. Len(Queues[l]) = 0
  <2>1. Len(Queues[l]) \in Nat /\ DOMAIN Queues[l] = 1..Len(Queues[l])
    BY <1>3
  <2>2. 1 \notin 1..Len(Queues[l])
    BY <1>2, <2>1
  <2> QED BY <2>1, <2>2
<1> QED BY <1>3, <1>4, EmptySeq

\* A queue without a batch, and the end of a batch.
LEMMA QueueEnds ==
  ASSUME NEW S, NEW b \in Seq(S), NEW p \in Seq(S)
  PROVE  /\ Queue(<<>>, 1, p) = p
         /\ Queue(b, 1, <<>>) = b
         /\ Queue(b, Len(b) + 1, p) = p
<1>0. <<>> \in Seq(S) /\ Len(b) \in Nat
  OBVIOUS
<1>1. SubSeq(<<>>, 1, Len(<<>>)) = <<>> /\ SubSeq(b, Len(b) + 1, Len(b)) = <<>>
  BY <1>0, SubSeqEmpty
<1>2. SubSeq(b, 1, Len(b)) = b
  BY SubSeqFull
<1>3. <<>> \o p = p /\ b \o <<>> = b
  BY ConcatEmptySeq
<1> QED BY <1>1, <1>2, <1>3 DEF Queue

\* The loops, when loop k does something and no queue changes.
LEMMA LoopKeeps ==
  ASSUME CleanInv, UNCHANGED <<server, numThreads_, next_, quit_, loop, acceptor>>,
         NEW k \in AllLoops, at[k] # "ended",
         NEW where \in {"poll", "functors", "ended"}, at' = [at EXCEPT ![k] = where],
         NEW pend \in [AllLoops -> Seq(Functors)], NEW bat \in [AllLoops -> Seq(Functors)],
         turn' = [turn EXCEPT ![k] = 1],
         where # "functors" => bat[k] = <<>>,
         \A l \in AllLoops : l # k => bat[l] = batch[l],
         QueuesOf(pend, bat, turn') = Queues,
         Settle(conn, connections_, pend, bat)
  PROVE  CleanInv'
<1> DEFINE t == turn'
<1>1. t \in [AllLoops -> Nat \ {0}] /\ t[k] = 1 /\ \A l \in AllLoops : l # k => t[l] = turn[l]
  BY CleanType
<1>2. \A l \in AllLoops : t[l] <= Len(bat[l]) + 1
  <2> SUFFICES ASSUME NEW l \in AllLoops PROVE t[l] <= Len(bat[l]) + 1
    OBVIOUS
  <2>1. Len(bat[l]) \in Nat
    OBVIOUS
  <2>2. CASE l = k
    <3>1. t[l] = 1
      BY <1>1, <2>2
    <3> QED BY ONLY <2>1, <3>1
  <2>3. CASE l # k
    <3>1. t[l] = turn[l] /\ bat[l] = batch[l] /\ turn[l] <= Len(batch[l]) + 1
      BY <1>1, <2>3, CleanType
    <3> QED BY <3>1
  <2> QED BY <2>2, <2>3
<1>3. Tidy(numThreads_, conn, connections_, QueuesOf(pend, bat, t)) /\ conn \in [Peers -> Stages]
  BY DEF CleanInv, ServerTypes
<1> HIDE DEF t
<1>4. /\ conn' \in [Peers -> Stages]
      /\ \A p \in Peers : conn'[p] = conn[p] \/ (conn[p] \notin Busy /\ conn'[p] \notin Busy)
      /\ connections_' = connections_ /\ pending' = pend /\ batch' = bat /\ failed' = failed
      /\ Tidy(numThreads_, conn', connections_, QueuesOf(pend, bat, t))
  BY <1>1, <1>2, <1>3, SettleDoes
<1>5. failed' = {} /\ ServerTypes'
  BY <1>4 DEF CleanInv, ServerTypes
<1>6. LoopTypes'
  <2>1. ASSUME NEW l \in AllLoops
        PROVE  /\ at'[l] # "functors" => bat[l] = <<>> /\ t[l] = 1
               /\ at'[l] # "ended" => l <= numThreads_
               /\ server = "new" /\ l # 0 => at'[l] = "ended"
    <3>1. at'[l] = IF l = k THEN where ELSE at[l]
      BY DEF CleanInv, LoopTypes
    <3>2. /\ at[l] # "functors" => batch[l] = <<>> /\ turn[l] = 1
          /\ at[l] # "ended" => l <= numThreads_
          /\ server = "new" /\ l # 0 => at[l] = "ended"
      BY DEF CleanInv, LoopTypes
    <3> QED BY <1>1, <3>1, <3>2
  <2>2. at' \in [AllLoops -> {"poll", "functors", "ended"}]
    BY DEF CleanInv, LoopTypes
  <2> QED BY <1>1, <1>2, <1>4, <2>1, <2>2 DEF LoopTypes, t
<1>7. Tidy(numThreads_, conn, connections_, Queues)'
  BY <1>4 DEF Queues, t
<1>8. EndInv'
  BY <1>4, EndKept DEF CleanInv, EndInv, Busy
<1> QED BY <1>5, <1>6, <1>7, <1>8 DEF CleanInv

LEMMA SwapKeeps ==
  ASSUME CleanInv, NEW k \in AllLoops, Swap(k)
  PROVE  CleanInv'
<1> DEFINE bat == [batch EXCEPT ![k] = pending[k]]
           pend == [pending EXCEPT ![k] = <<>>]
           t == turn'
<1>1. /\ at[k] = "poll" /\ at' = [at EXCEPT ![k] = "functors"] /\ batch' = bat /\ pending' = pend
      /\ UNCHANGED <<server, numThreads_, next_, quit_, loop, acceptor, turn, conn, connections_, failed>>
  BY DEF Swap, poolVars, acceptVars
<1>2. /\ pending \in [AllLoops -> Seq(Functors)] /\ batch \in [AllLoops -> Seq(Functors)]
      /\ turn \in [AllLoops -> Nat \ {0}] /\ turn[k] = 1 /\ batch[k] = <<>>
  BY <1>1, CleanType DEF CleanInv, LoopTypes
<1>3. bat \in [AllLoops -> Seq(Functors)] /\ pend \in [AllLoops -> Seq(Functors)]
  <2>1. <<>> \in Seq(Functors)
    OBVIOUS
  <2> QED BY <1>2, <2>1
<1>4. /\ bat[k] = pending[k] /\ pend[k] = <<>>
      /\ \A l \in AllLoops : l # k => bat[l] = batch[l] /\ pend[l] = pending[l]
  BY <1>2
<1> HIDE DEF bat, pend
<1>5. QueuesOf(pend, bat, turn) = Queues
  <2>1. ASSUME NEW l \in AllLoops
        PROVE  Queue(bat[l], turn[l], pend[l]) = Queue(batch[l], turn[l], pending[l])
    <3>1. CASE l = k
      <4>1. Queue(pending[k], 1, <<>>) = pending[k] /\ Queue(<<>>, 1, pending[k]) = pending[k]
        BY <1>2, QueueEnds
      <4> QED BY <1>2, <1>4, <3>1, <4>1
    <3> QED BY <1>4, <3>1
  <2> QED BY <2>1 DEF Queues, QueuesOf
<1>6. LoopTypes'
  <2>1. ASSUME NEW l \in AllLoops
        PROVE  /\ turn[l] <= Len(bat[l]) + 1
               /\ at'[l] # "functors" => bat[l] = <<>> /\ turn[l] = 1
               /\ at'[l] # "ended" => l <= numThreads_
               /\ server = "new" /\ l # 0 => at'[l] = "ended"
    <3>1. /\ turn[l] <= Len(batch[l]) + 1
          /\ at[l] # "functors" => batch[l] = <<>> /\ turn[l] = 1
          /\ at[l] # "ended" => l <= numThreads_
          /\ server = "new" /\ l # 0 => at[l] = "ended"
      BY DEF CleanInv, LoopTypes
    <3>2. at'[l] = IF l = k THEN "functors" ELSE at[l]
      BY <1>1 DEF CleanInv, LoopTypes
    <3>3. turn[l] <= Len(bat[l]) + 1
      <4>1. Len(bat[l]) \in Nat
        BY <1>3
      <4>2. CASE l = k
        <5>1. turn[l] = 1
          BY <1>2, <4>2
        <5> QED BY ONLY <4>1, <5>1
      <4>3. CASE l # k
        BY <1>4, <3>1, <4>3
      <4> QED BY <4>2, <4>3
    <3> QED BY <1>1, <1>4, <3>1, <3>2, <3>3
  <2>2. at' \in [AllLoops -> {"poll", "functors", "ended"}]
    BY <1>1 DEF CleanInv, LoopTypes
  <2> QED BY <1>1, <1>2, <1>3, <2>1, <2>2 DEF LoopTypes
<1>7. Tidy(numThreads_, conn, connections_, Queues)'
  BY <1>1, <1>5 DEF CleanInv, Queues
<1> QED BY <1>1, <1>6, <1>7 DEF CleanInv, ServerTypes, EndInv

LEMMA EndBatchKeeps ==
  ASSUME CleanInv, NEW k \in AllLoops, EndBatch(k)
  PROVE  CleanInv'
<1> DEFINE where == IF k \in quit_ THEN "ended" ELSE "poll"
           pend == IF k \in quit_ THEN [pending EXCEPT ![k] = <<>>] ELSE pending
           bat == [batch EXCEPT ![k] = <<>>]
           t == [turn EXCEPT ![k] = 1]
<1>1. /\ at[k] = "functors" /\ turn[k] > Len(batch[k])
      /\ at' = [at EXCEPT ![k] = where] /\ turn' = t /\ Settle(conn, connections_, pend, bat)
      /\ UNCHANGED <<server, numThreads_, next_, quit_, loop, acceptor>>
  BY DEF EndBatch, poolVars, acceptVars
<1>2. /\ pending \in [AllLoops -> Seq(Functors)] /\ batch \in [AllLoops -> Seq(Functors)]
      /\ turn \in [AllLoops -> Nat \ {0}] /\ turn[k] <= Len(batch[k]) + 1
  BY CleanType
<1>3. turn[k] = Len(batch[k]) + 1
  <2>1. Len(batch[k]) \in Nat /\ turn[k] \in Nat
    BY <1>2
  <2> QED BY <1>1, <1>2, <2>1
<1>4. bat \in [AllLoops -> Seq(Functors)] /\ pend \in [AllLoops -> Seq(Functors)]
  <2>1. <<>> \in Seq(Functors)
    OBVIOUS
  <2> QED BY <1>2, <2>1
<1>5. /\ bat[k] = <<>> /\ t[k] = 1
      /\ pend[k] = IF k \in quit_ THEN <<>> ELSE pending[k]
      /\ \A l \in AllLoops : l # k => bat[l] = batch[l] /\ pend[l] = pending[l] /\ t[l] = turn[l]
  BY <1>2
<1>6. Queue(batch[k], turn[k], pending[k]) = pending[k]
  BY <1>2, <1>3, QueueEnds
<1>7. ASSUME k \in quit_ PROVE pending[k] = <<>>
  <2>1. server \in {"joining", "gone"} /\ k \in 1..numThreads_
    BY <1>7 DEF CleanInv, EndInv, ServerTypes
  <2>2. numThreads_ > 0
    BY <2>1, CleanType
  <2>3. \A p \in Peers : conn[p] \notin Busy
    BY <2>1, <2>2 DEF CleanInv, EndInv
  <2>4. Queues[k] = <<>>
    BY <2>3, NothingWaits
  <2> QED BY <1>6, <2>4 DEF Queues, QueuesOf
<1> HIDE DEF bat, pend, t
<1>8. QueuesOf(pend, bat, t) = Queues
  <2>1. ASSUME NEW l \in AllLoops
        PROVE  Queue(bat[l], t[l], pend[l]) = Queue(batch[l], turn[l], pending[l])
    <3>1. CASE l = k
      <4>1. Queue(<<>>, 1, pending[k]) = pending[k]
        BY <1>2, QueueEnds
      <4>2. pend[k] = pending[k]
        BY <1>5, <1>7
      <4> QED BY <1>5, <1>6, <3>1, <4>1, <4>2
    <3> QED BY <1>5, <3>1
  <2> QED BY <2>1 DEF Queues, QueuesOf
<1>9. where \in {"poll", "functors", "ended"} /\ turn' = [turn EXCEPT ![k] = 1]
      /\ QueuesOf(pend, bat, turn') = Queues
  BY <1>1, <1>8 DEF t
<1> HIDE DEF where
<1> QED BY <1>1, <1>4, <1>5, <1>9, LoopKeeps

LEMMA RunKeeps ==
  ASSUME CleanInv, NEW k \in AllLoops, Run(k)
  PROVE  CleanInv'
<1> DEFINE f == batch[k][turn[k]]
           p == f.conn
           t == turn'
<1>1. /\ turn[k] <= Len(batch[k]) /\ turn' = [turn EXCEPT ![k] = @ + 1] /\ at[k] = "functors"
      /\ UNCHANGED <<server, numThreads_, next_, quit_, at, hasty, loop, acceptor>>
  BY DEF Run, poolVars, acceptVars
<1>2. \/ /\ f.op = "connectEstablished"
         /\ Settle([conn EXCEPT ![p] = "up"], connections_, pending, batch)
      \/ /\ f.op = "connectDestroyed"
         /\ Settle(connectDestroyed(p), connections_, pending, batch)
      \/ /\ f.op = "removeConnectionInLoop"
         /\ IF RemoveFails(p) # {} THEN Fail(RemoveFails(p)) ELSE removeConnectionInLoop(p, conn)
  BY DEF Run
<1>3. /\ t \in [AllLoops -> Nat \ {0}]
      /\ \A l \in AllLoops : t[l] <= Len(batch[l]) + 1
      /\ Queues[k][1] = f
      /\ Rest(Queues[k], QueuesOf(pending, batch, t)[k])
      /\ \A l \in AllLoops : l # k => QueuesOf(pending, batch, t)[l] = Queues[l]
  <2>1. t = [turn EXCEPT ![k] = @ + 1]
    BY <1>1
  <2> HIDE DEF t
  <2>2. Fine(pending, batch, turn)
    BY CleanType DEF Fine
  <2>3. Taken(pending, batch, turn, t, k)
    BY <1>1, <2>1, <2>2, QueuesRun
  <2> QED BY <2>3 DEF Taken, Queues
<1>4. QueuesOf(pending, batch, t) \in [AllLoops -> Seq(Functors)]
  BY <1>3, CleanType, QueuesType
<1>5. /\ p \in Peers /\ Fits(numThreads_, f.op, conn[p], p \in connections_)
      /\ TidyBut(p, numThreads_, conn, connections_, QueuesOf(pending, batch, t))
  <2> DEFINE r == QueuesOf(pending, batch, t)
  <2>1. r \in [AllLoops -> Seq(Functors)] /\ Rest(Queues[k], r[k])
        /\ \A l \in AllLoops : l # k => r[l] = Queues[l]
    BY <1>3, <1>4
  <2>2. Tidy(numThreads_, conn, connections_, Queues)
    BY DEF CleanInv
  <2> HIDE DEF r
  <2>3. /\ Queues[k][1].conn \in Peers
        /\ Fits(numThreads_, Queues[k][1].op, conn[Queues[k][1].conn], Queues[k][1].conn \in connections_)
        /\ TidyBut(Queues[k][1].conn, numThreads_, conn, connections_, r)
    BY <2>1, <2>2, CleanType, TidyRun
  <2> QED BY <1>3, <2>3 DEF r
<1>6. LoopsGoOn
  <2>1. \A l \in AllLoops : at[l] # "functors" => t[l] = turn[l]
    BY <1>1, CleanType
  <2> QED BY <1>1, <1>3, <2>1 DEF LoopsGoOn, CleanInv, ServerTypes
<1> HIDE DEF f, p
<1>7. connections_ \in SUBSET Peers /\ conn \in [Peers -> Stages]
  BY DEF CleanInv, ServerTypes
<1>8. CASE f.op = "connectEstablished"
  <2>1. Settle([conn EXCEPT ![p] = "up"], connections_, pending, batch)
    BY <1>2, <1>8
  <2>2. conn[p] = "connecting"
    BY <1>5, <1>8 DEF Fits
  <2>3. p \in connections_
    BY <1>5, <2>2 DEF CleanInv, Tidy, Mapped
  <2>4. "up" \in Stages /\ Mapped("up", p \in connections_)
    BY <2>3 DEF Stages, Live, Mapped, Busy
  <2>5. Done(p, "up", connections_)
    BY <1>5, <1>6, <1>7, <2>1, <2>4, MoveOn
  <2> QED BY <1>1, <1>5, <2>2, <2>5, DoneEnds DEF Busy
<1>9. CASE f.op = "connectDestroyed"
  <2>1. Settle([conn EXCEPT ![p] = "removed"], connections_, pending, batch)
    BY <1>2, <1>9 DEF connectDestroyed
  <2>2. conn[p] = "down" /\ p \notin connections_
    BY <1>5, <1>9 DEF Fits
  <2>3. "removed" \in Stages /\ Mapped("removed", p \in connections_)
    BY <2>2 DEF Stages, Live, Mapped
  <2>4. Done(p, "removed", connections_)
    BY <1>5, <1>6, <1>7, <2>1, <2>3, MoveOn
  <2> QED BY <1>1, <1>5, <2>2, <2>4, DoneEnds DEF Busy
<1>10. CASE f.op = "removeConnectionInLoop"
  <2>1. conn[p] = "down" /\ p \in connections_ /\ numThreads_ > 0
    BY <1>5, <1>10 DEF Fits
  <2>2. server \notin {"destroying", "joining", "gone"}
    BY <1>5, <2>1 DEF CleanInv, EndInv, Busy
  <2>3. RemoveFails(p) = {}
    BY <2>1, <2>2 DEF RemoveFails
  <2>4. [conn EXCEPT ![p] = "down"] = conn
    BY <1>5, <1>7, <2>1
  <2> DEFINE map == connections_ \ {p}
  <2>5. Settle([conn EXCEPT ![p] = "down"], map, queueInLoop(pending, loop[p], "connectDestroyed", p), batch)
    BY <1>2, <1>10, <2>3, <2>4 DEF removeConnectionInLoop
  <2>6. loop[p] \in AllLoops
    BY <1>5, CleanType DEF CleanInv, ServerTypes
  <2>7. /\ "connectDestroyed" \in Ops /\ Fits(numThreads_, "connectDestroyed", "down", p \in map)
        /\ "down" \in Stages /\ Mapped("down", p \in map)
    BY DEF Fits, Ops, Mapped, Busy, Stages, Live
  <2>8. /\ map \in SUBSET Peers /\ map \in SUBSET connections_
        /\ \A o \in Peers : o # p => (o \in map <=> o \in connections_)
    BY <1>7
  <2> HIDE DEF map
  <2>9. Done(p, "down", map)
    BY <1>5, <1>6, <2>5, <2>6, <2>7, <2>8, HandOver
  <2> QED BY <1>1, <1>5, <2>1, <2>8, <2>9, DoneEnds DEF Busy
<1> QED BY <1>2, <1>8, <1>9, <1>10


\* Accept: the new connection gets its place in the map and, with io threads, its functor.
LEMMA AcceptKeeps ==
  ASSUME CleanInv, NEW p \in Peers, Accept(p)
  PROVE  CleanInv'
<1> DEFINE map == connections_ \cup {p}
<1>1. /\ acceptor = "accept" /\ conn[p] = "waiting"
      /\ UNCHANGED <<server, numThreads_, quit_, at, turn, hasty, acceptor>>
      /\ next_' = IF numThreads_ = 0 \/ next_ + 1 >= numThreads_ THEN 0 ELSE next_ + 1
      /\ loop' = [loop EXCEPT ![p] = getNextLoop]
      /\ IF getNextLoop = 0
           THEN Settle([conn EXCEPT ![p] = "up"], map, pending, batch)
           ELSE Settle([conn EXCEPT ![p] = "connecting"], map,
                       queueInLoop(pending, getNextLoop, "connectEstablished", p), batch)
  BY DEF Accept, newConnection, Waiting, loopVars, acceptVars
<1>2. server = "started"
  BY <1>1 DEF CleanInv, EndInv
<1>3. numThreads_ \in Nat /\ next_ \in Nat /\ (numThreads_ > 0 => next_ < numThreads_)
  BY CleanType DEF CleanInv, ServerTypes
<1>4. /\ getNextLoop \in 0..numThreads_ /\ next_' \in Nat /\ (numThreads_ > 0 => next_' < numThreads_)
      /\ (getNextLoop = 0 <=> numThreads_ = 0)
  <2>1. CASE numThreads_ = 0
    BY <1>1, <1>3, <2>1 DEF getNextLoop
  <2>2. CASE numThreads_ # 0
    <3>1. getNextLoop = next_ + 1
      BY <2>2 DEF getNextLoop
    <3> QED BY <1>1, <1>3, <2>2, <3>1
  <2> QED BY <2>1, <2>2
<1>5. LoopsGoOn
  <2>1. loop' \in [Peers -> 0..numThreads_]
    BY <1>1, <1>4 DEF CleanInv, ServerTypes
  <2> QED BY <1>1, <1>4, <2>1, CleanType DEF LoopsGoOn
<1>6. TidyBut(p, numThreads_, conn, connections_, QueuesOf(pending, batch, turn'))
  <2>1. Tidy(numThreads_, conn, connections_, Queues) /\ conn[p] \notin {"connecting", "down"}
    BY <1>1 DEF CleanInv
  <2>2. ~Awaited(p, Queues)
    BY <2>1, CleanType, NotAwaited
  <2>3. TidyBut(p, numThreads_, conn, connections_, Queues)
    BY <2>1, <2>2, CleanType, TidyApart
  <2> QED BY <1>1, <2>3 DEF Queues
<1>7. /\ map \in SUBSET Peers /\ p \in map
      /\ \A o \in Peers : o # p => (o \in map <=> o \in connections_)
  BY DEF CleanInv, ServerTypes
<1>8. /\ "up" \in Stages /\ Mapped("up", p \in map)
      /\ "connecting" \in Stages /\ Mapped("connecting", p \in map)
  BY <1>7 DEF Stages, Live, Mapped, Busy
<1> HIDE DEF map
<1>9. CASE numThreads_ = 0
  <2>1. Settle([conn EXCEPT ![p] = "up"], map, pending, batch)
    BY <1>1, <1>4, <1>9
  <2>2. Done(p, "up", map)
    BY <1>5, <1>6, <1>7, <1>8, <2>1, MoveOn
  <2>3. EndInv'
    BY <1>1, <1>2, <1>9, <2>2 DEF Done, CleanInv, EndInv, Busy
  <2> QED BY <2>2, <2>3 DEF Done, CleanInv
<1>10. CASE numThreads_ # 0
  <2>1. Settle([conn EXCEPT ![p] = "connecting"], map,
               queueInLoop(pending, getNextLoop, "connectEstablished", p), batch)
    BY <1>1, <1>4, <1>10
  <2>2. getNextLoop \in AllLoops /\ "connectEstablished" \in Ops
        /\ Fits(numThreads_, "connectEstablished", "connecting", p \in map)
    BY <1>4, CleanType DEF Ops, Fits
  <2>3. Done(p, "connecting", map)
    BY <1>5, <1>6, <1>7, <1>8, <2>1, <2>2, HandOver
  <2>4. EndInv'
    BY <1>1, <1>2, <1>10, <2>3 DEF Done, CleanInv, EndInv
  <2> QED BY <2>3, <2>4 DEF Done, CleanInv
<1> QED BY <1>9, <1>10

\* DestroyConnection: only a server without io threads still has connections then, and no
\* functor waits for a connection that is in its map.
LEMMA DestroyConnectionKeeps ==
  ASSUME CleanInv, NEW p \in Peers, DestroyConnection(p)
  PROVE  CleanInv'
<1> DEFINE map == connections_ \ {p}
<1>1. /\ server = "destroying" /\ p \in connections_
      /\ UNCHANGED <<server, numThreads_, next_, quit_, at, turn, hasty, acceptor, loop>>
      /\ IF loop[p] = 0 THEN Settle(connectDestroyed(p), map, pending, batch)
         ELSE Settle(conn, map, queueInLoop(pending, loop[p], "connectDestroyed", p), batch)
  BY DEF DestroyConnection, poolVars, loopVars, acceptVars
<1>2. conn[p] \in Busy
  BY <1>1 DEF CleanInv, Tidy, Mapped
<1>3. numThreads_ = 0
  BY <1>1, <1>2, CleanType DEF CleanInv, EndInv
<1>4. loop[p] = 0
  <2>1. loop[p] \in 0..numThreads_
    BY DEF CleanInv, ServerTypes
  <2> QED BY <1>3, <2>1
<1>5. Settle([conn EXCEPT ![p] = "removed"], map, pending, batch)
  BY <1>1, <1>4 DEF connectDestroyed
<1>6. ~Awaited(p, Queues)
  BY <1>1, <1>3 DEF CleanInv, EndInv, Tidy, Fits, Awaited
<1>7. TidyBut(p, numThreads_, conn, connections_, QueuesOf(pending, batch, turn'))
  <2>1. TidyBut(p, numThreads_, conn, connections_, Queues)
    BY <1>6, CleanType, TidyApart DEF CleanInv
  <2> QED BY <1>1, <2>1 DEF Queues
<1>8. LoopsGoOn
  BY <1>1, CleanType DEF LoopsGoOn, CleanInv, ServerTypes
<1>9. /\ map \in SUBSET Peers /\ map \in SUBSET connections_
      /\ \A o \in Peers : o # p => (o \in map <=> o \in connections_)
      /\ "removed" \in Stages /\ Mapped("removed", p \in map)
  BY DEF CleanInv, ServerTypes, Stages, Live, Mapped
<1> HIDE DEF map
<1>10. Done(p, "removed", map)
  BY <1>5, <1>7, <1>8, <1>9, MoveOn
<1> QED BY <1>1, <1>2, <1>9, <1>10, DoneEnds

\* Steps that change only stages in which nobody is needed.
LEMMA IdleStageKeeps ==
  ASSUME CleanInv,
         UNCHANGED <<numThreads_, next_, quit_, at, turn, loop, connections_, pending, batch, failed>>,
         conn' \in [Peers -> Stages],
         \A o \in Peers : conn[o] = conn'[o] \/ (conn[o] \notin Busy /\ conn'[o] \notin Busy),
         server' \in {"new", "started", "destroying", "joining", "gone"}, server' = "new" => server = "new",
         EndInv'
  PROVE  CleanInv'
<1>1. failed' = {} /\ ServerTypes'
  BY DEF CleanInv, ServerTypes
<1>2. LoopTypes'
  BY DEF CleanInv, LoopTypes
<1>3. Tidy(numThreads_, conn', connections_, Queues)
  <2> DEFINE stages == conn'
  <2>1. \A o \in Peers : conn[o] = stages[o] \/ (conn[o] \notin Busy /\ stages[o] \notin Busy)
    OBVIOUS
  <2>2. Tidy(numThreads_, conn, connections_, Queues)
    BY DEF CleanInv
  <2> HIDE DEF stages
  <2>3. Tidy(numThreads_, stages, connections_, Queues)
    BY <2>1, <2>2, CleanType, TidySame
  <2> QED BY <2>3 DEF stages
<1>4. Tidy(numThreads_, conn, connections_, Queues)'
  BY <1>3 DEF Queues
<1> QED BY <1>1, <1>2, <1>4 DEF CleanInv


\* Every step of the acceptor, of its peers and of other code.
LEMMA AcceptanceKeeps ==
  ASSUME CleanInv, Acceptance
  PROVE  CleanInv'
<1>0. conn \in [Peers -> Stages] /\ server \in {"new", "started", "destroying", "joining", "gone"}
  BY DEF CleanInv, ServerTypes
<1>1. ASSUME NEW p \in Peers, Accept(p) PROVE CleanInv'
  BY <1>1, AcceptKeeps
<1>2. ASSUME NEW p \in Peers, AcceptAborted(p) PROVE CleanInv'
  <2>1. conn[p] = "waiting" /\ conn' = [conn EXCEPT ![p] = "refused"]
        /\ UNCHANGED <<server, numThreads_, next_, quit_, at, turn, loop, connections_, pending, batch, failed,
                       acceptor>>
    BY <1>2 DEF AcceptAborted, Waiting, poolVars, loopVars, acceptVars
  <2>2. /\ conn' \in [Peers -> Stages]
        /\ \A o \in Peers : conn[o] = conn'[o] \/ (conn[o] \notin Busy /\ conn'[o] \notin Busy)
    BY <1>0, <2>1 DEF Stages, Busy
  <2>3. EndInv'
    BY <2>1, <2>2, EndKept DEF CleanInv, EndInv, Busy
  <2> QED BY <1>0, <2>1, <2>2, <2>3, IdleStageKeeps
<1>3. CASE AcceptNone \/ CloseIdleFd \/ CloseAccepted \/ OpenIdleFd
  <2>1. /\ UNCHANGED <<server, numThreads_, next_, quit_, at, turn, loop, connections_, pending, batch, failed,
                       conn>>
        /\ acceptor # "idle"
    BY <1>3 DEF AcceptNone, CloseIdleFd, CloseAccepted, OpenIdleFd, poolVars, loopVars, connVars
  <2>2. EndInv'
    BY <2>1 DEF CleanInv, EndInv
  <2> QED BY <1>0, <2>1, <2>2, IdleStageKeeps
<1>4. CASE AcceptIdleFd
  <2>1. /\ UNCHANGED <<server, numThreads_, next_, quit_, at, turn, loop, connections_, pending, batch, failed>>
        /\ acceptor # "idle"
        /\ UNCHANGED conn \/ \E p \in Peers : conn[p] = "waiting" /\ conn' = [conn EXCEPT ![p] = "refused"]
    BY <1>4 DEF AcceptIdleFd, Waiting, poolVars, loopVars
  <2>2. /\ conn' \in [Peers -> Stages]
        /\ \A o \in Peers : conn[o] = conn'[o] \/ (conn[o] \notin Busy /\ conn'[o] \notin Busy)
    <3>1. CASE UNCHANGED conn
      BY <1>0, <3>1
    <3>2. ASSUME NEW p \in Peers, conn[p] = "waiting", conn' = [conn EXCEPT ![p] = "refused"]
          PROVE  /\ conn' \in [Peers -> Stages]
                 /\ \A o \in Peers : conn[o] = conn'[o] \/ (conn[o] \notin Busy /\ conn'[o] \notin Busy)
      BY <1>0, <3>2 DEF Stages, Busy
    <3> QED BY <2>1, <3>1, <3>2
  <2>3. EndInv'
    BY <2>1, <2>2 DEF CleanInv, EndInv, Busy
  <2> QED BY <1>0, <2>1, <2>2, <2>3, IdleStageKeeps
<1> QED BY <1>1, <1>2, <1>3, <1>4 DEF Acceptance

LEMMA DestructionKeeps ==
  ASSUME CleanInv, Destruction
  PROVE  CleanInv'
<1>0. conn \in [Peers -> Stages] /\ numThreads_ \in Nat
  BY CleanType DEF CleanInv, ServerTypes
<1>1. ASSUME NEW p \in Peers, DestroyConnection(p) PROVE CleanInv'
  BY <1>1, DestroyConnectionKeeps
<1>2. ASSUME NEW l \in AllLoops \ {0}, QuitThread(l) PROVE CleanInv'
  <2>1. /\ (server = "destroying" /\ connections_ = {}) \/ server = "joining"
        /\ at[l] # "ended" /\ server' = "joining" /\ quit_' = quit_ \cup {l}
        /\ UNCHANGED <<numThreads_, next_, at, turn, loop, conn, connections_, pending, batch, failed, acceptor>>
    BY <1>2 DEF QuitThread, poolVars, connVars, acceptVars
  <2>2. l \in 1..numThreads_
    <3>1. l <= numThreads_ /\ l \in Nat /\ l # 0
      BY <2>1, ThreadsAreLoops DEF CleanInv, LoopTypes
    <3> QED BY <1>0, <3>1
  <2>3. EndInv'
    BY <2>1 DEF CleanInv, EndInv
  <2>4. ServerTypes'
    BY <2>1, <2>2 DEF CleanInv, ServerTypes
  <2>5. LoopTypes'
    BY <2>1 DEF CleanInv, LoopTypes
  <2>6. Tidy(numThreads_, conn, connections_, Queues)' /\ failed' = {}
    BY <2>1 DEF CleanInv, Queues
  <2> QED BY <2>3, <2>4, <2>5, <2>6 DEF CleanInv
<1>3. CASE DestroyAcceptor
  <2>1. /\ server \in {"destroying", "joining"} /\ connections_ = {} /\ server' = "gone"
        /\ conn' = [p \in Peers |-> IF conn[p] = "waiting" THEN "refused" ELSE conn[p]]
        /\ UNCHANGED <<numThreads_, next_, quit_, at, turn, loop, connections_, pending, batch, failed, acceptor>>
    BY <1>3 DEF DestroyAcceptor, poolVars, loopVars
  <2>2. /\ conn' \in [Peers -> Stages]
        /\ \A o \in Peers : conn[o] = conn'[o] \/ (conn[o] \notin Busy /\ conn'[o] \notin Busy)
    BY <1>0, <2>1 DEF Stages, Busy
  <2>3. EndInv'
    BY <2>1, <2>2 DEF CleanInv, EndInv, Busy
  <2> QED BY <2>1, <2>2, <2>3, IdleStageKeeps
<1> QED BY <1>1, <1>2, <1>3 DEF Destruction

LEMMA EventsKeep ==
  ASSUME CleanInv, Events
  PROVE  CleanInv'
<1>1. CASE handleRead
  <2>1. /\ server = "started"
        /\ UNCHANGED <<server, numThreads_, next_, quit_, at, turn, loop, conn, connections_, pending, batch, failed>>
    BY <1>1 DEF handleRead, poolVars, loopVars, connVars
  <2>2. EndInv'
    BY <2>1 DEF CleanInv, EndInv
  <2>3. conn' \in [Peers -> Stages]
    BY <2>1 DEF CleanInv, ServerTypes
  <2> QED BY <2>1, <2>2, <2>3, IdleStageKeeps
<1>2. ASSUME NEW p \in Peers, handleClose(p) PROVE CleanInv'
  BY <1>2, HandleClose
<1> QED BY <1>1, <1>2 DEF Events

LEMMA EnvironmentKeeps ==
  ASSUME CleanInv, ~hasty', Environment
  PROVE  CleanInv'
<1>0. conn \in [Peers -> Stages] /\ numThreads_ \in Nat
      /\ server \in {"new", "started", "destroying", "joining", "gone"}
  BY CleanType DEF CleanInv, ServerTypes
<1>1. CASE start
  <2>1. /\ server = "new" /\ server' = "started"
        /\ at' = [l \in AllLoops |-> IF l \in 1..numThreads_ THEN "poll" ELSE at[l]]
        /\ UNCHANGED <<numThreads_, next_, quit_, turn, loop, conn, connections_, pending, batch, failed, acceptor>>
    BY <1>1 DEF start, poolVars, connVars, acceptVars
  <2>2. LoopTypes'
    <3>1. ASSUME NEW l \in AllLoops
          PROVE  /\ at'[l] # "functors" => batch[l] = <<>> /\ turn[l] = 1
                 /\ at'[l] # "ended" => l <= numThreads_
      <4>1. /\ at[l] # "functors" => batch[l] = <<>> /\ turn[l] = 1
            /\ at[l] # "ended" => l <= numThreads_
            /\ l # 0 => at[l] = "ended"
        BY <2>1 DEF CleanInv, LoopTypes
      <4>2. CASE l \in 1..numThreads_
        <5>1. l # 0 /\ l <= numThreads_
          BY <1>0, <4>2
        <5> QED BY <4>1, <5>1
      <4>3. CASE l \notin 1..numThreads_
        BY <2>1, <4>1, <4>3
      <4> QED BY <4>2, <4>3
    <3>2. at' \in [AllLoops -> {"poll", "functors", "ended"}]
      BY <2>1 DEF CleanInv, LoopTypes
    <3> QED BY <2>1, <3>1, <3>2 DEF CleanInv, LoopTypes
  <2>3. EndInv'
    BY <2>1 DEF CleanInv, EndInv
  <2>4. ServerTypes'
    BY <2>1 DEF CleanInv, ServerTypes
  <2>5. Tidy(numThreads_, conn, connections_, Queues)' /\ failed' = {}
    BY <2>1 DEF CleanInv, Queues
  <2> QED BY <2>2, <2>3, <2>4, <2>5 DEF CleanInv
<1>2. CASE Destroy
  <2>1. /\ server \in {"new", "started"} /\ server' = "destroying" /\ acceptor = "idle"
        /\ hasty' = (numThreads_ > 0 /\ \E p \in LiveConns : conn[p] # "removed")
        /\ UNCHANGED <<numThreads_, next_, quit_, at, turn, loop, conn, connections_, pending, batch, failed, acceptor>>
    BY <1>2 DEF Destroy, UserCode, InLoop, poolVars, loopVars, connVars, acceptVars
  <2>2. numThreads_ > 0 => \A p \in Peers : conn[p] \notin Busy
    BY <2>1 DEF LiveConns, Live, Busy
  <2>3. EndInv'
    BY <2>1, <2>2 DEF CleanInv, EndInv
  <2> QED BY <1>0, <2>1, <2>3, IdleStageKeeps
<1>3. ASSUME NEW p \in Peers, Connect(p) PROVE CleanInv'
  <2>1. /\ server = "started" /\ conn[p] = "none" /\ conn' = [conn EXCEPT ![p] = "waiting"]
        /\ UNCHANGED <<server, numThreads_, next_, quit_, at, turn, loop, connections_, pending, batch, failed,
                       acceptor>>
    BY <1>3 DEF Connect, poolVars, loopVars, acceptVars
  <2>2. /\ conn' \in [Peers -> Stages]
        /\ \A o \in Peers : conn[o] = conn'[o] \/ (conn[o] \notin Busy /\ conn'[o] \notin Busy)
    BY <1>0, <2>1 DEF Stages, Busy
  <2>3. EndInv'
    BY <2>1, <2>2, EndKept DEF CleanInv, EndInv, Busy
  <2> QED BY <2>1, <2>2, <2>3, IdleStageKeeps
<1>4. CASE OthersOpen \/ OthersClose \/ \E p \in Peers : Close(p)
  <2>1. UNCHANGED <<server, numThreads_, next_, quit_, at, turn, loop, conn, connections_, pending, batch, failed,
                    acceptor>>
    BY <1>4 DEF OthersOpen, OthersClose, Close, poolVars, loopVars, connVars, acceptVars
  <2>2. EndInv'
    BY <2>1 DEF CleanInv, EndInv
  <2> QED BY <1>0, <2>1, <2>2, IdleStageKeeps
<1> QED BY <1>1, <1>2, <1>3, <1>4 DEF Environment

\* hasty is decided once.
LEMMA HastyKept ==
  ASSUME ServerInv, Next
  PROVE  /\ hasty' => server' \notin {"new", "started"}
         /\ hasty => hasty'
         /\ ~Destroy => hasty' = hasty
<1>0. hasty => server \notin {"new", "started"}
  BY DEF ServerInv
<1>1. CASE Destroy
  BY <1>0, <1>1 DEF Destroy
<1>2. CASE ~Destroy
  <2>1. hasty' = hasty
    BY <1>2 DEF Next, LoopStep, Acceptance, Destruction, Events, Environment, Swap, Run, EndBatch, Accept,
         AcceptAborted, AcceptNone, CloseIdleFd, AcceptIdleFd, CloseAccepted, OpenIdleFd, DestroyConnection,
         QuitThread, DestroyAcceptor, handleRead, handleClose, start, Connect, Close, OthersOpen, OthersClose
  <2>2. server' \in {"new", "started"} => server \in {"new", "started"}
    BY <1>2 DEF Next, LoopStep, Acceptance, Destruction, Events, Environment, Swap, Run, EndBatch, Accept,
         AcceptAborted, AcceptNone, CloseIdleFd, AcceptIdleFd, CloseAccepted, OpenIdleFd, DestroyConnection,
         QuitThread, DestroyAcceptor, handleRead, handleClose, start, Connect, Close, OthersOpen, OthersClose
  <2> QED BY <1>0, <1>2, <2>1, <2>2
<1> QED BY <1>1, <1>2

-----------------------------------------------------------------------------

\* ServerInv is an invariant of the server.
THEOREM ServerIsSound == Spec => []ServerInv
<1>1. Init => ServerInv
  <2> SUFFICES ASSUME Init PROVE ServerInv
    OBVIOUS
  <2>1. ServerTypes
    BY ThreadsAreLoops DEF Init, ServerTypes, Stages
  <2>2. LoopTypes
    <3>1. <<>> \in Seq(Functors) /\ Len(<<>>) = 0
      OBVIOUS
    <3>2. numThreads_ \in Nat /\ AllLoops \subseteq Nat
      BY ThreadsAreLoops DEF Init
    <3>3. at \in [AllLoops -> {"poll", "functors", "ended"}] /\ turn \in [AllLoops -> Nat \ {0}]
      BY DEF Init
    <3>4. pending \in [AllLoops -> Seq(Functors)] /\ batch \in [AllLoops -> Seq(Functors)]
      BY <3>1 DEF Init
    <3>5. ASSUME NEW l \in AllLoops
          PROVE  /\ turn[l] <= Len(batch[l]) + 1
                 /\ at[l] # "functors" => batch[l] = <<>> /\ turn[l] = 1
                 /\ at[l] # "ended" => l <= numThreads_
                 /\ server = "new" /\ l # 0 => at[l] = "ended"
      <4>1. turn[l] = 1 /\ batch[l] = <<>> /\ at[l] = IF l = 0 THEN "functors" ELSE "ended"
        BY DEF Init
      <4>2. turn[l] <= Len(batch[l]) + 1
        BY <3>1, <4>1
      <4>3. at[l] # "ended" => l <= numThreads_
        BY <3>2, <4>1
      <4> QED BY <4>1, <4>2, <4>3
    <3> QED BY <3>3, <3>4, <3>5 DEF LoopTypes
  <2>3. ASSUME NEW l \in AllLoops PROVE Queues[l] = <<>>
    <3>1. <<>> \in Seq(Functors)
      OBVIOUS
    <3>2. Queue(<<>>, 1, <<>>) = <<>>
      BY <3>1, QueueEnds
    <3> QED BY <3>2 DEF Init, Queues, QueuesOf
  <2>4. \A l \in AllLoops : DOMAIN Queues[l] = {}
    BY <2>3
  <2>5. Tidy(numThreads_, conn, connections_, Queues)
    BY <2>4 DEF Init, Tidy, Mapped, OneEach, Busy
  <2> QED BY <2>1, <2>2, <2>5 DEF Init, ServerInv, CleanInv, EndInv, Busy
<1>2. ServerInv /\ [Next]_vars => ServerInv'
  <2> SUFFICES ASSUME ServerInv, [Next]_vars PROVE ServerInv'
    OBVIOUS
  <2>1. CASE Next
    <3>1. /\ hasty' => server' \notin {"new", "started"}
          /\ hasty => hasty'
      BY <2>1, HastyKept
    <3>2. ASSUME ~hasty' PROVE CleanInv'
      <4>1. CleanInv
        BY <3>1, <3>2 DEF ServerInv
      <4>2. ASSUME NEW l \in AllLoops, LoopStep(l) PROVE CleanInv'
        BY <4>1, <4>2, SwapKeeps, RunKeeps, EndBatchKeeps DEF LoopStep
      <4> QED BY <2>1, <3>2, <4>1, <4>2, AcceptanceKeeps, DestructionKeeps, EventsKeep, EnvironmentKeeps DEF Next
    <3> QED BY <3>1, <3>2 DEF ServerInv
  <2>2. CASE UNCHANGED vars
    <3>1. UNCHANGED <<server, numThreads_, next_, quit_, at, turn, loop, conn, connections_, pending, batch, failed,
                      acceptor, hasty>>
      BY <2>2 DEF vars, poolVars, connVars, loopVars, acceptVars
    <3>2. ASSUME ~hasty PROVE CleanInv'
      <4>1. CleanInv
        BY <3>2 DEF ServerInv
      <4>2. EndInv' /\ ServerTypes' /\ LoopTypes'
        BY <3>1, <4>1 DEF CleanInv, EndInv, ServerTypes, LoopTypes
      <4>3. Tidy(numThreads_, conn, connections_, Queues)' /\ failed' = {}
        BY <3>1, <4>1 DEF CleanInv, Queues
      <4> QED BY <4>2, <4>3 DEF CleanInv
    <3> QED BY <3>1, <3>2 DEF ServerInv
  <2> QED BY <2>1, <2>2
<1> QED BY <1>1, <1>2, PTL DEF Spec

\* Nothing goes wrong at the end of a server, whatever the number of its peers, its io
\* threads and its descriptors, unless it is destroyed before its connections: every
\* connection goes through connectDestroyed before it is freed, and neither a functor nor a
\* close callback uses a server that is gone (TcpServer.cc:31-40, 72-92).
THEOREM ServerEndsClean == Spec => []EndIsClean
<1>1. ServerInv => EndIsClean
  BY DEF ServerInv, CleanInv, EndIsClean
<1> QED BY <1>1, ServerIsSound, PTL
=============================================================================
