--------------------------- MODULE LoggingProofs ----------------------------
(***************************************************************************)
(* Proofs about AsyncLogging for any size of buffers and files, any number *)
(* of lines and any clock: the logger never runs out of spare buffers, no  *)
(* line is lost, doubled or moved, and the files roll as they should.      *)
(*                                                                         *)
(* Proofs about Logging for all zones, all lines and all values of the     *)
(* clock: times survive conversion, stamps tell when a line was written,   *)
(* and a line is cut at its end only.                                      *)
(***************************************************************************)
EXTENDS AsyncLogging, Logging, SequenceTheorems, WellFoundedInduction, TLAPS

(***************************************************************************)
(* FlattenSeq.  That the recursive function in its definition exists, and  *)
(* what it yields, is shown by looking at the first index where it would   *)
(* not be so.                                                              *)
(***************************************************************************)

\* f is the function that FlattenSeq(s) computes, up to n.
Flattens(f, s, n) == f = [i \in 1..n |-> IF i = 1 THEN s[i] ELSE f[i - 1] \o s[i]]

Flattened(s, n) == \E f : Flattens(f, s, n)

\* A set of numbers that is not empty has a least one.
LEMMA LeastOf ==
  ASSUME NEW B, B \subseteq Nat, B # {}
  PROVE  \E m \in B : \A k \in B : m <= k
<1>1. PICK m \in B : \A y \in B : ~(<<y, m>> \in OpToRel(<, Nat))
  BY NatLessThanWellFounded, WFMin
<1>2. ASSUME NEW k \in B, k < m
      PROVE  FALSE
  BY <1>1, <1>2 DEF OpToRel
<1> QED BY <1>2

LEMMA FlattensAt ==
  ASSUME NEW f, NEW s, NEW n \in Nat, Flattens(f, s, n), NEW i \in 1..n
  PROVE  f[i] = IF i = 1 THEN s[i] ELSE f[i - 1] \o s[i]
<1> DEFINE g == [k \in 1..n |-> IF k = 1 THEN s[k] ELSE f[k - 1] \o s[k]]
<1>1. g[i] = IF i = 1 THEN s[i] ELSE f[i - 1] \o s[i]
  OBVIOUS
<1>2. f = g
  BY DEF Flattens
<1> QED BY <1>1, <1>2

LEMMA FlattenedNext ==
  ASSUME NEW s, NEW n \in Nat \ {0}, Flattened(s, n)
  PROVE  Flattened(s, n + 1)
<1>1. PICK f : Flattens(f, s, n)
  BY DEF Flattened
<1> DEFINE g == [i \in 1 .. n + 1 |-> IF i <= n THEN f[i] ELSE f[n] \o s[n + 1]]
<1>2. ASSUME NEW i \in 1 .. n + 1
      PROVE  g[i] = IF i = 1 THEN s[i] ELSE g[i - 1] \o s[i]
  <2>1. CASE i <= n
    <3>1. f[i] = IF i = 1 THEN s[i] ELSE f[i - 1] \o s[i]
      BY <1>1, <2>1, FlattensAt
    <3>2. CASE i = 1
      BY <2>1, <3>1, <3>2
    <3>3. CASE i # 1
      <4>1. g[i] = f[i] /\ g[i - 1] = f[i - 1]
        BY <2>1, <3>3
      <4> QED BY <3>1, <3>3, <4>1
    <3> QED BY <3>2, <3>3
  <2>2. CASE i = n + 1
    BY <2>2
  <2> QED BY <2>1, <2>2
<1>3. g = [i \in 1 .. n + 1 |-> IF i = 1 THEN s[i] ELSE g[i - 1] \o s[i]]
  BY <1>2
<1> HIDE DEF g
<1> QED BY <1>3 DEF Flattened, Flattens

LEMMA FlattenedAll ==
  ASSUME NEW s, NEW n \in Nat \ {0}
  PROVE  Flattened(s, n)
<1> DEFINE B == {k \in Nat \ {0} : ~Flattened(s, k)}
<1> SUFFICES ASSUME B # {} PROVE FALSE
  OBVIOUS
<1>1. PICK m \in B : \A k \in B : m <= k
  BY LeastOf
<1>2. CASE m = 1
  <2> DEFINE f == [i \in 1..1 |-> s[i]]
  <2>1. f = [i \in 1..1 |-> IF i = 1 THEN s[i] ELSE f[i - 1] \o s[i]]
    OBVIOUS
  <2> HIDE DEF f
  <2>2. Flattened(s, 1)
    BY <2>1 DEF Flattened, Flattens
  <2> QED BY <1>2, <2>2
<1>3. CASE m # 1
  <2>1. m - 1 \in Nat \ {0} /\ m - 1 \notin B /\ (m - 1) + 1 = m
    BY <1>1, <1>3
  <2>2. Flattened(s, m - 1)
    BY <2>1
  <2>3. Flattened(s, (m - 1) + 1)
    BY <2>1, <2>2, FlattenedNext
  <2> QED BY <2>1, <2>3
<1> QED BY <1>2, <1>3

\* What FlattenSeq computes.
LEMMA FlattenIs ==
  ASSUME NEW s, Len(s) \in Nat \ {0}
  PROVE  \E f : Flattens(f, s, Len(s)) /\ FlattenSeq(s) = f[Len(s)]
<1> DEFINE flatten == CHOOSE f : Flattens(f, s, Len(s))
<1>1. Flattens(flatten, s, Len(s))
  BY FlattenedAll DEF Flattened
<1>2. FlattenSeq(s) = flatten[Len(s)]
  BY DEF FlattenSeq, Flattens
<1> HIDE DEF flatten
<1> QED BY <1>1, <1>2


\* Two functions are the same up to l.
Same(f, g, l) == \A i \in 1..l : f[i] = g[i]

\* Where two sequences are the same, so are the functions.
LEMMA FlattensSame ==
  ASSUME NEW f, NEW g, NEW s, NEW t, NEW m \in Nat, NEW n \in Nat,
         Flattens(f, s, m), Flattens(g, t, n),
         NEW l \in Nat, l <= m, l <= n, Same(s, t, l)
  PROVE  Same(f, g, l)
<1> DEFINE B == {i \in 1..l : f[i] # g[i]}
<1> SUFFICES ASSUME B # {} PROVE FALSE
  BY DEF Same
<1>1. PICK i \in B : \A k \in B : i <= k
  <2>1. B \subseteq Nat
    OBVIOUS
  <2> QED BY <2>1, LeastOf
<1>2. /\ f[i] = IF i = 1 THEN s[i] ELSE f[i - 1] \o s[i]
      /\ g[i] = IF i = 1 THEN t[i] ELSE g[i - 1] \o t[i]
  <2>1. i \in 1..m /\ i \in 1..n
    OBVIOUS
  <2> QED BY <2>1, FlattensAt
<1>3. s[i] = t[i]
  BY DEF Same
<1>4. i # 1 => f[i - 1] = g[i - 1]
  <2>1. i # 1 => i - 1 \in 1..l /\ ~(i <= i - 1)
    OBVIOUS
  <2> QED BY <1>1, <2>1
<1> QED BY <1>1, <1>2, <1>3, <1>4

\* Concatenation is associative.
LEMMA ConcatThree ==
  ASSUME NEW T
  PROVE  \A a, b, c \in Seq(T) : (a \o b) \o c = a \o (b \o c)
<1> TAKE a, b, c \in Seq(T)
<1> QED BY ConcatAssociative

LEMMA ConcatLines ==
  \A a, b, c \in Seq(Nat) : (a \o b) \o c = a \o (b \o c)
BY ConcatThree

\* The same as an operator, which the provers take as it is.
Join(a, b) == a \o b

LEMMA JoinThree ==
  ASSUME NEW T, NEW a \in Seq(T), NEW b \in Seq(T), NEW c \in Seq(T)
  PROVE  Join(Join(a, b), c) = Join(a, Join(b, c))
<1>1. (a \o b) \o c = a \o (b \o c)
  BY ConcatAssociative
<1> QED BY <1>1 DEF Join

LEMMA JoinFour ==
  \A a, b, c, d \in Seq(Nat) :
    /\ Join(Join(Join(a, b), c), d) = Join(Join(a, b), Join(c, d))
    /\ Join(a, Join(b, Join(c, d))) = Join(Join(a, b), Join(c, d))
    /\ Join(a, Join(b, Join(c, d))) = Join(Join(a, Join(b, c)), d)
<1>1. \A a, b \in Seq(Nat) : Join(a, b) \in Seq(Nat)
  BY ConcatProperties DEF Join
<1>2. \A a, b, c \in Seq(Nat) : Join(Join(a, b), c) = Join(a, Join(b, c))
  BY ConcatLines DEF Join
<1> TAKE a, b, c, d \in Seq(Nat)
<1>3. Join(a, b) \in Seq(Nat) /\ Join(b, c) \in Seq(Nat) /\ Join(c, d) \in Seq(Nat)
  BY <1>1
<1>4. Join(Join(Join(a, b), c), d) = Join(Join(a, b), Join(c, d))
  BY <1>2, <1>3
<1>5. Join(a, Join(b, Join(c, d))) = Join(Join(a, b), Join(c, d))
  BY <1>2, <1>3
<1>6. Join(Join(a, Join(b, c)), d) = Join(a, Join(Join(b, c), d))
  BY <1>2, <1>3
<1>7. Join(Join(b, c), d) = Join(b, Join(c, d))
  BY <1>2
<1> QED BY <1>4, <1>5, <1>6, <1>7

\* Sequences are flattened to a sequence.
LEMMA FlattenType ==
  ASSUME NEW T, NEW s \in Seq(Seq(T))
  PROVE  FlattenSeq(s) \in Seq(T)
<1>1. CASE Len(s) = 0
  <2>1. s = <<>>
    BY <1>1, EmptySeq
  <2>2. FlattenSeq(s) = s
    BY <1>1 DEF FlattenSeq
  <2>3. <<>> \in Seq(T)
    BY EmptySeq
  <2> QED BY <2>1, <2>2, <2>3
<1>2. CASE Len(s) # 0
  <2>1. Len(s) \in Nat \ {0} /\ DOMAIN s = 1..Len(s) /\ \A i \in 1..Len(s) : s[i] \in Seq(T)
    BY <1>2
  <2>2. PICK f : Flattens(f, s, Len(s)) /\ FlattenSeq(s) = f[Len(s)]
    BY <2>1, FlattenIs
  <2> DEFINE B == {i \in 1..Len(s) : f[i] \notin Seq(T)}
  <2>3. ASSUME B # {} PROVE FALSE
    <3>1. PICK i \in B : \A k \in B : i <= k
      <4>1. B \subseteq Nat
        OBVIOUS
      <4> QED BY <2>3, <4>1, LeastOf
    <3>2. f[i] = IF i = 1 THEN s[i] ELSE f[i - 1] \o s[i]
      <4>1. i \in 1..Len(s) /\ Len(s) \in Nat /\ Flattens(f, s, Len(s))
        BY <2>1, <2>2
      <4> QED BY ONLY <4>1, FlattensAt
    <3>3. i # 1 => f[i - 1] \in Seq(T)
      <4>1. i # 1 => i - 1 \in 1..Len(s) /\ ~(i <= i - 1)
        BY <2>1
      <4> QED BY <3>1, <4>1
    <3>4. s[i] \in Seq(T)
      BY <2>1
    <3>5. i # 1 => f[i - 1] \o s[i] \in Seq(T)
      BY <3>3, <3>4, ConcatProperties
    <3> QED BY <3>1, <3>2, <3>4, <3>5
  <2>4. Len(s) \in 1..Len(s)
    BY <2>1
  <2> QED BY <2>2, <2>3, <2>4
<1> QED BY <1>1, <1>2

\* A sequence appended comes at the end.
LEMMA FlattenAppend ==
  ASSUME NEW T, NEW s \in Seq(Seq(T)), NEW e \in Seq(T)
  PROVE  FlattenSeq(Append(s, e)) = FlattenSeq(s) \o e
<1> DEFINE t == Append(s, e)
           n == Len(s)
<1> HIDE DEF t
<1>1. /\ n \in Nat /\ Len(t) = n + 1 /\ t[n + 1] = e
      /\ \A i \in 1..n : t[i] = s[i]
  BY AppendProperties DEF t
<1>2. Len(t) \in Nat \ {0}
  BY <1>1
<1>3. PICK g : Flattens(g, t, Len(t)) /\ FlattenSeq(t) = g[Len(t)]
  BY <1>2, FlattenIs
<1>4. g[n + 1] = IF n + 1 = 1 THEN t[n + 1] ELSE g[(n + 1) - 1] \o t[n + 1]
  <2>1. n + 1 \in 1..Len(t) /\ Len(t) \in Nat
    BY <1>1
  <2> QED BY <1>3, <2>1, FlattensAt
<1>5. CASE n = 0
  <2>1. s = <<>> /\ FlattenSeq(s) = s
    BY <1>5, EmptySeq DEF FlattenSeq
  <2>2. FlattenSeq(t) = e
    BY <1>1, <1>3, <1>4, <1>5
  <2>3. <<>> \o e = e
    BY ConcatEmptySeq
  <2> QED BY <2>1, <2>2, <2>3 DEF t
<1>6. CASE n # 0
  <2>1. PICK f : Flattens(f, s, n) /\ FlattenSeq(s) = f[n]
    BY <1>1, <1>6, FlattenIs
  <2>2. g[n] = f[n]
    <3>1. n <= Len(t) /\ n <= n /\ n \in 1..n /\ Len(t) \in Nat
      BY <1>1, <1>6
    <3>2. Same(t, s, n)
      BY <1>1 DEF Same
    <3>3. Same(g, f, n)
      BY <1>1, <1>3, <2>1, <3>1, <3>2, FlattensSame
    <3> QED BY <3>1, <3>3 DEF Same
  <2>3. n + 1 # 1 /\ (n + 1) - 1 = n
    BY <1>1, <1>6
  <2>4. FlattenSeq(t) = g[n] \o e
    BY <1>1, <1>3, <1>4, <2>3
  <2> QED BY <2>1, <2>2, <2>4 DEF t
<1> QED BY <1>5, <1>6

\* Concatenation can be moved under FlattenSeq.
LEMMA FlattenConcat ==
  ASSUME NEW T, NEW s \in Seq(Seq(T)), NEW t \in Seq(Seq(T))
  PROVE  FlattenSeq(s \o t) = FlattenSeq(s) \o FlattenSeq(t)
<1> DEFINE Holds(u) == FlattenSeq(s \o u) = FlattenSeq(s) \o FlattenSeq(u)
           B == {k \in 0..Len(t) : ~Holds(SubSeq(t, 1, k))}
<1>1. ASSUME NEW u \in Seq(Seq(T)), NEW e \in Seq(T), Holds(u)
      PROVE  Holds(Append(u, e))
  <2>1. s \o Append(u, e) = Append(s \o u, e) /\ s \o u \in Seq(Seq(T))
    OBVIOUS
  <2>2. FlattenSeq(s \o Append(u, e)) = FlattenSeq(s \o u) \o e
    BY <2>1, FlattenAppend
  <2>3. FlattenSeq(Append(u, e)) = FlattenSeq(u) \o e
    BY FlattenAppend
  <2>4. FlattenSeq(s) \in Seq(T) /\ FlattenSeq(u) \in Seq(T)
    BY FlattenType
  <2>5. Join(Join(FlattenSeq(s), FlattenSeq(u)), e) = Join(FlattenSeq(s), Join(FlattenSeq(u), e))
    BY <2>4, JoinThree
  <2>6. FlattenSeq(s \o Append(u, e)) = Join(Join(FlattenSeq(s), FlattenSeq(u)), e)
    BY <1>1, <2>2 DEF Join
  <2>7. FlattenSeq(Append(u, e)) = Join(FlattenSeq(u), e)
    BY <2>3 DEF Join
  <2>8. FlattenSeq(s \o Append(u, e)) = Join(FlattenSeq(s), FlattenSeq(Append(u, e)))
    BY <2>5, <2>6, <2>7
  <2> QED BY <2>8 DEF Join
<1>2. Holds(<<>>)
  <2>1. FlattenSeq(<<>>) = <<>>
    BY DEF FlattenSeq
  <2>2. s \o <<>> = s
    BY ConcatEmptySeq
  <2>3. FlattenSeq(s) \o <<>> = FlattenSeq(s)
    BY FlattenType, ConcatEmptySeq
  <2> QED BY <2>1, <2>2, <2>3
<1>3. ASSUME B # {} PROVE FALSE
  <2>1. PICK k \in B : \A i \in B : k <= i
    <3>1. B \subseteq Nat
      OBVIOUS
    <3> QED BY <1>3, <3>1, LeastOf
  <2>2. CASE k = 0
    <3>1. SubSeq(t, 1, 0) = <<>>
      BY SubSeqEmpty
    <3> QED BY <1>2, <2>1, <2>2, <3>1
  <2>3. CASE k # 0
    <3> DEFINE u == SubSeq(t, 1, k - 1)
    <3>1. k - 1 \in 0..Len(t) /\ ~(k <= k - 1)
      BY <2>3
    <3>2. Holds(u)
      BY <2>1, <3>1
    <3>3. /\ u \in Seq(Seq(T)) /\ t[k] \in Seq(T)
          /\ SubSeq(t, 1, k) = Append(u, t[k])
      BY <2>3
    <3> HIDE DEF u, Holds
    <3>4. Holds(SubSeq(t, 1, k))
      BY <1>1, <3>2, <3>3
    <3> QED BY <2>1, <3>4
  <2> QED BY <2>2, <2>3
<1>4. Holds(SubSeq(t, 1, Len(t)))
  <2>1. Len(t) \in 0..Len(t)
    OBVIOUS
  <2> HIDE DEF Holds
  <2> QED BY <1>3, <2>1
<1>5. SubSeq(t, 1, Len(t)) = t
  BY SubSeqFull
<1> QED BY <1>4, <1>5

\* One sequence, flattened.
LEMMA FlattenOne ==
  ASSUME NEW T, NEW e \in Seq(T)
  PROVE  FlattenSeq(<<e>>) = e
<1>1. <<>> \in Seq(Seq(T)) /\ Append(<<>>, e) = <<e>>
  OBVIOUS
<1>2. FlattenSeq(<<>>) = <<>>
  BY DEF FlattenSeq
<1>3. FlattenSeq(Append(<<>>, e)) = FlattenSeq(<<>>) \o e
  BY <1>1, FlattenAppend
<1> QED BY <1>1, <1>2, <1>3, ConcatEmptySeq

\* The last sequence is made longer.
Longer(s, e) == [s EXCEPT ![Len(s)] = @ \o e]

\* The lines of t are those of s, and then those of e.
Continues(t, s, e) == FlattenSeq(t) = FlattenSeq(s) \o e

LEMMA FlattenLonger ==
  ASSUME NEW T, NEW s \in Seq(Seq(T)), Len(s) # 0, NEW e \in Seq(T),
         NEW t, t = Longer(s, e)
  PROVE  t \in Seq(Seq(T)) /\ t # <<>> /\ Continues(t, s, e)
<1>0. t = [s EXCEPT ![Len(s)] = s[Len(s)] \o e]
  BY DEF Longer
<1> DEFINE n == Len(s)
           init == SubSeq(s, 1, n - 1)
           last == s[n]
<1>1. n \in Nat \ {0} /\ last \in Seq(T) /\ last \o e \in Seq(T)
  BY EmptySeq
<1>2. init \in Seq(Seq(T)) /\ s = Append(init, last)
  BY <1>1
<1>3. t \in Seq(Seq(T)) /\ Len(t) = n
  BY <1>0, <1>1
<1>4. t = Append(init, last \o e)
  <2>1. /\ Append(init, last \o e) \in Seq(Seq(T))
        /\ Len(Append(init, last \o e)) = n
    BY <1>1, <1>2
  <2>2. ASSUME NEW i \in 1..n PROVE t[i] = Append(init, last \o e)[i]
    <3>1. Len(init) = n - 1 /\ \A k \in 1 .. n - 1 : init[k] = s[k]
      <4>1. \A k \in 1 .. n - 1 : s[k] \in Seq(T)
        OBVIOUS
      <4>2. Len(init) = IF 1 <= n - 1 THEN (n - 1) - 1 + 1 ELSE 0
        BY <1>1, <4>1, SubSeqProperties
      <4>3. \A k \in 1 .. (n - 1) - 1 + 1 : init[k] = s[1 + k - 1]
        BY <1>1, <4>1, SubSeqProperties
      <4>4. Len(init) = n - 1
        <5> HIDE DEF init, last, n
        <5> QED BY <1>1, <4>2
      <4>5. \A k \in 1 .. n - 1 : init[k] = s[k]
        BY <1>1, <4>3
      <4> QED BY <4>4, <4>5
    <3>2. /\ Append(init, last \o e)[n] = last \o e
          /\ \A k \in 1 .. n - 1 : Append(init, last \o e)[k] = init[k]
      <4> HIDE DEF init, last
      <4> QED BY <1>1, <1>2, <3>1, AppendProperties
    <3>3. n \in DOMAIN s /\ i \in DOMAIN s
      BY <1>1
    <3>4. t[n] = last \o e /\ (i # n => t[i] = s[i])
      BY <1>0, <3>3
    <3>5. i # n => i \in 1 .. n - 1
      BY <1>1
    <3> HIDE DEF init, last, n
    <3> QED BY <3>1, <3>2, <3>4, <3>5
  <2> QED BY <1>3, <2>1, <2>2, SeqEqual
<1> HIDE DEF init, last, n
<1>5. FlattenSeq(t) = FlattenSeq(init) \o (last \o e)
  BY <1>1, <1>2, <1>4, FlattenAppend
<1>6. FlattenSeq(s) = FlattenSeq(init) \o last
  BY <1>1, <1>2, FlattenAppend
<1>7. \A a \in Seq(T) : (a \o last) \o e = a \o (last \o e)
  <2>1. last \in Seq(T) /\ e \in Seq(T)
    BY <1>1
  <2> QED BY ONLY <2>1, ConcatThree
<1>8. FlattenSeq(init) \in Seq(T)
  BY <1>2, FlattenType
<1>9. t # <<>>
  BY <1>1, <1>3
<1> QED BY <1>3, <1>5, <1>6, <1>7, <1>8, <1>9 DEF Continues

\* A sequence in two pieces.
LEMMA FlattenSplit ==
  ASSUME NEW T, NEW s \in Seq(Seq(T)), NEW m \in 0..Len(s)
  PROVE  /\ SubSeq(s, 1, m) \in Seq(Seq(T)) /\ SubSeq(s, m + 1, Len(s)) \in Seq(Seq(T))
         /\ FlattenSeq(s) = FlattenSeq(SubSeq(s, 1, m)) \o FlattenSeq(SubSeq(s, m + 1, Len(s)))
<1>1. SubSeq(s, 1, m) \in Seq(Seq(T)) /\ SubSeq(s, m + 1, Len(s)) \in Seq(Seq(T))
  OBVIOUS
<1>2. SubSeq(s, 1, m) \o SubSeq(s, m + 1, Len(s)) = s
  <2>1. 1 \in 1 .. Len(s) + 1 /\ m \in 1 - 1 .. Len(s) /\ Len(s) \in m .. Len(s)
    OBVIOUS
  <2> QED BY <2>1, ConcatAdjacentSubSeq, SubSeqFull
<1>3. FlattenSeq(SubSeq(s, 1, m) \o SubSeq(s, m + 1, Len(s)))
        = FlattenSeq(SubSeq(s, 1, m)) \o FlattenSeq(SubSeq(s, m + 1, Len(s)))
  BY <1>1, FlattenConcat
<1> QED BY <1>1, <1>2, <1>3

\* The first of the remaining sequences.
LEMMA FlattenRest ==
  ASSUME NEW T, NEW s \in Seq(Seq(T)), NEW m \in 1..Len(s)
  PROVE  FlattenSeq(SubSeq(s, m, Len(s))) = s[m] \o FlattenSeq(SubSeq(s, m + 1, Len(s)))
<1>1. /\ s[m] \in Seq(T) /\ <<s[m]>> \in Seq(Seq(T)) /\ SubSeq(s, m + 1, Len(s)) \in Seq(Seq(T))
  OBVIOUS
<1>2. SubSeq(s, m, Len(s)) = <<s[m]>> \o SubSeq(s, m + 1, Len(s))
  OBVIOUS
<1>3. FlattenSeq(<<s[m]>> \o SubSeq(s, m + 1, Len(s)))
        = FlattenSeq(<<s[m]>>) \o FlattenSeq(SubSeq(s, m + 1, Len(s)))
  BY <1>1, FlattenConcat
<1>4. FlattenSeq(<<s[m]>>) = s[m]
  BY <1>1, FlattenOne
<1> QED BY <1>2, <1>3, <1>4

(***************************************************************************)
(* Lines in order.                                                         *)
(***************************************************************************)

\* The lines of s but for notices come in the order of their numbers, and the lines
\* of s before those of t.
InOrder(s) == \A i, j \in DOMAIN s : i < j /\ Notice \notin {s[i], s[j]} => s[i] < s[j]

Before(s, t) ==
  \A i \in DOMAIN s, j \in DOMAIN t : Notice \notin {s[i], t[j]} => s[i] < t[j]

LEMMA ConcatInOrder ==
  ASSUME NEW s \in Seq(Nat), NEW t \in Seq(Nat)
  PROVE  InOrder(s \o t) <=> InOrder(s) /\ InOrder(t) /\ Before(s, t)
<1>1. /\ s \o t \in Seq(Nat) /\ Len(s \o t) = Len(s) + Len(t)
      /\ \A i \in 1 .. Len(s) + Len(t) : (s \o t)[i] = IF i <= Len(s) THEN s[i] ELSE t[i - Len(s)]
  BY ConcatProperties
<1>2. /\ DOMAIN (s \o t) = 1 .. Len(s) + Len(t) /\ DOMAIN s = 1..Len(s) /\ DOMAIN t = 1..Len(t)
      /\ Len(s) \in Nat /\ Len(t) \in Nat
  BY <1>1
<1>3. /\ \A i \in 1..Len(s) : (s \o t)[i] = s[i] /\ i \in 1 .. Len(s) + Len(t)
      /\ \A j \in 1..Len(t) : (s \o t)[Len(s) + j] = t[j] /\ Len(s) + j \in 1 .. Len(s) + Len(t)
  BY <1>1, <1>2
<1> DEFINE u == s \o t
<1> HIDE DEF u
<1>4. ASSUME InOrder(u) PROVE InOrder(s) /\ InOrder(t) /\ Before(s, t)
  <2>1. InOrder(s)
    BY <1>2, <1>3, <1>4 DEF InOrder, u
  <2>2. ASSUME NEW i \in 1..Len(t), NEW j \in 1..Len(t), i < j, Notice \notin {t[i], t[j]}
        PROVE  t[i] < t[j]
    <3>1. Len(s) + i < Len(s) + j
      BY <1>2, <2>2
    <3> QED BY <1>2, <1>3, <1>4, <2>2, <3>1 DEF InOrder, u
  <2>3. ASSUME NEW i \in 1..Len(s), NEW j \in 1..Len(t), Notice \notin {s[i], t[j]}
        PROVE  s[i] < t[j]
    <3>1. i < Len(s) + j
      BY <1>2, <2>3
    <3> QED BY <1>2, <1>3, <1>4, <2>3, <3>1 DEF InOrder, u
  <2> QED BY <1>2, <2>1, <2>2, <2>3 DEF InOrder, Before
<1>5. ASSUME InOrder(s), InOrder(t), Before(s, t) PROVE InOrder(u)
  <2> SUFFICES ASSUME NEW i \in 1 .. Len(s) + Len(t), NEW j \in 1 .. Len(s) + Len(t),
                      i < j, Notice \notin {u[i], u[j]}
               PROVE  u[i] < u[j]
    BY <1>2 DEF InOrder, u
  <2>1. u[i] = (IF i <= Len(s) THEN s[i] ELSE t[i - Len(s)])
    BY <1>1 DEF u
  <2>2. u[j] = (IF j <= Len(s) THEN s[j] ELSE t[j - Len(s)])
    BY <1>1 DEF u
  <2>3. CASE j <= Len(s)
    <3>1. i \in DOMAIN s /\ j \in DOMAIN s /\ i <= Len(s)
      BY <1>2, <2>3
    <3> QED BY <1>5, <2>1, <2>2, <2>3, <3>1 DEF InOrder
  <2>4. CASE i <= Len(s) /\ ~(j <= Len(s))
    <3>1. j - Len(s) \in DOMAIN t /\ i \in DOMAIN s
      BY <1>2, <2>4
    <3> QED BY <1>5, <2>1, <2>2, <2>4, <3>1 DEF Before
  <2>5. CASE ~(i <= Len(s))
    <3>1. /\ i - Len(s) \in DOMAIN t /\ j - Len(s) \in DOMAIN t /\ i - Len(s) < j - Len(s)
          /\ ~(j <= Len(s))
      BY <1>2, <2>5
    <3> QED BY <1>5, <2>1, <2>2, <2>5, <3>1 DEF InOrder
  <2> QED BY <1>2, <2>3, <2>4, <2>5
<1> QED BY <1>4, <1>5 DEF u

LEMMA ConcatSet ==
  ASSUME NEW s \in Seq(Nat), NEW t \in Seq(Nat)
  PROVE  ToSet(s \o t) = ToSet(s) \cup ToSet(t)
<1>1. /\ Len(s \o t) = Len(s) + Len(t) /\ s \o t \in Seq(Nat)
      /\ \A i \in 1 .. Len(s) + Len(t) : (s \o t)[i] = IF i <= Len(s) THEN s[i] ELSE t[i - Len(s)]
  BY ConcatProperties
<1>2. \A i \in 1..Len(t) : (s \o t)[Len(s) + i] = t[i] /\ Len(s) + i \in 1 .. Len(s) + Len(t)
  BY <1>1
<1>3. ToSet(s) \cup ToSet(t) \subseteq ToSet(s \o t)
  <2>1. \A i \in 1..Len(s) : (s \o t)[i] = s[i] /\ i \in 1 .. Len(s) + Len(t)
    BY <1>1
  <2>2. DOMAIN (s \o t) = 1 .. Len(s) + Len(t) /\ DOMAIN s = 1..Len(s) /\ DOMAIN t = 1..Len(t)
    BY <1>1
  <2>3. ToSet(s) \subseteq ToSet(s \o t)
    BY <2>1, <2>2 DEF ToSet
  <2>4. ToSet(t) \subseteq ToSet(s \o t)
    BY <1>2, <2>2 DEF ToSet
  <2> QED BY <2>3, <2>4
<1>4. ToSet(s \o t) \subseteq ToSet(s) \cup ToSet(t)
  <2> SUFFICES ASSUME NEW i \in 1 .. Len(s) + Len(t)
               PROVE  (s \o t)[i] \in ToSet(s) \cup ToSet(t)
    BY <1>1 DEF ToSet
  <2>1. CASE i <= Len(s)
    BY <1>1, <2>1 DEF ToSet
  <2>2. CASE ~(i <= Len(s))
    <3>1. i - Len(s) \in 1..Len(t)
      BY <2>2
    <3> QED BY <1>1, <2>2, <3>1 DEF ToSet
  <2> QED BY <2>1, <2>2
<1> QED BY <1>3, <1>4

\* What Before says, of the sets.
LEMMA BeforeSets ==
  ASSUME NEW s \in Seq(Nat), NEW t \in Seq(Nat)
  PROVE  Before(s, t) <=> \A a \in ToSet(s), b \in ToSet(t) : Notice \notin {a, b} => a < b
BY DEF Before, ToSet

\* Lines that are taken out leave the others in order.
LEMMA Cut ==
  ASSUME NEW a \in Seq(Nat), NEW q \in Seq(Nat), NEW x \in Seq(Nat), InOrder(a \o (q \o x))
  PROVE  /\ InOrder(a \o x)
         /\ ToSet(a \o x) \ {Notice} = (ToSet(a \o (q \o x)) \ {Notice}) \ ToSet(q)
<1>1. q \o x \in Seq(Nat)
  BY ConcatProperties
<1>2. InOrder(a) /\ InOrder(q \o x) /\ Before(a, q \o x)
  BY <1>1, ConcatInOrder
<1>3. InOrder(q) /\ InOrder(x) /\ Before(q, x)
  BY <1>2, ConcatInOrder
<1>4. ToSet(q \o x) = ToSet(q) \cup ToSet(x)
  BY ConcatSet
<1>5. /\ \A u \in ToSet(a), v \in ToSet(q \o x) : Notice \notin {u, v} => u < v
      /\ \A u \in ToSet(q), v \in ToSet(x) : Notice \notin {u, v} => u < v
  BY <1>1, <1>2, <1>3, BeforeSets
<1>6. Before(a, x)
  BY <1>4, <1>5, BeforeSets
<1>7. ToSet(a \o x) = ToSet(a) \cup ToSet(x) /\ ToSet(a \o (q \o x)) = ToSet(a) \cup ToSet(q) \cup ToSet(x)
  <2>1. ToSet(a \o x) = ToSet(a) \cup ToSet(x)
    BY ConcatSet
  <2>2. ToSet(a \o (q \o x)) = ToSet(a) \cup ToSet(q \o x)
    BY <1>1, ConcatSet
  <2> QED BY <1>4, <2>1, <2>2
<1>8. \A u \in ToSet(a) \cup ToSet(x) : u \in Nat /\ ~(u < u)
  BY DEF ToSet
<1>9. \A u \in ToSet(q) : u # Notice => u \notin ToSet(a) \cup ToSet(x)
  BY <1>4, <1>5, <1>8
<1> QED BY <1>2, <1>3, <1>6, <1>7, <1>9, ConcatInOrder

\* The same lines, but for notices.
SameLines(s, t) == ToSet(s) \ {Notice} = ToSet(t) \ {Notice}

\* A notice may come anywhere.
LEMMA Insert ==
  ASSUME NEW a \in Seq(Nat), NEW p \in Seq({Notice}), NEW x \in Seq(Nat), InOrder(a \o x)
  PROVE  /\ InOrder(a \o (p \o x))
         /\ SameLines(a \o (p \o x), a \o x)
<1>1. p \in Seq(Nat) /\ \A i \in DOMAIN p : p[i] = Notice
  BY DEF Notice
<1>2. InOrder(p) /\ Before(p, x)
  BY <1>1 DEF InOrder, Before
<1>3. InOrder(a) /\ InOrder(x) /\ Before(a, x)
  BY ConcatInOrder
<1>4. p \o x \in Seq(Nat) /\ InOrder(p \o x) /\ ToSet(p \o x) = ToSet(p) \cup ToSet(x)
  BY <1>1, <1>2, <1>3, ConcatProperties, ConcatInOrder, ConcatSet
<1>5. ToSet(p) \subseteq {Notice}
  BY <1>1 DEF ToSet
<1>6. Before(a, p \o x)
  BY <1>3, <1>4, <1>5, BeforeSets
<1>7. ToSet(a \o (p \o x)) = ToSet(a) \cup ToSet(p) \cup ToSet(x) /\ ToSet(a \o x) = ToSet(a) \cup ToSet(x)
  <2>1. ToSet(a \o x) = ToSet(a) \cup ToSet(x)
    BY ConcatSet
  <2>2. ToSet(a \o (p \o x)) = ToSet(a) \cup ToSet(p \o x)
    BY <1>4, ConcatSet
  <2> QED BY <1>4, <2>1, <2>2
<1>8. SameLines(a \o (p \o x), a \o x)
  BY <1>5, <1>7 DEF SameLines
<1> QED BY <1>3, <1>4, <1>6, <1>8, ConcatInOrder

(***************************************************************************)
(* LogFile.                                                                *)
(***************************************************************************)

Logs == [names : Seq(Nat), files : Seq(Seq(Nat)), lastRoll_ : Nat, lastFlush_ : Nat,
         startOfPeriod_ : Int, err_ : BOOLEAN, writtenBytes_ : Nat, buffered : BOOLEAN]

\* The files are numbered by time, none later than the last roll.
Ordered(names, last) ==
  /\ \A i, j \in DOMAIN names : i < j => names[i] < names[j]
  /\ \A i \in DOMAIN names : names[i] <= last

\* A log as LogFile keeps it.
IsLog(l) == l \in Logs /\ Ordered(l.names, l.lastRoll_)

LEMMA StartOfPeriod == \A t \in Nat : Log!startOf(t) \in Int
BY LoggingAssumption DEF Log!startOf

LEMMA OrderedAppend ==
  ASSUME NEW names \in Seq(Nat), NEW last \in Nat, Ordered(names, last), NEW t \in Nat, t > last
  PROVE  Append(names, t) \in Seq(Nat) /\ Ordered(Append(names, t), t)
<1> DEFINE more == Append(names, t)
<1>1. /\ more \in Seq(Nat) /\ DOMAIN more = 1 .. Len(names) + 1 /\ more[Len(names) + 1] = t
      /\ \A i \in 1..Len(names) : more[i] = names[i]
  BY AppendProperties
<1> HIDE DEF more
<1>2. ASSUME NEW i \in DOMAIN more PROVE i \in 1..Len(names) \/ i = Len(names) + 1
  BY <1>1
<1>3. \A i \in 1..Len(names) : names[i] \in Nat /\ names[i] < t
  BY DEF Ordered
<1>4. ASSUME NEW i \in DOMAIN more PROVE more[i] <= t
  <2>1. CASE i \in 1..Len(names)
    <3>1. more[i] = names[i] /\ names[i] \in Nat /\ names[i] < t
      BY <1>1, <1>3, <2>1
    <3> QED BY <3>1
  <2>2. CASE i = Len(names) + 1
    BY <1>1, <2>2
  <2> QED BY <1>2, <2>1, <2>2
<1>5. ASSUME NEW i \in DOMAIN more, NEW j \in DOMAIN more, i < j PROVE more[i] < more[j]
  <2>1. i \in 1..Len(names)
    <3>1. i \in 1 .. Len(names) + 1 /\ j \in 1 .. Len(names) + 1 /\ Len(names) \in Nat
      BY <1>1
    <3> QED BY <1>5, <3>1
  <2>2. CASE j \in 1..Len(names)
    <3>1. names[i] < names[j] /\ more[i] = names[i] /\ more[j] = names[j]
      BY <1>1, <1>5, <2>1, <2>2 DEF Ordered
    <3> QED BY <3>1
  <2>3. CASE j = Len(names) + 1
    BY <1>1, <1>3, <2>1, <2>3
  <2> QED BY <1>2, <2>2, <2>3
<1> QED BY <1>1, <1>4, <1>5 DEF Ordered, more

\* rollFile makes a new file, with a later name, if the clock has gone on.
LEMMA RollDoes ==
  ASSUME NEW l, IsLog(l), NEW t \in Nat, NEW r, r = Log!rollFile(l, t)
  PROVE  /\ IsLog(r)
         /\ FlattenSeq(r.files) = FlattenSeq(l.files)
         /\ t <= r.lastRoll_
         /\ l.files # <<>> \/ t > l.lastRoll_ => r.files # <<>>
         /\ t > l.lastRoll_ => ~r.buffered
<1>1. /\ l.names \in Seq(Nat) /\ l.files \in Seq(Seq(Nat)) /\ l.lastRoll_ \in Nat
      /\ Ordered(l.names, l.lastRoll_) /\ l \in Logs
  BY DEF IsLog, Logs
<1>2. CASE t > l.lastRoll_
  <2>1. r = [names |-> Append(l.names, t), files |-> Append(l.files, <<>>), lastRoll_ |-> t,
             lastFlush_ |-> t, startOfPeriod_ |-> Log!startOf(t), err_ |-> FALSE,
             writtenBytes_ |-> 0, buffered |-> FALSE]
    BY <1>2 DEF Log!rollFile
  <2>2. Append(l.names, t) \in Seq(Nat) /\ Ordered(Append(l.names, t), t)
    BY <1>1, <1>2, OrderedAppend
  <2>3. <<>> \in Seq(Nat)
    OBVIOUS
  <2>4. Append(l.files, <<>>) \in Seq(Seq(Nat)) /\ Append(l.files, <<>>) # <<>>
    <3> DEFINE f == l.files
    <3>1. f \in Seq(Seq(Nat))
      BY <1>1
    <3> HIDE DEF f
    <3>2. Append(f, <<>>) \in Seq(Seq(Nat)) /\ Len(Append(f, <<>>)) = Len(f) + 1 /\ Len(f) \in Nat
      BY <2>3, <3>1, AppendProperties
    <3>3. Append(f, <<>>) # <<>>
      BY <3>2
    <3> QED BY <3>2, <3>3 DEF f
  <2>5. FlattenSeq(Append(l.files, <<>>)) = FlattenSeq(l.files)
    <3>1. FlattenSeq(Append(l.files, <<>>)) = FlattenSeq(l.files) \o <<>>
      BY <1>1, <2>3, FlattenAppend
    <3>2. FlattenSeq(l.files) \in Seq(Nat)
      BY <1>1, FlattenType
    <3> QED BY <3>1, <3>2, ConcatEmptySeq
  <2>6. r \in Logs
    BY <2>1, <2>2, <2>4, StartOfPeriod DEF Logs
  <2>7. r.names = Append(l.names, t) /\ r.files = Append(l.files, <<>>) /\ r.lastRoll_ = t /\ ~r.buffered
    BY <2>1
  <2>8. IsLog(r)
    BY <2>2, <2>6, <2>7 DEF IsLog
  <2> QED BY <2>4, <2>5, <2>7, <2>8
<1>3. CASE ~(t > l.lastRoll_)
  <2>1. r = l
    BY <1>3 DEF Log!rollFile
  <2> QED BY <1>1, <1>3, <2>1
<1> QED BY <1>2, <1>3

\* How many lines of a write the file takes.
Taken(l, n) == IF l.err_ THEN 0 ELSE n

LEMMA FileAppendDoes ==
  ASSUME NEW l, IsLog(l), l.files # <<>>, NEW lines \in Seq(Nat), NEW n \in 0..Len(lines),
         NEW w, w = Log!file_append(l, lines, n)
  PROVE  /\ IsLog(w)
         /\ w.files # <<>>
         /\ FlattenSeq(w.files) = FlattenSeq(l.files) \o SubSeq(lines, 1, Taken(l, n))
         /\ w.lastRoll_ = l.lastRoll_
<1>1. /\ l.names \in Seq(Nat) /\ l.files \in Seq(Seq(Nat)) /\ l.writtenBytes_ \in Nat
      /\ Ordered(l.names, l.lastRoll_) /\ l \in Logs
  BY DEF IsLog, Logs
<1>2. CASE l.err_
  <2>1. w = l
    BY <1>2 DEF Log!file_append
  <2>2. SubSeq(lines, 1, Taken(l, n)) = <<>>
    BY <1>2, SubSeqEmpty DEF Taken
  <2>3. FlattenSeq(l.files) \o <<>> = FlattenSeq(l.files)
    BY <1>1, FlattenType, ConcatEmptySeq
  <2> QED BY <1>1, <2>1, <2>2, <2>3
<1>3. CASE ~l.err_
  <2> DEFINE piece == SubSeq(lines, 1, n)
             files == [l.files EXCEPT ![Len(l.files)] = @ \o piece]
             err == n < Len(lines)
             bytes == IF n < Len(lines) THEN l.writtenBytes_ ELSE l.writtenBytes_ + n
  <2>1. piece \in Seq(Nat)
    OBVIOUS
  <2> HIDE DEF piece
  <2>2. w = [l EXCEPT !.files = files, !.buffered = TRUE, !.err_ = err,
                      !.writtenBytes_ = bytes]
    BY <1>1, <1>3 DEF Log!file_append, piece, Logs
  <2>3. files \in Seq(Seq(Nat)) /\ files # <<>> /\ FlattenSeq(files) = FlattenSeq(l.files) \o piece
    <3> DEFINE f == l.files
    <3>1. f \in Seq(Seq(Nat)) /\ f # <<>> /\ files = Longer(f, piece)
      BY <1>1 DEF Longer
    <3> HIDE DEF f, files
    <3>2. files \in Seq(Seq(Nat)) /\ files # <<>> /\ Continues(files, f, piece)
      <4>1. Len(f) # 0
        BY <3>1, EmptySeq
      <4> QED BY <2>1, <3>1, <4>1, FlattenLonger
    <3> QED BY <3>2 DEF f, Continues
  <2>4. bytes \in Nat /\ err \in BOOLEAN
    BY <1>1
  <2> HIDE DEF files, bytes, err
  <2>5. w \in Logs /\ w.files = files /\ w.names = l.names /\ w.lastRoll_ = l.lastRoll_
    BY <1>1, <2>2, <2>3, <2>4 DEF Logs
  <2>6. IsLog(w)
    BY <1>1, <2>5 DEF IsLog
  <2>7. Taken(l, n) = n
    BY <1>3 DEF Taken
  <2> QED BY <2>3, <2>5, <2>6, <2>7 DEF piece
<1> QED BY <1>2, <1>3

\* The current file need not be rolled, or is too young.
RollDone(l, t) ==
  Log!writtenBytes(l) > RollSize \/ Log!startOf(t) # l.startOfPeriod_ => t <= l.lastRoll_

\* What is left of append_unlocked when the lines are in the current file w: v is the
\* last time that was read.
LEMMA RollOrFlush ==
  ASSUME NEW w, IsLog(w), w.files # <<>>, NEW t \in Nat, NEW u \in Nat,
         NEW v, v = IF Log!Rolls(w, t) THEN u ELSE t,
         NEW r, r = IF Log!Rolls(w, t) THEN Log!rollFile(w, u)
                    ELSE IF t > w.lastFlush_ + FlushInterval THEN Log!flush([w EXCEPT !.lastFlush_ = t])
                    ELSE w
  PROVE  IsLog(r) /\ r.files # <<>> /\ FlattenSeq(r.files) = FlattenSeq(w.files) /\ RollDone(r, v)
<1>2. Log!writtenBytes(w) \in Nat /\ RollSize \in Nat /\ w \in Logs
  BY LoggingAssumption DEF IsLog, Logs, Log!writtenBytes
<1>3. CASE Log!Rolls(w, t)
  <2>1. r = Log!rollFile(w, u) /\ v = u
    BY <1>3
  <2> QED BY <2>1, RollDoes DEF RollDone
<1>4. CASE ~Log!Rolls(w, t)
  <2>1. r = w \/ r = [[w EXCEPT !.lastFlush_ = t] EXCEPT !.buffered = FALSE]
    BY <1>4 DEF Log!flush
  <2>2. /\ r \in Logs /\ r.files = w.files /\ r.names = w.names /\ r.lastRoll_ = w.lastRoll_
        /\ r.startOfPeriod_ = w.startOfPeriod_ /\ r.writtenBytes_ = w.writtenBytes_
    BY <1>2, <2>1 DEF Logs
  <2>3. RollDone(r, v)
    BY <1>4, <2>2 DEF RollDone, Log!Rolls, Log!writtenBytes
  <2> QED BY <2>2, <2>3 DEF IsLog
<1> QED BY <1>3, <1>4

(***************************************************************************)
(* The inductive invariant: where the buffers are, the log, and the lines. *)
(***************************************************************************)

\* Buffers that wait to be used are empty, append() has used the spare one only if
\* others are full, and the logger holds full buffers only while it writes them.
BufferInv ==
  /\ pc \in {"none", "begin", "loop", "lock", "waiting", "woken", "drop", "write", "done"}
  /\ owner = "new" <=> pc = "none"
  /\ numLines \in Nat /\ next \in Nat \ {0}
  /\ currentBuffer_ \in Seq(Nat) /\ buffers_ \in Seq(Seq(Nat)) /\ toWrite \in Seq(Seq(Nat))
  /\ {nextBuffer_, Buffer1, Buffer2} \subseteq {null, <<>>}
  /\ nextBuffer_ = null => buffers_ # <<>>
  /\ pc \notin {"drop", "write"} => toWrite = <<>>
  /\ pc = "drop" => next = 1
  /\ BuffersGoRound

\* The file is open from the begin of the thread, and has been rolled and flushed.
LogInv ==
  /\ appendTime \in Nat
  /\ pc \in {"none", "begin"} => output.files = <<>>
  /\ pc \notin {"none", "begin"} =>
       /\ IsLog(output)
       /\ output.files # <<>>
       /\ RollDone(output, appendTime)
       /\ pc \notin {"drop", "write"} => ~output.buffered

\* Lines that were dropped or lost had been appended before.
Past == \A line \in dropped \cup lost : line \in Nat /\ line <= numLines

OrderInv == LinesInOrder /\ Past

LEMMA NullIsNoBuffer == null # <<>> /\ <<>> \in Seq(Nat) /\ <<>> \in Seq(Seq(Nat))
<1>1. <<>> \in Seq(Nat)
  OBVIOUS
<1>2. <<>> \in Seq(Seq(Nat))
  BY EmptySeq
<1> QED BY <1>1, <1>2, LoggingAssumption

LEMMA BufferInit == Init => BufferInv
BY NullIsNoBuffer DEF Init, BufferInv, BuffersGoRound

LEMMA BufferStep == BufferInv /\ [Next]_vars => BufferInv'
<1> SUFFICES ASSUME BufferInv, [Next]_vars PROVE BufferInv'
  OBVIOUS
<1> USE NullIsNoBuffer
<1>1. CASE UNCHANGED vars
  BY <1>1 DEF vars, BufferInv, BuffersGoRound
<1>2. CASE append
  <2>1. numLines' \in Nat /\ UNCHANGED <<next, toWrite, Buffer1, Buffer2, owner>>
    BY <1>2 DEF append, BufferInv, back
  <2>2. CASE Len(currentBuffer_) < Capacity
    <3>1. /\ currentBuffer_' = Append(currentBuffer_, numLines')
          /\ UNCHANGED <<nextBuffer_, buffers_, pc>>
      BY <1>2, <2>2 DEF append
    <3>2. currentBuffer_' \in Seq(Nat)
      BY <2>1, <3>1 DEF BufferInv
    <3> QED BY <2>1, <3>1, <3>2 DEF BufferInv, BuffersGoRound
  <2>3. CASE ~(Len(currentBuffer_) < Capacity)
    <3>1. /\ buffers_' = Append(buffers_, currentBuffer_)
          /\ currentBuffer_' = Append(IF nextBuffer_ # null THEN nextBuffer_ ELSE <<>>, numLines')
          /\ nextBuffer_' = null
          /\ pc' = IF pc = "waiting" THEN "woken" ELSE pc
      BY <1>2, <2>3 DEF append, Notify
    <3>2. currentBuffer_' = Append(<<>>, numLines')
      BY <3>1 DEF BufferInv
    <3>3. currentBuffer_' \in Seq(Nat)
      BY <2>1, <3>2
    <3>4. buffers_' \in Seq(Seq(Nat)) /\ buffers_' # <<>>
      <4>1. buffers_' \in Seq(Seq(Nat)) /\ Len(buffers_') = Len(buffers_) + 1 /\ Len(buffers_) \in Nat
        BY <3>1, AppendProperties DEF BufferInv
      <4>2. buffers_' # <<>>
        BY <4>1
      <4> QED BY <4>1, <4>2
    <3> QED BY <2>1, <3>1, <3>3, <3>4 DEF BufferInv, BuffersGoRound
  <2> QED BY <2>2, <2>3
<1>3. CASE start
  BY <1>3 DEF start, BufferInv, BuffersGoRound, front, back
<1>4. CASE stop
  BY <1>4 DEF stop, BufferInv, BuffersGoRound, front, back
<1>5. CASE stopNotifies
  BY <1>5 DEF stopNotifies, Notify, BufferInv, BuffersGoRound, front, back
<1>6. CASE stopJoins
  BY <1>6 DEF stopJoins, BufferInv, BuffersGoRound, front, back
<1>7. CASE Begin
  BY <1>7 DEF Begin, BufferInv, BuffersGoRound, front
<1>8. CASE CheckRunning
  BY <1>8 DEF CheckRunning, BufferInv, BuffersGoRound, front, back
<1>9. CASE Wait
  BY <1>9 DEF Wait, BufferInv, BuffersGoRound, front, back
<1>10. CASE Timeout
  BY <1>10 DEF Timeout, BufferInv, BuffersGoRound, front, back
<1>11. CASE Swap
  <2>1. Buffer1 = <<>> /\ Buffer2 = <<>> /\ pc' = "drop" /\ next' = 1
    BY <1>11 DEF Swap, BufferInv, BuffersGoRound
  <2>2. /\ currentBuffer_' = <<>> /\ buffers_' = <<>> /\ Buffer1' = null
        /\ UNCHANGED <<owner, numLines>>
    BY <1>11, <2>1 DEF Swap
  <2>3. /\ toWrite' \in Seq(Seq(Nat))
        /\ Len(toWrite') >= IF buffers_ = <<>> THEN 1 ELSE 2
    <3>1. toWrite' = Append(buffers_, currentBuffer_)
      BY <1>11 DEF Swap
    <3>2. toWrite' \in Seq(Seq(Nat)) /\ Len(toWrite') = Len(buffers_) + 1
      BY <3>1 DEF BufferInv
    <3>3. Len(buffers_) \in Nat /\ (buffers_ # <<>> => Len(buffers_) # 0)
      BY EmptySeq DEF BufferInv
    <3> QED BY <3>2, <3>3
  <2>4. /\ nextBuffer_' = <<>>
        /\ Buffer2' \in {null, <<>>}
        /\ Buffer2' = null => buffers_ # <<>>
    BY <1>11, <2>1 DEF Swap, SpareBuffer, BufferInv
  <2>5. BuffersGoRound'
    <3>1. Len(toWrite') >= IF Buffer2' = null THEN 2 ELSE 1
      <4>1. Len(toWrite') \in Nat
        BY <2>3
      <4> QED BY <2>3, <2>4, <4>1
    <3> QED BY <2>1, <2>2, <3>1 DEF BuffersGoRound
  <2>6. /\ {nextBuffer_', Buffer1', Buffer2'} \subseteq {null, <<>>}
        /\ nextBuffer_' = null => buffers_' # <<>>
    BY <2>2, <2>4
  <2>7. currentBuffer_' \in Seq(Nat) /\ buffers_' \in Seq(Seq(Nat))
    BY <2>2
  <2>8. owner' = "new" <=> pc' = "none"
    BY <1>11, <2>1, <2>2 DEF Swap, BufferInv
  <2>9. next' \in Nat \ {0} /\ numLines' \in Nat
    BY <2>1, <2>2 DEF BufferInv
  <2> QED BY <2>1, <2>3, <2>5, <2>6, <2>7, <2>8, <2>9 DEF BufferInv
<1>12. CASE Drop
  <2>1. /\ pc = "drop" /\ pc' = "write"
        /\ UNCHANGED <<owner, next, currentBuffer_, nextBuffer_, buffers_, numLines, Buffer1, Buffer2>>
    BY <1>12 DEF Drop, front
  <2>2. toWrite' = IF TooMany THEN SubSeq(toWrite, 1, 2) ELSE toWrite
    BY <1>12 DEF Drop
  <2>3. toWrite' \in Seq(Seq(Nat)) /\ (TooMany => Len(toWrite') = 2)
    <3>1. toWrite \in Seq(Seq(Nat)) /\ MaxToWrite \in Nat \ {0, 1}
      BY LoggingAssumption DEF BufferInv
    <3> QED BY <2>2, <3>1 DEF TooMany
  <2>4. Len(toWrite') >= IF Buffer2 = null THEN 2 ELSE 1
    BY <2>1, <2>2, <2>3 DEF BufferInv, BuffersGoRound
  <2> QED BY <2>1, <2>3, <2>4 DEF BufferInv, BuffersGoRound
<1>13. CASE Write
  BY <1>13 DEF Write, BufferInv, BuffersGoRound, front
<1>14. CASE Refill
  <2>1. /\ pc = "write" /\ pc' = "loop" /\ toWrite' = <<>>
        /\ UNCHANGED <<owner, next, currentBuffer_, nextBuffer_, buffers_, numLines>>
    BY <1>14 DEF Refill, front
  <2>2. /\ Buffer1 = null /\ Len(toWrite) >= (IF Buffer2 = null THEN 2 ELSE 1)
        /\ toWrite \in Seq(Seq(Nat)) /\ Len(toWrite) \in Nat
    BY <2>1 DEF BufferInv, BuffersGoRound
  <2> DEFINE two == SubSeq(toWrite, 1, IF Len(toWrite) > 2 THEN 2 ELSE Len(toWrite))
             rest == IF Buffer1 = null THEN SubSeq(two, 1, Len(two) - 1) ELSE two
  <2>3. /\ two \in Seq(Seq(Nat)) /\ Len(two) >= (IF Buffer2 = null THEN 2 ELSE 1)
        /\ Len(two) \in Nat
    BY <2>2
  <2>4. two # <<>>
    BY <2>3
  <2>5. Buffer2 = null => rest # <<>>
    <3> HIDE DEF two
    <3>1. rest = SubSeq(two, 1, Len(two) - 1)
      BY <2>2
    <3>2. Buffer2 = null => Len(rest) = Len(two) - 1 /\ Len(two) >= 2
      BY <2>3, <3>1
    <3> HIDE DEF rest
    <3> QED BY <2>3, <3>2
  <2>6. Buffer1' = <<>> /\ Buffer2' = <<>>
    <3>1. /\ Buffer1' = IF Buffer1 # null THEN Buffer1 ELSE IF two = <<>> THEN null ELSE <<>>
          /\ Buffer2' = IF Buffer2 # null THEN Buffer2 ELSE IF rest = <<>> THEN null ELSE <<>>
      BY <1>14 DEF Refill
    <3> HIDE DEF two, rest
    <3> QED BY <2>2, <2>4, <2>5, <3>1 DEF BufferInv
  <2> QED BY <2>1, <2>6 DEF BufferInv, BuffersGoRound
<1> QED BY <1>1, <1>2, <1>3, <1>4, <1>5, <1>6, <1>7, <1>8, <1>9, <1>10, <1>11, <1>12, <1>13, <1>14
   DEF Next, Owner, Logger

\* The assertions of threadFunc hold: the logger has its two empty buffers whenever it
\* exchanges them and something to write and to empty afterwards (AsyncLogging.cc:57-59,
\* 73, 95, 102).
THEOREM BuffersNeverRunOut == Spec => []BuffersGoRound
<1>1. BufferInv => BuffersGoRound
  BY DEF BufferInv
<1> QED BY <1>1, BufferInit, BufferStep, PTL DEF Spec

\* k lines of a write are in the files, the others are lost.
Takes(lines, k) ==
  /\ Logged' = Logged \o SubSeq(lines, 1, k)
  /\ lost' = lost \cup ToSet(SubSeq(lines, k + 1, Len(lines)))

\* What a write does to the log.
LEMMA WrittenDoes ==
  ASSUME LogInv, pc \notin {"none", "begin"},
         NEW lines \in Seq(Nat), NEW n \in 0..Len(lines), Written(lines, n)
  PROVE  /\ IsLog(output') /\ output'.files # <<>>
         /\ RollDone(output', appendTime') /\ appendTime' \in Nat
         /\ \E k \in 0..Len(lines) : Takes(lines, k)
<1>1. IsLog(output) /\ output.files # <<>>
  BY DEF LogInv
<1>2. PICK t \in Times, u \in Times :
        /\ output' = Log!append_unlocked(output, lines, n, t, u)
        /\ appendTime' = IF Log!Rolls(Log!file_append(output, lines, n), t) THEN u ELSE t
  BY DEF Written
<1>a. t \in Nat /\ u \in Nat
  BY LoggingAssumption
<1>3. /\ IsLog(output') /\ output'.files # <<>>
      /\ FlattenSeq(output'.files) = FlattenSeq(output.files) \o SubSeq(lines, 1, Taken(output, n))
      /\ RollDone(output', appendTime')
  <2> DEFINE w == Log!file_append(output, lines, n)
  <2>1. /\ IsLog(w) /\ w.files # <<>>
        /\ FlattenSeq(w.files) = FlattenSeq(output.files) \o SubSeq(lines, 1, Taken(output, n))
    BY <1>1, FileAppendDoes
  <2>2. output' = IF Log!Rolls(w, t) THEN Log!rollFile(w, u)
                  ELSE IF t > w.lastFlush_ + FlushInterval THEN Log!flush([w EXCEPT !.lastFlush_ = t])
                  ELSE w
    BY <1>2 DEF Log!append_unlocked
  <2>3. appendTime' = IF Log!Rolls(w, t) THEN u ELSE t
    BY <1>2
  <2> HIDE DEF w
  <2> QED BY <1>a, <2>1, <2>2, <2>3, RollOrFlush
<1> DEFINE k == Taken(output, n)
<1>4. k \in 0..Len(lines) /\ k + 1 = IF output.err_ THEN 1 ELSE n + 1
  BY DEF Taken
<1>5. lost' = lost \cup ToSet(SubSeq(lines, IF output.err_ THEN 1 ELSE n + 1, Len(lines)))
  BY DEF Written
<1>6. Takes(lines, k)
  <2> HIDE DEF k
  <2>1. Logged' = Logged \o SubSeq(lines, 1, k)
    BY <1>3 DEF Logged, k
  <2>2. lost' = lost \cup ToSet(SubSeq(lines, k + 1, Len(lines)))
    BY <1>4, <1>5
  <2> QED BY <2>1, <2>2 DEF Takes
<1> HIDE DEF k
<1> QED BY <1>2, <1>a, <1>3, <1>4, <1>6

LEMMA FlushDoes ==
  ASSUME NEW l, IsLog(l)
  PROVE  /\ IsLog(Log!flush(l)) /\ Log!flush(l).files = l.files /\ ~Log!flush(l).buffered
         /\ \A t : RollDone(l, t) => RollDone(Log!flush(l), t)
<1> DEFINE f == Log!flush(l)
<1>1. l \in Logs
  BY DEF IsLog
<1>2. /\ f \in Logs /\ f.files = l.files /\ f.names = l.names /\ f.lastRoll_ = l.lastRoll_
      /\ f.startOfPeriod_ = l.startOfPeriod_ /\ f.writtenBytes_ = l.writtenBytes_ /\ ~f.buffered
  BY <1>1 DEF Logs, Log!flush
<1> HIDE DEF f
<1>3. IsLog(f)
  BY <1>2 DEF IsLog
<1>4. \A t : RollDone(l, t) => RollDone(f, t)
  BY <1>2 DEF RollDone, Log!writtenBytes
<1> QED BY <1>2, <1>3, <1>4 DEF f

LEMMA OpenedDoes ==
  ASSUME NEW t \in Times, NEW r, r = Log!Opened(t)
  PROVE  /\ IsLog(r) /\ r.files # <<>> /\ FlattenSeq(r.files) = <<>>
         /\ ~r.buffered /\ RollDone(r, t)
<1> DEFINE l == [names |-> <<>>, files |-> <<>>, lastRoll_ |-> 0, lastFlush_ |-> 0,
                 startOfPeriod_ |-> 0, err_ |-> FALSE, writtenBytes_ |-> 0, buffered |-> FALSE]
<1>1. r = Log!rollFile(l, t)
  BY DEF Log!Opened
<1>2. l \in Logs
  BY NullIsNoBuffer DEF Logs
<1>3. l.names = <<>> /\ l.files = <<>> /\ l.lastRoll_ = 0
  OBVIOUS
<1> HIDE DEF l
<1>4. Ordered(<<>>, 0)
  BY DEF Ordered
<1>5. IsLog(l)
  BY <1>2, <1>3, <1>4 DEF IsLog
<1>6. t \in Nat /\ t > 0
  BY LoggingAssumption
<1>7. FlattenSeq(<<>>) = <<>>
  BY DEF FlattenSeq
<1> QED BY <1>1, <1>3, <1>5, <1>6, <1>7, RollDoes DEF RollDone

LEMMA LogInit == Init => LogInv
BY DEF Init, LogInv

LEMMA LogStep == BufferInv /\ LogInv /\ [Next]_vars => LogInv'
<1> SUFFICES ASSUME BufferInv, LogInv, [Next]_vars PROVE LogInv'
  OBVIOUS
<1>1. CASE UNCHANGED vars
  BY <1>1 DEF vars, LogInv
<1>2. CASE append
  <2>1. /\ UNCHANGED <<output, appendTime>>
        /\ pc' = pc \/ (pc = "waiting" /\ pc' = "woken")
    BY <1>2 DEF append, Notify, written
  <2> QED BY <2>1 DEF LogInv
<1>3. CASE start
  <2>1. UNCHANGED <<output, appendTime>> /\ pc = "none" /\ pc' = "begin"
    BY <1>3 DEF start, written, front, BufferInv
  <2> QED BY <2>1 DEF LogInv
<1>4. CASE stop
  <2>1. UNCHANGED <<output, appendTime, pc>>
    BY <1>4 DEF stop, written, front
  <2> QED BY <2>1 DEF LogInv
<1>5. CASE stopNotifies
  <2>1. /\ UNCHANGED <<output, appendTime>>
        /\ pc' = pc \/ (pc = "waiting" /\ pc' = "woken")
    BY <1>5 DEF stopNotifies, Notify, written, front
  <2> QED BY <2>1 DEF LogInv
<1>6. CASE stopJoins
  <2>1. UNCHANGED <<output, appendTime, pc>>
    BY <1>6 DEF stopJoins, written, front
  <2> QED BY <2>1 DEF LogInv
<1>7. CASE Begin
  <2>1. PICK t \in Times : appendTime' = t /\ output' = Log!Opened(t) /\ pc' = "loop"
    BY <1>7 DEF Begin, front
  <2>2. t \in Nat
    BY LoggingAssumption
  <2> QED BY <2>1, <2>2, OpenedDoes DEF LogInv
<1>8. CASE CheckRunning
  <2>1. /\ UNCHANGED appendTime /\ pc = "loop" /\ pc' \in {"lock", "done"}
        /\ output' \in {output, Log!flush(output)}
    BY <1>8 DEF CheckRunning, front
  <2> QED BY <2>1, FlushDoes DEF LogInv
<1>9. CASE Wait
  <2>1. UNCHANGED <<output, appendTime>> /\ pc = "lock" /\ pc' = "waiting"
    BY <1>9 DEF Wait, written, front
  <2> QED BY <2>1 DEF LogInv
<1>10. CASE Timeout
  <2>1. UNCHANGED <<output, appendTime>> /\ pc = "waiting" /\ pc' = "woken"
    BY <1>10 DEF Timeout, written, front
  <2> QED BY <2>1 DEF LogInv
<1>11. CASE Swap
  <2>1. UNCHANGED <<output, appendTime>> /\ pc \in {"woken", "lock"} /\ pc' = "drop"
    BY <1>11 DEF Swap, written
  <2> QED BY <2>1 DEF LogInv
<1>12. CASE Drop
  <2>1. pc = "drop" /\ pc' = "write"
    BY <1>12 DEF Drop, front
  <2>2. CASE TooMany
    <3>1. PICK n \in 0..1 : Written(<<Notice>>, n)
      BY <1>12, <2>2 DEF Drop
    <3>2. <<Notice>> \in Seq(Nat) /\ Len(<<Notice>>) = 1
      BY DEF Notice
    <3>3. /\ IsLog(output') /\ output'.files # <<>>
          /\ RollDone(output', appendTime') /\ appendTime' \in Nat
      BY <2>1, <3>1, <3>2, WrittenDoes
    <3> QED BY <2>1, <3>3 DEF LogInv
  <2>3. CASE ~TooMany
    <3>1. UNCHANGED <<output, appendTime>>
      BY <1>12, <2>3 DEF Drop, written
    <3> QED BY <2>1, <3>1 DEF LogInv
  <2> QED BY <2>2, <2>3
<1>13. CASE Write
  <2>1. UNCHANGED pc /\ pc = "write" /\ next \in 1..Len(toWrite)
    BY <1>13, LoggingAssumption DEF Write, front, LogInv, BufferInv
  <2>2. toWrite[next] \in Seq(Nat)
    BY <2>1 DEF BufferInv
  <2>3. PICK n \in 0..Len(toWrite[next]) : Written(toWrite[next], n)
    BY <1>13 DEF Write
  <2>4. /\ IsLog(output') /\ output'.files # <<>>
        /\ RollDone(output', appendTime') /\ appendTime' \in Nat
    BY <2>1, <2>2, <2>3, WrittenDoes
  <2> QED BY <2>1, <2>4 DEF LogInv
<1>14. CASE Refill
  <2>1. /\ UNCHANGED appendTime /\ pc = "write" /\ pc' = "loop"
        /\ output' = Log!flush(output)
    BY <1>14 DEF Refill, front
  <2> QED BY <2>1, FlushDoes DEF LogInv
<1> QED BY <1>1, <1>2, <1>3, <1>4, <1>5, <1>6, <1>7, <1>8, <1>9, <1>10, <1>11, <1>12, <1>13, <1>14
   DEF Next, Owner, Logger

\* However the clock is set, files get different names, the current one is rolled when
\* it is due unless it is too young, and flushed whenever the logger is not writing
\* (FileUtil.cc:157-188, AsyncLogging.cc:108-111).
THEOREM FilesAlwaysRoll == Spec => []FilesRoll
<1>1. LogInv => FilesRoll
  BY DEF LogInv, FilesRoll, IsLog, Ordered, RollDone
<1> QED BY <1>1, BufferInit, BufferStep, LogInit, LogStep, PTL DEF Spec

(***************************************************************************)
(* The lines.                                                              *)
(***************************************************************************)

\* The lines the logger holds, and those in front.
Rest == FlattenSeq(SubSeq(toWrite, next, Len(toWrite)))
InFront == FlattenSeq(buffers_) \o currentBuffer_

LEMMA PartsType ==
  ASSUME BufferInv, LogInv
  PROVE  /\ Logged \in Seq(Nat) /\ Rest \in Seq(Nat) /\ InFront \in Seq(Nat)
         /\ Rest \o InFront \in Seq(Nat)
         /\ FlattenSeq(buffers_) \in Seq(Nat) /\ currentBuffer_ \in Seq(Nat)
<1>1. Logged \in Seq(Nat)
  <2>1. output.files \in Seq(Seq(Nat))
    BY NullIsNoBuffer DEF LogInv, IsLog, Logs
  <2> QED BY <2>1, FlattenType DEF Logged
<1>2. Rest \in Seq(Nat)
  <2>1. SubSeq(toWrite, next, Len(toWrite)) \in Seq(Seq(Nat))
    BY DEF BufferInv
  <2> QED BY <2>1, FlattenType DEF Rest
<1>3. FlattenSeq(buffers_) \in Seq(Nat) /\ currentBuffer_ \in Seq(Nat)
  BY FlattenType DEF BufferInv
<1>4. InFront \in Seq(Nat)
  BY <1>3, ConcatProperties DEF InFront
<1>5. Rest \o InFront \in Seq(Nat)
  BY <1>2, <1>4, ConcatProperties
<1> QED BY <1>1, <1>2, <1>3, <1>4, <1>5

\* All lines, by where they are.
LEMMA KeptIs ==
  ASSUME BufferInv, LogInv
  PROVE  Kept = Logged \o (Rest \o InFront)
<1> DEFINE F == FlattenSeq(buffers_)
<1>1. /\ Logged \in Seq(Nat) /\ Rest \in Seq(Nat) /\ F \in Seq(Nat) /\ currentBuffer_ \in Seq(Nat)
      /\ Logged \o Rest \in Seq(Nat)
  BY PartsType, ConcatProperties
<1>2. Kept = ((Logged \o Rest) \o F) \o currentBuffer_
  BY DEF Kept, Rest
<1>3. InFront = F \o currentBuffer_
  BY DEF InFront
<1> HIDE DEF F
<1>4. \A a, b, c \in Seq(Nat) : (a \o b) \o c = a \o (b \o c)
  BY ConcatThree
<1>5. ((Logged \o Rest) \o F) \o currentBuffer_ = (Logged \o Rest) \o InFront
  BY <1>1, <1>3, <1>4
<1>6. (Logged \o Rest) \o InFront = Logged \o (Rest \o InFront)
  <2>1. Logged \in Seq(Nat) /\ Rest \in Seq(Nat) /\ InFront \in Seq(Nat)
    BY PartsType
  <2> QED BY ONLY <2>1, <1>4
<1> QED BY <1>2, <1>5, <1>6

LEMMA KeptIsAlways == (BufferInv /\ LogInv => Kept = Logged \o (Rest \o InFront))'
<1>1. BufferInv /\ LogInv => Kept = Logged \o (Rest \o InFront)
  BY KeptIs
<1> QED BY <1>1, PTL

\* LinesInOrder in the words of the lemmas.
LEMMA LinesAre ==
  LinesInOrder <=> /\ InOrder(Kept)
                   /\ ToSet(Kept) \ {Notice} = 1..numLines \ (dropped \cup lost)
                   /\ dropped # {} => Notice \in ToSet(Logged) \cup lost
BY DEF LinesInOrder, InOrder

\* A step that leaves all lines where they are, or moves a piece as a whole.
LEMMA SameKept ==
  ASSUME OrderInv, Kept' = Kept, Logged' = Logged, UNCHANGED <<numLines, dropped, lost>>
  PROVE  OrderInv'
BY DEF OrderInv, LinesInOrder, Past

\* A line is appended.
LEMMA NewLine ==
  ASSUME BufferInv, LogInv, OrderInv, numLines' = numLines + 1, Kept' = Kept \o <<numLines'>>,
         Logged' = Logged, UNCHANGED <<dropped, lost>>
  PROVE  OrderInv'
<1> DEFINE new == <<numLines'>>
<1>1. numLines \in Nat /\ new \in Seq(Nat) /\ Kept \in Seq(Nat)
  <2>1. numLines \in Nat /\ new \in Seq(Nat)
    BY DEF BufferInv
  <2>2. Kept \in Seq(Nat)
    BY PartsType, KeptIs, ConcatProperties
  <2> QED BY <2>1, <2>2
<1>2. InOrder(Kept) /\ ToSet(Kept) \ {Notice} = 1..numLines \ (dropped \cup lost)
  BY LinesAre DEF OrderInv
<1>3. InOrder(new)
  BY <1>1 DEF InOrder
<1>4. ToSet(new) = {numLines'}
  BY DEF ToSet
<1> HIDE DEF new
<1>5. ASSUME NEW a \in ToSet(Kept), a # Notice PROVE a < numLines'
  BY <1>1, <1>2, <1>5
<1>6. Before(Kept, new)
  BY <1>1, <1>4, <1>5, BeforeSets
<1>7. InOrder(Kept')
  BY <1>1, <1>2, <1>3, <1>6, ConcatInOrder DEF new
<1>8. ToSet(Kept') = ToSet(Kept) \cup {numLines'}
  BY <1>1, <1>4, ConcatSet DEF new
<1>9. numLines' \notin dropped \cup lost /\ numLines' # Notice
  BY <1>1 DEF OrderInv, Past, Notice
<1>10. 1..numLines' = 1..numLines \cup {numLines'}
  BY <1>1
<1>11. ToSet(Kept') \ {Notice} = 1..numLines' \ (dropped' \cup lost')
  BY <1>2, <1>8, <1>9, <1>10
<1>12. Past'
  BY <1>1 DEF OrderInv, Past
<1>13. (dropped # {} => Notice \in ToSet(Logged) \cup lost)'
  BY DEF OrderInv, LinesInOrder
<1>14. LinesInOrder'
  BY <1>7, <1>11, <1>13 DEF LinesInOrder, InOrder
<1> QED BY <1>12, <1>14 DEF OrderInv

\* Lines q are taken out, and end up among those dropped or lost.
LEMMA CutLines ==
  ASSUME BufferInv, LogInv, OrderInv, NEW a \in Seq(Nat), NEW q \in Seq(Nat), NEW x \in Seq(Nat),
         Kept = a \o (q \o x)
  PROVE  /\ InOrder(a \o x)
         /\ ToSet(a \o x) \ {Notice} = 1..numLines \ (dropped \cup lost \cup ToSet(q))
         /\ \A line \in ToSet(q) : line \in Nat /\ line <= numLines
<1>1. InOrder(Kept) /\ ToSet(Kept) \ {Notice} = 1..numLines \ (dropped \cup lost)
  BY LinesAre DEF OrderInv
<1>2. /\ InOrder(a \o x)
      /\ ToSet(a \o x) \ {Notice} = (ToSet(Kept) \ {Notice}) \ ToSet(q)
  BY <1>1, Cut
<1>3. ToSet(a \o x) \ {Notice} = 1..numLines \ (dropped \cup lost \cup ToSet(q))
  BY <1>1, <1>2
<1>4. ToSet(q) \subseteq ToSet(Kept)
  <2>1. ToSet(q \o x) = ToSet(q) \cup ToSet(x) /\ q \o x \in Seq(Nat)
    BY ConcatSet, ConcatProperties
  <2>2. ToSet(a \o (q \o x)) = ToSet(a) \cup ToSet(q \o x)
    BY <2>1, ConcatSet
  <2> QED BY <2>1, <2>2
<1>5. \A line \in ToSet(q) : line = 0 \/ line \in 1..numLines
  BY <1>1, <1>4 DEF Notice
<1>6. numLines \in Nat
  BY DEF BufferInv
<1> QED BY <1>2, <1>3, <1>5, <1>6

\* append() adds one line at the end.
LEMMA AppendAddsLine ==
  ASSUME BufferInv, LogInv, BufferInv', LogInv', append
  PROVE  /\ numLines' = numLines + 1 /\ UNCHANGED <<dropped, lost>>
         /\ Logged' = Logged /\ Kept' = Kept \o <<numLines'>>
<1>1. /\ numLines' = numLines + 1 /\ UNCHANGED <<dropped, lost, output, toWrite, next>>
      /\ numLines' \in Nat
  BY DEF append, written, faults, back, BufferInv
<1>2. Logged' = Logged /\ Rest' = Rest
  BY <1>1 DEF Logged, Rest
<1> DEFINE new == <<numLines'>>
           F == FlattenSeq(buffers_)
<1>3. /\ new \in Seq(Nat) /\ F \in Seq(Nat) /\ currentBuffer_ \in Seq(Nat)
      /\ buffers_ \in Seq(Seq(Nat))
  BY <1>1, PartsType DEF BufferInv
<1>4. Append(currentBuffer_, numLines') = currentBuffer_ \o new
  BY <1>1, <1>3
<1>5. InFront' = InFront \o new
  <2>1. CASE Len(currentBuffer_) < Capacity
    <3>1. currentBuffer_' = currentBuffer_ \o new /\ buffers_' = buffers_
      BY <1>4, <2>1 DEF append
    <3>2. InFront' = F \o (currentBuffer_ \o new)
      BY <3>1 DEF InFront
    <3> HIDE DEF F, new
    <3>3. (F \o currentBuffer_) \o new = F \o (currentBuffer_ \o new)
      BY ONLY <1>3, ConcatLines
    <3> QED BY <3>2, <3>3 DEF InFront, F
  <2>2. CASE ~(Len(currentBuffer_) < Capacity)
    <3>1. /\ buffers_' = Append(buffers_, currentBuffer_)
          /\ currentBuffer_' = Append(IF nextBuffer_ # null THEN nextBuffer_ ELSE <<>>, numLines')
      BY <2>2 DEF append
    <3>2. (IF nextBuffer_ # null THEN nextBuffer_ ELSE <<>>) = <<>>
      BY DEF BufferInv
    <3>3. currentBuffer_' = new
      <4>1. currentBuffer_' = Append(<<>>, numLines')
        BY <3>1, <3>2
      <4>2. \A line \in Nat : Append(<<>>, line) = <<line>>
        OBVIOUS
      <4> QED BY <1>1, <4>1, <4>2
    <3>4. FlattenSeq(buffers_') = F \o currentBuffer_
      BY <1>3, <3>1, FlattenAppend
    <3> QED BY <3>3, <3>4 DEF InFront
  <2> QED BY <2>1, <2>2
<1>6. Kept = Logged \o (Rest \o InFront) /\ Kept' = Logged' \o (Rest' \o InFront')
  BY KeptIs, KeptIsAlways
<1>7. /\ Logged \in Seq(Nat) /\ Rest \in Seq(Nat) /\ InFront \in Seq(Nat)
      /\ Rest \o InFront \in Seq(Nat)
  BY PartsType
<1> HIDE DEF new, F
<1>8. Logged \o (Rest \o (InFront \o new)) = (Logged \o (Rest \o InFront)) \o new
  <2>1. Join(Logged, Join(Rest, Join(InFront, new))) = Join(Join(Logged, Join(Rest, InFront)), new)
    BY <1>3, <1>7, JoinFour
  <2> QED BY <2>1 DEF Join
<1>9. Kept' = Kept \o new
  BY <1>2, <1>5, <1>6, <1>8
<1> QED BY <1>1, <1>2, <1>9 DEF new

\* The exchange of the buffers moves all lines in front to the logger.
LEMMA SwapMoves ==
  ASSUME BufferInv, LogInv, BufferInv', LogInv', Swap
  PROVE  Logged' = Logged /\ Kept' = Kept
<1>1. /\ toWrite = <<>> /\ Buffer1 = <<>> /\ next' = 1 /\ UNCHANGED output
      /\ toWrite' = Append(buffers_, currentBuffer_) /\ buffers_' = <<>> /\ currentBuffer_' = Buffer1
  BY DEF Swap, BufferInv, BuffersGoRound, written
<1>2. FlattenSeq(<<>>) = <<>> /\ \A s \in Seq(Nat) : <<>> \o s = s /\ s \o <<>> = s
  BY ConcatEmptySeq DEF FlattenSeq
<1>3. Rest = <<>>
  <2>1. SubSeq(<<>>, next, Len(<<>>)) = <<>>
    BY SubSeqEmpty DEF BufferInv
  <2> QED BY <1>1, <1>2, <2>1 DEF Rest
<1>4. InFront' = <<>>
  BY <1>1, <1>2, NullIsNoBuffer DEF InFront
<1>5. Rest' = InFront
  <2>1. buffers_ \in Seq(Seq(Nat)) /\ currentBuffer_ \in Seq(Nat) /\ toWrite' \in Seq(Seq(Nat))
    BY DEF BufferInv
  <2>2. SubSeq(toWrite', 1, Len(toWrite')) = toWrite'
    BY <2>1, SubSeqFull
  <2>3. Rest' = FlattenSeq(Append(buffers_, currentBuffer_))
    BY <1>1, <2>2 DEF Rest
  <2> QED BY <2>1, <2>3, FlattenAppend DEF InFront
<1>6. Logged' = Logged
  BY <1>1 DEF Logged
<1>7. Rest' \o InFront' = Rest \o InFront
  BY <1>2, <1>3, <1>4, <1>5, PartsType
<1>8. Kept = Logged \o (Rest \o InFront) /\ Kept' = Logged' \o (Rest' \o InFront')
  BY KeptIs, KeptIsAlways
<1> QED BY <1>6, <1>7, <1>8

\* A buffer is written: its lines are in the files or lost.
LEMMA WriteMoves ==
  ASSUME BufferInv, LogInv, OrderInv, BufferInv', LogInv', Write
  PROVE  OrderInv'
<1>1. /\ UNCHANGED <<buffers_, currentBuffer_, numLines, toWrite, dropped>> /\ next' = next + 1
      /\ next \in 1..Len(toWrite) /\ pc = "write" /\ toWrite \in Seq(Seq(Nat))
  BY DEF Write, front, BufferInv
<1> DEFINE lines == toWrite[next]
           R == FlattenSeq(SubSeq(toWrite, next + 1, Len(toWrite)))
           x == R \o InFront
<1>2. lines \in Seq(Nat) /\ SubSeq(toWrite, next + 1, Len(toWrite)) \in Seq(Seq(Nat))
  BY <1>1
<1>3. R \in Seq(Nat)
  BY <1>2, FlattenType
<1>4. PICK n \in 0..Len(lines) : Written(lines, n)
  BY DEF Write
<1>5. PICK k \in 0..Len(lines) : Takes(lines, k)
  BY <1>1, <1>2, <1>4, WrittenDoes
<1> DEFINE p == SubSeq(lines, 1, k)
           q == SubSeq(lines, k + 1, Len(lines))
<1>6. Logged' = Logged \o p /\ lost' = lost \cup ToSet(q)
  BY <1>5 DEF Takes
<1>7. p \in Seq(Nat) /\ q \in Seq(Nat)
  BY <1>2
<1>8. lines = p \o q
  <2> HIDE DEF lines
  <2>1. 1 \in 1 .. Len(lines) + 1 /\ k \in 1 - 1 .. Len(lines) /\ Len(lines) \in k .. Len(lines)
    BY <1>2
  <2> QED BY <1>2, <2>1, ConcatAdjacentSubSeq, SubSeqFull
<1>9. Rest = lines \o R
  BY <1>1, FlattenRest DEF Rest
<1>10. Rest' = R /\ InFront' = InFront
  BY <1>1 DEF Rest, InFront
<1>11. Kept = Logged \o (Rest \o InFront) /\ Kept' = Logged' \o (Rest' \o InFront')
  BY KeptIs, KeptIsAlways
<1>12. Logged \in Seq(Nat) /\ InFront \in Seq(Nat)
  BY PartsType
<1>13. Kept' = (Logged \o p) \o x
  BY <1>6, <1>10, <1>11
<1>14. Kept = Logged \o (((p \o q) \o R) \o InFront)
  BY <1>8, <1>9, <1>11
<1> HIDE DEF lines, R, p, q
<1>15. /\ x \in Seq(Nat) /\ Logged \o p \in Seq(Nat) /\ p \o q \in Seq(Nat)
       /\ q \o x \in Seq(Nat)
  BY <1>3, <1>7, <1>12, ConcatProperties
<1>16. Kept = (Logged \o p) \o (q \o x)
  <2>1. ((p \o q) \o R) \o InFront = (p \o q) \o (R \o InFront)
    <3>1. Join(Join(Join(p, q), R), InFront) = Join(Join(p, q), Join(R, InFront))
      BY <1>3, <1>7, <1>12, JoinFour
    <3> QED BY <3>1 DEF Join
  <2> HIDE DEF x
  <2>2. (p \o q) \o x = p \o (q \o x)
    BY ONLY <1>7, <1>15, ConcatLines
  <2>3. Logged \o (p \o (q \o x)) = (Logged \o p) \o (q \o x)
    <3>1. Join(Logged, Join(p, Join(q, x))) = Join(Join(Logged, p), Join(q, x))
      BY <1>7, <1>12, <1>15, JoinFour
    <3> QED BY <3>1 DEF Join
  <2> QED BY <1>14, <2>1, <2>2, <2>3 DEF x
<1> HIDE DEF x
<1>17. /\ InOrder(Kept')
       /\ ToSet(Kept') \ {Notice} = 1..numLines \ (dropped \cup lost \cup ToSet(q))
       /\ \A line \in ToSet(q) : line \in Nat /\ line <= numLines
  BY <1>7, <1>13, <1>15, <1>16, CutLines
<1>18. ToSet(Logged') = ToSet(Logged) \cup ToSet(p)
  BY <1>6, <1>7, <1>12, ConcatSet
<1>19. (dropped # {} => Notice \in ToSet(Logged) \cup lost)'
  BY <1>1, <1>6, <1>18 DEF OrderInv, LinesInOrder
<1>20. ToSet(Kept') \ {Notice} = 1..numLines' \ (dropped' \cup lost')
  <2>1. dropped \cup lost \cup ToSet(q) = dropped' \cup lost' /\ numLines' = numLines
    BY <1>1, <1>6
  <2> QED BY <1>17, <2>1
<1>21. LinesInOrder'
  BY <1>17, <1>19, <1>20 DEF LinesInOrder, InOrder
<1>22. Past'
  BY <1>1, <1>6, <1>17 DEF OrderInv, Past
<1> QED BY <1>21, <1>22 DEF OrderInv

\* Of too many buffers the lines of all but two are dropped, and a notice says so.
LEMMA DropMoves ==
  ASSUME BufferInv, LogInv, OrderInv, BufferInv', LogInv', Drop, TooMany
  PROVE  OrderInv'
<1> DEFINE F == FlattenSeq(SubSeq(toWrite, 1, 2))
           q == FlattenSeq(SubSeq(toWrite, 3, Len(toWrite)))
           x == F \o InFront
<1>1. /\ UNCHANGED <<buffers_, currentBuffer_, numLines, next>> /\ next = 1 /\ pc = "drop"
      /\ toWrite' = SubSeq(toWrite, 1, 2) /\ dropped' = dropped \cup ToSet(q)
      /\ toWrite \in Seq(Seq(Nat)) /\ numLines \in Nat
  BY DEF Drop, front, BufferInv
<1>2. 2 \in 0..Len(toWrite) /\ 2 + 1 = 3
  BY <1>1, LoggingAssumption DEF TooMany
<1>3. /\ SubSeq(toWrite, 1, 2) \in Seq(Seq(Nat)) /\ SubSeq(toWrite, 3, Len(toWrite)) \in Seq(Seq(Nat))
      /\ FlattenSeq(toWrite) = F \o q
  BY <1>1, <1>2, FlattenSplit
<1>4. F \in Seq(Nat) /\ q \in Seq(Nat)
  BY <1>3, FlattenType
<1>5. Rest = F \o q
  <2>1. SubSeq(toWrite, 1, Len(toWrite)) = toWrite
    BY <1>1, SubSeqFull
  <2> QED BY <1>1, <1>3, <2>1 DEF Rest
<1>6. Rest' = F /\ InFront' = InFront
  <2>1. SubSeq(toWrite', 1, Len(toWrite')) = toWrite'
    BY <1>1, <1>3, SubSeqFull
  <2> QED BY <1>1, <2>1 DEF Rest, InFront
<1>7. <<Notice>> \in Seq(Nat) /\ Len(<<Notice>>) = 1
  BY DEF Notice
<1>8. PICK n \in 0..1 : Written(<<Notice>>, n)
  BY DEF Drop
<1>9. PICK k \in 0..1 : Takes(<<Notice>>, k)
  BY <1>1, <1>7, <1>8, WrittenDoes
<1> DEFINE p == SubSeq(<<Notice>>, 1, k)
<1>10. /\ p \in Seq({Notice}) /\ p \in Seq(Nat)
       /\ ToSet(SubSeq(<<Notice>>, k + 1, 1)) \subseteq {Notice}
       /\ Notice \in ToSet(p) \cup ToSet(SubSeq(<<Notice>>, k + 1, 1))
  <2>1. CASE k = 0
    <3>1. SubSeq(<<Notice>>, 1, 0) = <<>>
      BY SubSeqEmpty
    <3>2. SubSeq(<<Notice>>, 1, 1) = <<Notice>>
      BY <1>7, SubSeqFull
    <3>3. p = <<>> /\ SubSeq(<<Notice>>, k + 1, 1) = <<Notice>>
      BY <2>1, <3>1, <3>2
    <3>4. ToSet(<<Notice>>) = {Notice}
      BY DEF ToSet
    <3>5. <<>> \in Seq({Notice}) /\ <<>> \in Seq(Nat)
      BY EmptySeq
    <3> HIDE DEF p
    <3> QED BY <3>3, <3>4, <3>5
  <2>2. CASE k = 1
    <3>a. SubSeq(<<Notice>>, 1, 1) = <<Notice>>
      BY <1>7, SubSeqFull
    <3>b. SubSeq(<<Notice>>, 2, 1) = <<>>
      BY SubSeqEmpty
    <3>1. p = <<Notice>> /\ SubSeq(<<Notice>>, k + 1, 1) = <<>>
      BY <2>2, <3>a, <3>b
    <3>2. ToSet(<<Notice>>) = {Notice} /\ ToSet(<<>>) = {}
      BY DEF ToSet
    <3>3. <<Notice>> \in Seq({Notice})
      OBVIOUS
    <3> QED BY <1>7, <3>1, <3>2, <3>3
  <2> QED BY <2>1, <2>2
<1>11. Logged' = Logged \o p /\ lost' = lost \cup ToSet(SubSeq(<<Notice>>, k + 1, 1))
  BY <1>7, <1>9 DEF Takes
<1>12. Kept = Logged \o (Rest \o InFront) /\ Kept' = Logged' \o (Rest' \o InFront')
  BY KeptIs, KeptIsAlways
<1>13. Logged \in Seq(Nat) /\ InFront \in Seq(Nat)
  BY PartsType
<1> HIDE DEF F, q, p
<1>14. x \in Seq(Nat) /\ Logged \o F \in Seq(Nat)
  BY <1>4, <1>13, ConcatProperties
<1>15. Kept = (Logged \o F) \o (q \o InFront)
  <2>1. /\ Join(Join(F, q), InFront) = Join(F, Join(q, InFront))
        /\ Join(Logged, Join(F, Join(q, InFront))) = Join(Join(Logged, F), Join(q, InFront))
    <3>1. Join(Join(F, q), InFront) = Join(F, Join(q, InFront))
      BY ONLY <1>4, <1>13, ConcatLines DEF Join
    <3>2. Join(Logged, Join(F, Join(q, InFront))) = Join(Join(Logged, F), Join(q, InFront))
      BY <1>4, <1>13, JoinFour
    <3> QED BY <3>1, <3>2
  <2>2. Kept = Join(Logged, Join(Join(F, q), InFront))
    BY <1>5, <1>12 DEF Join
  <2>3. Kept = Join(Join(Logged, F), Join(q, InFront))
    BY <2>1, <2>2
  <2> QED BY <2>3 DEF Join
<1>16. /\ InOrder((Logged \o F) \o InFront)
       /\ ToSet((Logged \o F) \o InFront) \ {Notice} = 1..numLines \ (dropped \cup lost \cup ToSet(q))
       /\ \A line \in ToSet(q) : line \in Nat /\ line <= numLines
  BY <1>4, <1>13, <1>14, <1>15, CutLines
<1>17. (Logged \o F) \o InFront = Logged \o x
  BY ONLY <1>4, <1>13, ConcatLines DEF x
<1> HIDE DEF x
<1>18. /\ InOrder(Logged \o (p \o x))
       /\ ToSet(Logged \o (p \o x)) \ {Notice} = ToSet(Logged \o x) \ {Notice}
  <2>1. InOrder(Logged \o x)
    BY <1>16, <1>17
  <2>2. InOrder(Logged \o (p \o x))
    BY <1>10, <1>13, <1>14, <2>1, Insert
  <2>3. SameLines(Logged \o (p \o x), Logged \o x)
    BY <1>10, <1>13, <1>14, <2>1, Insert
  <2> QED BY <2>2, <2>3 DEF SameLines
<1>19. Kept' = Logged \o (p \o x)
  <2>1. Kept' = (Logged \o p) \o x
    BY <1>6, <1>11, <1>12 DEF x
  <2>2. (Logged \o p) \o x = Logged \o (p \o x)
    BY ONLY <1>10, <1>13, <1>14, ConcatLines
  <2> QED BY <2>1, <2>2
<1>20. ToSet(Kept') \ {Notice} = 1..numLines' \ (dropped' \cup lost')
  <2>1. ToSet(Kept') \ {Notice} = 1..numLines \ (dropped \cup lost \cup ToSet(q))
    BY <1>16, <1>17, <1>18, <1>19
  <2>2. Notice \notin 1..numLines
    BY <1>1 DEF Notice
  <2>3. numLines' = numLines
    BY <1>1
  <2> QED BY <1>1, <1>10, <1>11, <2>1, <2>2, <2>3
<1>21. Notice \in ToSet(Logged') \cup lost'
  <2>1. ToSet(Logged') = ToSet(Logged) \cup ToSet(p)
    BY <1>10, <1>11, <1>13, ConcatSet
  <2> QED BY <1>10, <1>11, <2>1
<1>22. LinesInOrder'
  BY <1>18, <1>19, <1>20, <1>21 DEF LinesInOrder, InOrder
<1>23. Past'
  <2>1. Notice \in Nat /\ Notice <= numLines
    BY <1>1 DEF Notice
  <2> QED BY <1>1, <1>10, <1>11, <1>16, <2>1 DEF OrderInv, Past
<1> QED BY <1>22, <1>23 DEF OrderInv

LEMMA OrderInit == Init => OrderInv
<1> SUFFICES ASSUME Init PROVE OrderInv
  OBVIOUS
<1>1. BufferInv /\ LogInv
  BY BufferInit, LogInit
<1>2. FlattenSeq(<<>>) = <<>> /\ <<>> \o <<>> = <<>>
  BY DEF FlattenSeq
<1>3. Logged = <<>> /\ InFront = <<>>
  BY <1>2 DEF Init, Logged, InFront
<1>4. Rest = <<>>
  <2>1. SubSeq(<<>>, 1, Len(<<>>)) = <<>>
    BY SubSeqEmpty
  <2> QED BY <1>2, <2>1 DEF Init, Rest
<1>5. Kept = <<>>
  BY <1>1, <1>2, <1>3, <1>4, KeptIs
<1>6. ToSet(<<>>) = {} /\ InOrder(<<>>)
  BY DEF ToSet, InOrder
<1>7. 1..0 = {}
  OBVIOUS
<1> QED BY <1>5, <1>6, <1>7, LinesAre DEF OrderInv, Past, Init

\* A step that keeps the buffers and the lines in the files.
LEMMA NothingMoves ==
  ASSUME OrderInv, Logged' = Logged, UNCHANGED <<buffers_, currentBuffer_, numLines, toWrite, next, dropped, lost>>
  PROVE  OrderInv'
<1>1. Kept' = Kept
  BY DEF Kept
<1> QED BY <1>1, SameKept

LEMMA OrderStep ==
  BufferInv /\ LogInv /\ OrderInv /\ [Next]_vars /\ BufferInv' /\ LogInv' => OrderInv'
<1> SUFFICES ASSUME BufferInv, LogInv, OrderInv, [Next]_vars, BufferInv', LogInv' PROVE OrderInv'
  OBVIOUS
<1>0. /\ output' = output => Logged' = Logged
      /\ FlattenSeq(<<>>) = <<>>
  <2>1. output' = output => Logged' = Logged
    BY DEF Logged
  <2>2. FlattenSeq(<<>>) = <<>>
    BY DEF FlattenSeq
  <2> QED BY <2>1, <2>2
<1>1. CASE UNCHANGED vars
  BY <1>0, <1>1, NothingMoves DEF vars
<1>2. CASE append
  BY <1>2, AppendAddsLine, NewLine
<1>3. CASE start
  BY <1>0, <1>3, NothingMoves DEF start, front, back, written, faults
<1>4. CASE stop
  BY <1>0, <1>4, NothingMoves DEF stop, front, back, written, faults
<1>5. CASE stopNotifies
  BY <1>0, <1>5, NothingMoves DEF stopNotifies, front, back, written, faults
<1>6. CASE stopJoins
  BY <1>0, <1>6, NothingMoves DEF stopJoins, front, back, written, faults
<1>7. CASE Begin
  <2>1. PICK t \in Times :
          /\ pc = "begin" /\ output' = Log!Opened(t)
          /\ UNCHANGED <<buffers_, currentBuffer_, numLines, toWrite, next, dropped, lost>>
    BY <1>7 DEF Begin, front, faults
  <2>2. Logged = <<>>
    BY <1>0, <2>1 DEF LogInv, Logged
  <2>3. FlattenSeq(output'.files) = <<>>
    BY <2>1, OpenedDoes
  <2>4. Logged' = Logged
    BY <2>2, <2>3 DEF Logged
  <2> QED BY <2>1, <2>4, NothingMoves
<1>8. CASE CheckRunning
  <2>1. /\ pc = "loop" /\ output' \in {output, Log!flush(output)}
        /\ UNCHANGED <<buffers_, currentBuffer_, numLines, toWrite, next, dropped, lost>>
    BY <1>8 DEF CheckRunning, front, back, faults
  <2>2. Logged' = Logged
    BY <2>1, FlushDoes DEF LogInv, Logged
  <2> QED BY <2>1, <2>2, NothingMoves
<1>9. CASE Wait
  BY <1>0, <1>9, NothingMoves DEF Wait, front, back, written, faults
<1>10. CASE Timeout
  BY <1>0, <1>10, NothingMoves DEF Timeout, front, back, written, faults
<1>11. CASE Swap
  <2>1. UNCHANGED <<numLines, dropped, lost>>
    BY <1>11 DEF Swap, written, faults
  <2> QED BY <1>11, <2>1, SwapMoves, SameKept
<1>12. CASE Drop
  <2>1. CASE TooMany
    BY <1>12, <2>1, DropMoves
  <2>2. CASE ~TooMany
    BY <1>0, <1>12, <2>2, NothingMoves DEF Drop, front, written, faults
  <2> QED BY <2>1, <2>2
<1>13. CASE Write
  BY <1>13, WriteMoves
<1>14. CASE Refill
  <2>1. /\ pc = "write" /\ output' = Log!flush(output) /\ toWrite' = <<>> /\ next > Len(toWrite)
        /\ UNCHANGED <<buffers_, currentBuffer_, numLines, next, dropped, lost>>
    BY <1>14 DEF Refill, front, faults
  <2>2. Logged' = Logged
    BY <2>1, FlushDoes DEF LogInv, Logged
  <2>3. next \in Nat \ {0} /\ Len(toWrite) \in Nat
    BY DEF BufferInv
  <2>4. SubSeq(toWrite, next, Len(toWrite)) = <<>>
    BY <2>1, <2>3, SubSeqEmpty
  <2>5. SubSeq(toWrite', next', Len(toWrite')) = <<>>
    <3>1. Len(toWrite') = 0
      BY <2>1
    <3> QED BY <2>1, <2>3, <3>1, SubSeqEmpty
  <2>6. Rest' = Rest /\ InFront' = InFront
    BY <2>1, <2>4, <2>5 DEF Rest, InFront
  <2>7. Kept' = Kept
    BY <2>2, <2>6, KeptIs, KeptIsAlways
  <2> QED BY <2>1, <2>2, <2>7, SameKept
<1> QED BY <1>1, <1>2, <1>3, <1>4, <1>5, <1>6, <1>7, <1>8, <1>9, <1>10, <1>11, <1>12, <1>13, <1>14
   DEF Next, Owner, Logger

\* No line is lost, doubled or moved on its way through the buffers to the files, but
\* for those of dropped buffers, which are announced, and of writes that failed
\* (AsyncLogging.cc:32-46, 60-88, FileUtil.cc:88-107).
THEOREM LinesKeepOrder == Spec => []LinesInOrder
<1>1. OrderInv => LinesInOrder
  BY DEF OrderInv
<1> QED BY <1>1, BufferInit, BufferStep, LogInit, LogStep, OrderInit, OrderStep, PTL DEF Spec

-----------------------------------------------------------------------------
(***************************************************************************)
(* The calendar: what gmtime, timegm and the Julian days of Date yield,    *)
(* for every number.                                                       *)
(***************************************************************************)

\* What holds at zero and passes from each number to the next holds up to n.
LEMMA UpTo ==
  ASSUME NEW n \in Nat, NEW G, 0 \in G, \A i \in 1..n : i - 1 \in G => i \in G
  PROVE  0..n \subseteq G
<1> DEFINE T == {i \in 0..n : i \notin G}
<1>1. SUFFICES ASSUME T # {} PROVE FALSE
  OBVIOUS
<1>5. T \subseteq Nat
  OBVIOUS
<1>2. PICK x \in T : \A y \in T : x <= y
  <2> HIDE DEF T
  <2> QED BY <1>1, <1>5, LeastOf
<1>3. x # 0 /\ x \in 1..n /\ x - 1 \in 0..n /\ ~(x <= x - 1)
  BY <1>2
<1>4. x - 1 \in G
  BY <1>2, <1>3
<1> QED BY <1>2, <1>3, <1>4

LEMMA YearFound ==
  ASSUME NEW days \in Int
  PROVE  /\ YearOf(days) \in Int
         /\ DaysBeforeYear(YearOf(days)) <= days /\ days < DaysBeforeYear(YearOf(days) + 1)
<1> DEFINE g == 1970 + (400 * days) \div 146097
<1>1. g \in Int /\ 146097 * (g - 1970) <= 400 * days /\ 400 * days < 146097 * (g - 1969)
  OBVIOUS
<1>5. YearOf(days) = CHOOSE y \in g - 1 .. g + 1 :
                       DaysBeforeYear(y) <= days /\ days < DaysBeforeYear(y + 1)
  BY DEF YearOf
<1> HIDE DEF g
<1>2. DaysBeforeYear(g - 1) <= days
  BY <1>1 DEF DaysBeforeYear, Leaps
<1>3. days < DaysBeforeYear(g + 2)
  BY <1>1 DEF DaysBeforeYear, Leaps
<1>4. \A y \in Int : DaysBeforeYear(y) \in Int
  BY DEF DaysBeforeYear, Leaps
<1>6. g - 1 \in g - 1 .. g + 1 /\ g \in g - 1 .. g + 1 /\ g + 1 \in g - 1 .. g + 1
      /\ (g - 1) + 1 = g /\ (g + 1) + 1 = g + 2
  BY <1>1
<1>7. \E y \in g - 1 .. g + 1 : DaysBeforeYear(y) <= days /\ days < DaysBeforeYear(y + 1)
  <2>1. CASE days < DaysBeforeYear(g)
    BY <1>2, <1>6, <2>1
  <2>2. CASE ~(days < DaysBeforeYear(g)) /\ days < DaysBeforeYear(g + 1)
    <3>1. DaysBeforeYear(g) <= days
      BY <1>1, <1>4, <2>2
    <3> QED BY <1>6, <2>2, <3>1
  <2>3. CASE ~(days < DaysBeforeYear(g + 1))
    <3>1. DaysBeforeYear(g + 1) <= days
      BY <1>1, <1>4, <2>3
    <3> QED BY <1>3, <1>6, <3>1
  <2> QED BY <2>1, <2>2, <2>3
<1>8. /\ YearOf(days) \in g - 1 .. g + 1
      /\ DaysBeforeYear(YearOf(days)) <= days /\ days < DaysBeforeYear(YearOf(days) + 1)
  BY <1>5, <1>7
<1> QED BY <1>1, <1>8

LEMMA FillHMSIs ==
  ASSUME NEW s \in 0..86399
  PROVE  /\ s \div 3600 \in Nat /\ (s \div 60) % 60 \in Nat /\ s % 60 \in Nat
         /\ (s \div 3600) * 3600 + ((s \div 60) % 60) * 60 + (s % 60) = s
OBVIOUS

LEMMA LeapsNext ==
  ASSUME NEW y \in Int
  PROVE  Leaps(y + 1) = Leaps(y) + (IF IsLeap(y) THEN 1 ELSE 0)
BY DEF Leaps, IsLeap

\* The number of a day, counted off and as a Julian day.
LEMMA JulianDayIs ==
  ASSUME NEW y \in Int, NEW m \in 1..12, NEW d \in Int
  PROVE  getJulianDay(y, m, d) - kJulianDayOf1970_01_01
           = DaysBeforeYear(y) + DaysBeforeMonth(y, m) + d - 1
<1>1. kJulianDayOf1970_01_01 = 2440588
  BY DEF kJulianDayOf1970_01_01, getJulianDay
<1>2. Leaps(1970) = 477
  BY DEF Leaps
<1>3. CASE m \in {1, 2}
  <2>1. getJulianDay(y, m, d) = d + (153 * (m + 9) + 2) \div 5 + (y + 4799) * 365 + (y + 4799) \div 4 - (y + 4799) \div 100 + (y + 4799) \div 400 - 32045
    BY <1>3 DEF getJulianDay
  <2>2. (y + 4799) \div 4 - (y + 4799) \div 100 + (y + 4799) \div 400 = Leaps(y) + 1164
    BY DEF Leaps
  <2>3. DaysBeforeMonth(y, m) = (153 * (m + 9) + 2) \div 5 - 306
    BY <1>3 DEF DaysBeforeMonth
  <2>4. DaysBeforeYear(y) = 365 * (y - 1970) + Leaps(y) - 477
    BY <1>2 DEF DaysBeforeYear
  <2> QED BY <1>1, <2>1, <2>2, <2>3, <2>4 DEF Leaps
<1>4. CASE m \in 3..12
  <2>1. getJulianDay(y, m, d) = d + (153 * (m - 3) + 2) \div 5 + (y + 4800) * 365 + (y + 4800) \div 4 - (y + 4800) \div 100 + (y + 4800) \div 400 - 32045
    BY <1>4 DEF getJulianDay
  <2>2. (y + 4800) \div 4 - (y + 4800) \div 100 + (y + 4800) \div 400 = Leaps(y) + 1164 + (IF IsLeap(y) THEN 1 ELSE 0)
    BY DEF Leaps, IsLeap
  <2>3. DaysBeforeMonth(y, m) = (153 * (m - 3) + 2) \div 5 + 59 + (IF IsLeap(y) THEN 1 ELSE 0)
    BY <1>4 DEF DaysBeforeMonth
  <2>4. DaysBeforeYear(y) = 365 * (y - 1970) + Leaps(y) - 477
    BY <1>2 DEF DaysBeforeYear
  <2>5. Leaps(y) \in Int
    BY DEF Leaps
  <2> HIDE DEF Leaps, IsLeap
  <2> QED BY <1>1, <2>1, <2>2, <2>3, <2>4, <2>5
<1> QED BY <1>3, <1>4
\* Days that a month has, from March on, and of February in a leap year.
MarchDays == <<31, 30, 31, 30, 31, 31, 30, 31, 30, 31, 31, 29>>

\* In the calendar that begins in March: day e of year r of a century, and that day
\* when it is the century after c others.
DayOfCentury(r, e) == e + 365 * r + r \div 4
DayOfAll(c, r, e) == DayOfCentury(r, e) + 36524 * c + c \div 4

\* Day 365 there is of a leap year only.
LeapDay(c, r, e) == e = 365 => r % 4 = 3 /\ (r = 99 => c % 4 = 3)

\* The days of a month.
MonthDays(year, month) ==
  IF month = 12 THEN 31 ELSE DaysBeforeMonth(year, month + 1) - DaysBeforeMonth(year, month)

\* A date that Date is made for.
ValidDate(y, m, d) ==
  y \in Int /\ y >= -4799 /\ m \in 1..12 /\ d \in 1..31 /\ d <= MonthDays(y, m)

\* The date is found from the Julian day.
LEMMA YearMonthDayIs ==
  ASSUME NEW y, NEW m, NEW d, ValidDate(y, m, d)
  PROVE  getYearMonthDay(getJulianDay(y, m, d)) = [year |-> y, month |-> m, day |-> d]
<1> USE DEF ValidDate
<1>1. PICK h \in {0, 1} : h = (14 - m) \div 12 /\ (h = 1 <=> m \in {1, 2})
  OBVIOUS
<1>17. PICK n, k : n = y + 4800 - h /\ k = m + 12 * h - 3
  OBVIOUS
<1>2. n = y + 4800 - h /\ k = m + 12 * h - 3 /\ n \in Nat /\ k \in 0..11
  BY <1>1, <1>17
<1>3. PICK c \in Nat, r \in 0..99 : n = 100 * c + r
  <2>1. n \div 100 \in Nat /\ n % 100 \in 0..99 /\ n = 100 * (n \div 100) + (n % 100)
    BY <1>2
  <2> QED BY <2>1
<1>4. d <= MarchDays[k + 1]
  <2>1. CASE m \in {1, 2}
    BY <1>1, <1>2, <2>1 DEF MonthDays, DaysBeforeMonth, MarchDays
  <2>2. CASE m \in 3..12
    <3>1. h = 0 /\ k + 1 = m - 2
      BY <1>1, <1>2, <2>2
    <3> QED BY <2>2, <3>1 DEF MonthDays, DaysBeforeMonth, MarchDays
  <2> QED BY <2>1, <2>2
<1>18. PICK e : e = d - 1 + (153 * k + 2) \div 5
  OBVIOUS
<1>5. e = d - 1 + (153 * k + 2) \div 5 /\ e \in 0..365 /\ (5 * e + 2) \div 153 = k
  BY <1>2, <1>4, <1>18 DEF MarchDays
<1>6. LeapDay(c, r, e)
  <2> SUFFICES ASSUME e = 365 PROVE r % 4 = 3 /\ (r = 99 => c % 4 = 3)
    BY DEF LeapDay
  <2>1. k = 11 /\ d = 29
    BY <1>4, <1>5 DEF MarchDays
  <2>2. m = 2 /\ h = 1
    BY <1>1, <1>2, <2>1
  <2>3. IsLeap(y)
    BY <2>1, <2>2 DEF MonthDays, DaysBeforeMonth
  <2>4. y = n - 4799
    BY <1>2, <2>2
  <2> QED BY <1>3, <2>3, <2>4 DEF IsLeap
<1> DEFINE J == getJulianDay(y, m, d)
<1>7. J = d + (153 * k + 2) \div 5 + n * 365 + n \div 4 - n \div 100 + n \div 400 - 32045
  BY <1>1, <1>2 DEF getJulianDay
<1>8. n \div 4 = 25 * c + r \div 4 /\ n \div 100 = c /\ n \div 400 = c \div 4
  <2>1. n \div 100 = c
    BY <1>2, <1>3
  <2>2. n \div 4 = 25 * c + r \div 4
    BY <1>3
  <2>3. n \div 400 = c \div 4
    BY <1>3
  <2> QED BY <2>1, <2>2, <2>3
<1> HIDE DEF J
<1>9. J + 32044 = DayOfAll(c, r, e)
  BY <1>2, <1>3, <1>5, <1>7, <1>8 DEF DayOfAll, DayOfCentury
<1>19. e \in 0..365 /\ c \in Nat /\ r \in 0..99
  BY <1>5
<1>10. /\ (4 * DayOfAll(c, r, e) + 3) \div 146097 = c
       /\ DayOfAll(c, r, e) - (c * 146097) \div 4 = DayOfCentury(r, e)
  <2>1. PICK a : a = DayOfAll(c, r, e)
    OBVIOUS
  <2>2. a \in Int /\ 146097 * c <= 4 * a + 3
    BY <1>19, <2>1 DEF DayOfAll, DayOfCentury
  <2>3. 4 * a + 3 < 146097 * (c + 1)
    BY <1>19, <1>6, <2>1 DEF DayOfAll, DayOfCentury, LeapDay
  <2>4. a - (c * 146097) \div 4 = DayOfCentury(r, e)
    BY <1>19, <2>1 DEF DayOfAll, DayOfCentury
  <2>5. (4 * a + 3) \div 146097 = c
    BY <2>2, <2>3
  <2> QED BY <2>1, <2>4, <2>5
<1>11. (4 * DayOfCentury(r, e) + 3) \div 1461 = r /\ DayOfCentury(r, e) - (1461 * r) \div 4 = e
  BY <1>19, <1>6 DEF DayOfCentury, LeapDay
<1>12. getYearMonthDay(J) = [year |-> c * 100 + r - 4800 + k \div 10,
                             month |-> k + 3 - 12 * (k \div 10),
                             day |-> e - (153 * k + 2) \div 5 + 1]
  <2> DEFINE a == J + 32044
             u == (4 * a + 3) \div 146097
             v == a - (u * 146097) \div 4
             w == (4 * v + 3) \div 1461
             x == v - (1461 * w) \div 4
             z == (5 * x + 2) \div 153
  <2>1. a = DayOfAll(c, r, e)
    BY <1>9
  <2>2. u = c
    <3> HIDE DEF a
    <3> QED BY <1>10, <2>1
  <2>3. v = DayOfCentury(r, e)
    <3> HIDE DEF a, u
    <3> QED BY <1>10, <2>1, <2>2
  <2>4. w = r
    <3> HIDE DEF v
    <3> QED BY <1>11, <2>3
  <2>5. x = e
    <3> HIDE DEF v, w
    <3> QED BY <1>11, <2>3, <2>4
  <2>6. z = k
    <3> HIDE DEF x
    <3> QED BY <1>5, <2>5
  <2>7. getYearMonthDay(J) = [year |-> u * 100 + w - 4800 + z \div 10,
                              month |-> z + 3 - 12 * (z \div 10),
                              day |-> x - (153 * z + 2) \div 5 + 1]
    BY DEF getYearMonthDay
  <2> HIDE DEF u, w, x, z
  <2> QED BY <2>2, <2>4, <2>5, <2>6, <2>7
<1>13. k \div 10 = h
  BY <1>1, <1>2
<1>14. c * 100 + r - 4800 + k \div 10 = y
  BY <1>1, <1>2, <1>3, <1>13
<1>15. k + 3 - 12 * (k \div 10) = m
  BY <1>1, <1>2, <1>13
<1>16. e - (153 * k + 2) \div 5 + 1 = d
  BY <1>5
<1> QED BY <1>12, <1>14, <1>15, <1>16 DEF J
LEMMA GreatestOf ==
  ASSUME NEW n \in Nat, NEW S, S \subseteq 1..n, S # {}
  PROVE  \E x \in S : \A y \in S : x >= y
<1> DEFINE T == {n - x : x \in S}
<1>5. T \subseteq Nat
  <2> SUFFICES ASSUME NEW x \in S PROVE n - x \in Nat
    OBVIOUS
  <2>1. x \in 1..n
    OBVIOUS
  <2> QED BY <2>1
<1>6. T # {}
  <2>1. PICK x \in S : TRUE
    OBVIOUS
  <2>2. n - x \in T
    OBVIOUS
  <2> QED BY <2>2
<1>1. T \subseteq Nat /\ T # {}
  BY <1>5, <1>6
<1>2. PICK k \in T : \A j \in T : k <= j
  <2> HIDE DEF T
  <2> QED BY <1>1, LeastOf
<1>3. PICK x \in S : k = n - x
  OBVIOUS
<1>4. ASSUME NEW y \in S PROVE x >= y
  <2>1. n - y \in T
    OBVIOUS
  <2>2. k <= n - y /\ x \in Int /\ y \in Int
    BY <1>2, <2>1
  <2> QED BY <1>3, <2>2
<1> QED BY <1>4

LEMMA MonthFound ==
  ASSUME NEW y \in Int, NEW yday \in Nat, yday < 365 + (IF IsLeap(y) THEN 1 ELSE 0)
  PROVE  LET m == MonthOf(y, yday)
             d == yday - DaysBeforeMonth(y, m) + 1
         IN m \in 1..12 /\ d \in 1..31 /\ d <= MonthDays(y, m)
<1> DEFINE S == {m \in 1..12 : DaysBeforeMonth(y, m) <= yday}
<1>1. S \subseteq 1..12 /\ 1 \in S
  BY DEF DaysBeforeMonth
<1>2. \E x \in S : \A z \in S : x >= z
  <2> HIDE DEF S
  <2> QED BY <1>1, GreatestOf
<1>3. PICK m : m = MonthOf(y, yday)
  OBVIOUS
<1>4. m \in S /\ \A z \in S : m >= z
  <2>1. m = CHOOSE x \in S : \A z \in S : x >= z
    BY <1>3 DEF MonthOf, Max
  <2> HIDE DEF S
  <2> QED BY <1>2, <2>1
<1>5. m \in 1..12 /\ DaysBeforeMonth(y, m) <= yday
  BY <1>4
<1>6. ASSUME m < 12 PROVE ~(DaysBeforeMonth(y, m + 1) <= yday)
  <2>1. m + 1 \in 1..12 /\ ~(m >= m + 1)
    BY <1>5, <1>6
  <2>2. m + 1 \notin S
    BY <1>4, <2>1
  <2> QED BY <2>1, <2>2
<1>7. CASE m < 12
  <2>1. DaysBeforeMonth(y, m) \in Int /\ DaysBeforeMonth(y, m + 1) \in Int
        /\ DaysBeforeMonth(y, m + 1) - DaysBeforeMonth(y, m) <= 31
    BY <1>5, <1>7 DEF DaysBeforeMonth
  <2> QED BY <1>3, <1>5, <1>6, <1>7, <2>1 DEF MonthDays
<1>8. CASE m = 12
  <2>1. DaysBeforeMonth(y, 12) = 334 + (IF IsLeap(y) THEN 1 ELSE 0)
    BY DEF DaysBeforeMonth
  <2> QED BY <1>3, <1>5, <1>8, <2>1 DEF MonthDays
<1> QED BY <1>5, <1>7, <1>8

\* The date of a moment, counted off.
LEMMA GmtimeDate ==
  ASSUME NEW t \in Int
  PROVE  LET tm == gmtime(t)
             days == t \div kSecondsPerDay
         IN /\ tm.year \in Int /\ tm.year = YearOf(days)
            /\ tm.mon \in 1..12 /\ tm.mday \in 1..31 /\ tm.mday <= MonthDays(tm.year, tm.mon)
            /\ days \in Int
            /\ days = DaysBeforeYear(tm.year) + DaysBeforeMonth(tm.year, tm.mon) + tm.mday - 1
<1>1. PICK days, y, yday, m : /\ days = t \div kSecondsPerDay /\ y = YearOf(days)
                              /\ yday = days - DaysBeforeYear(y) /\ m = MonthOf(y, yday)
  OBVIOUS
<1>2. days \in Int
  BY <1>1 DEF kSecondsPerDay
<1>3. y \in Int /\ DaysBeforeYear(y) <= days /\ days < DaysBeforeYear(y + 1)
  BY <1>1, <1>2, YearFound
<1>4. yday \in Nat /\ yday < 365 + (IF IsLeap(y) THEN 1 ELSE 0) /\ DaysBeforeYear(y) \in Int
  <2>1. Leaps(y + 1) = Leaps(y) + (IF IsLeap(y) THEN 1 ELSE 0)
    BY <1>3, LeapsNext
  <2>2. Leaps(y) \in Int /\ Leaps(1970) \in Int
    BY <1>3 DEF Leaps
  <2> QED BY <1>1, <1>2, <1>3, <2>1, <2>2 DEF DaysBeforeYear
<1> DEFINE d == yday - DaysBeforeMonth(y, m) + 1
<1>5. m \in 1..12 /\ d \in 1..31 /\ d <= MonthDays(y, m)
  BY <1>1, <1>3, <1>4, MonthFound
<1>6. DaysBeforeMonth(y, m) \in Int
  BY <1>5 DEF DaysBeforeMonth
<1>7. gmtime(t).year = y /\ gmtime(t).mon = m /\ gmtime(t).mday = d
  BY <1>1 DEF gmtime
<1>8. days = DaysBeforeYear(y) + DaysBeforeMonth(y, m) + d - 1
  BY <1>1, <1>2, <1>4, <1>6
<1> HIDE DEF d
<1> QED BY <1>1, <1>2, <1>3, <1>5, <1>7, <1>8

\* The time of day of a moment.
LEMMA GmtimeTime ==
  ASSUME NEW t \in Int
  PROVE  LET h == gmtime(t).time
         IN (t \div kSecondsPerDay) * kSecondsPerDay + h.hour * 3600 + h.min * 60 + h.sec = t
<1>1. PICK s : s = t % kSecondsPerDay
  OBVIOUS
<1>6. kSecondsPerDay = 86400
  BY SMT DEF kSecondsPerDay
<1>7. t % 86400 \in Nat /\ t % 86400 < 86400
  BY SMT
<1>8. (t \div 86400) * 86400 + (t % 86400) = t
  BY SMT
<1>2. s \in Nat /\ s < 86400 /\ (t \div kSecondsPerDay) * kSecondsPerDay + s = t
  <2>1. s = t % 86400 /\ (t \div kSecondsPerDay) * kSecondsPerDay = (t \div 86400) * 86400
    BY <1>1, <1>6, SMT
  <2>2. s \in Nat /\ s < 86400
    BY <1>7, <2>1, SMT
  <2>3. (t \div kSecondsPerDay) * kSecondsPerDay + s = t
    BY <1>8, <2>1, SMT
  <2> QED BY <2>2, <2>3, SMT
<1>3. /\ gmtime(t).time.hour = s \div 3600 /\ gmtime(t).time.min = (s \div 60) % 60
      /\ gmtime(t).time.sec = s % 60
  BY <1>1 DEF gmtime, fillHMS
<1>4. /\ s \div 3600 \in Nat /\ (s \div 60) % 60 \in Nat /\ s % 60 \in Nat
      /\ (s \div 3600) * 3600 + ((s \div 60) % 60) * 60 + (s % 60) = s
  BY <1>2
<1>5. (t \div kSecondsPerDay) * kSecondsPerDay \in Int
  BY DEF kSecondsPerDay
<1> QED BY <1>2, <1>3, <1>4, <1>5

\* timegm is the inverse of gmtime.
LEMMA TimegmOfGmtime ==
  ASSUME NEW t \in Int
  PROVE  timegm(gmtime(t)) = t
<1>1. t \div kSecondsPerDay = DaysBeforeYear(gmtime(t).year)
                                + DaysBeforeMonth(gmtime(t).year, gmtime(t).mon) + gmtime(t).mday - 1
  BY GmtimeDate
<1>2. timegm(gmtime(t)) = (t \div kSecondsPerDay) * kSecondsPerDay + gmtime(t).time.hour * 3600
                            + gmtime(t).time.min * 60 + gmtime(t).time.sec
  BY <1>1 DEF timegm
<1> QED BY <1>2, GmtimeTime

\* So is fromUtcTime.
LEMMA FromUtcTimeOfGmtime ==
  ASSUME NEW t \in Int
  PROVE  fromUtcTime(gmtime(t)) = t
<1>1. PICK tm : tm = gmtime(t)
  OBVIOUS
<1>2. /\ tm.year \in Int /\ tm.mon \in 1..12 /\ tm.mday \in 1..31
      /\ t \div kSecondsPerDay = DaysBeforeYear(tm.year) + DaysBeforeMonth(tm.year, tm.mon) + tm.mday - 1
  BY <1>1, GmtimeDate
<1>3. tm.mday \in Int
  BY <1>2
<1>4. getJulianDay(tm.year, tm.mon, tm.mday) - kJulianDayOf1970_01_01 = t \div kSecondsPerDay
  BY <1>2, <1>3, JulianDayIs
<1>5. fromUtcTime(tm) = (t \div kSecondsPerDay) * kSecondsPerDay + tm.time.hour * 3600
                          + tm.time.min * 60 + tm.time.sec
  BY <1>4 DEF fromUtcTime
<1> QED BY <1>1, <1>5, GmtimeTime

\* The years that Date is made for.
LEMMA YearsOfDate ==
  ASSUME NEW days \in Int, days >= -1
  PROVE  YearOf(days) >= -4799
<1>1. PICK y : y = YearOf(days)
  OBVIOUS
<1>2. y \in Int /\ days < DaysBeforeYear(y + 1)
  BY <1>1, YearFound
<1>3. ASSUME y < -4799 PROVE FALSE
  BY <1>2, <1>3, SMT DEF DaysBeforeYear, Leaps
<1> QED BY <1>1, <1>2, <1>3

\* toUtcTime finds with Julian days what counting finds.
LEMMA ToUtcTimeIsGmtime ==
  ASSUME NEW t \in Int, t \div kSecondsPerDay >= -1
  PROVE  toUtcTime(t) = gmtime(t)
<1>1. PICK days, y, m, d : /\ days = t \div kSecondsPerDay /\ y = gmtime(t).year
                           /\ m = gmtime(t).mon /\ d = gmtime(t).mday
  OBVIOUS
<1>2. /\ y \in Int /\ y = YearOf(days) /\ m \in 1..12 /\ d \in 1..31 /\ d <= MonthDays(y, m)
      /\ days \in Int /\ days = DaysBeforeYear(y) + DaysBeforeMonth(y, m) + d - 1
  BY <1>1, GmtimeDate
<1>3. y >= -4799
  BY <1>1, <1>2, YearsOfDate
<1>4. PICK day : day = getJulianDay(y, m, d)
  OBVIOUS
<1>5. kJulianDayOf1970_01_01 = 2440588
  BY SMT DEF kJulianDayOf1970_01_01, getJulianDay
<1>6. day = kJulianDayOf1970_01_01 + days /\ day \in Int
  <2>1. d \in Int
    BY <1>2
  <2>2. getJulianDay(y, m, d) - kJulianDayOf1970_01_01 = DaysBeforeYear(y) + DaysBeforeMonth(y, m) + d - 1
    BY <1>2, <2>1, JulianDayIs
  <2>3. day \in Int
    <3>1. y \in Int /\ m \in 1..12 /\ d \in 1..31
      BY <1>2
    <3> QED BY <1>4, <3>1, SMT DEF getJulianDay
  <2>4. day - kJulianDayOf1970_01_01 = days
    BY <1>2, <1>4, <2>2
  <2> QED BY <1>2, <1>5, <2>3, <2>4, SMT
<1>7. getYearMonthDay(day) = [year |-> y, month |-> m, day |-> d]
  <2>1. getYearMonthDay(getJulianDay(y, m, d)) = [year |-> y, month |-> m, day |-> d]
    <3>1. ValidDate(y, m, d)
      BY <1>2, <1>3 DEF ValidDate
    <3> QED BY <3>1, YearMonthDayIs
  <2> QED BY <1>4, <2>1
<1>8. weekDay(day) = (days + 4) % 7
  BY <1>2, <1>5, <1>6, SMT DEF weekDay, kDaysPerWeek
<1>9. day - getJulianDay(y, 1, 1) = days - DaysBeforeYear(y)
  <2>1. getJulianDay(y, 1, 1) - kJulianDayOf1970_01_01 = DaysBeforeYear(y) + DaysBeforeMonth(y, 1) + 1 - 1
    BY <1>2, JulianDayIs
  <2>2. DaysBeforeMonth(y, 1) = 0
    BY DEF DaysBeforeMonth
  <2>3. DaysBeforeYear(y) \in Int /\ getJulianDay(y, 1, 1) \in Int
    BY <1>2 DEF DaysBeforeYear, Leaps, getJulianDay
  <2> QED BY <1>2, <1>5, <1>6, <2>1, <2>2, <2>3, SMT
<1> DEFINE abs == IF t < 0 THEN -t ELSE t
           sign == IF t < 0 THEN -1 ELSE 1
           rest == sign * (abs % kSecondsPerDay)
           quotient == sign * (abs \div kSecondsPerDay)
           seconds == IF rest < 0 THEN rest + kSecondsPerDay ELSE rest
           number == IF rest < 0 THEN quotient - 1 ELSE quotient
<1>10. seconds = t % kSecondsPerDay /\ number = days
  <2>1. CASE t < 0
    BY <1>1, <2>1 DEF kSecondsPerDay
  <2>2. CASE ~(t < 0)
    BY <1>1, <2>2 DEF kSecondsPerDay
  <2> QED BY <2>1, <2>2
<1> DEFINE ymd == getYearMonthDay(kJulianDayOf1970_01_01 + number)
<1>11. toUtcTime(t)
         = [year |-> ymd.year, mon |-> ymd.month, mday |-> ymd.day,
            wday |-> weekDay(kJulianDayOf1970_01_01 + number),
            yday |-> (kJulianDayOf1970_01_01 + number) - getJulianDay(ymd.year, 1, 1),
            time |-> fillHMS(seconds)]
  BY DEF toUtcTime
<1>12. gmtime(t) = [year |-> y, mon |-> m, mday |-> d, wday |-> (days + 4) % 7,
                    yday |-> days - DaysBeforeYear(y), time |-> fillHMS(t % kSecondsPerDay)]
  BY <1>1 DEF gmtime
<1> HIDE DEF seconds, number
<1>13. ymd = [year |-> y, month |-> m, day |-> d]
  BY <1>6, <1>7, <1>10
<1> HIDE DEF ymd
<1>14. ymd.year = y /\ ymd.month = m /\ ymd.day = d
  BY <1>13
<1> QED BY <1>6, <1>8, <1>9, <1>10, <1>11, <1>12, <1>14

LEMMA ZoneParts ==
  ASSUME NEW zone, IsZone(zone)
  PROVE  /\ Len(zone.transitions) \in Nat /\ DOMAIN zone.transitions = 1..Len(zone.transitions)
         /\ \A i \in 1..Len(zone.transitions) :
              /\ zone.transitions[i].gmttime \in Int /\ zone.transitions[i].localtime \in Int
              /\ zone.transitions[i].localtime = zone.transitions[i].gmttime + Rule(zone, i).gmtOffset
         /\ \A i \in 0..Len(zone.transitions) :
              /\ \E j \in DOMAIN zone.localtimes : Rule(zone, i) = zone.localtimes[j]
              /\ Rule(zone, i).gmtOffset \in Int /\ Rule(zone, i).isDst \in BOOLEAN
<1> DEFINE n == Len(zone.transitions)
<1>1. n \in Nat /\ DOMAIN zone.transitions = 1..n
  BY DEF IsZone
<1>2. ASSUME NEW i \in 1..n
      PROVE  /\ zone.transitions[i].gmttime \in Int /\ zone.transitions[i].localtime \in Int
             /\ zone.transitions[i].localtimeIdx + 1 \in DOMAIN zone.localtimes
             /\ zone.transitions[i].localtime = zone.transitions[i].gmttime + Rule(zone, i).gmtOffset
  <2>1. zone.transitions[i] \in [gmttime : Int, localtimeIdx : Nat, localtime : Int]
    <3>1. PICK S : S = [gmttime : Int, localtimeIdx : Nat, localtime : Int]
      OBVIOUS
    <3>2. zone.transitions \in Seq(S)
      BY <3>1 DEF IsZone
    <3>3. zone.transitions[i] \in S
      BY ONLY <1>1, <3>2, i \in 1..n
    <3> QED BY <3>1, <3>3
  <2>2. i # 0
    OBVIOUS
  <2> QED BY <1>1, <2>1, <2>2 DEF IsZone, Rule
<1>3. ASSUME NEW j \in DOMAIN zone.localtimes
      PROVE  zone.localtimes[j].gmtOffset \in Int /\ zone.localtimes[j].isDst \in BOOLEAN
  <2>1. zone.localtimes[j] \in [gmtOffset : Int, isDst : BOOLEAN, abbr : STRING]
    <3>1. PICK S : S = [gmtOffset : Int, isDst : BOOLEAN, abbr : STRING]
      OBVIOUS
    <3>2. zone.localtimes \in Seq(S)
      BY <3>1 DEF IsZone
    <3>3. zone.localtimes[j] \in S
      BY ONLY <3>2, j \in DOMAIN zone.localtimes
    <3> QED BY <3>1, <3>3
  <2> QED BY <2>1
<1>4. 1 \in DOMAIN zone.localtimes
  BY DEF IsZone
<1>5. ASSUME NEW i \in 0..n PROVE \E j \in DOMAIN zone.localtimes : Rule(zone, i) = zone.localtimes[j]
  <2>1. CASE i = 0
    BY <1>4, <2>1 DEF Rule
  <2>2. CASE i # 0
    <3>1. i \in 1..n
      BY <1>1, <2>2
    <3> QED BY <1>2, <2>2, <3>1 DEF Rule
  <2> QED BY <2>1, <2>2
<1>6. ASSUME NEW i \in 0..n PROVE Rule(zone, i).gmtOffset \in Int /\ Rule(zone, i).isDst \in BOOLEAN
  BY <1>3, <1>5
<1> HIDE DEF n
<1>7. n = Len(zone.transitions)
  BY DEF n
<1> QED BY <1>1, <1>2, <1>5, <1>6, <1>7

\* lower_bound finds the last rule that has begun.
LEMMA RuleFound ==
  ASSUME NEW zone, IsZone(zone), NEW t \in Int, NEW gmt \in BOOLEAN,
         NEW k \in 0..Len(zone.transitions),
         k >= 1 => Moment(zone, k, gmt) <= t,
         \A j \in 1 .. k - 1 : Moment(zone, j, gmt) < t,
         \A j \in k + 1 .. Len(zone.transitions) : t < Moment(zone, j, gmt)
  PROVE  findLocalTime(zone, t, gmt) = Rule(zone, k)
<1> DEFINE n == Len(zone.transitions)
           S == {i \in DOMAIN zone.transitions : Moment(zone, i, gmt) >= t}
<1>1. /\ n \in Nat /\ DOMAIN zone.transitions = 1..n
      /\ \A i \in 1..n : zone.transitions[i].gmttime \in Int /\ zone.transitions[i].localtime \in Int
  BY ZoneParts
<1>2. \A i \in 1..n : Moment(zone, i, gmt) \in Int
  BY <1>1 DEF Moment
<1>3. CASE k = 0
  <2>1. zone.transitions = <<>> \/ t < Moment(zone, 1, gmt)
    <3>1. CASE n = 0
      <4>1. zone.transitions \in Seq([gmttime : Int, localtimeIdx : Nat, localtime : Int])
        BY DEF IsZone
      <4> QED BY <3>1, <4>1, EmptySeq
    <3>2. CASE n # 0
      <4>1. 1 \in k + 1 .. n
        BY <1>1, <1>3, <3>2
      <4> QED BY <4>1
    <3> QED BY <3>1, <3>2
  <2> QED BY <1>3, <2>1 DEF findLocalTime, Rule
<1>4. CASE k # 0
  <2>1. k \in 1..n /\ k \in Int
    BY <1>1, <1>4
  <2>2. zone.transitions # <<>>
    BY <1>1, <2>1
  <2>3. ~(t < Moment(zone, 1, gmt))
    <3>1. CASE k = 1
      BY <1>2, <2>1, <3>1
    <3>2. CASE k # 1
      <4>1. 1 \in 1 .. k - 1 /\ 1 \in 1..n
        BY <2>1, <3>2
      <4>2. Moment(zone, 1, gmt) < t /\ Moment(zone, 1, gmt) \in Int
        BY <1>2, <4>1
      <4> QED BY <4>2
    <3> QED BY <3>1, <3>2
  <2>4. transI(zone, t, gmt) = k
    <3>1. ASSUME NEW j \in S PROVE j \in k..n
      <4>1. j \in 1..n /\ Moment(zone, j, gmt) >= t /\ Moment(zone, j, gmt) \in Int
        BY <1>1, <1>2
      <4>2. ~(Moment(zone, j, gmt) < t)
        BY <4>1
      <4>3. j \notin 1 .. k - 1
        BY <4>2
      <4> QED BY <2>1, <4>1, <4>3
    <3>2. transI(zone, t, gmt)
            = IF S = {} THEN n ELSE IF Moment(zone, Min(S), gmt) = t THEN Min(S) ELSE Min(S) - 1
      BY DEF transI
    <3>3. CASE Moment(zone, k, gmt) = t
      <4>1. k \in S
        BY <1>1, <2>1, <3>3
      <4>2. Min(S) = k
        <5>1. \A j \in S : k <= j /\ j \in Int
          BY <2>1, <3>1
        <5>2. Min(S) \in S /\ \A j \in S : Min(S) <= j
          <6> HIDE DEF S
          <6> QED BY <4>1, <5>1 DEF Min
        <5>3. k <= Min(S) /\ Min(S) <= k /\ Min(S) \in Int
          <6> HIDE DEF S
          <6> QED BY <4>1, <5>1, <5>2
        <5> HIDE DEF S
        <5> QED BY <2>1, <5>3
      <4> HIDE DEF S
      <4> QED BY <3>2, <3>3, <4>1, <4>2
    <3>4. CASE Moment(zone, k, gmt) # t
      <4>1. k \notin S
        BY <1>2, <2>1, <3>4
      <4>2. ASSUME NEW j \in S PROVE j \in k + 1 .. n
        <5>1. j \in k..n /\ j # k
          BY <3>1, <4>1
        <5> QED BY <2>1, <5>1
      <4>3. CASE k = n
        <5>1. S = {}
          BY <1>1, <4>2, <4>3
        <5> HIDE DEF S
        <5> QED BY <3>2, <4>3, <5>1
      <4>4. CASE k # n
        <5>1. k + 1 \in k + 1 .. n /\ k + 1 \in 1..n
          BY <1>1, <2>1, <4>4
        <5>2. t < Moment(zone, k + 1, gmt) /\ Moment(zone, k + 1, gmt) \in Int
          BY <1>2, <5>1
        <5>3. k + 1 \in S /\ Moment(zone, k + 1, gmt) # t
          BY <1>1, <5>1, <5>2
        <5>4. Min(S) = k + 1
          <6>1. \A j \in S : k + 1 <= j /\ j \in Int
            BY <2>1, <4>2
          <6> HIDE DEF S
          <6>2. Min(S) \in S /\ \A j \in S : Min(S) <= j
            BY <5>3, <6>1 DEF Min
          <6>3. k + 1 <= Min(S) /\ Min(S) <= k + 1 /\ Min(S) \in Int
            BY <5>3, <6>1, <6>2
          <6> QED BY <2>1, <6>3
        <5> HIDE DEF S
        <5>5. transI(zone, t, gmt) = (k + 1) - 1
          BY <3>2, <5>3, <5>4
        <5> QED BY <2>1, <5>5
      <4> QED BY <4>3, <4>4
    <3> QED BY <3>3, <3>4
  <2> QED BY <1>4, <2>2, <2>3, <2>4 DEF findLocalTime, Rule
<1> QED BY <1>3, <1>4

\* k is the last of the n moments m that has come at t.
Begun(m, n, k, t) ==
  /\ k \in 0..n
  /\ k >= 1 => m[k] <= t
  /\ \A j \in 1 .. k - 1 : m[j] < t
  /\ \A j \in k + 1 .. n : t < m[j]

After(m, i) == \A j \in 1 .. i - 1 : m[j] < m[i]

Growing(m, n) == m \in [1..n -> Int] /\ \A i \in 1..n : After(m, i)

\* The moments of a zone in UTC and by its own clock.
Gmt(zone) == [i \in 1..Len(zone.transitions) |-> zone.transitions[i].gmttime]
Local(zone) == [i \in 1..Len(zone.transitions) |-> zone.transitions[i].localtime]

Offsets(zone) == [i \in 0..Len(zone.transitions) |-> Rule(zone, i).gmtOffset]

LEMMA BegunFound ==
  ASSUME NEW zone, IsZone(zone), NEW t \in Int, NEW gmt \in BOOLEAN, NEW k, NEW m,
         \A i \in 1..Len(zone.transitions) : Moment(zone, i, gmt) = m[i],
         Begun(m, Len(zone.transitions), k, t)
  PROVE  findLocalTime(zone, t, gmt) = Rule(zone, k)
<1> DEFINE n == Len(zone.transitions)
<1>1. n \in Nat
  BY ZoneParts
<1>2. k \in 0..n
  BY DEF Begun
<1>3. k >= 1 => Moment(zone, k, gmt) <= t
  BY <1>1 DEF Begun
<1>4. ASSUME NEW j \in 1 .. k - 1 PROVE Moment(zone, j, gmt) < t
  <2>1. j \in 1..n
    BY <1>1, <1>2
  <2> QED BY <2>1 DEF Begun
<1>5. ASSUME NEW j \in k + 1 .. n PROVE t < Moment(zone, j, gmt)
  <2>1. j \in 1..n
    BY <1>1, <1>2
  <2> QED BY <2>1 DEF Begun
<1> QED BY <1>2, <1>3, <1>4, <1>5, RuleFound

LEMMA GmtFound ==
  ASSUME NEW zone, IsZone(zone), NEW t \in Int, NEW k, Begun(Gmt(zone), Len(zone.transitions), k, t)
  PROVE  findLocalTime(zone, t, TRUE) = Rule(zone, k)
<1>1. PICK gmt \in BOOLEAN : gmt = TRUE
  OBVIOUS
<1>2. \A i \in 1..Len(zone.transitions) : Moment(zone, i, gmt) = Gmt(zone)[i]
  BY <1>1 DEF Moment, Gmt
<1>3. PICK m : m = Gmt(zone)
  OBVIOUS
<1>4. findLocalTime(zone, t, gmt) = Rule(zone, k)
  <2>1. \A i \in 1..Len(zone.transitions) : Moment(zone, i, gmt) = m[i]
    BY <1>2, <1>3
  <2>2. Begun(m, Len(zone.transitions), k, t)
    BY <1>3
  <2> QED BY <2>1, <2>2, BegunFound
<1> QED BY <1>1, <1>4

LEMMA LocalFound ==
  ASSUME NEW zone, IsZone(zone), NEW t \in Int, NEW k, Begun(Local(zone), Len(zone.transitions), k, t)
  PROVE  findLocalTime(zone, t, FALSE) = Rule(zone, k)
<1>1. PICK gmt \in BOOLEAN : gmt = FALSE
  OBVIOUS
<1>2. \A i \in 1..Len(zone.transitions) : Moment(zone, i, gmt) = Local(zone)[i]
  BY <1>1 DEF Moment, Local
<1>3. PICK m : m = Local(zone)
  OBVIOUS
<1>4. findLocalTime(zone, t, gmt) = Rule(zone, k)
  <2>1. \A i \in 1..Len(zone.transitions) : Moment(zone, i, gmt) = m[i]
    BY <1>2, <1>3
  <2>2. Begun(m, Len(zone.transitions), k, t)
    BY <1>3
  <2> QED BY <2>1, <2>2, BegunFound
<1> QED BY <1>1, <1>4

LEMMA SomeBegun ==
  ASSUME NEW n \in Nat, NEW m, Growing(m, n), NEW t \in Int
  PROVE  \E k : Begun(m, n, k, t)
<1> DEFINE S == {i \in 1..n : m[i] <= t}
<1>1. \A i \in 1..n : m[i] \in Int
  BY DEF Growing
<1>2. CASE S = {}
  <2>1. \A j \in 1..n : t < m[j]
    BY <1>1, <1>2
  <2>2. Begun(m, n, 0, t)
    BY <1>1, <2>1 DEF Begun
  <2> QED BY <2>2
<1>3. CASE S # {}
  <2>1. S \subseteq 1..n
    OBVIOUS
  <2>2. PICK k \in S : \A y \in S : k >= y
    <3> HIDE DEF S
    <3> QED BY <1>3, <2>1, GreatestOf
  <2>3. k \in 1..n /\ m[k] <= t /\ m[k] \in Int
    BY <1>1, <2>2
  <2>4. ASSUME NEW j \in 1 .. k - 1 PROVE m[j] < t
    <3>1. j \in 1..n /\ m[j] < m[k]
      BY <2>3 DEF Growing, After
    <3> QED BY <1>1, <2>3, <3>1
  <2>5. ASSUME NEW j \in k + 1 .. n PROVE t < m[j]
    <3>1. j \in 1..n /\ ~(k >= j)
      BY <2>3
    <3>2. ~(m[j] <= t)
      BY <2>2, <3>1
    <3> QED BY <1>1, <3>1, <3>2
  <2>6. Begun(m, n, k, t)
    BY <2>3, <2>4, <2>5 DEF Begun
  <2> QED BY <2>6
<1> QED BY <1>2, <1>3

\* Moments that grow from each to the next grow.
LEMMA GrowingStepwise ==
  ASSUME NEW n \in Nat, NEW m \in [1..n -> Int], \A i \in 2..n : m[i - 1] < m[i]
  PROVE  Growing(m, n)
<1> DEFINE G == {i \in 0..n : After(m, i)}
<1>1. 0 \in G
  <2>1. \A j \in 1 .. 0 - 1 : FALSE
    OBVIOUS
  <2> QED BY <2>1 DEF After
<1>2. ASSUME NEW i \in 1..n, i - 1 \in G PROVE i \in G
  <2>1. ASSUME NEW j \in 1 .. i - 1 PROVE m[j] < m[i]
    <3>1. i \in 2..n /\ j \in 1..n /\ i - 1 \in 1..n
      OBVIOUS
    <3>2. m[i - 1] < m[i] /\ m[i] \in Int /\ m[i - 1] \in Int /\ m[j] \in Int
      BY <3>1
    <3>3. CASE j = i - 1
      BY <3>2, <3>3
    <3>4. CASE j # i - 1
      <4>1. j \in 1 .. (i - 1) - 1 /\ After(m, i - 1)
        BY <1>2, <3>4
      <4>2. m[j] < m[i - 1]
        BY <4>1 DEF After
      <4> QED BY <3>2, <4>2
    <3> QED BY <3>3, <3>4
  <2> QED BY <2>1 DEF After
<1>3. 0..n \subseteq G
  <2> HIDE DEF G
  <2> QED BY <1>1, <1>2, UpTo
<1>4. ASSUME NEW i \in 1..n PROVE After(m, i)
  BY <1>3
<1> QED BY <1>4 DEF Growing

\* What one-hour daylight saving time says of a zone's moments and offsets.
LEMMA ZoneNumbers ==
  ASSUME NEW zone, IsZone(zone)
  PROVE  LET n == Len(zone.transitions)
         IN /\ n \in Nat
            /\ Gmt(zone) \in [1..n -> Int]
            /\ Local(zone) \in [1..n -> Int]
            /\ Offsets(zone) \in [0..n -> Int]
            /\ \A i \in 1..n : Local(zone)[i] = Gmt(zone)[i] + Offsets(zone)[i]
<1> DEFINE n == Len(zone.transitions)
<1>1. n \in Nat
  BY ZoneParts
<1>2. ASSUME NEW i \in 1..n
      PROVE  /\ zone.transitions[i].gmttime \in Int /\ zone.transitions[i].localtime \in Int
             /\ zone.transitions[i].localtime = zone.transitions[i].gmttime + Rule(zone, i).gmtOffset
  BY ZoneParts
<1>3. ASSUME NEW i \in 0..n PROVE Rule(zone, i).gmtOffset \in Int
  BY ZoneParts
<1>4. Gmt(zone) \in [1..n -> Int]
  BY <1>2 DEF Gmt
<1>5. Local(zone) \in [1..n -> Int]
  BY <1>2 DEF Local
<1>6. Offsets(zone) \in [0..n -> Int]
  BY <1>3 DEF Offsets
<1>7. ASSUME NEW i \in 1..n PROVE Local(zone)[i] = Gmt(zone)[i] + Offsets(zone)[i]
  <2>1. i \in 0..n
    BY <1>1
  <2> QED BY <1>2, <2>1 DEF Gmt, Local, Offsets
<1> QED BY <1>1, <1>4, <1>5, <1>6, <1>7

LEMMA OneHourNumbers ==
  ASSUME NEW zone, IsZone(zone), OneHourDst(zone), NEW i \in 1..Len(zone.transitions)
  PROVE  /\ \A j \in 1 .. i - 1 : Gmt(zone)[j] + 7200 <= Gmt(zone)[i]
         /\ Offsets(zone)[i] >= Offsets(zone)[i - 1] \/ Offsets(zone)[i] = Offsets(zone)[i - 1] - 3600
<1> DEFINE n == Len(zone.transitions)
<1>1. n \in Nat /\ i \in DOMAIN zone.transitions
  BY ZoneParts
<1>2. ASSUME NEW j \in 1 .. i - 1 PROVE Gmt(zone)[j] + 7200 <= Gmt(zone)[i]
  <2>1. zone.transitions[j].gmttime + 7200 <= zone.transitions[i].gmttime
    BY <1>1 DEF OneHourDst
  <2>2. j \in 1..n
    BY <1>1
  <2> QED BY <2>1, <2>2 DEF Gmt
<1>3. \/ Rule(zone, i).gmtOffset >= Rule(zone, i - 1).gmtOffset
      \/ Rule(zone, i).gmtOffset = Rule(zone, i - 1).gmtOffset - 3600
  BY <1>1 DEF OneHourDst
<1>4. i \in 0..n /\ i - 1 \in 0..n
  BY <1>1
<1>5. Offsets(zone)[i] >= Offsets(zone)[i - 1] \/ Offsets(zone)[i] = Offsets(zone)[i - 1] - 3600
  BY <1>3, <1>4 DEF Offsets
<1> QED BY <1>2, <1>5

\* The moments of both clocks grow; by the zone's own clock they are an hour apart.
LEMMA MomentsGrow ==
  ASSUME NEW zone, IsZone(zone), OneHourDst(zone)
  PROVE  /\ Growing(Gmt(zone), Len(zone.transitions))
         /\ Growing(Local(zone), Len(zone.transitions))
         /\ \A i \in 2..Len(zone.transitions) : Local(zone)[i - 1] + 3600 <= Local(zone)[i]
<1>1. PICK n, g, l, o : /\ n = Len(zone.transitions) /\ g = Gmt(zone)
                        /\ l = Local(zone) /\ o = Offsets(zone)
  OBVIOUS
<1>2. /\ n \in Nat /\ g \in [1..n -> Int] /\ l \in [1..n -> Int] /\ o \in [0..n -> Int]
      /\ \A i \in 1..n : l[i] = g[i] + o[i]
  BY <1>1, ZoneNumbers
<1>3. ASSUME NEW i \in 1..n
      PROVE  /\ \A j \in 1 .. i - 1 : g[j] + 7200 <= g[i]
             /\ o[i] >= o[i - 1] \/ o[i] = o[i - 1] - 3600
  BY <1>1, OneHourNumbers
<1>4. ASSUME NEW i \in 2..n PROVE g[i - 1] + 7200 <= g[i] /\ l[i - 1] + 3600 <= l[i]
  <2>1. i \in 1..n /\ i - 1 \in 1..n /\ i - 1 \in 1 .. i - 1 /\ i - 1 \in 0..n /\ i \in 0..n
    BY <1>2
  <2>2. g[i - 1] + 7200 <= g[i] /\ (o[i] >= o[i - 1] \/ o[i] = o[i - 1] - 3600)
    BY <1>3, <2>1
  <2>3. g[i] \in Int /\ g[i - 1] \in Int /\ o[i] \in Int /\ o[i - 1] \in Int
    BY <1>2, <2>1
  <2>4. l[i] = g[i] + o[i] /\ l[i - 1] = g[i - 1] + o[i - 1]
    BY <1>2, <2>1
  <2> QED BY <2>2, <2>3, <2>4
<1>5. ASSUME NEW i \in 2..n PROVE g[i - 1] < g[i] /\ l[i - 1] < l[i]
  <2>1. i \in 1..n /\ i - 1 \in 1..n
    BY <1>2
  <2>2. g[i] \in Int /\ g[i - 1] \in Int /\ l[i] \in Int /\ l[i - 1] \in Int
    BY <1>2, <2>1
  <2> QED BY <1>4, <2>2
<1>6. Growing(g, n)
  BY <1>2, <1>5, GrowingStepwise
<1>7. Growing(l, n)
  BY <1>2, <1>5, GrowingStepwise
<1> QED BY <1>1, <1>4, <1>6, <1>7

LEMMA GrowingPairs ==
  ASSUME NEW n \in Nat, NEW m, Growing(m, n), NEW i \in 1..n, NEW j \in 1..n, i < j
  PROVE  m[i] < m[j] /\ m[i] \in Int /\ m[j] \in Int
<1>1. i \in 1 .. j - 1
  OBVIOUS
<1>2. m \in [1..n -> Int]
  BY DEF Growing
<1>3. m[i] < m[j]
  BY <1>1 DEF Growing, After
<1> QED BY <1>2, <1>3

\* Begun, of the moments next to t.
LEMMA BegunBetween ==
  ASSUME NEW n \in Nat, NEW m, Growing(m, n), NEW k \in 0..n, NEW t \in Int,
         k >= 1 => m[k] <= t, k < n => t < m[k + 1]
  PROVE  Begun(m, n, k, t)
<1>1. ASSUME NEW j \in 1 .. k - 1 PROVE m[j] < t
  <2>1. j \in 1..n /\ k \in 1..n /\ j < k /\ m[k] <= t
    OBVIOUS
  <2>2. m[j] < m[k] /\ m[j] \in Int /\ m[k] \in Int
    BY <2>1, GrowingPairs
  <2> QED BY <2>1, <2>2
<1>2. ASSUME NEW j \in k + 1 .. n PROVE t < m[j]
  <2>1. j \in 1..n /\ k + 1 \in 1..n /\ t < m[k + 1]
    OBVIOUS
  <2>2. CASE j = k + 1
    BY <2>1, <2>2
  <2>3. CASE j # k + 1
    <3>1. k + 1 < j
      BY <2>3
    <3>2. m[k + 1] < m[j] /\ m[k + 1] \in Int /\ m[j] \in Int
      BY <2>1, <3>1, GrowingPairs
    <3> QED BY <2>1, <3>2
  <2> QED BY <2>2, <2>3
<1> QED BY <1>1, <1>2 DEF Begun

LEMMA ToLocalTimeIs ==
  ASSUME NEW zone, IsZone(zone), NEW t \in Int, NEW k, Begun(Gmt(zone), Len(zone.transitions), k, t)
  PROVE  toLocalTime(zone, t) = [tm |-> gmtime(t + Rule(zone, k).gmtOffset),
                                 isdst |-> Rule(zone, k).isDst, abbr |-> Rule(zone, k).abbr]
<1>1. PICK r : r = findLocalTime(zone, t, TRUE)
  OBVIOUS
<1>2. r = Rule(zone, k)
  BY <1>1, GmtFound
<1>3. toLocalTime(zone, t) = [tm |-> gmtime(t + r.gmtOffset), isdst |-> r.isDst, abbr |-> r.abbr]
  BY <1>1 DEF toLocalTime
<1> QED BY <1>2, <1>3

\* The local time is the first of two with the same name, and try the second.
Twice(local, try) ==
  /\ local.isdst /\ ~try.isdst
  /\ try.tm.time.hour = local.tm.time.hour
  /\ try.tm.time.min = local.tm.time.min

LocalOffset(zone, seconds) == findLocalTime(zone, seconds, FALSE).gmtOffset

LEMMA FromLocalTimeIs ==
  ASSUME NEW zone, NEW local, NEW L, NEW off, NEW try,
         timegm(local.tm) = L, LocalOffset(zone, L) = off, toLocalTime(zone, L - off) = try
  PROVE  fromLocalTime(zone, local) = L - off - (IF Twice(local, try) THEN 3600 ELSE 0)
<1>1. fromLocalTime(zone, local)
        = timegm(local.tm) - LocalOffset(zone, timegm(local.tm))
            - (IF Twice(local, toLocalTime(zone, timegm(local.tm) - LocalOffset(zone, timegm(local.tm))))
                 THEN 3600 ELSE 0)
  BY DEF fromLocalTime, Twice, LocalOffset
<1> QED BY <1>1

\* A time that is broken down and put together again is the same.
LEMMA LocalTimeReadsBack ==
  ASSUME NEW zone, IsZone(zone), OneHourDst(zone), NEW t \in Int
  PROVE  fromLocalTime(zone, toLocalTime(zone, t)) = t
<1>1. PICK n, g, l, o : /\ n = Len(zone.transitions) /\ g = Gmt(zone)
                        /\ l = Local(zone) /\ o = Offsets(zone)
  OBVIOUS
<1>2. /\ n \in Nat /\ g \in [1..n -> Int] /\ l \in [1..n -> Int] /\ o \in [0..n -> Int]
      /\ \A i \in 1..n : l[i] = g[i] + o[i]
  BY <1>1, ZoneNumbers
<1>30. n \in Nat
  BY <1>2
<1>31. Growing(g, n)
  BY <1>1, MomentsGrow
<1>32. Growing(l, n)
  BY <1>1, MomentsGrow
<1>33. \A i \in 2..n : l[i - 1] + 3600 <= l[i]
  BY <1>1, MomentsGrow
<1>4. PICK k : Begun(g, n, k, t)
  BY <1>30, <1>31, SomeBegun
<1>5. k \in 0..n /\ (k >= 1 => g[k] <= t) /\ (k < n => t < g[k + 1])
  <2>1. k \in 0..n /\ (k >= 1 => g[k] <= t) /\ \A j \in k + 1 .. n : t < g[j]
    BY <1>4 DEF Begun
  <2>2. k < n => k + 1 \in k + 1 .. n
    BY <1>2, <2>1
  <2> QED BY <2>1, <2>2
<1>6. ASSUME NEW i \in 0..n PROVE Rule(zone, i).gmtOffset = o[i] /\ o[i] \in Int
  BY <1>1, <1>2 DEF Offsets
<1>7. PICK L, local : L = t + o[k] /\ local = toLocalTime(zone, t)
  OBVIOUS
<1>8. o[k] \in Int /\ L \in Int
  BY <1>5, <1>6, <1>7
<1>9. local = [tm |-> gmtime(L), isdst |-> Rule(zone, k).isDst, abbr |-> Rule(zone, k).abbr]
  <2>1. Begun(Gmt(zone), Len(zone.transitions), k, t)
    BY <1>1, <1>4
  <2>2. local = [tm |-> gmtime(t + Rule(zone, k).gmtOffset),
                 isdst |-> Rule(zone, k).isDst, abbr |-> Rule(zone, k).abbr]
    BY <1>7, <2>1, ToLocalTimeIs
  <2>3. Rule(zone, k).gmtOffset = o[k]
    BY <1>5, <1>6
  <2> QED BY <1>7, <2>2, <2>3
<1>10. local.tm = gmtime(L) /\ local.isdst = Rule(zone, k).isDst
  BY <1>9
<1>11. timegm(local.tm) = L
  BY <1>8, <1>10, TimegmOfGmtime
<1>12. CASE k < n => L < l[k + 1]
  <2>1. Begun(l, n, k, L)
    <3>1. k >= 1 => l[k] <= L
      <4>1. SUFFICES ASSUME k >= 1 PROVE l[k] <= L
        OBVIOUS
      <4>2. k \in 1..n
        BY <1>2, <1>5, <4>1
      <4>3. l[k] = g[k] + o[k] /\ g[k] <= t /\ g[k] \in Int
        BY <1>2, <1>5, <4>1, <4>2
      <4> QED BY <1>7, <1>8, <4>3
    <3> QED BY ONLY <1>30, <1>32, <1>5, <1>8, <1>12, <3>1, BegunBetween
  <2>2. findLocalTime(zone, L, FALSE) = Rule(zone, k)
    <3>1. Begun(Local(zone), Len(zone.transitions), k, L)
      BY <1>1, <2>1
    <3> QED BY <1>8, <3>1, LocalFound
  <2>3. LocalOffset(zone, L) = o[k]
    BY <1>5, <1>6, <2>2 DEF LocalOffset
  <2>4. L - o[k] = t
    BY <1>7, <1>8
  <2>5. toLocalTime(zone, L - o[k]) = local
    BY <1>7, <2>4
  <2>6. fromLocalTime(zone, local) = L - o[k] - (IF Twice(local, local) THEN 3600 ELSE 0)
    BY ONLY <1>11, <2>3, <2>5, FromLocalTimeIs
  <2>8. ~Twice(local, local)
    BY DEF Twice
  <2>7. fromLocalTime(zone, local) = L - o[k] - 0
    BY <2>6, <2>8
  <2> QED BY <1>7, <1>8, <2>4, <2>7
<1>13. CASE ~(k < n => L < l[k + 1])
  <2>1. k < n /\ k + 1 \in 1..n /\ k + 1 \in 0..n /\ (k + 1) - 1 = k
    BY <1>2, <1>5, <1>13
  <2>2. PICK g1, o1, ok : g1 = g[k + 1] /\ o1 = o[k + 1] /\ ok = o[k]
    OBVIOUS
  <2>3. g1 \in Int /\ o1 \in Int /\ ok \in Int /\ l[k + 1] = g1 + o1 /\ t < g1 /\ L = t + ok
    BY <1>2, <1>5, <1>6, <1>7, <1>8, <2>1, <2>2
  <2>4. L >= g1 + o1
    BY <1>8, <1>13, <2>3
  <2>5. o1 = ok - 3600
    <3>1. o[k + 1] >= o[(k + 1) - 1] \/ o[k + 1] = o[(k + 1) - 1] - 3600
      BY <1>1, <2>1, OneHourNumbers
    <3>2. o1 >= ok \/ o1 = ok - 3600
      BY <2>1, <2>2, <3>1
    <3> QED BY <2>3, <2>4, <3>2
  <2>6. Rule(zone, k).isDst /\ ~Rule(zone, k + 1).isDst
    <3>1. k + 1 \in DOMAIN zone.transitions
      BY <1>1, <2>1, ZoneParts
    <3>2. \/ Rule(zone, k + 1).gmtOffset >= Rule(zone, (k + 1) - 1).gmtOffset
          \/ Rule(zone, (k + 1) - 1).isDst /\ ~Rule(zone, k + 1).isDst
      BY <3>1 DEF OneHourDst
    <3>3. Rule(zone, k + 1).gmtOffset = o1 /\ Rule(zone, (k + 1) - 1).gmtOffset = ok
      BY <1>5, <1>6, <2>1, <2>2
    <3>4. ~(o1 >= ok)
      BY <2>3, <2>5
    <3> QED BY <2>1, <3>2, <3>3, <3>4
  <2>7. g1 <= t + 3600 /\ t + 3600 \in Int /\ L - o1 = t + 3600
    BY <1>8, <2>3, <2>4, <2>5
  <2>8. k + 1 < n => L < l[(k + 1) + 1] /\ t + 3600 < g[(k + 1) + 1]
    <3>1. SUFFICES ASSUME k + 1 < n
                   PROVE  L < l[(k + 1) + 1] /\ t + 3600 < g[(k + 1) + 1]
      OBVIOUS
    <3>2. PICK j : j = (k + 1) + 1
      OBVIOUS
    <3>3. j \in 2..n /\ j \in 1..n /\ j - 1 = k + 1 /\ k + 1 \in 1 .. j - 1
      BY <1>2, <1>5, <3>1, <3>2
    <3>4. l[k + 1] + 3600 <= l[j] /\ l[j] \in Int
      <4>1. l[j - 1] + 3600 <= l[j]
        BY <1>33, <3>3
      <4> QED BY <1>2, <3>3, <4>1
    <3>5. \A i \in 1 .. j - 1 : g[i] + 7200 <= g[j]
      BY <1>1, <3>3, OneHourNumbers
    <3>6. g1 + 7200 <= g[j] /\ g[j] \in Int
      BY <1>2, <2>2, <3>3, <3>5
    <3>7. g1 + o1 + 3600 <= l[j]
      BY <2>3, <3>4
    <3>8. L < l[j] /\ t + 3600 < g[j]
      BY <1>8, <2>3, <2>5, <3>4, <3>6, <3>7
    <3> QED BY <3>2, <3>8
  <2>9. Begun(l, n, k + 1, L)
    <3>1. k + 1 >= 1 => l[k + 1] <= L
      BY <1>8, <2>3, <2>4
    <3> QED BY ONLY <1>30, <1>32, <1>8, <2>1, <2>8, <3>1, BegunBetween
  <2>10. Begun(g, n, k + 1, t + 3600)
    <3>1. k + 1 >= 1 => g[k + 1] <= t + 3600
      BY <2>2, <2>7
    <3> QED BY ONLY <1>30, <1>31, <2>1, <2>7, <2>8, <3>1, BegunBetween
  <2>11. findLocalTime(zone, L, FALSE) = Rule(zone, k + 1)
    <3>1. Begun(Local(zone), Len(zone.transitions), k + 1, L)
      BY <1>1, <2>9
    <3> QED BY <1>8, <3>1, LocalFound
  <2>12. LocalOffset(zone, L) = o1
    BY <1>6, <2>1, <2>2, <2>11 DEF LocalOffset
  <2>13. PICK try : try = toLocalTime(zone, t + 3600)
    OBVIOUS
  <2>14. try = [tm |-> gmtime(t + 3600 + Rule(zone, k + 1).gmtOffset),
                isdst |-> Rule(zone, k + 1).isDst, abbr |-> Rule(zone, k + 1).abbr]
    <3>1. Begun(Gmt(zone), Len(zone.transitions), k + 1, t + 3600)
      BY <1>1, <2>10
    <3> QED BY <2>7, <2>13, <3>1, ToLocalTimeIs
  <2>15. t + 3600 + Rule(zone, k + 1).gmtOffset = L
    <3>1. Rule(zone, k + 1).gmtOffset = o1
      BY <1>6, <2>1, <2>2
    <3>2. t + 3600 + o1 = L
      BY <1>8, <2>3, <2>5
    <3> QED BY <3>1, <3>2
  <2>16. try.tm = gmtime(L) /\ try.isdst = Rule(zone, k + 1).isDst
    BY <2>14, <2>15
  <2>17. toLocalTime(zone, L - o1) = try
    BY <2>7, <2>13
  <2>18. fromLocalTime(zone, local) = L - o1 - (IF Twice(local, try) THEN 3600 ELSE 0)
    BY ONLY <1>11, <2>12, <2>17, FromLocalTimeIs
  <2>19. Twice(local, try)
    BY <1>10, <2>6, <2>16 DEF Twice
  <2>20. fromLocalTime(zone, local) = L - o1 - 3600
    BY <2>18, <2>19
  <2>21. L - o1 - 3600 = t
    BY <1>8, <2>3, <2>7
  <2> QED BY <1>7, <2>20, <2>21
<1> QED BY <1>12, <1>13

-----------------------------------------------------------------------------
(***************************************************************************)
(* Times read back whatever the clock and the zones.                       *)
(***************************************************************************)

LEMMA NearbyIsNear ==
  ASSUME clock \in Instants, NEW t \in Nearby
  PROVE  t \in Int /\ t \div kSecondsPerDay >= -1
<1>1. clock \in Nat
  BY LoggerAssumption
<1>2. PICK d \in {-3601, -3600, -1801, -1, 0, 1, 1799, 3599, 3600, 86399} : t = clock + d
  BY DEF Nearby
<1>3. d \in Int /\ d >= -3601
  BY <1>2, SMT
<1>4. t \in Int /\ t >= -3601
  BY <1>1, <1>2, <1>3
<1>5. kSecondsPerDay = 86400
  BY SMT DEF kSecondsPerDay
<1>6. t \div 86400 >= -1
  BY <1>4, SMT
<1> QED BY <1>4, <1>5, <1>6

LEMMA ReadsBack ==
  ASSUME clock \in Instants
  PROVE  TimesReadBack
<1> SUFFICES ASSUME NEW t \in Nearby
             PROVE  /\ toUtcTime(t) = gmtime(t)
                    /\ fromUtcTime(toUtcTime(t)) = t
                    /\ \A z \in Zones : OneHourDst(ZoneData[z])
                         => fromLocalTime(ZoneData[z], toLocalTime(ZoneData[z], t)) = t
  BY DEF TimesReadBack
<1>1. t \in Int /\ t \div kSecondsPerDay >= -1
  BY NearbyIsNear
<1>2. toUtcTime(t) = gmtime(t)
  BY <1>1, ToUtcTimeIsGmtime
<1>3. fromUtcTime(gmtime(t)) = t
  BY <1>1, FromUtcTimeOfGmtime
<1>4. ASSUME NEW z \in Zones, OneHourDst(ZoneData[z])
      PROVE  fromLocalTime(ZoneData[z], toLocalTime(ZoneData[z], t)) = t
  <2>1. PICK zone : zone = ZoneData[z]
    OBVIOUS
  <2>2. IsZone(zone) /\ OneHourDst(zone)
    BY <1>4, <2>1, LoggerAssumption
  <2>3. fromLocalTime(zone, toLocalTime(zone, t)) = t
    BY <1>1, <2>2, LocalTimeReadsBack
  <2> QED BY <2>1, <2>3
<1> QED BY <1>2, <1>3, <1>4

\* The clock is never set to a value that it cannot have.
LEMMA ClockShowsInstants == LoggerSpec => [](clock \in Instants)
<1>1. LoggerInit => clock \in Instants
  BY DEF LoggerInit
<1>2. clock \in Instants /\ [LoggerNext]_loggerVars => (clock \in Instants)'
  BY DEF LoggerNext, loggerVars, Tick, setTimeZone, setLogLevel, LogStatement
<1> QED BY <1>1, <1>2, PTL DEF LoggerSpec

\* For every clock and every zone with one-hour daylight saving time: toUtcTime agrees with
\* the calendar, and fromUtcTime and fromLocalTime undo toUtcTime and toLocalTime, also in
\* the hour that is there twice (TimeZone.cc:151-224, Date.cc:8-26).
THEOREM TimesAlwaysReadBack == LoggerSpec => []TimesReadBack
<1>1. (clock \in Instants) => TimesReadBack
  BY ReadsBack
<1> QED BY <1>1, ClockShowsInstants, PTL

-----------------------------------------------------------------------------
(***************************************************************************)
(* Stamps tell the time: the text a thread keeps is that of the second and *)
(* the zone it keeps with it.                                              *)
(***************************************************************************)

\* What findLocalTime finds is one of the rules, whether the transitions grow or not.
LEMMA SomeRuleFound ==
  ASSUME NEW zone, IsZone(zone), NEW t \in Int, NEW gmt \in BOOLEAN
  PROVE  \E i \in DOMAIN zone.localtimes : findLocalTime(zone, t, gmt) = zone.localtimes[i]
<1> DEFINE n == Len(zone.transitions)
           S == {i \in DOMAIN zone.transitions : Moment(zone, i, gmt) >= t}
<1>1. /\ n \in Nat /\ DOMAIN zone.transitions = 1..n
      /\ \A i \in 1..n : zone.transitions[i].gmttime \in Int /\ zone.transitions[i].localtime \in Int
  BY ZoneParts
<1>2. \A i \in 1..n : Moment(zone, i, gmt) \in Int
  BY <1>1 DEF Moment
<1>3. ASSUME NEW k \in 0..n PROVE \E i \in DOMAIN zone.localtimes : Rule(zone, k) = zone.localtimes[i]
  BY ZoneParts
<1>4. CASE zone.transitions = <<>> \/ t < Moment(zone, 1, gmt)
  <2>1. findLocalTime(zone, t, gmt) = Rule(zone, 0)
    BY <1>4 DEF findLocalTime, Rule
  <2> QED BY <1>1, <1>3, <2>1
<1>5. CASE ~(zone.transitions = <<>> \/ t < Moment(zone, 1, gmt))
  <2>1. n # 0
    <3>1. zone.transitions \in Seq([gmttime : Int, localtimeIdx : Nat, localtime : Int])
      BY DEF IsZone
    <3> QED BY <1>5, <3>1, EmptySeq
  <2>2. PICK k : k = transI(zone, t, gmt)
    OBVIOUS
  <2>3. k = IF S = {} THEN n ELSE IF Moment(zone, Min(S), gmt) = t THEN Min(S) ELSE Min(S) - 1
    BY <2>2 DEF transI
  <2>4. k \in 1..n
    <3>1. CASE S = {}
      <4> HIDE DEF S
      <4> QED BY <1>1, <2>1, <2>3, <3>1
    <3>2. CASE S # {}
      <4>1. S \subseteq 1..n /\ S \subseteq Nat
        BY <1>1
      <4>2. \E x \in S : \A y \in S : x <= y
        <5> HIDE DEF S
        <5> QED BY <3>2, <4>1, LeastOf
      <4>3. Min(S) \in S
        <5> HIDE DEF S
        <5> QED BY <4>2 DEF Min
      <4>4. PICK m : m = Min(S)
        OBVIOUS
      <4>5. m \in 1..n /\ Moment(zone, m, gmt) >= t
        BY <4>1, <4>3, <4>4
      <4>6. k = IF Moment(zone, m, gmt) = t THEN m ELSE m - 1
        <5> HIDE DEF S
        <5> QED BY <2>3, <3>2, <4>4
      <4>7. CASE Moment(zone, m, gmt) = t
        BY <4>5, <4>6, <4>7
      <4>8. CASE Moment(zone, m, gmt) # t
        <5>1. 1 \in 1..n
          BY <1>1, <2>1
        <5>2. ~(t < Moment(zone, 1, gmt)) /\ Moment(zone, 1, gmt) \in Int
          BY <1>2, <1>5, <5>1
        <5>3. m # 1
          BY <4>5, <4>8, <5>2
        <5> QED BY <1>1, <4>5, <4>6, <4>8, <5>3
      <4> QED BY <4>7, <4>8
    <3> QED BY <3>1, <3>2
  <2>5. findLocalTime(zone, t, gmt) = Rule(zone, k)
    <3>1. k # 0
      BY <2>4
    <3> QED BY <1>5, <2>2, <3>1 DEF findLocalTime, Rule
  <2>6. k \in 0..n
    BY <1>1, <2>4
  <2> QED BY <1>3, <2>5, <2>6
<1> QED BY <1>4, <1>5

LEMMA RuleAt ==
  ASSUME NEW zone, IsZone(zone), NEW t \in Int
  PROVE  \E i \in DOMAIN zone.localtimes :
           /\ findLocalTime(zone, t, TRUE) = zone.localtimes[i]
           /\ zone.localtimes[i].gmtOffset \in Int
<1>1. PICK gmt \in BOOLEAN : gmt = TRUE
  OBVIOUS
<1>2. PICK i \in DOMAIN zone.localtimes : findLocalTime(zone, t, gmt) = zone.localtimes[i]
  BY SomeRuleFound
<1>3. PICK S : S = [gmtOffset : Int, isDst : BOOLEAN, abbr : STRING]
  OBVIOUS
<1>4. zone.localtimes \in Seq(S)
  BY <1>3 DEF IsZone
<1>5. zone.localtimes[i] \in S
  BY ONLY <1>4, i \in DOMAIN zone.localtimes
<1>6. zone.localtimes[i].gmtOffset \in Int
  BY <1>3, <1>5
<1> QED BY <1>1, <1>2, <1>6

\* The text of a second in a zone.
TimeIn(z, second) == IF z = UTC THEN gmtime(second) ELSE toLocalTime(ZoneData[z], second).tm

LEMMA SomeRuleTells ==
  ASSUME clock \in Instants, NEW z \in Zones \cup {UTC}
  PROVE  \E r \in Rules(z) : r.abbr = Abbr(z) /\ timegm(TimeIn(z, clock)) - r.gmtOffset = clock
<1>1. PICK now0 : now0 = clock
  OBVIOUS
<1>2. now0 \in Int
  BY <1>1, LoggerAssumption
<1>3. CASE z = UTC
  <2>1. PICK r : r = [gmtOffset |-> 0, isDst |-> FALSE, abbr |-> "GMT"]
    OBVIOUS
  <2>2. r \in Rules(z) /\ r.gmtOffset = 0 /\ r.abbr = Abbr(z)
    BY <1>3, <2>1 DEF Rules, Abbr
  <2>3. timegm(TimeIn(z, now0)) = now0
    BY <1>2, <1>3, TimegmOfGmtime DEF TimeIn
  <2>4. timegm(TimeIn(z, now0)) - r.gmtOffset = now0
    BY <1>2, <2>2, <2>3
  <2> QED BY <1>1, <2>2, <2>4
<1>4. CASE z # UTC
  <2>1. z \in Zones
    BY <1>4
  <2>2. PICK zone : zone = ZoneData[z]
    OBVIOUS
  <2>3. IsZone(zone)
    BY <2>1, <2>2, LoggerAssumption
  <2>4. PICK i \in DOMAIN zone.localtimes :
          findLocalTime(zone, now0, TRUE) = zone.localtimes[i] /\ zone.localtimes[i].gmtOffset \in Int
    BY <1>2, <2>3, RuleAt
  <2>5. PICK r : r = zone.localtimes[i]
    OBVIOUS
  <2>6. r \in Rules(z)
    BY <1>4, <2>2, <2>5 DEF Rules
  <2>7. r.abbr = Abbr(z)
    BY <1>1, <1>4, <2>2, <2>4, <2>5 DEF Abbr
  <2>8. TimeIn(z, now0) = gmtime(now0 + r.gmtOffset)
    <3>1. toLocalTime(zone, now0) = [tm |-> gmtime(now0 + r.gmtOffset), isdst |-> r.isDst, abbr |-> r.abbr]
      BY <2>4, <2>5 DEF toLocalTime
    <3> QED BY <1>4, <2>2, <3>1 DEF TimeIn
  <2>9. r.gmtOffset \in Int /\ now0 + r.gmtOffset \in Int
    BY <1>2, <2>4, <2>5
  <2>10. timegm(TimeIn(z, now0)) = now0 + r.gmtOffset
    BY <2>8, <2>9, TimegmOfGmtime
  <2>11. timegm(TimeIn(z, now0)) - r.gmtOffset = now0
    BY <1>2, <2>9, <2>10
  <2> QED BY <1>1, <2>6, <2>7, <2>11
<1> QED BY <1>3, <1>4

\* What a thread has kept is the time of a second in a zone, unless it is second 0.
StampKept(t) == t_lastSecond[t] # 0 => t_time[t] = TimeIn(stampZone[t], t_lastSecond[t])

StampInv ==
  /\ clock \in Instants
  /\ g_logTimeZone \in Zones \cup {UTC}
  /\ nameZone \in [Threads -> Zones \cup {UTC}]
  /\ stampZone \in [Threads -> Zones \cup {UTC}]
  /\ t_lastSecond \in [Threads -> Instants \cup {0}]
  /\ DOMAIN t_time = Threads
  /\ \A t \in Threads : StampKept(t)

LEMMA FormatTimeKeeps ==
  ASSUME StampInv, NEW t \in Threads, formatTime(t)
  PROVE  /\ stampZone' \in [Threads -> Zones \cup {UTC}]
         /\ t_lastSecond' \in [Threads -> Instants \cup {0}]
         /\ DOMAIN t_time' = Threads
         /\ \A u \in Threads : StampKept(u)'
         /\ t_lastSecond'[t] = clock
<1>1. CASE clock # t_lastSecond[t]
  <2>1. /\ t_lastSecond' = [t_lastSecond EXCEPT ![t] = clock]
        /\ t_time' = [t_time EXCEPT ![t] = LocalTime(g_logTimeZone)]
        /\ stampZone' = [stampZone EXCEPT ![t] = g_logTimeZone]
    BY <1>1 DEF formatTime
  <2>2. stampZone' \in [Threads -> Zones \cup {UTC}]
    BY <2>1 DEF StampInv
  <2>3. t_lastSecond' \in [Threads -> Instants \cup {0}] /\ t_lastSecond'[t] = clock
    BY <2>1 DEF StampInv
  <2>4. DOMAIN t_time' = Threads
    BY <2>1 DEF StampInv
  <2>5. ASSUME NEW u \in Threads PROVE StampKept(u)'
    <3>1. CASE u = t
      <4>1. t_time'[u] = LocalTime(g_logTimeZone) /\ stampZone'[u] = g_logTimeZone
            /\ t_lastSecond'[u] = clock
        BY <2>1, <3>1 DEF StampInv
      <4>2. LocalTime(g_logTimeZone) = TimeIn(g_logTimeZone, clock)
        BY DEF LocalTime, TimeIn
      <4>3. t_time'[u] = TimeIn(stampZone'[u], t_lastSecond'[u])
        BY <4>1, <4>2
      <4> QED BY <4>3 DEF StampKept, TimeIn
    <3>2. CASE u # t
      <4>1. t_time'[u] = t_time[u] /\ stampZone'[u] = stampZone[u] /\ t_lastSecond'[u] = t_lastSecond[u]
        BY <2>1, <3>2 DEF StampInv
      <4>2. StampKept(u)
        BY DEF StampInv
      <4> QED BY <4>1, <4>2 DEF StampKept, TimeIn
    <3> QED BY <3>1, <3>2
  <2> QED BY <2>2, <2>3, <2>4, <2>5
<1>2. CASE clock = t_lastSecond[t]
  <2>1. UNCHANGED <<t_lastSecond, t_time, stampZone>>
    BY <1>2 DEF formatTime
  <2>2. ASSUME NEW u \in Threads PROVE StampKept(u)'
    BY <2>1 DEF StampInv, StampKept, TimeIn
  <2> QED BY <1>2, <2>1, <2>2 DEF StampInv
<1> QED BY <1>1, <1>2

LEMMA StampInvNext ==
  ASSUME StampInv, [LoggerNext]_loggerVars
  PROVE  StampInv'
<1>1. CASE \E t \in Threads, level \in DOMAIN Levels, message \in Messages : LogStatement(t, level, message)
  <2>1. PICK t \in Threads, level \in DOMAIN Levels, message \in Messages : LogStatement(t, level, message)
    BY <1>1
  <2>2. formatTime(t) /\ UNCHANGED <<clock, g_logTimeZone, nameZone>>
    BY <2>1 DEF LogStatement
  <2>3. /\ stampZone' \in [Threads -> Zones \cup {UTC}]
        /\ t_lastSecond' \in [Threads -> Instants \cup {0}]
        /\ DOMAIN t_time' = Threads
        /\ \A u \in Threads : StampKept(u)'
    BY <2>2, FormatTimeKeeps
  <2> QED BY <2>2, <2>3 DEF StampInv
<1>2. CASE UNCHANGED <<t_lastSecond, t_time, stampZone>>
           /\ clock' \in Instants /\ g_logTimeZone' \in Zones \cup {UTC}
           /\ nameZone' \in [Threads -> Zones \cup {UTC}]
  <2>1. ASSUME NEW u \in Threads PROVE StampKept(u)'
    BY <1>2 DEF StampInv, StampKept, TimeIn
  <2> QED BY <1>2, <2>1 DEF StampInv
<1>3. CASE Tick
  BY <1>2, <1>3 DEF Tick, StampInv, threadVars
<1>4. ASSUME NEW t \in Threads, NEW z \in Zones, setTimeZone(t, z) PROVE StampInv'
  BY <1>2, <1>4 DEF setTimeZone, StampInv
<1>5. ASSUME NEW level \in DOMAIN Levels, setLogLevel(level) PROVE StampInv'
  BY <1>2, <1>5 DEF setLogLevel, StampInv, threadVars
<1>6. CASE UNCHANGED loggerVars
  BY <1>2, <1>6 DEF loggerVars, threadVars, StampInv
<1> QED BY <1>1, <1>3, <1>4, <1>5, <1>6 DEF LoggerNext

LEMMA StampInvHolds == LoggerSpec => []StampInv
<1>1. ASSUME LoggerInit PROVE StampInv
  <2>1. /\ clock \in Instants /\ g_logTimeZone = UTC
        /\ t_lastSecond = [t \in Threads |-> 0] /\ t_time = [t \in Threads |-> Blank]
        /\ stampZone = [t \in Threads |-> UTC] /\ nameZone = [t \in Threads |-> UTC]
    BY <1>1 DEF LoggerInit
  <2>2. ASSUME NEW t \in Threads PROVE StampKept(t)
    BY <2>1 DEF StampKept
  <2>3. DOMAIN t_time = Threads
    BY <2>1
  <2> QED BY <2>1, <2>2, <2>3 DEF StampInv
<1>2. StampInv /\ [LoggerNext]_loggerVars => StampInv'
  BY StampInvNext
<1> QED BY <1>1, <1>2, PTL DEF LoggerSpec

\* A step that writes a line writes it with the time of the clock.
LEMMA LinesTellTime ==
  ASSUME StampInv, [LoggerNext]_loggerVars, lastLine' # lastLine, NEW u \in Threads
  PROVE  TellsTime(u)
<1>1. PICK t \in Threads, level \in DOMAIN Levels, message \in Messages : LogStatement(t, level, message)
  BY DEF LoggerNext, loggerVars, Tick, setTimeZone, setLogLevel
<1> SUFFICES ASSUME lastLine'.thread = u, clock # 0,
                    stampZone'[u] = nameZone[u], t_zoneAbbr[u] = Abbr(nameZone[u])
             PROVE  \E r \in Rules(nameZone[u]) :
                      r.abbr = lastLine'.abbr /\ timegm(lastLine'.time) - r.gmtOffset = clock
  BY DEF TellsTime
<1>2. PICK parts, buffer :
        lastLine' = [thread |-> t, at |-> clock, time |-> t_time'[t], abbr |-> t_zoneAbbr[t],
                     parts |-> parts, buffer |-> buffer]
  BY <1>1 DEF LogStatement
<1>3. lastLine'.thread = t /\ lastLine'.time = t_time'[t] /\ lastLine'.abbr = t_zoneAbbr[t]
  BY <1>2
<1>4. formatTime(t)
  BY <1>1 DEF LogStatement
<1>5. t_lastSecond'[t] = clock /\ StampKept(t)'
  BY <1>4, FormatTimeKeeps
<1>6. t_time'[t] = TimeIn(stampZone'[t], clock)
  BY <1>5 DEF StampKept, TimeIn
<1>7. PICK z : z = nameZone[u]
  OBVIOUS
<1>8. z \in Zones \cup {UTC}
  BY <1>7 DEF StampInv
<1>9. clock \in Instants
  BY DEF StampInv
<1>10. PICK r \in Rules(z) : r.abbr = Abbr(z) /\ timegm(TimeIn(z, clock)) - r.gmtOffset = clock
  BY <1>8, <1>9, SomeRuleTells
<1>11. lastLine'.time = TimeIn(z, clock) /\ lastLine'.abbr = Abbr(z)
  BY <1>3, <1>6, <1>7
<1> QED BY <1>7, <1>10, <1>11

\* For every zone, however the clock is set: a line's stamp and the name of the zone next
\* to it tell when it was written, if the name is that of the zone of the stamp
\* (Logging.cc:115-118, 135-153).
THEOREM StampsAlwaysTellTime == LoggerSpec => StampsTellTime
<1>1. StampInv /\ [LoggerNext]_loggerVars
        => [\A t \in Threads : lastLine' # lastLine => TellsTime(t)]_loggerVars
  BY LinesTellTime
<1> QED BY <1>1, StampInvHolds, PTL DEF LoggerSpec, StampsTellTime

-----------------------------------------------------------------------------
(***************************************************************************)
(* Lines are whole: by the number of parts that were put into the buffer.  *)
(***************************************************************************)

Entries == [part : Nat, took : Nat, end : Nat]

\* What is true of the buffer after n parts.
WholeUpTo(parts, n, b) ==
  /\ b \in Seq(Entries)
  /\ LS!length(b) <= kSmallBuffer
  /\ \A i \in DOMAIN b : Fits(parts, b, i) /\ b[i].part <= n
  /\ \A i \in 1..n : Missing(b, i) => parts[i].kind = "number" /\ LS!avail(b) < kMaxNumericSize

LEMMA EntryParts ==
  ASSUME NEW b \in Seq(Entries), NEW i \in 1..Len(b)
  PROVE  b[i].part \in Nat /\ b[i].took \in Nat /\ b[i].end \in Nat
<1>1. b[i] \in Entries
  OBVIOUS
<1> QED BY <1>1 DEF Entries

LEMMA LengthIsNumber ==
  ASSUME NEW b \in Seq(Entries)
  PROVE  LS!length(b) \in Nat
<1>1. CASE b = <<>>
  BY <1>1 DEF LS!length
<1>2. CASE b # <<>>
  <2>1. Len(b) \in 1..Len(b)
    BY <1>2, EmptySeq
  <2>2. b[Len(b)].end \in Nat
    BY <2>1, EntryParts
  <2> QED BY <1>2, <2>2 DEF LS!length
<1> QED BY <1>1, <1>2

\* A part is added: as a whole, or cut at the end of the buffer.
LEMMA AddedIsWhole ==
  ASSUME NEW parts \in Seq(LS!Parts), NEW n \in 1..Len(parts), NEW b, WholeUpTo(parts, n - 1, b),
         NEW took \in Nat, LS!length(b) + took <= kSmallBuffer,
         \/ took = parts[n].len
         \/ took < parts[n].len /\ parts[n].kind = "text" /\ LS!length(b) + took = kSmallBuffer
  PROVE  WholeUpTo(parts, n, LS!add(b, n, took))
<1>1. PICK l, e, c : /\ l = LS!length(b) /\ e = [part |-> n, took |-> took, end |-> l + took]
                     /\ c = Append(b, e)
  OBVIOUS
<1>2. c = LS!add(b, n, took)
  BY <1>1 DEF LS!add
<1>3. b \in Seq(Entries) /\ l \in Nat
  BY <1>1, LengthIsNumber DEF WholeUpTo
<1>4. e.part = n /\ e.took = took /\ e.end = l + took
  BY <1>1
<1>5. e \in Entries
  BY <1>1, <1>3 DEF Entries
<1>6. PICK k : k = Len(b)
  OBVIOUS
<1>7. k \in Nat /\ DOMAIN b = 1..k
  BY <1>3, <1>6
<1>8. /\ c \in Seq(Entries) /\ Len(c) = k + 1 /\ DOMAIN c = 1 .. k + 1
      /\ c[k + 1] = e /\ \A j \in 1..k : c[j] = b[j]
  BY <1>1, <1>3, <1>5, <1>6
<1>9. LS!length(c) = l + took
  <2>1. c # <<>>
    BY <1>7, <1>8
  <2>2. LS!length(c) = c[k + 1].end
    BY <1>8, <2>1 DEF LS!length
  <2> QED BY <1>4, <1>8, <2>2
<1>10. LS!length(c) <= kSmallBuffer
  BY <1>1, <1>9
<1>11. ASSUME NEW i \in 1 .. k + 1 PROVE Fits(parts, c, i) /\ c[i].part <= n
  <2>1. CASE i \in 1..k
    <3>1. Fits(parts, b, i) /\ b[i].part <= n - 1
      BY <1>7, <2>1 DEF WholeUpTo
    <3>5. i > 1 => i - 1 \in 1..k
      BY <1>7, <2>1
    <3>2. c[i] = b[i] /\ (i > 1 => c[i - 1] = b[i - 1])
      BY <1>8, <2>1, <3>5
    <3>3. Fits(parts, c, i)
      BY <2>1, <3>1, <3>2 DEF Fits
    <3>4. b[i].part \in Nat
      BY <1>3, <1>6, <2>1, EntryParts
    <3> QED BY <3>1, <3>2, <3>3, <3>4
  <2>2. CASE i = k + 1
    <3>1. c[i].part = n /\ c[i].took = took /\ c[i].end = l + took
      BY <1>4, <1>8, <2>2
    <3>2. n \in DOMAIN parts
      OBVIOUS
    <3>3. i > 1 => c[i - 1].part < n /\ c[i - 1].end = l
      <4>1. SUFFICES ASSUME i > 1 PROVE c[i - 1].part < n /\ c[i - 1].end = l
        OBVIOUS
      <4>2. i - 1 = k /\ k \in 1..k
        BY <1>7, <2>2, <4>1
      <4>3. c[i - 1] = b[k]
        BY <1>8, <4>2
      <4>4. b[k].part <= n - 1 /\ b[k].part \in Nat
        BY <1>3, <1>6, <1>7, <4>2, EntryParts DEF WholeUpTo
      <4>5. b # <<>>
        BY <1>6, <4>2
      <4>6. b[k].end = l
        BY <1>1, <1>6, <4>5 DEF LS!length
      <4> QED BY <4>3, <4>4, <4>6
    <3>4. i = 1 => l = 0
      <4>1. SUFFICES ASSUME i = 1 PROVE l = 0
        OBVIOUS
      <4>2. Len(b) = 0
        BY <1>6, <1>7, <2>2, <4>1
      <4>3. b = <<>>
        BY <1>3, <4>2, EmptySeq
      <4> QED BY <1>1, <4>3 DEF LS!length
    <3>5. c[i].end = (IF i = 1 THEN 0 ELSE c[i - 1].end) + c[i].took
      <4>1. CASE i = 1
        BY <3>1, <3>4, <4>1
      <4>2. CASE i # 1
        <5>1. i > 1
          BY <1>7, <2>2, <4>2
        <5> QED BY <3>1, <3>3, <4>2, <5>1
      <4> QED BY <4>1, <4>2
    <3>6. \/ c[i].took = parts[c[i].part].len
          \/ /\ c[i].took < parts[c[i].part].len
             /\ parts[c[i].part].kind = "text" /\ c[i].end = kSmallBuffer
      BY <1>1, <3>1
    <3>7. Fits(parts, c, i)
      BY <3>1, <3>2, <3>3, <3>5, <3>6 DEF Fits
    <3>8. c[i].part <= n
      BY <3>1
    <3> QED BY <3>7, <3>8
  <2> QED BY <1>7, <2>1, <2>2
<1>12. ASSUME NEW i \in 1..n, Missing(c, i)
       PROVE  parts[i].kind = "number" /\ LS!avail(c) < kMaxNumericSize
  <2>1. i # n
    BY <1>4, <1>7, <1>8, <1>12 DEF Missing
  <2>2. i \in 1 .. n - 1
    BY <2>1
  <2>3. Missing(b, i)
    BY <1>7, <1>8, <1>12 DEF Missing
  <2>4. parts[i].kind = "number" /\ LS!avail(b) < kMaxNumericSize
    BY <2>2, <2>3 DEF WholeUpTo
  <2>5. LS!avail(b) = kSmallBuffer - l /\ LS!avail(c) = kSmallBuffer - (l + took)
    BY <1>1, <1>9 DEF LS!avail
  <2>6. kSmallBuffer \in Nat /\ kMaxNumericSize \in Nat
    BY LoggerAssumption
  <2> QED BY <1>3, <2>4, <2>5, <2>6
<1>13. WholeUpTo(parts, n, c)
  BY <1>8, <1>10, <1>11, <1>12 DEF WholeUpTo
<1> QED BY <1>2, <1>13

\* One part more.
LEMMA PutIsWhole ==
  ASSUME NEW parts \in Seq(LS!Parts), NEW n \in 1..Len(parts), NEW b, WholeUpTo(parts, n - 1, b)
  PROVE  WholeUpTo(parts, n, LS!Put(b, parts, n))
<1>1. PICK l, part : l = LS!length(b) /\ part = parts[n]
  OBVIOUS
<1>2. b \in Seq(Entries) /\ l \in Nat /\ l <= kSmallBuffer
  BY <1>1, LengthIsNumber DEF WholeUpTo
<1>3. kSmallBuffer \in Nat /\ kMaxNumericSize \in Nat
  BY LoggerAssumption
<1>4. part \in LS!Parts
  BY <1>1
<1>5. part.len \in Nat /\ (part.kind = "number" => part.len <= kMaxNumericSize)
      /\ part.kind \in {"text", "number"}
  BY <1>3, <1>4 DEF LS!Parts
<1>6. LS!avail(b) = kSmallBuffer - l
  BY <1>1 DEF LS!avail
<1>7. CASE part.kind = "number" /\ LS!avail(b) >= kMaxNumericSize
  <2>1. LS!Put(b, parts, n) = LS!add(b, n, part.len)
    BY <1>1, <1>7 DEF LS!Put, LS!formatNumber
  <2>2. l + part.len <= kSmallBuffer
    BY <1>2, <1>3, <1>5, <1>6, <1>7
  <2> QED BY <1>1, <1>5, <2>1, <2>2, AddedIsWhole
<1>8. CASE part.kind = "number" /\ ~(LS!avail(b) >= kMaxNumericSize)
  <2>1. LS!Put(b, parts, n) = b
    BY <1>1, <1>8 DEF LS!Put, LS!formatNumber
  <2>2. LS!avail(b) < kMaxNumericSize
    BY <1>2, <1>3, <1>6, <1>8
  <2>3. ASSUME NEW i \in DOMAIN b PROVE Fits(parts, b, i) /\ b[i].part <= n
    <3>1. Fits(parts, b, i) /\ b[i].part <= n - 1
      BY DEF WholeUpTo
    <3>2. i \in 1..Len(b)
      BY <1>2
    <3>3. b[i].part \in Nat
      BY <1>2, <3>2, EntryParts
    <3> QED BY <3>1, <3>3
  <2>4. ASSUME NEW i \in 1..n, Missing(b, i)
        PROVE  parts[i].kind = "number" /\ LS!avail(b) < kMaxNumericSize
    <3>1. CASE i = n
      BY <1>1, <1>8, <2>2, <3>1
    <3>2. CASE i # n
      <4>1. i \in 1 .. n - 1
        BY <3>2
      <4> QED BY <2>4, <4>1 DEF WholeUpTo
    <3> QED BY <3>1, <3>2
  <2>5. WholeUpTo(parts, n, b)
    BY <1>1, <1>2, <2>3, <2>4 DEF WholeUpTo
  <2> QED BY <2>1, <2>5
<1>9. CASE part.kind # "number"
  <2>1. PICK took : took = IF LS!avail(b) < part.len THEN LS!avail(b) ELSE part.len
    OBVIOUS
  <2>2. LS!Put(b, parts, n) = LS!add(b, n, took)
    BY <1>1, <1>9, <2>1 DEF LS!Put, LS!append
  <2>3. took \in Nat /\ l + took <= kSmallBuffer
        /\ (took = part.len \/ (took < part.len /\ l + took = kSmallBuffer))
    BY <1>2, <1>3, <1>5, <1>6, <2>1
  <2>4. part.kind = "text"
    BY <1>5, <1>9
  <2> QED BY <1>1, <2>2, <2>3, <2>4, AddedIsWhole
<1> QED BY <1>7, <1>8, <1>9

\* f has the buffers after 0 to n parts.
Streams(parts, n, f) == f = [i \in 0..n |-> IF i = 0 THEN <<>> ELSE LS!Put(f[i - 1], parts, i)]

LEMMA StreamsAt ==
  ASSUME NEW parts, NEW n \in Nat, NEW f, Streams(parts, n, f), NEW i \in 0..n
  PROVE  f[i] = IF i = 0 THEN <<>> ELSE LS!Put(f[i - 1], parts, i)
<1> DEFINE g == [k \in 0..n |-> IF k = 0 THEN <<>> ELSE LS!Put(f[k - 1], parts, k)]
<1>1. g[i] = IF i = 0 THEN <<>> ELSE LS!Put(f[i - 1], parts, i)
  OBVIOUS
<1>2. f = g
  BY DEF Streams
<1> QED BY <1>1, <1>2

LEMMA StreamsGoOn ==
  ASSUME NEW parts, NEW n \in Nat, n # 0, NEW f, Streams(parts, n - 1, f)
  PROVE  \E g : Streams(parts, n, g)
<1> DEFINE g == [i \in 0..n |-> IF i = n THEN LS!Put(f[n - 1], parts, n) ELSE f[i]]
<1>1. n - 1 \in Nat /\ n - 1 \in 0..n /\ n - 1 # n /\ n \in 0..n
  OBVIOUS
<1>2. \A i \in 0 .. n - 1 : g[i] = f[i]
  OBVIOUS
<1>3. ASSUME NEW i \in 0..n PROVE g[i] = IF i = 0 THEN <<>> ELSE LS!Put(g[i - 1], parts, i)
  <2>1. CASE i = n
    <3>1. g[n] = LS!Put(f[n - 1], parts, n) /\ g[n - 1] = f[n - 1]
      BY <1>1
    <3> HIDE DEF g
    <3> QED BY <2>1, <3>1
  <2>2. CASE i # n
    <3>1. i \in 0 .. n - 1 /\ (i # 0 => i - 1 \in 0 .. n - 1)
      BY <2>2
    <3>2. f[i] = IF i = 0 THEN <<>> ELSE LS!Put(f[i - 1], parts, i)
      BY <1>1, <3>1, StreamsAt
    <3> HIDE DEF g
    <3>3. g[i] = f[i] /\ (i # 0 => g[i - 1] = f[i - 1])
      BY <1>2, <3>1
    <3> QED BY <3>2, <3>3
  <2> QED BY <2>1, <2>2
<1>4. g = [i \in 0..n |-> g[i]]
  OBVIOUS
<1> HIDE DEF g
<1>5. g = [i \in 0..n |-> IF i = 0 THEN <<>> ELSE LS!Put(g[i - 1], parts, i)]
  BY <1>3, <1>4
<1>6. Streams(parts, n, g)
  BY <1>5 DEF Streams
<1> QED BY <1>6

LEMMA StreamsExist ==
  ASSUME NEW parts, NEW n \in Nat
  PROVE  \E f : Streams(parts, n, f)
<1> DEFINE G == {i \in 0..n : \E f : Streams(parts, i, f)}
<1>1. 0 \in G
  <2>1. PICK f : f = [i \in 0..0 |-> <<>>]
    OBVIOUS
  <2>2. [i \in 0..0 |-> IF i = 0 THEN <<>> ELSE LS!Put(f[i - 1], parts, i)] = [i \in 0..0 |-> <<>>]
    OBVIOUS
  <2>3. Streams(parts, 0, f)
    BY <2>1, <2>2 DEF Streams
  <2> QED BY <2>3
<1>2. ASSUME NEW i \in 1..n, i - 1 \in G PROVE i \in G
  <2>1. PICK f : Streams(parts, i - 1, f)
    BY <1>2
  <2>2. i \in Nat /\ i # 0
    OBVIOUS
  <2>3. \E g : Streams(parts, i, g)
    BY <2>1, <2>2, StreamsGoOn
  <2> QED BY <2>3
<1>3. 0..n \subseteq G
  <2> HIDE DEF G
  <2> QED BY <1>1, <1>2, UpTo
<1>4. n \in G
  BY <1>3
<1> QED BY <1>4

\* Whatever the parts, the buffer after all of them is whole.
LEMMA StreamIsWhole ==
  ASSUME NEW parts \in Seq(LS!Parts)
  PROVE  Whole(parts, LS!Stream(parts))
<1>1. PICK n : n = Len(parts)
  OBVIOUS
<1>2. n \in Nat /\ DOMAIN parts = 1..n
  BY <1>1
<1>3. PICK f : f = CHOOSE g : Streams(parts, n, g)
  OBVIOUS
<1>4. Streams(parts, n, f)
  BY <1>2, <1>3, StreamsExist
<1>5. LS!Stream(parts) = f[n]
  BY <1>1, <1>3 DEF LS!Stream, Streams
<1> DEFINE G == {i \in 0..n : WholeUpTo(parts, i, f[i])}
<1>6. 0 \in G
  <2>1. f[0] = <<>>
    <3>1. 0 \in 0..n
      BY <1>2
    <3> QED BY <1>2, <1>4, <3>1, StreamsAt
  <2>2. WholeUpTo(parts, 0, <<>>)
    <3>1. LS!length(<<>>) = 0 /\ kSmallBuffer \in Nat
      BY LoggerAssumption DEF LS!length
    <3>2. <<>> \in Seq(Entries) /\ DOMAIN <<>> = {}
      OBVIOUS
    <3>3. \A i \in 1..0 : FALSE
      OBVIOUS
    <3> QED BY <3>1, <3>2, <3>3 DEF WholeUpTo
  <2> QED BY <1>2, <2>1, <2>2
<1>7. ASSUME NEW i \in 1..n, i - 1 \in G PROVE i \in G
  <2>1. WholeUpTo(parts, i - 1, f[i - 1])
    BY <1>7
  <2>2. WholeUpTo(parts, i, LS!Put(f[i - 1], parts, i))
    BY <1>1, <2>1, PutIsWhole
  <2>3. i \in 0..n /\ i # 0
    BY <1>2
  <2>4. f[i] = LS!Put(f[i - 1], parts, i)
    BY <1>2, <1>4, <2>3, StreamsAt
  <2> QED BY <2>2, <2>3, <2>4
<1>8. 0..n \subseteq G
  <2> HIDE DEF G
  <2> QED BY <1>2, <1>6, <1>7, UpTo
<1>9. WholeUpTo(parts, n, f[n])
  BY <1>2, <1>8
<1>10. Whole(parts, f[n])
  BY <1>2, <1>9 DEF WholeUpTo, Whole
<1> QED BY <1>5, <1>10

\* For every message, every size of the buffer and of its numbers: a line has its parts in
\* order and never outgrows its buffer, a number is there as a whole or not at all, and
\* only the text at the end of a full buffer is cut (LogStream.cc:51-118,
\* FixedBuffer.h:23-28, Logging.cc:162-164).
THEOREM LinesAlwaysWhole == LoggerSpec => LinesWhole
<1>1. ASSUME [LoggerNext]_loggerVars, lastLine' # lastLine
      PROVE  Whole(lastLine'.parts, lastLine'.buffer)
  <2>1. PICK t \in Threads, level \in DOMAIN Levels, message \in Messages : LogStatement(t, level, message)
    BY <1>1 DEF LoggerNext, loggerVars, Tick, setTimeZone, setLogLevel
  <2>2. PICK parts : parts = Header \o message \o Location
    OBVIOUS
  <2>3. parts \in Seq(LS!Parts)
    <3>1. PICK S : S = LS!Parts
      OBVIOUS
    <3>2. Header \in Seq(S) /\ message \in Seq(S) /\ Location \in Seq(S)
      BY <3>1, LoggerAssumption
    <3>3. (Header \o message) \o Location \in Seq(S)
      BY ONLY <3>2
    <3> QED BY <2>2, <3>1, <3>3
  <2>4. lastLine' = [thread |-> t, at |-> clock, time |-> t_time'[t], abbr |-> t_zoneAbbr[t],
                     parts |-> parts, buffer |-> LS!Stream(parts)]
    BY <2>1, <2>2 DEF LogStatement
  <2>5. lastLine'.parts = parts /\ lastLine'.buffer = LS!Stream(parts)
    BY <2>4
  <2> QED BY <2>3, <2>5, StreamIsWhole
<1>2. [LoggerNext]_loggerVars
        => [lastLine' # lastLine => Whole(lastLine'.parts, lastLine'.buffer)]_loggerVars
  BY <1>1
<1> QED BY <1>2, PTL DEF LoggerSpec, LinesWhole
=============================================================================
