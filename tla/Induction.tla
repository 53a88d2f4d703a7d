------------------------------ MODULE Induction ------------------------------
(***************************************************************************)
(* Induction over the steps of a loop, as a fact about a set of numbers    *)
(* and not about a predicate; loops written as recursive functions; what   *)
(* it means to put a finite set in an order; and filters of sequences.     *)
(***************************************************************************)
EXTENDS Naturals, Sequences, Ordering, FiniteSetTheorems, WellFoundedInduction, TLAPS

\* Every set of numbers has a least one.
LEMMA LeastNumber ==
    ASSUME NEW T, T \subseteq Nat, T # {}
    PROVE  \E m \in T : \A k \in T : m <= k
<1>1. PICK m \in T : \A k \in T : ~(<<k, m>> \in OpToRel(<, Nat))
  BY WFMin, NatLessThanWellFounded
<1>2. \A k \in T : m <= k
  <2> TAKE k \in T
  <2>1. ~(k < m)
    BY <1>1 DEF OpToRel
  <2> QED
    BY <2>1
<1> QED
  BY <1>2

\* What starts true and is passed on from each number to the next holds up to n.
LEMMA Stepwise ==
    ASSUME NEW n \in Nat, NEW P, P \subseteq 0..n, 0 \in P,
           \A k \in 1..n : k - 1 \in P => k \in P
    PROVE  P = 0..n
<1> SUFFICES ASSUME (0..n) \ P # {} PROVE FALSE
  OBVIOUS
<1>1. PICK m \in (0..n) \ P : \A k \in (0..n) \ P : m <= k
  BY LeastNumber, (0..n) \ P \subseteq Nat
<1>2. m \in 1..n /\ m - 1 \in 0..n /\ ~(m <= m - 1)
  BY <1>1
<1>3. m - 1 \in P
  BY <1>1, <1>2
<1> QED
  BY <1>1, <1>2, <1>3

LEMMA CountTo ==
    ASSUME NEW n \in Nat
    PROVE  IsFiniteSet(1..n) /\ Cardinality(1..n) = n
<1>1. IsFiniteSet(1..n) /\ Cardinality(1..n) = IF 1 > n THEN 0 ELSE n - 1 + 1
  BY FS_Interval
<1> QED
  BY <1>1

\* f are the values of a loop that begins at start and makes n steps.
RunsBy(f, n, start, step) ==
    /\ f[0] = start
    /\ \A i \in 1..n : f[i] = step[i][f[i - 1]]

\* A loop whose values lie in a set has a run of every length.
LEMMA Recursion ==
    ASSUME NEW n \in Nat, NEW V, NEW start \in V, NEW step \in [1..n -> [V -> V]]
    PROVE  \E f \in [0..n -> V] : RunsBy(f, n, start, step)
<1> USE DEF RunsBy
<1> DEFINE P == {k \in 0..n : \E f \in [0..k -> V] : RunsBy(f, k, start, step)}
<1>1. 0 \in P
  <2> DEFINE h == [i \in 0..0 |-> start]
  <2>1. h \in [0..0 -> V] /\ RunsBy(h, 0, start, step)
    OBVIOUS
  <2> HIDE DEF h
  <2> QED
    BY <2>1
<1>2. ASSUME NEW k \in 1..n, k - 1 \in P PROVE k \in P
  <2>1. PICK f \in [0..(k - 1) -> V] : RunsBy(f, k - 1, start, step)
    BY <1>2
  <2> DEFINE h == [i \in 0..k |-> IF i = k THEN step[k][f[k - 1]] ELSE f[i]]
  <2>2. step[k][f[k - 1]] \in V
    <3>1. step[k] \in [V -> V] /\ f[k - 1] \in V
      OBVIOUS
    <3> QED
      BY <3>1
  <2>3. h \in [0..k -> V] /\ h[0] = start /\ h[k] = step[k][f[k - 1]]
        /\ \A i \in 0..(k - 1) : h[i] = f[i]
    BY <2>1, <2>2
  <2>4. \A i \in 1..k : h[i] = step[i][h[i - 1]]
    <3> HIDE DEF h
    <3> TAKE i \in 1..k
    <3>1. CASE i = k
      BY <2>3, <3>1
    <3>2. CASE i # k
      <4>1. i \in 1..(k - 1) /\ i \in 0..(k - 1) /\ i - 1 \in 0..(k - 1)
        BY <3>2
      <4> QED
        BY <2>1, <2>3, <4>1
    <3> QED
      BY <3>1, <3>2
  <2> HIDE DEF h
  <2> QED
    BY <2>3, <2>4
<1>3. P = 0..n
  <2> HIDE DEF P
  <2>1. P \subseteq 0..n
    BY DEF P
  <2> QED
    BY <1>1, <1>2, <2>1, Stepwise
<1> QED
  BY <1>3

-----------------------------------------------------------------------------
(* Orders.                                                                 *)

\* What stands before each element, in a total order of a set.
IsOrder(below, S) ==
    /\ below \in [S -> SUBSET S]
    /\ \A s \in S : s \notin below[s]
    /\ \A s, t \in S : s # t => s \in below[t] \/ t \in below[s]
    /\ \A s, t \in S : s \in below[t] => below[s] \subseteq below[t]

\* At each place stands the element with as many before it.
IsRanking(order, below, S) ==
    /\ order \in [1..Cardinality(S) -> S]
    /\ \A k \in 1..Cardinality(S) : Cardinality(below[order[k]]) = k - 1

\* An injection of a finite set into as many numbers meets all of them.
LEMMA RanksAreMet ==
    ASSUME NEW S, IsFiniteSet(S), NEW g \in [S -> 1..Cardinality(S)],
           \A s, t \in S : g[s] = g[t] => s = t
    PROVE  \A k \in 1..Cardinality(S) : \E s \in S : g[s] = k
<1>1. Cardinality(S) \in Nat
  BY FS_CardinalityType
<1>2. IsFiniteSet(1..Cardinality(S)) /\ Cardinality(1..Cardinality(S)) = Cardinality(S)
  <2>1. IsFiniteSet(1..Cardinality(S))
        /\ Cardinality(1..Cardinality(S)) = IF 1 > Cardinality(S) THEN 0 ELSE Cardinality(S) - 1 + 1
    BY <1>1, FS_Interval
  <2> QED
    BY <1>1, <2>1
<1>3. g \in Injection(S, 1..Cardinality(S))
  BY DEF Injection, IsInjective
<1>4. g \in Surjection(S, 1..Cardinality(S))
  BY <1>2, <1>3, FS_Injection
<1> QED
  BY <1>4 DEF Surjection

\* Counting what comes before numbers a finite total order.
LEMMA Ranks ==
    ASSUME NEW S, IsFiniteSet(S), NEW below, IsOrder(below, S)
    PROVE  /\ Cardinality(S) \in Nat
           /\ \A s \in S : Cardinality(below[s]) \in 0..(Cardinality(S) - 1)
           /\ \A s, t \in S : s \in below[t] => Cardinality(below[s]) < Cardinality(below[t])
           /\ \A k \in 1..Cardinality(S) : \E s \in S : Cardinality(below[s]) = k - 1
<1>1. Cardinality(S) \in Nat
  BY FS_CardinalityType
<1>2. \A s \in S : IsFiniteSet(below[s]) /\ Cardinality(below[s]) \in Nat
  BY FS_Subset, FS_CardinalityType DEF IsOrder
<1>3. ASSUME NEW s \in S PROVE Cardinality(below[s]) \in 0..(Cardinality(S) - 1)
  <2>1. below[s] \in SUBSET S /\ below[s] # S
    BY DEF IsOrder
  <2>2. Cardinality(below[s]) <= Cardinality(S) /\ Cardinality(below[s]) # Cardinality(S)
    BY <2>1, FS_Subset
  <2> QED
    BY <1>1, <1>2, <2>2
<1>4. ASSUME NEW s \in S, NEW t \in S, s \in below[t]
      PROVE  Cardinality(below[s]) < Cardinality(below[t])
  <2>1. below[s] \in SUBSET below[t] /\ below[s] # below[t]
    BY <1>4 DEF IsOrder
  <2>2. Cardinality(below[s]) <= Cardinality(below[t]) /\ Cardinality(below[s]) # Cardinality(below[t])
    BY <1>2, <2>1, FS_Subset
  <2> QED
    BY <1>2, <2>2
<1> DEFINE g == [s \in S |-> Cardinality(below[s]) + 1]
<1>5. g \in [S -> 1..Cardinality(S)]
  BY <1>1, <1>3
<1>6. \A s, t \in S : g[s] = g[t] => s = t
  <2> SUFFICES ASSUME NEW s \in S, NEW t \in S, g[s] = g[t], s # t PROVE FALSE
    OBVIOUS
  <2>1. Cardinality(below[s]) = Cardinality(below[t])
    BY <1>2
  <2>2. s \in below[t] \/ t \in below[s]
    BY DEF IsOrder
  <2> QED
    BY <1>2, <1>4, <2>1, <2>2
<1>7. \A k \in 1..Cardinality(S) : \E s \in S : g[s] = k
  <2> HIDE DEF g
  <2> QED
    BY <1>5, <1>6, RanksAreMet
<1>8. ASSUME NEW k \in 1..Cardinality(S) PROVE \E s \in S : Cardinality(below[s]) = k - 1
  BY <1>2, <1>7
<1> QED
  BY <1>1, <1>3, <1>4, <1>8

\* In their order, the elements of a finite set come once each, the smaller ones first.
LEMMA RankedInOrder ==
    ASSUME NEW S, IsFiniteSet(S), NEW below, IsOrder(below, S), NEW order, IsRanking(order, below, S)
    PROVE  /\ Cardinality(S) \in Nat
           /\ \A x \in S : \E k \in 1..Cardinality(S) : order[k] = x
           /\ \A j, k \in 1..Cardinality(S) : j < k <=> order[j] \in below[order[k]]
           /\ \A j, k \in 1..Cardinality(S) : order[j] = order[k] => j = k
<1>1. /\ Cardinality(S) \in Nat
      /\ \A s \in S : Cardinality(below[s]) \in 0..(Cardinality(S) - 1)
      /\ \A s, t \in S : s \in below[t] => Cardinality(below[s]) < Cardinality(below[t])
      /\ \A k \in 1..Cardinality(S) : \E s \in S : Cardinality(below[s]) = k - 1
  BY Ranks
<1>2. \A k \in 1..Cardinality(S) : order[k] \in S /\ Cardinality(below[order[k]]) = k - 1
  BY DEF IsRanking
<1>3. ASSUME NEW s \in S, NEW t \in S, Cardinality(below[s]) = Cardinality(below[t]) PROVE s = t
  BY <1>1, <1>3 DEF IsOrder
<1>4. ASSUME NEW x \in S PROVE \E k \in 1..Cardinality(S) : order[k] = x
  <2> DEFINE k == Cardinality(below[x]) + 1
  <2>1. k \in 1..Cardinality(S) /\ k - 1 = Cardinality(below[x])
    BY <1>1
  <2>2. order[k] = x
    BY <1>2, <1>3, <2>1
  <2> QED
    BY <2>1, <2>2
<1>5. ASSUME NEW j \in 1..Cardinality(S), NEW k \in 1..Cardinality(S)
      PROVE  /\ j < k <=> order[j] \in below[order[k]]
             /\ order[j] = order[k] => j = k
  <2>1. /\ order[j] \in S /\ order[k] \in S
        /\ Cardinality(below[order[j]]) = j - 1 /\ Cardinality(below[order[k]]) = k - 1
    BY <1>2
  <2>2. order[j] = order[k] => j = k
    BY <2>1, <1>1
  <2>3. order[j] \in below[order[k]] => j < k
    BY <2>1, <1>1
  <2>4. j < k => order[j] \in below[order[k]]
    <3> SUFFICES ASSUME j < k, order[j] \notin below[order[k]] PROVE FALSE
      OBVIOUS
    <3>1. order[j] # order[k]
      BY <2>1, <1>1
    <3>2. order[k] \in below[order[j]]
      BY <2>1, <3>1 DEF IsOrder
    <3> QED
      BY <1>1, <2>1, <3>2
  <2> QED
    BY <2>2, <2>3, <2>4
<1> QED
  BY <1>1, <1>4, <1>5

\* Sets whose elements are paired off have the same size.
LEMMA SameSize ==
    ASSUME NEW S, NEW T, IsFiniteSet(S), NEW f \in [S -> T],
           \A s, t \in S : f[s] = f[t] => s = t, \A t \in T : \E s \in S : f[s] = t
    PROVE  IsFiniteSet(T) /\ Cardinality(T) = Cardinality(S)
<1>1. f \in Injection(S, T)
  BY DEF Injection, IsInjective
<1>2. f \in Surjection(S, T)
  BY DEF Surjection
<1> QED
  BY <1>1, <1>2, FS_Surjection

-----------------------------------------------------------------------------
(* The entries of a sequence at some positions.                            *)

IsAmong(among, s, P) ==
    among = [n \in 0..Len(s) |->
              IF n = 0 THEN <<>>
              ELSE IF n \in P THEN Append(among[n - 1], s[n]) ELSE among[n - 1]]

LEMMA AmongExists ==
    ASSUME NEW T, NEW s \in Seq(T), NEW P
    PROVE  \E among : IsAmong(among, s, P)
<1> DEFINE V == Seq(T)
           n == Len(s)
           next(i, u) == IF i \in P THEN Append(u, s[i]) ELSE u
           step == [i \in 1..n |-> [u \in V |-> next(i, u)]]
<1>0. n \in Nat
  OBVIOUS
<1>1. \A i \in 1..n, u \in V : next(i, u) \in V
  <2> TAKE i \in 1..n, u \in V
  <2>1. s[i] \in T
    OBVIOUS
  <2> QED
    BY <2>1
<1>2. step \in [1..n -> [V -> V]] /\ \A i \in 1..n, u \in V : step[i][u] = next(i, u)
  <2> HIDE DEF next, V, n
  <2> QED
    BY <1>1
<1>3. <<>> \in V
  OBVIOUS
<1> HIDE DEF step, V, next, n
<1>4. PICK among \in [0..n -> V] : RunsBy(among, n, <<>>, step)
  BY <1>0, <1>2, <1>3, Recursion
<1>5. \A i \in 0..n : among[i] = IF i = 0 THEN <<>> ELSE next(i, among[i - 1])
  <2>1. among[0] = <<>>
    BY <1>4 DEF RunsBy
  <2>2. ASSUME NEW i \in 1..n PROVE among[i] = next(i, among[i - 1])
    <3>1. among[i - 1] \in V
      BY <1>0, <1>4
    <3> QED
      BY <1>2, <1>4, <3>1 DEF RunsBy
  <2> QED
    BY <1>0, <2>1, <2>2
<1>6. among = [i \in 0..n |-> IF i = 0 THEN <<>> ELSE next(i, among[i - 1])]
  BY <1>4, <1>5
<1>7. IsAmong(among, s, P)
  BY <1>6 DEF IsAmong, next, n
<1> QED
  BY <1>7

LEMMA AmongIsRead ==
    ASSUME NEW T, NEW s \in Seq(T), NEW P
    PROVE  \E among : /\ EntriesAt(s, P) = among[Len(s)] /\ among[0] = <<>>
                      /\ \A k \in 1..Len(s) : among[k] = IF k \in P THEN Append(among[k - 1], s[k]) ELSE among[k - 1]
<1> DEFINE among == CHOOSE a : IsAmong(a, s, P)
<1>1. IsAmong(among, s, P)
  BY AmongExists
<1>2. EntriesAt(s, P) = among[Len(s)]
  BY DEF EntriesAt, IsAmong
<1> HIDE DEF among
<1>3. among = [n \in 0..Len(s) |->
                IF n = 0 THEN <<>> ELSE IF n \in P THEN Append(among[n - 1], s[n]) ELSE among[n - 1]]
  BY <1>1 DEF IsAmong
<1>4. among[0] = <<>>
  <2>1. 0 \in 0..Len(s)
    OBVIOUS
  <2> QED
    BY <1>3, <2>1
<1>5. ASSUME NEW k \in 1..Len(s)
      PROVE  among[k] = IF k \in P THEN Append(among[k - 1], s[k]) ELSE among[k - 1]
  <2>1. k \in 0..Len(s) /\ k # 0
    OBVIOUS
  <2> QED
    BY <1>3, <2>1
<1> QED
  BY <1>2, <1>4, <1>5

\* r are the entries of s at those of the positions P that are not beyond n; f says where
\* each of them was.
IsChoice(f, r, s, P, n) ==
    /\ \A k \in 1..Len(r) : f[k] \in 1..n /\ f[k] \in P /\ r[k] = s[f[k]]
    /\ \A j, k \in 1..Len(r) : j < k => f[j] < f[k]
    /\ \A i \in 1..n : i \in P => \E k \in 1..Len(r) : f[k] = i
    /\ Len(r) <= n
    /\ (\E i \in 1..n : i \notin P) => Len(r) < n

LEMMA EntriesAreChosen ==
    ASSUME NEW T, NEW s \in Seq(T), NEW P
    PROVE  EntriesAt(s, P) \in Seq(T) /\ \E f : IsChoice(f, EntriesAt(s, P), s, P, Len(s))
<1>1. PICK among : /\ EntriesAt(s, P) = among[Len(s)] /\ among[0] = <<>>
                   /\ \A k \in 1..Len(s) : among[k] = IF k \in P THEN Append(among[k - 1], s[k]) ELSE among[k - 1]
  BY AmongIsRead
<1>2. PICK N : N = Len(s)
  OBVIOUS
<1>3. N \in Nat /\ \A k \in 1..N : s[k] \in T
  BY <1>2
<1> DEFINE Q == {k \in 0..N : among[k] \in Seq(T) /\ \E f : IsChoice(f, among[k], s, P, k)}
<1>4. 0 \in Q
  <2>1. IsChoice(<<>>, <<>>, s, P, 0)
    BY DEF IsChoice
  <2>2. 0 \in 0..N /\ <<>> \in Seq(T)
    BY <1>3
  <2> QED
    BY <1>1, <2>1, <2>2
<1>5. ASSUME NEW n \in 1..N, n - 1 \in Q PROVE n \in Q
  <2>1. PICK f : IsChoice(f, among[n - 1], s, P, n - 1)
    BY <1>5
  <2>2. PICK r, m : r = among[n - 1] /\ m = Len(r)
    OBVIOUS
  <2>3. r \in Seq(T) /\ m \in Nat /\ n \in Nat /\ s[n] \in T /\ n \in 0..N
    BY <1>3, <1>5, <2>2
  <2>4. /\ \A k \in 1..m : f[k] \in 1..(n - 1) /\ f[k] \in P /\ r[k] = s[f[k]]
        /\ \A j, k \in 1..m : j < k => f[j] < f[k]
        /\ \A i \in 1..(n - 1) : i \in P => \E k \in 1..m : f[k] = i
        /\ m <= n - 1
        /\ (\E i \in 1..(n - 1) : i \notin P) => m < n - 1
    BY <2>1, <2>2 DEF IsChoice
  <2>5. \A i \in 1..n : i \in 1..(n - 1) \/ i = n
    BY <2>3
  <2>6. CASE n \in P
    <3> DEFINE more == Append(r, s[n])
               g == [k \in 1..(m + 1) |-> IF k <= m THEN f[k] ELSE n]
    <3>1. /\ more \in Seq(T) /\ Len(more) = m + 1 /\ more[m + 1] = s[n]
          /\ \A k \in 1..m : more[k] = r[k]
      BY <2>2, <2>3
    <3>2. /\ \A k \in 1..m : k \in 1..(m + 1) /\ g[k] = f[k]
          /\ m + 1 \in 1..(m + 1) /\ g[m + 1] = n
          /\ \A k \in 1..(m + 1) : k \in 1..m \/ k = m + 1
      BY <2>3
    <3> HIDE DEF more, g
    <3>3. \A k \in 1..(m + 1) : g[k] \in 1..n /\ g[k] \in P /\ more[k] = s[g[k]]
      <4> TAKE k \in 1..(m + 1)
      <4>1. CASE k \in 1..m
        <5>1. f[k] \in 1..n
          BY <2>3, <2>4, <4>1
        <5> QED
          BY <2>4, <3>1, <3>2, <4>1, <5>1
      <4>2. CASE k = m + 1
        <5>1. g[k] = n /\ more[k] = s[n] /\ n \in 1..n
          BY <2>3, <3>1, <3>2, <4>2
        <5> QED
          BY <2>6, <5>1
      <4> QED
        BY <3>2, <4>1, <4>2
    <3>4. ASSUME NEW j \in 1..(m + 1), NEW k \in 1..(m + 1), j < k PROVE g[j] < g[k]
      <4>1. j \in 1..m
        BY <2>3, <3>4
      <4>2. f[j] < n
        BY <2>3, <2>4, <4>1
      <4> QED
        BY <2>4, <3>2, <3>4, <4>1, <4>2
    <3>5. ASSUME NEW i \in 1..n, i \in P PROVE \E k \in 1..(m + 1) : g[k] = i
      BY <2>4, <2>5, <3>2, <3>5
    <3>6. m + 1 <= n
      BY <2>3, <2>4
    <3>7. ASSUME NEW i \in 1..n, i \notin P PROVE m + 1 < n
      <4>1. i \in 1..(n - 1)
        BY <2>5, <2>6, <3>7
      <4>2. m < n - 1
        BY <2>4, <3>7, <4>1
      <4> QED
        BY <2>3, <4>2
    <3>8. IsChoice(g, more, s, P, n)
      BY <3>1, <3>3, <3>4, <3>5, <3>6, <3>7 DEF IsChoice
    <3>9. among[n] = more
      BY <1>1, <1>2, <1>5, <2>2, <2>6 DEF more
    <3> QED
      BY <2>3, <3>1, <3>8, <3>9
  <2>7. CASE n \notin P
    <3>1. among[n] = r
      BY <1>1, <1>2, <1>5, <2>2, <2>7
    <3>2. \A k \in 1..m : f[k] \in 1..n
      BY <2>3, <2>4
    <3>3. \A i \in 1..n : i \in P => \E k \in 1..m : f[k] = i
      BY <2>4, <2>5, <2>7
    <3>4. m <= n /\ m < n
      BY <2>3, <2>4
    <3>5. IsChoice(f, r, s, P, n)
      BY <2>2, <2>4, <3>2, <3>3, <3>4 DEF IsChoice
    <3> QED
      BY <2>3, <3>1, <3>5
  <2> QED
    BY <2>6, <2>7
<1>6. Q = 0..N
  <2>1. Q \subseteq 0..N
    OBVIOUS
  <2> HIDE DEF Q
  <2> QED
    BY <1>3, <1>4, <1>5, <2>1, Stepwise
<1>7. N \in Q
  <2>1. N \in 0..N
    BY <1>3
  <2> HIDE DEF Q
  <2> QED
    BY <1>6, <2>1
<1> QED
  BY <1>1, <1>2, <1>7

\* At the first positions stand the first entries.
LEMMA EntriesOfFirst ==
    ASSUME NEW T, NEW s \in Seq(T), NEW P, NEW m \in 0..Len(s), \A i \in 1..Len(s) : i \in P <=> i <= m
    PROVE  EntriesAt(s, P) = SubSeq(s, 1, m)
<1>1. PICK among : /\ EntriesAt(s, P) = among[Len(s)] /\ among[0] = <<>>
                   /\ \A k \in 1..Len(s) : among[k] = IF k \in P THEN Append(among[k - 1], s[k]) ELSE among[k - 1]
  BY AmongIsRead
<1>2. PICK N : N = Len(s)
  OBVIOUS
<1>3. N \in Nat /\ m \in Nat /\ m <= N
  BY <1>2
<1> DEFINE Q == {k \in 0..N : among[k] = IF k <= m THEN SubSeq(s, 1, k) ELSE SubSeq(s, 1, m)}
<1>4. 0 \in Q
  <2>1. SubSeq(s, 1, 0) = <<>>
    OBVIOUS
  <2>2. 0 \in 0..N /\ 0 <= m /\ among[0] = SubSeq(s, 1, 0)
    BY <1>1, <1>3, <2>1
  <2> QED
    BY <2>2
<1>5. ASSUME NEW n \in 1..N, n - 1 \in Q PROVE n \in Q
  <2>1. n \in 0..N /\ n \in Nat /\ n - 1 \in Nat
    BY <1>3
  <2>2. among[n] = IF n \in P THEN Append(among[n - 1], s[n]) ELSE among[n - 1]
    BY <1>1, <1>2
  <2>3. CASE n <= m
    <3>1. n \in P /\ n - 1 <= m
      BY <1>2, <1>3, <2>1, <2>3
    <3>2. among[n - 1] = SubSeq(s, 1, n - 1)
      BY <1>5, <3>1
    <3>3. Append(SubSeq(s, 1, n - 1), s[n]) = SubSeq(s, 1, n)
      BY <1>2, <1>3, <2>1
    <3> QED
      BY <2>1, <2>2, <2>3, <3>1, <3>2, <3>3
  <2>4. CASE ~(n <= m)
    <3>1. n \notin P
      BY <1>2, <2>4
    <3>2. among[n - 1] = SubSeq(s, 1, m)
      <4>1. n - 1 <= m => n - 1 = m
        BY <1>3, <2>1, <2>4
      <4> QED
        BY <1>5, <4>1
    <3> QED
      BY <2>1, <2>2, <2>4, <3>1, <3>2
  <2> QED
    BY <2>3, <2>4
<1>6. Q = 0..N
  <2>1. Q \subseteq 0..N
    OBVIOUS
  <2> HIDE DEF Q
  <2> QED
    BY <1>3, <1>4, <1>5, <2>1, Stepwise
<1>7. N \in Q
  <2>1. N \in 0..N
    BY <1>3
  <2> HIDE DEF Q
  <2> QED
    BY <1>6, <2>1
<1>8. N <= m => N = m
  BY <1>3
<1> QED
  BY <1>1, <1>2, <1>7, <1>8

\* Positions beyond a sequence do not count.
LEMMA EntriesWithin ==
    ASSUME NEW T, NEW s \in Seq(T), NEW P, NEW Q, \A i \in 1..Len(s) : i \in P <=> i \in Q
    PROVE  EntriesAt(s, P) = EntriesAt(s, Q)
<1>1. PICK a : /\ EntriesAt(s, P) = a[Len(s)] /\ a[0] = <<>>
               /\ \A k \in 1..Len(s) : a[k] = IF k \in P THEN Append(a[k - 1], s[k]) ELSE a[k - 1]
  BY AmongIsRead
<1>2. PICK b : /\ EntriesAt(s, Q) = b[Len(s)] /\ b[0] = <<>>
               /\ \A k \in 1..Len(s) : b[k] = IF k \in Q THEN Append(b[k - 1], s[k]) ELSE b[k - 1]
  BY AmongIsRead
<1>3. PICK n \in Nat : n = Len(s)
  OBVIOUS
<1> DEFINE Same == {k \in 0..n : a[k] = b[k]}
<1>4. 0 \in Same
  BY <1>1, <1>2
<1>5. ASSUME NEW k \in 1..n, k - 1 \in Same PROVE k \in Same
  BY <1>1, <1>2, <1>3, <1>5
<1>6. Same = 0..n
  <2>1. Same \subseteq 0..n
    OBVIOUS
  <2> HIDE DEF Same
  <2> QED
    BY <1>4, <1>5, <2>1, Stepwise
<1> QED
  BY <1>1, <1>2, <1>3, <1>6

LEMMA EntriesOfAppend ==
    ASSUME NEW T, NEW s \in Seq(T), NEW x \in T, NEW P
    PROVE  EntriesAt(Append(s, x), P) =
              IF Len(s) + 1 \in P THEN Append(EntriesAt(s, P), x) ELSE EntriesAt(s, P)
<1>1. PICK more : more = Append(s, x)
  OBVIOUS
<1>2. PICK n \in Nat : n = Len(s)
  OBVIOUS
<1>3. /\ more \in Seq(T) /\ Len(more) = n + 1 /\ more[n + 1] = x
      /\ \A i \in 1..n : more[i] = s[i]
  BY <1>1, <1>2
<1>4. PICK a : /\ EntriesAt(s, P) = a[Len(s)] /\ a[0] = <<>>
               /\ \A k \in 1..Len(s) : a[k] = IF k \in P THEN Append(a[k - 1], s[k]) ELSE a[k - 1]
  BY AmongIsRead
<1>5. PICK b : /\ EntriesAt(more, P) = b[Len(more)] /\ b[0] = <<>>
               /\ \A k \in 1..Len(more) : b[k] = IF k \in P THEN Append(b[k - 1], more[k]) ELSE b[k - 1]
  BY <1>3, AmongIsRead
<1> DEFINE Same == {k \in 0..n : a[k] = b[k]}
<1>6. 0 \in Same
  BY <1>4, <1>5
<1>7. ASSUME NEW k \in 1..n, k - 1 \in Same PROVE k \in Same
  <2>1. k \in 1..Len(more) /\ k \in 0..n /\ more[k] = s[k]
    BY <1>3
  <2> QED
    BY <1>2, <1>4, <1>5, <1>7, <2>1
<1>8. Same = 0..n
  <2>1. Same \subseteq 0..n
    OBVIOUS
  <2> HIDE DEF Same
  <2> QED
    BY <1>6, <1>7, <2>1, Stepwise
<1>9. a[n] = b[n] /\ n + 1 \in 1..Len(more) /\ (n + 1) - 1 = n
  BY <1>3, <1>8
<1>10. b[n + 1] = IF n + 1 \in P THEN Append(b[n], x) ELSE b[n]
  BY <1>3, <1>5, <1>9
<1> QED
  BY <1>1, <1>2, <1>3, <1>4, <1>5, <1>9, <1>10

-----------------------------------------------------------------------------
(* The entries of a sequence that are in a set.                            *)

EntriesIn(s, S) == EntriesAt(s, {i \in DOMAIN s : s[i] \in S})

\* Only what is in the sequence matters of the set.
LEMMA EntriesInSame ==
    ASSUME NEW T, NEW s \in Seq(T), NEW S, NEW P, \A i \in 1..Len(s) : i \in P <=> s[i] \in S
    PROVE  EntriesAt(s, P) = EntriesIn(s, S)
<1>1. \A i \in 1..Len(s) : i \in P <=> i \in {k \in DOMAIN s : s[k] \in S}
  OBVIOUS
<1> QED
  BY <1>1, EntriesWithin DEF EntriesIn

LEMMA EntriesInEmpty ==
    ASSUME NEW S
    PROVE  EntriesIn(<<>>, S) = <<>>
<1>1. <<>> \in Seq({}) /\ Len(<<>>) = 0
  OBVIOUS
<1>2. ASSUME NEW P PROVE EntriesAt(<<>>, P) = <<>>
  <2>1. PICK s \in Seq({}) : s = <<>>
    BY <1>1
  <2>2. PICK among : EntriesAt(s, P) = among[Len(s)] /\ among[0] = <<>>
    BY AmongIsRead
  <2> QED
    BY <2>1, <2>2
<1> QED
  BY <1>2 DEF EntriesIn

LEMMA EntriesInAppend ==
    ASSUME NEW T, NEW s \in Seq(T), NEW x \in T, NEW S
    PROVE  /\ x \in S => EntriesIn(Append(s, x), S) = Append(EntriesIn(s, S), x)
           /\ x \notin S => EntriesIn(Append(s, x), S) = EntriesIn(s, S)
<1>1. PICK more : more = Append(s, x)
  OBVIOUS
<1>2. PICK P : P = {i \in DOMAIN more : more[i] \in S}
  OBVIOUS
<1>3. EntriesIn(more, S) = EntriesAt(more, P)
  BY <1>2 DEF EntriesIn
<1>4. \A i \in 1..Len(s) : i \in P <=> s[i] \in S
  BY <1>1, <1>2
<1>5. Len(s) + 1 \in P <=> x \in S
  BY <1>1, <1>2
<1>6. EntriesAt(s, P) = EntriesIn(s, S)
  BY <1>4, EntriesInSame
<1>7. EntriesAt(more, P) = IF Len(s) + 1 \in P THEN Append(EntriesAt(s, P), x) ELSE EntriesAt(s, P)
  BY <1>1, EntriesOfAppend
<1> QED
  BY <1>1, <1>3, <1>5, <1>6, <1>7

\* Which entries these are, and that their order is that of the sequence.
LEMMA EntriesInType ==
    ASSUME NEW T, NEW s \in Seq(T), NEW S
    PROVE  /\ EntriesIn(s, S) \in Seq(T)
           /\ \A k \in 1..Len(EntriesIn(s, S)) : EntriesIn(s, S)[k] \in S
           /\ \E f : IsChoice(f, EntriesIn(s, S), s, {i \in 1..Len(s) : s[i] \in S}, Len(s))
<1>1. PICK P : P = {i \in 1..Len(s) : s[i] \in S}
  OBVIOUS
<1>2. DOMAIN s = 1..Len(s)
  OBVIOUS
<1>3. EntriesIn(s, S) = EntriesAt(s, P)
  BY <1>1, <1>2 DEF EntriesIn
<1>4. EntriesAt(s, P) \in Seq(T) /\ \E f : IsChoice(f, EntriesAt(s, P), s, P, Len(s))
  BY EntriesAreChosen
<1>5. PICK f : IsChoice(f, EntriesAt(s, P), s, P, Len(s))
  BY <1>4
<1>6. \A k \in 1..Len(EntriesAt(s, P)) : EntriesAt(s, P)[k] = s[f[k]] /\ f[k] \in P
  BY <1>5 DEF IsChoice
<1> QED
  BY <1>1, <1>3, <1>4, <1>5, <1>6

LEMMA EntriesInAll ==
    ASSUME NEW T, NEW s \in Seq(T), NEW S, \A i \in 1..Len(s) : s[i] \in S
    PROVE  EntriesIn(s, S) = s
<1>1. PICK n \in Nat : n = Len(s)
  OBVIOUS
<1>2. \A i \in 1..Len(s) : i \in {k \in DOMAIN s : s[k] \in S} <=> i <= n
  BY <1>1
<1>3. EntriesIn(s, S) = SubSeq(s, 1, n)
  <2>1. n \in 0..Len(s)
    BY <1>1
  <2> QED
    BY <1>2, <2>1, EntriesOfFirst DEF EntriesIn
<1>4. SubSeq(s, 1, n) = s
  BY <1>1
<1> QED
  BY <1>3, <1>4

LEMMA EntriesInNone ==
    ASSUME NEW T, NEW s \in Seq(T), NEW S, \A i \in 1..Len(s) : s[i] \notin S
    PROVE  EntriesIn(s, S) = <<>>
<1>1. \A i \in 1..Len(s) : i \in {k \in DOMAIN s : s[k] \in S} <=> i <= 0
  OBVIOUS
<1>2. 0 \in 0..Len(s)
  OBVIOUS
<1>3. EntriesIn(s, S) = SubSeq(s, 1, 0)
  BY <1>1, <1>2, EntriesOfFirst DEF EntriesIn
<1>4. SubSeq(s, 1, 0) = <<>>
  OBVIOUS
<1> QED
  BY <1>3, <1>4

\* A filter of a filter keeps what both keep.
LEMMA EntriesInTwice ==
    ASSUME NEW T, NEW s \in Seq(T), NEW A, NEW B
    PROVE  EntriesIn(EntriesIn(s, A), B) = EntriesIn(s, A \cap B)
<1>1. PICK n \in Nat : n = Len(s)
  OBVIOUS
<1> DEFINE first(k) == SubSeq(s, 1, k)
           Agree(k) == EntriesIn(EntriesIn(first(k), A), B) = EntriesIn(first(k), A \cap B)
           Q == {k \in 0..n : Agree(k)}
<1>2. \A k \in 0..n : first(k) \in Seq(T)
  BY <1>1
<1>3. 0 \in Q
  <2>1. first(0) = <<>>
    OBVIOUS
  <2>2. Agree(0)
    BY <2>1, EntriesInEmpty
  <2> QED
    BY <1>1, <2>2
<1>4. ASSUME NEW k \in 1..n, k - 1 \in Q PROVE k \in Q
  <2>1. k - 1 \in 0..n /\ k \in 0..n /\ s[k] \in T
    BY <1>1
  <2> PICK x \in T : x = s[k]
    BY <2>1
  <2>2. PICK before : before = first(k - 1)
    OBVIOUS
  <2>3. before \in Seq(T) /\ first(k) = Append(before, x)
    BY <1>1, <2>1, <2>2
  <2>4. PICK kept : kept = EntriesIn(before, A)
    OBVIOUS
  <2>5. kept \in Seq(T)
    BY <2>3, <2>4, EntriesInType
  <2>6. EntriesIn(kept, B) = EntriesIn(before, A \cap B)
    BY <1>4, <2>2, <2>4
  <2>7. /\ x \in A => EntriesIn(Append(before, x), A) = Append(kept, x)
        /\ x \notin A => EntriesIn(Append(before, x), A) = kept
    BY <2>3, <2>4, EntriesInAppend
  <2>8. /\ x \in A \cap B => EntriesIn(Append(before, x), A \cap B) = Append(EntriesIn(before, A \cap B), x)
        /\ x \notin A \cap B => EntriesIn(Append(before, x), A \cap B) = EntriesIn(before, A \cap B)
    <3>1. PICK C : C = A \cap B
      OBVIOUS
    <3>2. /\ x \in C => EntriesIn(Append(before, x), C) = Append(EntriesIn(before, C), x)
          /\ x \notin C => EntriesIn(Append(before, x), C) = EntriesIn(before, C)
      BY <2>3, EntriesInAppend
    <3> QED
      BY <3>1, <3>2
  <2>9. /\ x \in B => EntriesIn(Append(kept, x), B) = Append(EntriesIn(kept, B), x)
        /\ x \notin B => EntriesIn(Append(kept, x), B) = EntriesIn(kept, B)
    BY <2>5, EntriesInAppend
  <2> HIDE DEF first
  <2>10. Agree(k)
    BY <2>3, <2>6, <2>7, <2>8, <2>9
  <2> QED
    BY <2>1, <2>10
<1>5. Q = 0..n
  <2>1. Q \subseteq 0..n
    OBVIOUS
  <2> HIDE DEF Q
  <2> QED
    BY <1>3, <1>4, <2>1, Stepwise
<1>6. Agree(n)
  <2>1. n \in 0..n
    OBVIOUS
  <2> HIDE DEF Agree
  <2> QED
    BY <1>5, <2>1
<1>7. first(n) = s
  BY <1>1
<1> QED
  BY <1>6, <1>7

\* The filter of two sequences in a row.
LEMMA EntriesInConcat ==
    ASSUME NEW T, NEW s \in Seq(T), NEW t \in Seq(T), NEW S
    PROVE  EntriesIn(s \o t, S) = EntriesIn(s, S) \o EntriesIn(t, S)
<1>1. PICK n \in Nat : n = Len(t)
  OBVIOUS
<1> DEFINE first(k) == SubSeq(t, 1, k)
           Agree(k) == EntriesIn(s \o first(k), S) = EntriesIn(s, S) \o EntriesIn(first(k), S)
           Q == {k \in 0..n : Agree(k)}
<1>2. EntriesIn(s, S) \in Seq(T)
  BY EntriesInType
<1>3. 0 \in Q
  <2>1. first(0) = <<>> /\ s \o <<>> = s
    OBVIOUS
  <2>2. EntriesIn(s, S) \o <<>> = EntriesIn(s, S)
    BY <1>2
  <2>3. Agree(0)
    BY <2>1, <2>2, EntriesInEmpty
  <2> QED
    BY <1>1, <2>3
<1>4. ASSUME NEW k \in 1..n, k - 1 \in Q PROVE k \in Q
  <2>1. k - 1 \in 0..n /\ k \in 0..n /\ t[k] \in T
    BY <1>1
  <2> PICK e \in T : e = t[k]
    BY <2>1
  <2>2. PICK before : before = first(k - 1)
    OBVIOUS
  <2>3. before \in Seq(T) /\ first(k) = Append(before, e)
    BY <1>1, <2>1, <2>2
  <2>4. s \o before \in Seq(T) /\ s \o Append(before, e) = Append(s \o before, e)
    BY <2>1, <2>3
  <2>5. PICK x, y : x = EntriesIn(s, S) /\ y = EntriesIn(before, S)
    OBVIOUS
  <2>6. x \in Seq(T) /\ y \in Seq(T)
    BY <2>3, <2>5, EntriesInType
  <2>7. x \o Append(y, e) = Append(x \o y, e)
    BY <2>1, <2>6
  <2>8. EntriesIn(s \o before, S) = x \o y
    BY <1>4, <2>2, <2>5
  <2>9. /\ e \in S => EntriesIn(Append(s \o before, e), S) = Append(x \o y, e)
        /\ e \notin S => EntriesIn(Append(s \o before, e), S) = x \o y
    <3>1. PICK row \in Seq(T) : row = s \o before
      BY <2>4
    <3>2. /\ e \in S => EntriesIn(Append(row, e), S) = Append(EntriesIn(row, S), e)
          /\ e \notin S => EntriesIn(Append(row, e), S) = EntriesIn(row, S)
      BY EntriesInAppend
    <3> QED
      BY <2>8, <3>1, <3>2
  <2>10. /\ e \in S => EntriesIn(Append(before, e), S) = Append(y, e)
         /\ e \notin S => EntriesIn(Append(before, e), S) = y
    BY <2>3, <2>5, EntriesInAppend
  <2> HIDE DEF first
  <2>11. Agree(k)
    BY <2>3, <2>4, <2>5, <2>7, <2>9, <2>10
  <2> QED
    BY <2>1, <2>11
<1>5. Q = 0..n
  <2>1. Q \subseteq 0..n
    OBVIOUS
  <2> HIDE DEF Q
  <2> QED
    BY <1>3, <1>4, <2>1, Stepwise
<1>6. Agree(n)
  <2>1. n \in 0..n
    OBVIOUS
  <2> HIDE DEF Agree
  <2> QED
    BY <1>5, <2>1
<1>7. first(n) = t
  BY <1>1
<1> QED
  BY <1>6, <1>7
=============================================================================
