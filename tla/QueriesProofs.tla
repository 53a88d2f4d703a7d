---------------------------- MODULE QueriesProofs ----------------------------
(***************************************************************************)
(* What a query's answer is worth, on every call graph: the diff of two    *)
(* graphs, the tests affected by some files, and the walks of callers,     *)
(* callees and impact.  Both breadth-first walks rest on the balls around  *)
(* where they start, which grow by one call at a time; a queue holds       *)
(* symbols of one level and after them of the next, and so hops are least. *)
(***************************************************************************)
EXTENDS CyclesProofs

-----------------------------------------------------------------------------
(* Diff.                                                                   *)

CallsAt(U, x) == Cardinality({e \in U : e.ends = x})

\* What two sets of calls have in common cancels in their difference.
LEMMA CommonCallsCancel ==
    ASSUME NEW S, NEW T, IsFiniteSet(S), IsFiniteSet(T), NEW x
    PROVE  /\ CallsAt(S, x) \in Nat /\ CallsAt(T, x) \in Nat
           /\ CallsAt(S \ T, x) \in Nat /\ CallsAt(T \ S, x) \in Nat
           /\ CallsAt(S \ T, x) - CallsAt(T \ S, x) = CallsAt(S, x) - CallsAt(T, x)
<1> DEFINE at(U) == {e \in U : e.ends = x}
<1>1. /\ IsFiniteSet(at(S)) /\ IsFiniteSet(at(T))
      /\ at(S \ T) = at(S) \ at(T) /\ at(T \ S) = at(T) \ at(S)
      /\ at(S) \cap at(T) = at(T) \cap at(S)
  <2>1. at(S) \in SUBSET S /\ at(T) \in SUBSET T
    OBVIOUS
  <2>2. IsFiniteSet(at(S)) /\ IsFiniteSet(at(T))
    <3> HIDE DEF at
    <3> QED
      BY <2>1, FS_Subset
  <2> QED
    BY <2>2
<1> HIDE DEF at
<1>2. /\ Cardinality(at(S) \ at(T)) = Cardinality(at(S)) - Cardinality(at(S) \cap at(T))
      /\ Cardinality(at(T) \ at(S)) = Cardinality(at(T)) - Cardinality(at(T) \cap at(S))
  BY <1>1, FS_Difference
<1>3. /\ IsFiniteSet(at(S) \ at(T)) /\ IsFiniteSet(at(T) \ at(S)) /\ IsFiniteSet(at(S) \cap at(T))
  BY <1>1, FS_Difference, FS_Intersection
<1>4. /\ Cardinality(at(S)) \in Nat /\ Cardinality(at(T)) \in Nat
      /\ Cardinality(at(S) \cap at(T)) \in Nat
      /\ Cardinality(at(S) \ at(T)) \in Nat /\ Cardinality(at(T) \ at(S)) \in Nat
  BY <1>1, <1>3, FS_CardinalityType
<1>5. /\ Cardinality(at(S \ T)) = Cardinality(at(S) \ at(T))
      /\ Cardinality(at(T \ S)) = Cardinality(at(T) \ at(S))
      /\ Cardinality(at(S) \cap at(T)) = Cardinality(at(T) \cap at(S))
  BY <1>1
<1>6. \A s, t, both, more, less \in Nat :
         more = s - both /\ less = t - both => more - less = s - t
  OBVIOUS
<1>7. /\ Cardinality(at(S \ T)) \in Nat /\ Cardinality(at(T \ S)) \in Nat
      /\ Cardinality(at(S \ T)) - Cardinality(at(T \ S)) = Cardinality(at(S)) - Cardinality(at(T))
  <2> DEFINE s == Cardinality(at(S))
             t == Cardinality(at(T))
             both == Cardinality(at(S) \cap at(T))
             more == Cardinality(at(S \ T))
             less == Cardinality(at(T \ S))
  <2>1. s \in Nat /\ t \in Nat /\ both \in Nat /\ more \in Nat /\ less \in Nat
    BY <1>4, <1>5, Zenon
  <2>2. more = s - both /\ less = t - both
    BY <1>2, <1>5, Zenon
  <2> HIDE DEF s, t, both, more, less
  <2>3. more - less = s - t
    BY <1>6, <2>1, <2>2
  <2> QED
    BY <2>1, <2>3, Zenon DEF s, t, both, more, less
<1> QED
  BY <1>4, <1>7, Zenon DEF at, CallsAt

LEMMA SurplusIsGain ==
    ASSUME NEW g, NEW h, IsGraph(g), IsGraph(h)
    PROVE  Surplus(h.edges \ g.edges, g.edges \ h.edges)
           = SumFunction([x \in Ends |-> IF CallsBetween(h, x) > CallsBetween(g, x)
                                         THEN CallsBetween(h, x) - CallsBetween(g, x) ELSE 0])
<1> DEFINE more == h.edges \ g.edges
           less == g.edges \ h.edges
           over == [x \in Ends |-> IF CallsAt(more, x) > CallsAt(less, x)
                                   THEN CallsAt(more, x) - CallsAt(less, x) ELSE 0]
           gain == [x \in Ends |-> IF CallsBetween(h, x) > CallsBetween(g, x)
                                   THEN CallsBetween(h, x) - CallsBetween(g, x) ELSE 0]
<1>1. ASSUME NEW x \in Ends
      PROVE  /\ CallsAt(more, x) > CallsAt(less, x) <=> CallsBetween(h, x) > CallsBetween(g, x)
             /\ CallsAt(more, x) - CallsAt(less, x) = CallsBetween(h, x) - CallsBetween(g, x)
  <2>1. /\ CallsAt(h.edges, x) \in Nat /\ CallsAt(g.edges, x) \in Nat
        /\ CallsAt(more, x) \in Nat /\ CallsAt(less, x) \in Nat
        /\ CallsAt(more, x) - CallsAt(less, x) = CallsAt(h.edges, x) - CallsAt(g.edges, x)
    <3>1. IsFiniteSet(h.edges) /\ IsFiniteSet(g.edges)
      BY DEF IsGraph
    <3> QED
      BY <3>1, CommonCallsCancel
  <2>2. CallsBetween(h, x) = CallsAt(h.edges, x) /\ CallsBetween(g, x) = CallsAt(g.edges, x)
    BY DEF CallsBetween, CallsAt
  <2> QED
    BY <2>1, <2>2
<1>2. Surplus(more, less) = SumFunction(over)
  BY DEF Surplus, CallsAt
<1>3. over = gain
  BY <1>1
<1> QED
  BY <1>2, <1>3

\* The least of some numbers is one of them.
LEMMA MinIsMember ==
    ASSUME NEW T, T \subseteq Nat, T # {}
    PROVE  Min(T) \in T /\ \A k \in T : Min(T) <= k
  BY LeastNumber DEF Min

\* A matching of n rows with n others: fit[i] are those that the i-th may take, and used[i]
\* those that the first i have taken, or {0} once one of them found none.
IsGreedy(used, fit, n) ==
    /\ used[0] = {}
    /\ \A i \in 1..n : used[i] = IF used[i - 1] = {0} \/ fit[i] \ used[i - 1] = {} THEN {0}
                                  ELSE used[i - 1] \union {Min(fit[i] \ used[i - 1])}

IsMatching(q, fit, n) ==
    /\ q \in [1..n -> 1..n]
    /\ \A i, j \in 1..n : q[i] = q[j] => i = j
    /\ \A i \in 1..n : q[i] \in fit[i]

\* Two that have one row in common have all.
ZigZag(fit, n) == \A i, j \in 1..n : fit[i] \cap fit[j] # {} => fit[i] = fit[j]

\* Who is done, and has taken what it could, has a matching.
LEMMA GreedySucceeds ==
    ASSUME NEW n \in Nat, NEW fit \in [1..n -> SUBSET (1..n)], NEW used,
           IsGreedy(used, fit, n), used[n] # {0}
    PROVE  \E q : IsMatching(q, fit, n)
<1>1. ASSUME NEW m \in 0..n PROVE used[m] # {0}
  <2> SUFFICES ASSUME used[m] = {0} PROVE FALSE
    OBVIOUS
  <2> DEFINE P == {k \in 0..n : k >= m => used[k] = {0}}
  <2>1. 0 \in P
    OBVIOUS
  <2>2. ASSUME NEW k \in 1..n, k - 1 \in P PROVE k \in P
    <3>1. CASE k = m
      BY <3>1
    <3>2. CASE k # m
      <4>1. k >= m => used[k - 1] = {0}
        BY <2>2, <3>2
      <4>2. used[k - 1] = {0} => used[k] = {0}
        BY DEF IsGreedy
      <4> QED
        BY <4>1, <4>2
    <3> QED
      BY <3>1, <3>2
  <2>3. P = 0..n
    <3> HIDE DEF P
    <3>1. P \subseteq 0..n
      BY DEF P
    <3> QED
      BY <2>1, <2>2, <3>1, Stepwise
  <2> QED
    BY <2>3
<1> DEFINE q == [i \in 1..n |-> Min(fit[i] \ used[i - 1])]
<1>2. ASSUME NEW i \in 1..n
      PROVE  q[i] \in fit[i] /\ q[i] \notin used[i - 1] /\ used[i] = used[i - 1] \union {q[i]}
  <2>1. used[i] # {0}
    BY <1>1
  <2>2. fit[i] \ used[i - 1] # {} /\ used[i] = used[i - 1] \union {q[i]}
    BY <2>1 DEF IsGreedy
  <2>3. fit[i] \ used[i - 1] \subseteq Nat
    OBVIOUS
  <2>4. Min(fit[i] \ used[i - 1]) \in fit[i] \ used[i - 1]
    BY <2>2, <2>3, MinIsMember
  <2> QED
    BY <2>2, <2>4
<1> DEFINE P == {k \in 0..n : \A i \in 1..k : q[i] \in used[k]}
<1>3. P = 0..n
  <2>1. 0 \in P
    OBVIOUS
  <2>2. ASSUME NEW k \in 1..n, k - 1 \in P PROVE k \in P
    <3> HIDE DEF q
    <3>1. \A i \in 1..(k - 1) : q[i] \in used[k - 1]
      BY <2>2
    <3>2. \A i \in 1..k : q[i] \in used[k]
      BY <1>2, <3>1
    <3> QED
      BY <3>2
  <2> HIDE DEF P
  <2>3. P \subseteq 0..n
    BY DEF P
  <2> QED
    BY <2>1, <2>2, <2>3, Stepwise
<1>4. ASSUME NEW i \in 1..n, NEW j \in 1..n, i < j PROVE q[i] # q[j]
  <2> HIDE DEF q
  <2>1. j - 1 \in P /\ i \in 1..(j - 1)
    BY <1>3, <1>4
  <2>2. q[i] \in used[j - 1]
    BY <2>1
  <2> QED
    BY <1>2, <2>2
<1>5. q \in [1..n -> 1..n]
  <2>1. \A i \in 1..n : q[i] \in 1..n
    BY <1>2
  <2> QED
    BY <2>1
<1> HIDE DEF q
<1>6. \A i, j \in 1..n : q[i] = q[j] => i = j
  BY <1>4
<1> QED
  BY <1>2, <1>5, <1>6 DEF IsMatching

\* Where rows fit alike or not at all, taking the first never spoils a matching: what it
\* takes from a later one, the later one can make up for.
LEMMA GreedyMisses ==
    ASSUME NEW n \in Nat, NEW fit \in [1..n -> SUBSET (1..n)], NEW used,
           IsGreedy(used, fit, n), ZigZag(fit, n), NEW q0, IsMatching(q0, fit, n)
    PROVE  used[n] # {0}
<1> DEFINE Follows(q, k) == IsMatching(q, fit, n) /\ used[k] = {q[i] : i \in 1..k}
           P == {k \in 0..n : \E q : Follows(q, k)}
<1>1. 0 \in P
  <2>1. Follows(q0, 0)
    BY DEF IsGreedy
  <2> QED
    BY <2>1
<1>2. ASSUME NEW k \in 1..n, k - 1 \in P PROVE k \in P
  <2>1. PICK q : Follows(q, k - 1)
    BY <1>2
  <2>2. /\ q \in [1..n -> 1..n] /\ \A i, j \in 1..n : q[i] = q[j] => i = j
        /\ \A i \in 1..n : q[i] \in fit[i]
        /\ used[k - 1] = {q[i] : i \in 1..(k - 1)}
    BY <2>1 DEF IsMatching
  <2>3. q[k] \in fit[k] \ used[k - 1] /\ used[k - 1] # {0} /\ fit[k] \ used[k - 1] \subseteq Nat
    <3>1. \A i \in 1..(k - 1) : i \in 1..n /\ i # k /\ q[i] # 0
      BY <2>2
    <3>2. q[k] \notin used[k - 1]
      BY <2>2, <3>1
    <3>3. 0 \notin used[k - 1]
      BY <2>2, <3>1
    <3>4. fit[k] \subseteq 1..n
      OBVIOUS
    <3>5. fit[k] \ used[k - 1] \subseteq Nat
      BY <3>4
    <3>6. used[k - 1] # {0}
      BY <3>3
    <3>7. q[k] \in fit[k]
      BY <2>2
    <3> QED
      BY <3>2, <3>5, <3>6, <3>7
  <2> DEFINE j == Min(fit[k] \ used[k - 1])
  <2>4. j \in fit[k] /\ j \notin used[k - 1] /\ used[k] = used[k - 1] \union {j}
    BY <2>3, MinIsMember DEF IsGreedy
  <2>5. j \in 1..n
    BY <2>4
  <2> HIDE DEF j
  <2> DEFINE h == [i \in 1..n |-> IF i = k THEN j ELSE IF q[i] = j THEN q[k] ELSE q[i]]
  <2>6. \A i \in 1..(k - 1) : h[i] = q[i] /\ i \in 1..n
    BY <2>2, <2>4
  <2>7. h \in [1..n -> 1..n] /\ h[k] = j
    BY <2>2, <2>5
  <2>8. \A i, m \in 1..n : h[i] = h[m] => i = m
    BY <2>2
  <2>9. ASSUME NEW i \in 1..n PROVE h[i] \in fit[i]
    <3>1. CASE i = k
      BY <2>4, <3>1
    <3>2. CASE i # k /\ q[i] = j
      <4>1. fit[i] = fit[k]
        BY <2>2, <2>4, <3>2 DEF ZigZag
      <4> QED
        BY <2>2, <3>2, <4>1
    <3>3. CASE i # k /\ q[i] # j
      BY <2>2, <3>3
    <3> QED
      BY <3>1, <3>2, <3>3
  <2> HIDE DEF h
  <2>10. used[k] = {h[i] : i \in 1..k}
    <3>1. {h[i] : i \in 1..k} = {h[i] : i \in 1..(k - 1)} \union {h[k]}
      OBVIOUS
    <3>2. {h[i] : i \in 1..(k - 1)} = {q[i] : i \in 1..(k - 1)}
      BY <2>6
    <3> QED
      BY <2>2, <2>4, <2>7, <3>1, <3>2
  <2>11. Follows(h, k)
    BY <2>7, <2>8, <2>9, <2>10 DEF IsMatching
  <2> QED
    BY <2>11
<1>3. P = 0..n
  <2> HIDE DEF P
  <2>1. P \subseteq 0..n
    BY DEF P
  <2> QED
    BY <1>1, <1>2, <2>1, Stepwise
<1>4. PICK q : Follows(q, n)
  BY <1>3
<1>5. 0 \notin used[n]
  BY <1>4 DEF IsMatching
<1> QED
  BY <1>5

\* What RowsUnchanged computes.
IsUse(used, old, new) ==
    used = [i \in 0..Len(new) |->
              IF i = 0 THEN {}
              ELSE LET fits == {j \in DOMAIN old \ used[i - 1] : RowsEquivalent(old[j], new[i])}
                   IN  IF used[i - 1] = {0} \/ fits = {} THEN {0} ELSE used[i - 1] \union {Min(fits)}]

LEMMA UseExists ==
    ASSUME NEW old, NEW new, Len(new) \in Nat, DOMAIN old = 1..Len(old), Len(old) \in Nat
    PROVE  \E used : IsUse(used, old, new)
<1> DEFINE n == Len(new)
           V == SUBSET (0..Len(old))
           fits(i, u) == {j \in DOMAIN old \ u : RowsEquivalent(old[j], new[i])}
           next(i, u) == IF u = {0} \/ fits(i, u) = {} THEN {0} ELSE u \union {Min(fits(i, u))}
           step == [i \in 1..n |-> [u \in V |-> next(i, u)]]
<1>1. ASSUME NEW i \in 1..n, NEW u \in V PROVE next(i, u) \in V
  <2>1. fits(i, u) \subseteq DOMAIN old
    OBVIOUS
  <2> HIDE DEF fits
  <2>2. fits(i, u) \subseteq 1..Len(old) /\ fits(i, u) \subseteq Nat
    BY <2>1
  <2>3. fits(i, u) # {} => Min(fits(i, u)) \in 1..Len(old)
    BY <2>2, MinIsMember
  <2>4. {0} \in V /\ 1..Len(old) \subseteq 0..Len(old)
    OBVIOUS
  <2> QED
    BY <2>3, <2>4
<1> HIDE DEF next
<1>2. step \in [1..n -> [V -> V]]
  BY <1>1
<1>3. \A i \in 1..n, u \in V : step[i][u] = next(i, u)
  OBVIOUS
<1>4. {} \in V /\ n \in Nat
  OBVIOUS
<1> HIDE DEF step, V, n
<1>5. PICK used \in [0..n -> V] : RunsBy(used, n, {}, step)
  BY <1>2, <1>4, Recursion
<1>6. \A i \in 0..n : used[i] = IF i = 0 THEN {} ELSE next(i, used[i - 1])
  <2>1. used[0] = {}
    BY <1>5 DEF RunsBy
  <2>2. ASSUME NEW i \in 1..n PROVE used[i] = next(i, used[i - 1])
    <3>1. used[i - 1] \in V
      BY <1>4, <1>5
    <3> QED
      BY <1>3, <1>5, <3>1 DEF RunsBy
  <2> QED
    BY <1>4, <2>1, <2>2
<1>7. used = [i \in 0..n |-> IF i = 0 THEN {} ELSE next(i, used[i - 1])]
  BY <1>5, <1>6
<1>8. IsUse(used, old, new)
  BY <1>7 DEF IsUse, next, n
<1> QED
  BY <1>8

UniformBodies(rows) == \A i, j \in DOMAIN rows : rows[i].body = NoBody => rows[j].body = NoBody

\* Body hashes are there for all rows of a key or for none, and so two rows that fit one
\* row in common fit the same.
LEMMA RowsZigZag ==
    ASSUME NEW old, NEW new, UniformBodies(old), UniformBodies(new),
           NEW i \in DOMAIN new, NEW k \in DOMAIN new, NEW j \in DOMAIN old, NEW l \in DOMAIN old,
           RowsEquivalent(old[j], new[i]), RowsEquivalent(old[j], new[k]), RowsEquivalent(old[l], new[i])
    PROVE  RowsEquivalent(old[l], new[k])
  BY DEF RowsEquivalent, UniformBodies

\* Greedy matching is matching.
LEMMA UnchangedIsPairing ==
    ASSUME NEW old \in Seq(SymbolRow), NEW new \in Seq(SymbolRow), UniformBodies(old), UniformBodies(new)
    PROVE  RowsUnchanged(old, new) <=> Pairing(old, new)
<1>1. Len(old) \in Nat /\ DOMAIN old = 1..Len(old) /\ Len(new) \in Nat /\ DOMAIN new = 1..Len(new)
  OBVIOUS
<1> DEFINE n == Len(old)
           used == CHOOSE f : IsUse(f, old, new)
           fit == [i \in 1..n |-> {j \in 1..n : RowsEquivalent(old[j], new[i])}]
<1>2. IsUse(used, old, new)
  BY <1>1, UseExists
<1>3. RowsUnchanged(old, new) <=> n = Len(new) /\ used[Len(new)] # {0}
  BY DEF RowsUnchanged, IsUse
<1>4. Cardinality(DOMAIN old) = n
  BY <1>1, CountTo
<1>5. CASE n # Len(new)
  BY <1>3, <1>5 DEF Pairing
<1>6. CASE n = Len(new)
  <2> HIDE DEF used
  <2>1. fit \in [1..n -> SUBSET (1..n)]
    OBVIOUS
  <2>2. IsGreedy(used, fit, n)
    <3>1. used[0] = {}
      BY <1>1, <1>2 DEF IsUse
    <3>2. ASSUME NEW i \in 1..n
          PROVE  used[i] = IF used[i - 1] = {0} \/ fit[i] \ used[i - 1] = {} THEN {0}
                           ELSE used[i - 1] \union {Min(fit[i] \ used[i - 1])}
      <4> DEFINE fits == {j \in DOMAIN old \ used[i - 1] : RowsEquivalent(old[j], new[i])}
      <4>1. used[i] = IF used[i - 1] = {0} \/ fits = {} THEN {0} ELSE used[i - 1] \union {Min(fits)}
        <5>1. i \in 0..Len(new) /\ i # 0
          BY <1>1, <1>6
        <5> QED
          BY <1>2, <5>1 DEF IsUse
      <4>2. fits = fit[i] \ used[i - 1]
        BY <1>1
      <4> HIDE DEF fits, fit
      <4> QED
        BY <4>1, <4>2
    <3> QED
      BY <3>1, <3>2 DEF IsGreedy
  <2>3. ZigZag(fit, n)
    <3>1. \A i, k, j, l \in 1..n :
            RowsEquivalent(old[j], new[i]) /\ RowsEquivalent(old[j], new[k]) /\ RowsEquivalent(old[l], new[i])
              => RowsEquivalent(old[l], new[k])
      BY <1>1, <1>6, RowsZigZag
    <3> QED
      BY <3>1 DEF ZigZag
  <2>4. Pairing(old, new) <=> \E q : IsMatching(q, fit, n)
    <3>1. ASSUME NEW q PROVE IsMatching(q, fit, n) <=>
            q \in SetToSeqs(DOMAIN old) /\ \A i \in DOMAIN new : RowsEquivalent(old[q[i]], new[i])
      <4>1. q \in SetToSeqs(DOMAIN old) <=>
              q \in [1..n -> 1..n] /\ \A i, j \in 1..n : i # j => q[i] # q[j]
        BY <1>1, <1>4 DEF SetToSeqs
      <4>2. q \in [1..n -> 1..n] => \A i \in 1..n : q[i] \in fit[i] <=> RowsEquivalent(old[q[i]], new[i])
        OBVIOUS
      <4> HIDE DEF fit
      <4> QED
        BY <1>1, <1>6, <4>1, <4>2 DEF IsMatching
    <3> HIDE DEF fit
    <3> QED
      BY <1>6, <3>1 DEF Pairing
  <2> HIDE DEF fit
  <2>5. ASSUME used[n] # {0} PROVE \E q : IsMatching(q, fit, n)
    BY <1>1, <2>1, <2>2, <2>5, GreedySucceeds
  <2>6. ASSUME \E q : IsMatching(q, fit, n) PROVE used[n] # {0}
    BY <1>1, <2>1, <2>2, <2>3, <2>6, GreedyMisses
  <2> QED
    BY <1>3, <1>6, <2>4, <2>5, <2>6
<1> QED
  BY <1>5, <1>6

\* The rows of each key, and the calls, of two graphs that are compared.
LEMMA CompareIsRight ==
    ASSUME Compare, IsGraph(before), IsGraph(after)
    PROVE  ChangedMeansChanged' /\ MovedCallsCancel'
<1>1. ASSUME NEW k \in KeysOf(before) \intersect KeysOf(after)
      PROVE  RowsUnchanged(before.rows[k], after.rows[k]) <=> Pairing(before.rows[k], after.rows[k])
  <2>1. k \in Keys
    BY DEF KeysOf
  <2>2. before.rows[k] \in Seq(SymbolRow) /\ after.rows[k] \in Seq(SymbolRow)
    BY <2>1 DEF IsGraph
  <2>3. UniformBodies(before.rows[k]) /\ UniformBodies(after.rows[k])
    BY <2>1 DEF IsGraph, UniformBodies
  <2> QED
    BY <2>2, <2>3, UnchangedIsPairing
<1>2. ChangedMeansChanged'
  <2>1. diff'.changed = {k \in KeysOf(before) \intersect KeysOf(after) :
                            ~RowsUnchanged(before.rows[k], after.rows[k])}
    BY DEF Compare
  <2>2. before' = before /\ after' = after
    BY DEF Compare
  <2> QED
    BY <1>1, <2>1, <2>2 DEF ChangedMeansChanged, KeysOf
<1>3. MovedCallsCancel'
  <2>1. /\ diff'.addedCalls = Surplus(after.edges \ before.edges, before.edges \ after.edges)
        /\ diff'.removedCalls = Surplus(before.edges \ after.edges, after.edges \ before.edges)
        /\ before' = before /\ after' = after
    BY DEF Compare
  <2> QED
    BY <2>1, SurplusIsGain DEF MovedCallsCancel
<1> QED
  BY <1>2, <1>3

LEMMA DiffInvariant == Spec => [](ChangedMeansChanged /\ MovedCallsCancel)
<1> DEFINE Inv == /\ dpc # "idle" => IsGraph(before) /\ IsGraph(after)
                  /\ ChangedMeansChanged /\ MovedCallsCancel
<1>1. Init => Inv
  <2>1. Init => dpc # "done" /\ (dpc # "idle" => IsGraph(before) /\ IsGraph(after))
    BY QueriesAssumption DEF Init, Walking, Attributing, Grouping, Comparing, DiffIdle, DiffInit
  <2> QED
    BY <2>1 DEF ChangedMeansChanged, MovedCallsCancel
<1>2. ASSUME Inv, [Next]_vars PROVE Inv'
  <2>1. CASE Compare
    BY <1>2, <2>1, CompareIsRight DEF Compare
  <2>2. CASE UNCHANGED diffing
    BY <1>2, <2>2 DEF diffing, ChangedMeansChanged, MovedCallsCancel
  <2> QED
    BY <1>2, <2>1, <2>2 DEF Next, vars
<1> QED
  BY <1>1, <1>2, PTL DEF Spec

\* diff calls a symbol changed only if no pairing of its rows would show it unchanged,
\* in whatever order the overloads of a name were inserted into the two databases.
THEOREM ChangedSymbolsAreChanged == Spec => []ChangedMeansChanged
  BY DiffInvariant, PTL

\* diff counts added and removed calls as if the lines had been erased from both graphs, and
\* not only from the calls that differ.
THEOREM MovedCallsAreNotCounted == Spec => []MovedCallsCancel
  BY DiffInvariant, PTL

-----------------------------------------------------------------------------
(* Balls.                                                                  *)

Hop(S, direction) == {Far(e, direction) : e \in {e \in calls : Near(e, direction) \in S}}

IsBall(ball, from, direction, n) ==
    ball = [k \in 0..n |->
              IF k = 0 THEN from
              ELSE LET nearer == ball[k - 1]
                   IN  nearer \union {Far(e, direction) : e \in {e \in calls : Near(e, direction) \in nearer}}]

LEMMA SameBalls ==
    ASSUME calls' = calls
    PROVE  \A from, direction, n : Ball(from, direction, n)' = Ball(from, direction, n)
  BY DEF Ball, Near, Far

LEMMA HopType ==
    ASSUME calls \subseteq Sites
    PROVE  \A S, direction : Hop(S, direction) \subseteq Symbols
<1>1. \A e \in calls : e.source \in Symbols /\ e.target \in Symbols
  BY GraphAssumption
<1> QED
  BY <1>1 DEF Hop, Far

LEMMA BallExists ==
    ASSUME calls \subseteq Sites, NEW from \in SUBSET Symbols, NEW direction, NEW n \in Nat
    PROVE  \E ball : IsBall(ball, from, direction, n)
<1> DEFINE V == SUBSET Symbols
           next(u) == u \union Hop(u, direction)
           step == [i \in 1..n |-> [u \in V |-> next(u)]]
<1>1. \A u \in V : next(u) \in V
  BY HopType
<1>2. step \in [1..n -> [V -> V]] /\ \A i \in 1..n, u \in V : step[i][u] = next(u)
  <2> HIDE DEF next
  <2> QED
    BY <1>1
<1>3. from \in V
  OBVIOUS
<1> HIDE DEF step, V, next
<1>4. PICK ball \in [0..n -> V] : RunsBy(ball, n, from, step)
  BY <1>2, <1>3, Recursion
<1>5. \A i \in 0..n : ball[i] = IF i = 0 THEN from ELSE next(ball[i - 1])
  <2>1. ball[0] = from
    BY <1>4 DEF RunsBy
  <2>2. ASSUME NEW i \in 1..n PROVE ball[i] = next(ball[i - 1])
    <3>1. ball[i - 1] \in V
      BY <1>4
    <3> QED
      BY <1>2, <1>4, <3>1 DEF RunsBy
  <2> QED
    BY <2>1, <2>2
<1>6. ball = [i \in 0..n |-> IF i = 0 THEN from ELSE next(ball[i - 1])]
  BY <1>4, <1>5
<1>7. IsBall(ball, from, direction, n)
  BY <1>6 DEF IsBall, next, Hop
<1> QED
  BY <1>7

LEMMA BallIsBall ==
    ASSUME calls \subseteq Sites, NEW from \in SUBSET Symbols, NEW direction, NEW n \in Nat
    PROVE  \E ball : IsBall(ball, from, direction, n) /\ Ball(from, direction, n) = ball[n]
<1> DEFINE ball == CHOOSE b : IsBall(b, from, direction, n)
<1>1. IsBall(ball, from, direction, n)
  BY BallExists
<1>2. Ball(from, direction, n) = ball[n]
  BY DEF Ball, IsBall
<1> QED
  BY <1>1, <1>2

LEMMA BallEntries ==
    ASSUME NEW from, NEW direction, NEW n \in Nat, NEW ball, IsBall(ball, from, direction, n)
    PROVE  /\ ball[0] = from
           /\ \A k \in 1..n : ball[k] = ball[k - 1] \union Hop(ball[k - 1], direction)
<1>1. ball = [k \in 0..n |-> IF k = 0 THEN from ELSE ball[k - 1] \union Hop(ball[k - 1], direction)]
  BY DEF IsBall, Hop
<1>2. ball[0] = from
  BY <1>1
<1>3. ASSUME NEW k \in 1..n PROVE ball[k] = ball[k - 1] \union Hop(ball[k - 1], direction)
  <2>1. k \in 0..n /\ k # 0
    OBVIOUS
  <2> QED
    BY <1>1, <2>1
<1> QED
  BY <1>2, <1>3

\* One hop more.
LEMMA BallGrows ==
    ASSUME calls \subseteq Sites, NEW from \in SUBSET Symbols, NEW direction, NEW n \in Nat
    PROVE  /\ Ball(from, direction, 0) = from
           /\ Ball(from, direction, n + 1) = Ball(from, direction, n) \union Hop(Ball(from, direction, n), direction)
<1>1. Ball(from, direction, 0) = from
  <2>1. PICK ball : IsBall(ball, from, direction, 0) /\ Ball(from, direction, 0) = ball[0]
    BY BallIsBall
  <2> QED
    BY <2>1, BallEntries
<1>2. PICK near : IsBall(near, from, direction, n) /\ Ball(from, direction, n) = near[n]
  BY BallIsBall
<1>3. PICK far : IsBall(far, from, direction, n + 1) /\ Ball(from, direction, n + 1) = far[n + 1]
  BY BallIsBall
<1>4. /\ near[0] = from /\ far[0] = from
      /\ \A k \in 1..n : near[k] = near[k - 1] \union Hop(near[k - 1], direction)
      /\ \A k \in 1..(n + 1) : far[k] = far[k - 1] \union Hop(far[k - 1], direction)
  <2>1. n + 1 \in Nat
    OBVIOUS
  <2>2. near[0] = from /\ \A k \in 1..n : near[k] = near[k - 1] \union Hop(near[k - 1], direction)
    BY <1>2, BallEntries
  <2>3. far[0] = from /\ \A k \in 1..(n + 1) : far[k] = far[k - 1] \union Hop(far[k - 1], direction)
    BY <1>3, <2>1, BallEntries
  <2> QED
    BY <2>2, <2>3
<1> DEFINE P == {k \in 0..n : near[k] = far[k]}
<1>5. P = 0..n
  <2>1. 0 \in P
    BY <1>4
  <2>2. ASSUME NEW k \in 1..n, k - 1 \in P PROVE k \in P
    <3>1. k \in 1..(n + 1) /\ k \in 0..n /\ near[k - 1] = far[k - 1]
      BY <2>2
    <3>2. near[k] = near[k - 1] \union Hop(near[k - 1], direction)
      BY <1>4
    <3>3. far[k] = far[k - 1] \union Hop(far[k - 1], direction)
      BY <1>4, <3>1
    <3> QED
      BY <3>1, <3>2, <3>3
  <2>3. P \subseteq 0..n
    OBVIOUS
  <2> HIDE DEF P
  <2> QED
    BY <2>1, <2>2, <2>3, Stepwise
<1>6. near[n] = far[n]
  BY <1>5
<1>7. n + 1 \in 1..(n + 1) /\ (n + 1) - 1 = n
  OBVIOUS
<1> QED
  BY <1>1, <1>2, <1>3, <1>6, <1>7, <1>4

LEMMA BallsNest ==
    ASSUME calls \subseteq Sites, NEW from \in SUBSET Symbols, NEW direction, NEW n \in Nat, NEW m \in 0..n
    PROVE  /\ Ball(from, direction, n) \subseteq Symbols
           /\ Ball(from, direction, m) \subseteq Ball(from, direction, n)
<1> DEFINE B(k) == Ball(from, direction, k)
           P == {k \in 0..n : B(k) \subseteq Symbols /\ (k >= m => B(m) \subseteq B(k))}
<1>1. 0 \in P
  BY BallGrows
<1>2. ASSUME NEW k \in 1..n, k - 1 \in P PROVE k \in P
  <2>1. k - 1 \in Nat /\ (k - 1) + 1 = k
    OBVIOUS
  <2>2. B(k) = B(k - 1) \union Hop(B(k - 1), direction)
    BY <2>1, BallGrows
  <2>3. B(k) \subseteq Symbols
    BY <1>2, <2>2, HopType
  <2>4. k >= m => B(m) \subseteq B(k)
    BY <1>2, <2>2
  <2> QED
    BY <2>3, <2>4
<1>3. P = 0..n
  <2>1. P \subseteq 0..n
    OBVIOUS
  <2> HIDE DEF P
  <2> QED
    BY <1>1, <1>2, <2>1, Stepwise
<1>4. n \in P /\ n >= m
  BY <1>3
<1> QED
  BY <1>4

-----------------------------------------------------------------------------
(* Affected.  The invariant.                                               *)

Seeds == {s \in Symbols : FileOf[s] \in Changed}

Within(n) == Ball(Seeds, "incoming", n)

Reached(s) == reached[s] # Unreached

Queued(s) == \E i \in DOMAIN pending : pending[i].symbol = s

AffectedTypes ==
    /\ calls \subseteq Sites /\ input.depth \in Nat
    /\ pending \in Seq([symbol : Symbols, hops : Nat])
    /\ reached \in [Symbols -> Nat \union {Unreached}]

HopsAreLeast ==
    \A s \in Symbols : Reached(s) =>
        /\ reached[s] <= AffectedDepth /\ s \in Within(reached[s])
        /\ \A m \in 0..AffectedDepth : s \in Within(m) => reached[s] <= m

\* The queue holds symbols of one level, and after them of the next.
QueueInTurn ==
    /\ \A i \in DOMAIN pending : pending[i].hops = reached[pending[i].symbol]
    /\ \A i, j \in DOMAIN pending : i < j => pending[i].hops <= pending[j].hops
    /\ \A i \in DOMAIN pending : pending[i].hops <= pending[1].hops + 1

SeedsReached == \A s \in Seeds : Reached(s)

\* A symbol that left the queue has its callers reached, or is at the full depth.
LeftIsSpread ==
    \A s \in Symbols : Reached(s) /\ reached[s] < AffectedDepth =>
        Queued(s) \/ \A c \in Callers(s) : Reached(c)

\* No symbol of a level is taken from the queue before all of it have been reached.
LevelsInTurn ==
    pending # <<>> => \A s \in Within(pending[1].hops) : Reached(s)

WalkInv == HopsAreLeast /\ QueueInTurn /\ SeedsReached /\ LeftIsSpread /\ LevelsInTurn

LEMMA SameSeeds ==
    ASSUME calls' = calls, input' = input
    PROVE  /\ AffectedDepth' = AffectedDepth /\ Seeds' = Seeds
           /\ \A n : Within(n)' = Within(n)
           /\ \A s : Callers(s)' = Callers(s)
<1>1. AffectedDepth' = AffectedDepth /\ Seeds' = Seeds
  BY DEF AffectedDepth, NormalizeDepth, Seeds, Changed
<1>2. \A n : Within(n)' = Within(n)
  BY <1>1 DEF Within, Ball, Near, Far
<1>3. \A s : Callers(s)' = Callers(s)
  BY DEF Callers, DirectEdges, Near
<1> QED
  BY <1>1, <1>2, <1>3

LEMMA DepthType ==
    ASSUME input.depth \in Nat
    PROVE  AffectedDepth \in Nat \ {0} /\ AffectedDepth <= MaxDepth
  BY GraphAssumption DEF AffectedDepth, NormalizeDepth

LEMMA WithinGrows ==
    ASSUME calls \subseteq Sites
    PROVE  /\ Within(0) = Seeds
           /\ \A n \in Nat : /\ Within(n) \subseteq Symbols
                             /\ \A m \in 0..n : Within(m) \subseteq Within(n)
                             /\ \A s \in Within(n + 1) : s \in Within(n) \/ \E t \in Within(n) : s \in Callers(t)
                             /\ \A t \in Within(n) : Callers(t) \subseteq Within(n + 1)
<1>1. Seeds \in SUBSET Symbols
  BY DEF Seeds
<1>2. Within(0) = Seeds
  BY <1>1, BallGrows DEF Within
<1> SUFFICES ASSUME NEW n \in Nat
             PROVE  /\ Within(n) \subseteq Symbols
                    /\ \A m \in 0..n : Within(m) \subseteq Within(n)
                    /\ \A s \in Within(n + 1) : s \in Within(n) \/ \E t \in Within(n) : s \in Callers(t)
                    /\ \A t \in Within(n) : Callers(t) \subseteq Within(n + 1)
  BY <1>2
<1>3. Within(n + 1) = Within(n) \union Hop(Within(n), "incoming")
  BY <1>1, BallGrows DEF Within
<1>4. Within(n) \subseteq Symbols /\ \A m \in 0..n : Within(m) \subseteq Within(n)
  BY <1>1, BallsNest DEF Within
<1>5. \A s : s \in Hop(Within(n), "incoming") <=> \E t \in Within(n) : s \in Callers(t)
  BY DEF Hop, Callers, DirectEdges, Near, Far
<1> QED
  BY <1>3, <1>4, <1>5

\* An enumeration of a finite set meets all of it.
LEMMA Enumerated ==
    ASSUME NEW S, IsFiniteSet(S), NEW order \in SetToSeqs(S)
    PROVE  /\ order \in Seq(S) /\ Len(order) \in Nat /\ DOMAIN order = 1..Len(order)
           /\ \A s \in S : \E i \in 1..Len(order) : order[i] = s
<1> DEFINE n == Cardinality(S)
<1>1. n \in Nat
  BY FS_CardinalityType
<1>2. order \in [1..n -> S] /\ \A i, j \in 1..n : i # j => order[i] # order[j]
  BY DEF SetToSeqs
<1>3. IsFiniteSet(1..n) /\ Cardinality(1..n) = n
  BY <1>1, CountTo
<1>4. order \in Injection(1..n, S)
  BY <1>2 DEF Injection, IsInjective
<1>5. order \in Surjection(1..n, S)
  BY <1>3, <1>4, FS_Injection
<1>6. \A s \in S : \E i \in 1..n : order[i] = s
  BY <1>5 DEF Surjection
<1> HIDE DEF n
<1>7. order \in Seq(S) /\ Len(order) = n /\ DOMAIN order = 1..n
  BY <1>1, <1>2
<1> QED
  BY <1>1, <1>6, <1>7

LEMMA SeedKeeps ==
    ASSUME AffectedTypes, calls' = calls, Seed
    PROVE  AffectedTypes' /\ WalkInv'
<1>1. /\ input' = input
      /\ reached' = [s \in Symbols |-> IF s \in Seeds THEN 0 ELSE Unreached]
  BY DEF Seed, Seeds
<1>2. PICK order \in SetToSeqs(Seeds) : pending' = [i \in DOMAIN order |-> [symbol |-> order[i], hops |-> 0]]
  BY DEF Seed, Seeds
<1>3. Seeds \subseteq Symbols /\ IsFiniteSet(Seeds)
  <2>1. Seeds \in SUBSET Symbols
    BY DEF Seeds
  <2> QED
    BY <2>1, GraphAssumption, FS_Subset
<1>4. /\ order \in Seq(Seeds) /\ Len(order) \in Nat /\ DOMAIN order = 1..Len(order)
      /\ \A s \in Seeds : \E i \in 1..Len(order) : order[i] = s
  BY <1>3, Enumerated
<1>5. /\ DOMAIN pending' = 1..Len(order)
      /\ \A i \in 1..Len(order) : pending'[i].symbol = order[i] /\ pending'[i].hops = 0 /\ order[i] \in Seeds
      /\ pending' \in Seq([symbol : Symbols, hops : Nat])
  <2> DEFINE m == Len(order)
  <2>1. m \in Nat /\ \A i \in 1..m : order[i] \in Seeds
    BY <1>4
  <2>2. pending' = [i \in 1..m |-> [symbol |-> order[i], hops |-> 0]]
    BY <1>2, <1>4
  <2> HIDE DEF m
  <2>3. pending' \in [1..m -> [symbol : Symbols, hops : Nat]]
    BY <1>3, <2>1, <2>2
  <2> QED
    BY <2>1, <2>2, <2>3 DEF m
<1>6. AffectedTypes'
  BY <1>1, <1>5 DEF AffectedTypes
<1>7. /\ AffectedDepth' = AffectedDepth /\ Seeds' = Seeds
      /\ \A n : Within(n)' = Within(n)
      /\ \A s : Callers(s)' = Callers(s)
  BY <1>1, SameSeeds
<1>8. Within(0) = Seeds /\ AffectedDepth \in Nat
  BY WithinGrows, DepthType DEF AffectedTypes
<1>9. \A s \in Symbols : (Reached(s)' <=> s \in Seeds) /\ (s \in Seeds => reached'[s] = 0)
  BY <1>1, AffectedAssumption DEF Reached
<1>10. HopsAreLeast'
  BY <1>7, <1>8, <1>9 DEF HopsAreLeast
<1>11. QueueInTurn'
  <2>1. \A i \in 1..Len(order) : pending'[i].hops = 0 /\ reached'[pending'[i].symbol] = 0
    BY <1>3, <1>5, <1>9
  <2>2. \A i \in DOMAIN pending' : 1 \in DOMAIN pending'
    BY <1>4, <1>5
  <2> QED
    BY <1>5, <2>1, <2>2 DEF QueueInTurn
<1>12. SeedsReached'
  BY <1>3, <1>7, <1>9 DEF SeedsReached
<1>13. LeftIsSpread'
  BY <1>4, <1>5, <1>9 DEF LeftIsSpread, Queued
<1>14. LevelsInTurn'
  <2>1. pending' # <<>> => pending'[1].hops = 0
    BY <1>4, <1>5
  <2> QED
    BY <1>3, <1>7, <1>8, <1>9, <2>1 DEF LevelsInTurn
<1> QED
  BY <1>6, <1>10, <1>11, <1>12, <1>13, <1>14 DEF WalkInv

New == IF Head(pending).hops >= AffectedDepth THEN {}
       ELSE {s \in Callers(Head(pending).symbol) : ~Reached(s)}

LEMMA PopEffect ==
    ASSUME AffectedTypes, calls' = calls, Pop
    PROVE  /\ input' = input /\ pending # <<>> /\ Head(pending) = pending[1] /\ 1 \in DOMAIN pending
           /\ DOMAIN pending = 1..Len(pending) /\ Len(pending) \in Nat
           /\ \A i \in DOMAIN pending : pending[i].symbol \in Symbols /\ pending[i].hops \in Nat
           /\ reached' = [s \in Symbols |-> IF s \in New THEN Head(pending).hops + 1 ELSE reached[s]]
           /\ New \subseteq Symbols
           /\ \A i \in DOMAIN pending : i > 1 => i - 1 \in DOMAIN pending' /\ pending'[i - 1] = pending[i]
           /\ DOMAIN pending' \subseteq Nat \ {0}
           /\ \A i \in DOMAIN pending' : i < Len(pending) => i + 1 \in DOMAIN pending /\ pending'[i] = pending[i + 1]
           /\ \A i \in DOMAIN pending' : i >= Len(pending) =>
                 pending'[i].symbol \in New /\ pending'[i].hops = Head(pending).hops + 1
           /\ \A s \in New : \E i \in DOMAIN pending' : pending'[i].symbol = s
           /\ AffectedTypes'
           /\ \A i \in DOMAIN pending' : 1 \in DOMAIN pending'
<1> DEFINE n == Len(pending)
           h == Head(pending).hops
           Entry == [symbol : Symbols, hops : Nat]
<1>1. /\ pending \in Seq(Entry) /\ reached \in [Symbols -> Nat \union {Unreached}]
      /\ calls \subseteq Sites /\ input.depth \in Nat
  BY DEF AffectedTypes
<1>2. /\ input' = input /\ pending # <<>>
      /\ reached' = [s \in Symbols |-> IF s \in New THEN h + 1 ELSE reached[s]]
  BY DEF Pop, ReachFrom, New, Reached
<1>3. PICK order \in SetToSeqs(New) :
         pending' = Tail(pending) \o [i \in DOMAIN order |-> [symbol |-> order[i], hops |-> h + 1]]
  BY DEF Pop, ReachFrom, New, Reached
<1>4. n \in Nat \ {0} /\ DOMAIN pending = 1..n /\ Head(pending) = pending[1] /\ 1 \in 1..n
  BY <1>1, <1>2
<1>5. \A i \in 1..n : pending[i].symbol \in Symbols /\ pending[i].hops \in Nat
  <2>1. \A i \in 1..n : pending[i] \in Entry
    <3> HIDE DEF Entry, h
    <3> QED
      BY <1>1
  <2>2. \A u \in Entry : u.symbol \in Symbols /\ u.hops \in Nat
    OBVIOUS
  <2> QED
    BY <2>1, <2>2
<1>6. h \in Nat
  BY <1>4, <1>5
<1>7. New \subseteq Symbols /\ IsFiniteSet(New)
  <2>1. \A e \in calls : e.source \in Symbols
    BY <1>1, GraphAssumption
  <2>2. New \in SUBSET Symbols
    BY <2>1 DEF New, Callers, DirectEdges
  <2> QED
    BY <2>2, GraphAssumption, FS_Subset
<1>8. /\ order \in Seq(New) /\ Len(order) \in Nat /\ DOMAIN order = 1..Len(order)
      /\ \A s \in New : \E i \in 1..Len(order) : order[i] = s
  BY <1>7, Enumerated
<1> DEFINE c == Len(order)
           rest == Tail(pending)
           more == [i \in DOMAIN order |-> [symbol |-> order[i], hops |-> h + 1]]
<1> HIDE DEF h
<1>9. /\ rest \in Seq(Entry) /\ Len(rest) = n - 1 /\ \A i \in 1..(n - 1) : rest[i] = pending[i + 1]
  BY <1>1, <1>2
<1>10. c \in Nat /\ more \in Seq(Entry) /\ Len(more) = c
       /\ \A i \in 1..c : more[i].symbol = order[i] /\ more[i].hops = h + 1 /\ order[i] \in New
  <2>1. c \in Nat /\ \A i \in 1..c : order[i] \in New
    BY <1>8
  <2>2. more = [i \in 1..c |-> [symbol |-> order[i], hops |-> h + 1]]
    BY <1>8
  <2> HIDE DEF c, more
  <2>3. \A i \in 1..c : [symbol |-> order[i], hops |-> h + 1] \in Entry
    BY <1>6, <1>7, <2>1
  <2>4. more \in [1..c -> Entry]
    BY <2>2, <2>3
  <2> QED
    BY <2>1, <2>2, <2>4
<1>11. \A s \in New : \E i \in 1..c : order[i] = s
  BY <1>8
<1>12. pending' = rest \o more
  BY <1>3
<1> HIDE DEF n, c, rest, more, Entry
<1>13. /\ pending' \in Seq(Entry) /\ DOMAIN pending' = 1..((n - 1) + c)
       /\ \A i \in 1..(n - 1) : pending'[i] = pending[i + 1]
       /\ \A i \in 1..c : pending'[(n - 1) + i] = more[i]
  <2>1. /\ pending' \in Seq(Entry) /\ Len(pending') = (n - 1) + c
        /\ \A i \in 1..(n - 1) : pending'[i] = rest[i]
        /\ \A i \in 1..c : pending'[(n - 1) + i] = more[i]
    <3>1. /\ rest \o more \in Seq(Entry) /\ Len(rest \o more) = Len(rest) + Len(more)
          /\ \A i \in 1..Len(rest) : (rest \o more)[i] = rest[i]
          /\ \A i \in 1..Len(more) : (rest \o more)[Len(rest) + i] = more[i]
      <4>1. rest \in Seq(Entry) /\ more \in Seq(Entry)
        BY <1>9, <1>10
      <4> QED
        BY <4>1
    <3>2. Len(rest) = n - 1 /\ Len(more) = c
      BY <1>9, <1>10
    <3> QED
      BY <1>12, <3>1, <3>2
  <2> QED
    BY <1>4, <1>9, <1>10, <2>1
<1>14. \A i \in DOMAIN pending : i > 1 => i - 1 \in DOMAIN pending' /\ pending'[i - 1] = pending[i]
  <2> TAKE i \in DOMAIN pending
  <2> HAVE i > 1
  <2>1. i - 1 \in 1..(n - 1) /\ (i - 1) + 1 = i /\ i - 1 \in 1..((n - 1) + c)
    BY <1>4, <1>10
  <2> QED
    BY <1>13, <2>1
<1>15. \A i \in DOMAIN pending' : i < n => i + 1 \in DOMAIN pending /\ pending'[i] = pending[i + 1]
  BY <1>4, <1>10, <1>13
<1>16. \A i \in DOMAIN pending' : i >= n => pending'[i].symbol \in New /\ pending'[i].hops = h + 1
  <2> TAKE i \in DOMAIN pending'
  <2> HAVE i >= n
  <2> DEFINE k == i - (n - 1)
  <2>1. k \in 1..c /\ (n - 1) + k = i
    BY <1>4, <1>10, <1>13
  <2>2. pending'[i] = more[k]
    BY <1>13, <2>1
  <2> QED
    BY <1>10, <2>1, <2>2
<1>17. \A s \in New : \E i \in DOMAIN pending' : pending'[i].symbol = s
  <2> TAKE s \in New
  <2>1. PICK i \in 1..c : order[i] = s
    BY <1>11
  <2>2. (n - 1) + i \in DOMAIN pending' /\ pending'[(n - 1) + i].symbol = s
    BY <1>4, <1>10, <1>13, <2>1
  <2> QED
    BY <2>2
<1>18. AffectedTypes'
  <2>1. reached' \in [Symbols -> Nat \union {Unreached}]
    BY <1>1, <1>2, <1>6
  <2> QED
    BY <1>1, <1>2, <1>13, <2>1 DEF AffectedTypes, Entry
<1>19. /\ DOMAIN pending' \subseteq Nat \ {0} /\ \A i \in DOMAIN pending' : 1 \in DOMAIN pending'
  BY <1>4, <1>10, <1>13
<1> QED
  BY <1>2, <1>4, <1>5, <1>7, <1>14, <1>15, <1>16, <1>17, <1>18, <1>19 DEF n, h

LEMMA PopKeeps ==
    ASSUME AffectedTypes, WalkInv, calls' = calls, Pop
    PROVE  WalkInv'
<1> DEFINE at == Head(pending)
           n == Len(pending)
           D == AffectedDepth
<1>1. /\ input' = input /\ pending # <<>> /\ at = pending[1] /\ 1 \in DOMAIN pending
      /\ DOMAIN pending = 1..n /\ n \in Nat
      /\ \A i \in DOMAIN pending : pending[i].symbol \in Symbols /\ pending[i].hops \in Nat
      /\ reached' = [s \in Symbols |-> IF s \in New THEN at.hops + 1 ELSE reached[s]]
      /\ New \subseteq Symbols
      /\ \A i \in DOMAIN pending : i > 1 => i - 1 \in DOMAIN pending' /\ pending'[i - 1] = pending[i]
      /\ DOMAIN pending' \subseteq Nat \ {0}
      /\ \A i \in DOMAIN pending' : i < n => i + 1 \in DOMAIN pending /\ pending'[i] = pending[i + 1]
      /\ \A i \in DOMAIN pending' : i >= n => pending'[i].symbol \in New /\ pending'[i].hops = at.hops + 1
      /\ \A s \in New : \E i \in DOMAIN pending' : pending'[i].symbol = s
      /\ AffectedTypes'
      /\ \A i \in DOMAIN pending' : 1 \in DOMAIN pending'
  BY PopEffect
<1>2. HopsAreLeast /\ QueueInTurn /\ SeedsReached /\ LeftIsSpread /\ LevelsInTurn
  BY DEF WalkInv
<1>3. calls \subseteq Sites /\ input.depth \in Nat /\ reached \in [Symbols -> Nat \union {Unreached}]
  BY DEF AffectedTypes
<1>4. D \in Nat \ {0}
  BY <1>3, DepthType
<1>5. /\ D' = D /\ Seeds' = Seeds
      /\ \A m : Within(m)' = Within(m)
      /\ \A s : Callers(s)' = Callers(s)
  BY <1>1, SameSeeds
<1>6. New = IF at.hops >= D THEN {} ELSE {s \in Callers(at.symbol) : ~Reached(s)}
  BY DEF New
<1> DEFINE h == at.hops
           v == at.symbol
<1>7. /\ v \in Symbols /\ h \in Nat /\ h = reached[v] /\ Reached(v)
      /\ \A i \in DOMAIN pending : /\ pending[i].hops = reached[pending[i].symbol]
                                   /\ Reached(pending[i].symbol)
                                   /\ h <= pending[i].hops /\ pending[i].hops <= h + 1
  <2>1. v \in Symbols /\ h \in Nat
    BY <1>1
  <2>2. \A i \in DOMAIN pending : /\ pending[i].hops = reached[pending[i].symbol]
                                  /\ Reached(pending[i].symbol)
                                  /\ pending[i].hops <= h + 1
    BY <1>1, <1>2, AffectedAssumption DEF QueueInTurn, Reached
  <2>3. \A i \in DOMAIN pending : h <= pending[i].hops
    <3> TAKE i \in DOMAIN pending
    <3>1. i = 1 \/ 1 < i
      BY <1>1
    <3>2. CASE i = 1
      BY <1>1, <2>1, <3>2
    <3>3. CASE 1 < i
      BY <1>1, <1>2, <3>3 DEF QueueInTurn
    <3> QED
      BY <3>1, <3>2, <3>3
  <2> QED
    BY <1>1, <2>1, <2>2, <2>3
<1>8. /\ \A s \in Within(h) : Reached(s)
      /\ Within(h) \subseteq Symbols /\ v \in Within(h)
  <2>1. \A s \in Within(h) : Reached(s)
    BY <1>1, <1>2 DEF LevelsInTurn
  <2>2. Within(h) \subseteq Symbols
    BY <1>3, <1>7, WithinGrows
  <2>3. v \in Within(h)
    BY <1>2, <1>7 DEF HopsAreLeast
  <2> QED
    BY <2>1, <2>2, <2>3
<1>9. \A s \in New : h < D /\ ~Reached(s) /\ s \in Callers(v)
  BY <1>4, <1>6, <1>7
<1> HIDE DEF at, n, D, h, v
<1>10. \A s \in Symbols : /\ Reached(s)' <=> Reached(s) \/ s \in New
                          /\ s \in New => reached'[s] = h + 1
                          /\ s \notin New => reached'[s] = reached[s]
  <2>1. h + 1 # Unreached
    BY <1>7, AffectedAssumption
  <2> QED
    BY <1>1, <2>1 DEF Reached, h
<1>11. ASSUME NEW i \in DOMAIN pending'
       PROVE  /\ i < n => i + 1 \in DOMAIN pending /\ pending'[i] = pending[i + 1]
              /\ i >= n => pending'[i].symbol \in New /\ pending'[i].hops = h + 1
              /\ pending'[i].symbol \in Symbols /\ pending'[i].hops \in Nat
              /\ pending'[i].hops = reached'[pending'[i].symbol]
              /\ h <= pending'[i].hops /\ pending'[i].hops <= h + 1
  <2>1. /\ i < n => i + 1 \in DOMAIN pending /\ pending'[i] = pending[i + 1]
        /\ i >= n => pending'[i].symbol \in New /\ pending'[i].hops = h + 1
    BY <1>1 DEF h
  <2>2. CASE i < n
    <3>1. pending'[i].symbol \in Symbols /\ pending'[i].symbol \notin New /\ pending'[i].hops \in Nat
      BY <1>1, <1>7, <1>9, <2>1, <2>2
    <3> QED
      BY <1>7, <1>10, <2>1, <2>2, <3>1
  <2>3. CASE i >= n
    BY <1>1, <1>7, <1>10, <2>1, <2>3
  <2> QED
    BY <1>1, <2>2, <2>3, <2>1
<1>12. ASSUME NEW s \in Symbols, reached'[s] # Unreached
       PROVE  /\ reached'[s] <= D /\ s \in Within(reached'[s])
              /\ \A m \in 0..D : s \in Within(m) => reached'[s] <= m
  <2>0. Reached(s)'
    BY <1>12 DEF Reached
  <2>1. CASE s \in New
    <3>1. reached'[s] = h + 1 /\ h < D /\ ~Reached(s) /\ s \in Callers(v)
      BY <1>9, <1>10, <2>1
    <3>2. s \in Within(h + 1)
      BY <1>3, <1>7, <1>8, <3>1, WithinGrows
    <3>3. ASSUME NEW m \in 0..D, s \in Within(m), ~(h + 1 <= m) PROVE FALSE
      <4>1. m \in 0..h
        BY <1>7, <3>3
      <4>2. s \in Within(h)
        BY <1>3, <1>7, <3>3, <4>1, WithinGrows
      <4> QED
        BY <1>8, <3>1, <4>2
    <3> QED
      BY <1>4, <1>7, <3>1, <3>2, <3>3
  <2>2. CASE s \notin New
    BY <1>2, <1>10, <2>0, <2>2 DEF HopsAreLeast, D
  <2> QED
    BY <2>1, <2>2
<1>13. HopsAreLeast'
  <2>1. AffectedDepth' = D
    BY <1>5 DEF D
  <2> QED
    BY <1>5, <1>12, <2>1 DEF HopsAreLeast, Reached
<1>14. QueueInTurn'
  <2>1. \A i, j \in DOMAIN pending' : i < j => pending'[i].hops <= pending'[j].hops
    <3> TAKE i, j \in DOMAIN pending'
    <3> HAVE i < j
    <3>1. i \in Nat /\ j \in Nat
      BY <1>1
    <3>2. CASE j < n
      <4>1. i < n
        BY <1>1, <3>1, <3>2 DEF n
      <4>2. /\ i + 1 \in DOMAIN pending /\ pending'[i] = pending[i + 1]
            /\ j + 1 \in DOMAIN pending /\ pending'[j] = pending[j + 1] /\ i + 1 < j + 1
        BY <1>11, <3>1, <3>2, <4>1
      <4> QED
        BY <1>2, <4>2 DEF QueueInTurn
    <3>3. CASE ~(j < n)
      <4>1. j >= n
        BY <1>1, <3>1, <3>3 DEF n
      <4> QED
        BY <1>11, <4>1
    <3> QED
      BY <3>2, <3>3
  <2>2. \A i \in DOMAIN pending' : pending'[i].hops <= pending'[1].hops + 1
    <3> TAKE i \in DOMAIN pending'
    <3>1. 1 \in DOMAIN pending'
      BY <1>1
    <3>2. /\ h <= pending'[1].hops /\ pending'[1].hops \in Nat
          /\ pending'[i].hops <= h + 1 /\ pending'[i].hops \in Nat
      BY <1>11, <3>1
    <3> QED
      BY <1>7, <3>2
  <2> QED
    BY <1>11, <2>1, <2>2 DEF QueueInTurn
<1>15. SeedsReached'
  <2>1. Seeds \subseteq Symbols
    BY DEF Seeds
  <2> QED
    BY <1>2, <1>5, <1>10, <2>1 DEF SeedsReached
<1>16. LeftIsSpread'
  <2> SUFFICES ASSUME NEW s \in Symbols, Reached(s)', reached'[s] < D, ~Queued(s)', NEW c \in Callers(s)
               PROVE  Reached(c)'
    <3>1. AffectedDepth' = D
      BY <1>5 DEF D
    <3> QED
      BY <1>5, <3>1 DEF LeftIsSpread
  <2>1. s \notin New /\ Reached(s) /\ reached'[s] = reached[s]
    BY <1>1, <1>10 DEF Queued
  <2>2. c \in Symbols
    <3>1. \A e \in calls : e.source \in Symbols
      BY <1>3, GraphAssumption
    <3> QED
      BY <3>1 DEF Callers, DirectEdges
  <2>3. CASE s = v
    <3>1. h < D
      BY <1>7, <2>1, <2>3
    <3>2. ~(h >= D)
      BY <1>4, <1>7, <3>1
    <3>3. c \in New \/ Reached(c)
      BY <1>6, <2>3, <3>2 DEF h, v
    <3> QED
      BY <1>10, <2>2, <3>3
  <2>4. CASE s # v
    <3>1. ~Queued(s)
      <4> SUFFICES ASSUME NEW i \in DOMAIN pending, pending[i].symbol = s PROVE FALSE
        BY DEF Queued
      <4>1. i # 1
        BY <1>1, <2>4 DEF v
      <4>2. i > 1
        BY <1>1, <4>1
      <4>3. i - 1 \in DOMAIN pending' /\ pending'[i - 1].symbol = s
        BY <1>1, <4>2
      <4> QED
        BY <4>3 DEF Queued
    <3>2. Reached(c)
      BY <1>2, <2>1, <3>1 DEF LeftIsSpread, D
    <3> QED
      BY <1>10, <2>2, <3>2
  <2> QED
    BY <2>3, <2>4
<1>17. LevelsInTurn'
  <2> SUFFICES ASSUME 1 \in DOMAIN pending', NEW s \in Within(pending'[1].hops)
               PROVE  Reached(s)'
    <3>1. pending' # <<>> => 1 \in DOMAIN pending'
      BY <1>1 DEF AffectedTypes
    <3> QED
      BY <1>5, <3>1 DEF LevelsInTurn
  <2>1. /\ h <= pending'[1].hops /\ pending'[1].hops <= h + 1 /\ pending'[1].hops \in Nat
        /\ pending'[1].symbol \in Symbols /\ pending'[1].hops = reached'[pending'[1].symbol]
    BY <1>11
  <2>2. pending'[1].hops = h \/ pending'[1].hops = h + 1
    BY <1>7, <2>1
  <2>3. CASE pending'[1].hops = h
    BY <1>8, <1>10, <2>3
  <2>4. CASE pending'[1].hops = h + 1
    <3>1. s \in Symbols
      BY <1>3, <1>7, <2>4, WithinGrows
    <3>2. h < D
      <4>1. reached'[pending'[1].symbol] # Unreached
        BY <2>1, AffectedAssumption
      <4>2. reached'[pending'[1].symbol] <= D
        BY <1>12, <2>1, <4>1
      <4> QED
        BY <1>4, <1>7, <2>1, <2>4, <4>2
    <3>3. CASE s \in Within(h)
      BY <1>8, <1>10, <3>1, <3>3
    <3>4. CASE s \notin Within(h)
      <4>1. PICK t \in Within(h) : s \in Callers(t)
        BY <1>3, <1>7, <2>4, <3>4, WithinGrows
      <4>2. t \in Symbols /\ Reached(t)'
        BY <1>8, <1>10, <4>1
      <4>3. reached'[t] <= h
        <5>1. h \in 0..D /\ reached'[t] # Unreached
          BY <1>4, <1>7, <3>2, <4>2 DEF Reached
        <5> QED
          BY <1>12, <4>1, <4>2, <5>1
      <4>4. ~Queued(t)'
        <5> SUFFICES ASSUME NEW i \in DOMAIN pending', pending'[i].symbol = t PROVE FALSE
          BY DEF Queued
        <5>1. pending'[i].hops <= h /\ pending'[i].hops \in Nat
          BY <1>11, <4>3
        <5>2. h + 1 <= pending'[i].hops
          <6>1. i = 1 \/ 1 < i
            BY <1>1
          <6> QED
            BY <1>7, <1>14, <2>4, <6>1 DEF QueueInTurn
        <5> QED
          BY <1>7, <5>1, <5>2
      <4>5. reached'[t] < D /\ AffectedDepth' = D /\ s \in Callers(t)'
        <5>1. reached'[t] \in Nat
          BY <4>2, <1>1 DEF AffectedTypes, Reached
        <5> QED
          BY <1>4, <1>5, <1>7, <3>2, <4>1, <4>3, <5>1 DEF D
      <4> QED
        BY <1>16, <4>2, <4>4, <4>5 DEF LeftIsSpread
    <3> QED
      BY <3>3, <3>4
  <2> QED
    BY <2>2, <2>3, <2>4
<1> QED
  BY <1>13, <1>14, <1>15, <1>16, <1>17 DEF WalkInv

\* When the queue is empty, what is reached are the balls.
LEMMA WalkEnds ==
    ASSUME AffectedTypes, WalkInv, pending = <<>>
    PROVE  \A s \in Symbols, n \in 0..AffectedDepth : s \in Within(n) <=> Reached(s) /\ reached[s] <= n
<1> DEFINE D == AffectedDepth
           P == {n \in 0..D : \A s \in Within(n) : Reached(s)}
<1>1. HopsAreLeast /\ SeedsReached /\ LeftIsSpread /\ calls \subseteq Sites /\ D \in Nat
      /\ reached \in [Symbols -> Nat \union {Unreached}]
  BY DepthType DEF WalkInv, AffectedTypes
<1>2. \A s : ~Queued(s)
  BY DEF Queued
<1>3. 0 \in P
  BY <1>1, WithinGrows DEF SeedsReached
<1>4. ASSUME NEW n \in 1..D, n - 1 \in P PROVE n \in P
  <2> SUFFICES ASSUME NEW s \in Within(n) PROVE Reached(s)
    OBVIOUS
  <2>1. n - 1 \in Nat /\ (n - 1) + 1 = n /\ n - 1 \in 0..D
    BY <1>1
  <2>2. s \in Within(n - 1) \/ \E t \in Within(n - 1) : s \in Callers(t)
    BY <1>1, <2>1, WithinGrows
  <2>3. CASE s \in Within(n - 1)
    BY <1>4, <2>3
  <2>4. ASSUME NEW t \in Within(n - 1), s \in Callers(t) PROVE Reached(s)
    <3>1. Reached(t) /\ t \in Symbols
      BY <1>1, <1>4, <2>1, WithinGrows
    <3>2. reached[t] <= n - 1
      BY <1>1, <2>1, <3>1 DEF HopsAreLeast
    <3>3. reached[t] < D
      BY <1>1, <3>1, <3>2 DEF Reached
    <3> QED
      BY <1>1, <1>2, <2>4, <3>1, <3>3 DEF LeftIsSpread
  <2> QED
    BY <2>2, <2>3, <2>4
<1>5. P = 0..D
  <2>1. P \subseteq 0..D
    OBVIOUS
  <2> HIDE DEF P, D
  <2> QED
    BY <1>1, <1>3, <1>4, <2>1, Stepwise
<1> SUFFICES ASSUME NEW s \in Symbols, NEW n \in 0..D
             PROVE  s \in Within(n) <=> Reached(s) /\ reached[s] <= n
  OBVIOUS
<1>6. s \in Within(n) => Reached(s) /\ reached[s] <= n
  BY <1>1, <1>5 DEF HopsAreLeast
<1>7. ASSUME Reached(s), reached[s] <= n PROVE s \in Within(n)
  <2>1. reached[s] \in 0..n /\ s \in Within(reached[s]) /\ n \in Nat
    BY <1>1, <1>7 DEF HopsAreLeast, Reached
  <2> QED
    BY <1>1, <2>1, WithinGrows
<1> QED
  BY <1>6, <1>7

\* The hops the report gives for a file.
LEMMA HopsAreDistance ==
    ASSUME AffectedTypes, WalkInv, pending = <<>>, NEW f \in Files
    PROVE  /\ f \in Above(AffectedDepth) <=> HopsIn(f) # {}
           /\ HopsIn(f) # {} => Min(HopsIn(f)) = DistanceOf(f) /\ DistanceOf(f) \in Nat
<1> DEFINE D == AffectedDepth
           H == HopsIn(f)
           N == {n \in 0..D : f \in Above(n)}
<1>1. D \in Nat /\ calls \subseteq Sites
  BY DepthType DEF AffectedTypes
<1>2. \A s \in Symbols, n \in 0..D : s \in Within(n) <=> Reached(s) /\ reached[s] <= n
  BY WalkEnds
<1>3. \A r \in H : r \in 0..D
  BY <1>1 DEF HopsIn, WalkInv, HopsAreLeast, Reached, AffectedTypes
<1>4. \A r : r \in H <=> \E s \in Symbols : FileOf[s] = f /\ reached[s] = r /\ Reached(s)
  BY DEF HopsIn, Reached
<1>5. \A n \in 0..D : f \in Above(n) <=> \E s \in Symbols : s \in Within(n) /\ FileOf[s] = f
  <2>1. \A n \in 0..D : Within(n) \subseteq Symbols
    BY <1>1, WithinGrows
  <2> QED
    BY <2>1 DEF Above, Within, Seeds
<1>6. \A n \in 0..D : f \in Above(n) <=> \E r \in H : r <= n
  BY <1>2, <1>4, <1>5
<1>7. f \in Above(D) <=> H # {}
  <2>1. D \in 0..D
    BY <1>1
  <2> QED
    BY <1>3, <1>6, <2>1
<1> HIDE DEF H, D
<1>8. ASSUME H # {} PROVE Min(H) = Min(N) /\ Min(N) \in Nat
  <2>1. PICK m \in H : \A r \in H : m <= r
    BY <1>3, <1>8, LeastNumber, H \subseteq Nat
  <2>2. m \in N /\ \A n \in N : m <= n
    <3>1. m \in 0..D
      BY <1>3
    <3>2. m \in N
      BY <1>6, <3>1
    <3>3. \A n \in N : m <= n
      <4> TAKE n \in N
      <4>1. PICK r \in H : r <= n
        BY <1>6
      <4>2. m <= r /\ r \in 0..D
        BY <1>3, <2>1
      <4> QED
        BY <3>1, <4>1, <4>2
    <3> QED
      BY <3>2, <3>3
  <2>3. N \subseteq Nat /\ H \subseteq Nat
    BY <1>3
  <2> HIDE DEF N
  <2>4. Min(H) \in H /\ \A r \in H : Min(H) <= r
    BY <2>1 DEF Min
  <2>5. Min(N) \in N /\ \A n \in N : Min(N) <= n
    BY <2>2 DEF Min
  <2> DEFINE a == Min(H)
             b == Min(N)
  <2>6. /\ a \in Nat /\ b \in Nat /\ m \in Nat
        /\ a <= m /\ m <= a /\ b <= m /\ m <= b
    BY <2>1, <2>2, <2>3, <2>4, <2>5
  <2> HIDE DEF a, b
  <2>7. a = m /\ b = m
    BY <2>6
  <2> QED
    BY <2>6, <2>7 DEF a, b
<1>9. DistanceOf(f) = Min(N)
  BY DEF DistanceOf, D
<1> QED
  BY <1>7, <1>8, <1>9 DEF H, D

\* The files of a list that come before one.
NearerThan(due) ==
    [g \in due |-> {f \in due : Min(HopsIn(f)) < Min(HopsIn(g)) \/ (Min(HopsIn(f)) = Min(HopsIn(g)) /\ f < g)}]

RowsBy(order, size) ==
    [i \in 1..Min({FileCap, size}) |-> [file |-> order[i], min_hops |-> Min(HopsIn(order[i]))]]

LEMMA ListedIsRanked ==
    ASSUME NEW due, due \subseteq Files, \A f \in due : Min(HopsIn(f)) \in Nat
    PROVE  /\ IsFiniteSet(due) /\ IsOrder(NearerThan(due), due)
           /\ \E order : IsRanking(order, NearerThan(due), due) /\ Listed(due) = RowsBy(order, Cardinality(due))
<1> DEFINE least == [f \in due |-> Min(HopsIn(f))]
           below == NearerThan(due)
<1>1. IsFiniteSet(due) /\ due \subseteq Nat
  <2>1. due \in SUBSET Files
    OBVIOUS
  <2> QED
    BY <2>1, GraphAssumption, FS_Subset
<1>2. least \in [due -> Nat]
  OBVIOUS
<1>3. below = [g \in due |-> {f \in due : least[f] < least[g] \/ (least[f] = least[g] /\ f < g)}]
  BY DEF NearerThan
<1> HIDE DEF least, below
<1>4. IsOrder(below, due)
  <2>1. \A f, g \in due : f \in below[g] <=> least[f] < least[g] \/ (least[f] = least[g] /\ f < g)
    BY <1>3
  <2>2. below \in [due -> SUBSET due]
    BY <1>3
  <2>3. \A f \in due : f \notin below[f]
    <3> TAKE f \in due
    <3>1. least[f] \in Nat /\ f \in Nat
      BY <1>1, <1>2
    <3>2. ~(least[f] < least[f]) /\ ~(f < f)
      BY <3>1
    <3> QED
      BY <2>1, <3>2
  <2>4. \A f, g \in due : f # g => f \in below[g] \/ g \in below[f]
    BY <1>1, <1>2, <2>1
  <2>5. ASSUME NEW f \in due, NEW g \in due, f \in below[g], NEW k \in due, k \in below[f]
        PROVE  k \in below[g]
    <3>1. least[f] \in Nat /\ least[g] \in Nat /\ least[k] \in Nat /\ f \in Nat /\ g \in Nat /\ k \in Nat
      BY <1>1, <1>2
    <3> QED
      BY <2>1, <2>5, <3>1
  <2> QED
    BY <2>2, <2>3, <2>4, <2>5 DEF IsOrder
<1> DEFINE total == Cardinality(due)
           order == [k \in 1..total |->
                       CHOOSE x \in due : Cardinality({y \in due : \/ Min(HopsIn(y)) < Min(HopsIn(x))
                                                                   \/ Min(HopsIn(y)) = Min(HopsIn(x)) /\ y < x}) = k - 1]
<1>5. total \in Nat
  BY <1>1, FS_CardinalityType
<1>6. Listed(due) = RowsBy(order, total)
  <2>1. Len(order) = total
    BY <1>5
  <2>2. Listed(due) = [i \in 1..Min({FileCap, Len(order)}) |->
                          [file |-> order[i], min_hops |-> Min(HopsIn(order[i]))]]
    BY DEF Listed, InOrder
  <2> HIDE DEF order
  <2> QED
    BY <2>1, <2>2 DEF RowsBy
<1>7. ASSUME NEW k \in 1..total
      PROVE  order[k] \in due /\ Cardinality(below[order[k]]) = k - 1
  <2>1. \E x \in due : Cardinality(below[x]) = k - 1
    BY <1>1, <1>4, Ranks
  <2>2. \A x \in due : below[x] = {y \in due : \/ Min(HopsIn(y)) < Min(HopsIn(x))
                                               \/ Min(HopsIn(y)) = Min(HopsIn(x)) /\ y < x}
    BY DEF NearerThan, below
  <2> QED
    BY <2>1, <2>2
<1>8. IsRanking(order, below, due)
  <2>1. order \in [1..total -> due]
    BY <1>7
  <2> QED
    BY <1>7, <2>1 DEF IsRanking
<1> HIDE DEF order
<1> QED
  BY <1>1, <1>4, <1>6, <1>8 DEF below

LEMMA ListedIsExact ==
    ASSUME NEW due, due \subseteq Files,
           \A f \in due : Min(HopsIn(f)) \in Nat /\ Min(HopsIn(f)) = DistanceOf(f)
    PROVE  ListIsExact(Listed(due), due)
<1> DEFINE total == Cardinality(due)
           size == Min({FileCap, total})
<1>1. /\ IsFiniteSet(due) /\ IsOrder(NearerThan(due), due)
      /\ \E order : IsRanking(order, NearerThan(due), due) /\ Listed(due) = RowsBy(order, Cardinality(due))
  BY ListedIsRanked
<1>2. PICK order : IsRanking(order, NearerThan(due), due) /\ Listed(due) = RowsBy(order, total)
  BY <1>1
<1>3. /\ total \in Nat
      /\ \A x \in due : \E k \in 1..total : order[k] = x
      /\ \A j, k \in 1..total : j < k <=> order[j] \in NearerThan(due)[order[k]]
      /\ \A j, k \in 1..total : order[j] = order[k] => j = k
  BY <1>1, <1>2, RankedInOrder
<1>4. order \in [1..total -> due]
  BY <1>2 DEF IsRanking
<1>5. size \in Nat /\ size <= total
  BY <1>3, MinOfTwo, AffectedAssumption
<1> DEFINE rows == Listed(due)
<1>6. rows = [i \in 1..size |-> [file |-> order[i], min_hops |-> Min(HopsIn(order[i]))]]
  BY <1>2 DEF RowsBy
<1> HIDE DEF rows, total, size
<1>7. /\ DOMAIN rows = 1..size /\ Len(rows) = size
      /\ \A i \in 1..size : /\ i \in 1..total /\ order[i] \in due
                            /\ rows[i].file = order[i] /\ rows[i].min_hops = DistanceOf(order[i])
  BY <1>3, <1>4, <1>5, <1>6
<1> DEFINE listed == {rows[i].file : i \in DOMAIN rows}
<1>8. listed \subseteq due /\ \A x : x \in listed <=> \E i \in 1..size : x = order[i]
  BY <1>7
<1>9. Cardinality(listed) = Len(rows)
  <2> DEFINE pick == [i \in 1..size |-> order[i]]
  <2>1. /\ pick \in [1..size -> listed] /\ (\A i, j \in 1..size : pick[i] = pick[j] => i = j)
        /\ \A x \in listed : \E i \in 1..size : pick[i] = x
    BY <1>3, <1>7, <1>8
  <2>2. IsFiniteSet(1..size) /\ Cardinality(1..size) = size
    BY <1>5, CountTo
  <2> HIDE DEF pick, listed
  <2>3. Cardinality(listed) = Cardinality(1..size)
    BY <2>1, <2>2, SameSize
  <2> QED
    BY <1>7, <2>2, <2>3
<1>10. ASSUME NEW i \in 1..size, NEW f \in due \ listed PROVE DistanceOf(f) >= rows[i].min_hops
  <2>1. PICK k \in 1..total : order[k] = f
    BY <1>3
  <2>2. k \notin 1..size
    BY <1>8, <1>10, <2>1
  <2>3. i < k /\ i \in 1..total
    BY <1>3, <1>5, <2>2
  <2>4. order[i] \in NearerThan(due)[f] /\ order[i] \in due
    BY <1>3, <1>4, <2>1, <2>3
  <2>5. DistanceOf(order[i]) < DistanceOf(f) \/ DistanceOf(order[i]) = DistanceOf(f)
    BY <2>4 DEF NearerThan
  <2>6. DistanceOf(order[i]) \in Nat /\ DistanceOf(f) \in Nat
    BY <2>4
  <2> QED
    BY <1>7, <2>5, <2>6
<1>11. Len(rows) = Min({FileCap, Cardinality(due)})
  BY <1>7 DEF size, total
<1> QED
  BY <1>7, <1>8, <1>9, <1>10, <1>11 DEF ListIsExact, rows

LEMMA ReportIsExact ==
    ASSUME AffectedTypes, WalkInv, calls' = calls, Report
    PROVE  AffectedIsExact'
<1> DEFINE D == AffectedDepth
           files == {f \in Files : HopsIn(f) # {}}
           tests == files \intersect Tests
           impacted == files \ (Tests \union Changed)
<1>1. /\ pending = <<>> /\ input' = input
      /\ report' = [tests |-> Listed(tests), impacted |-> Listed(impacted),
                    truncated |-> Cardinality(tests) > FileCap \/ Cardinality(impacted) > FileCap]
  BY DEF Report
<1>2. \A f \in files : Min(HopsIn(f)) = DistanceOf(f) /\ Min(HopsIn(f)) \in Nat
  BY <1>1, HopsAreDistance
<1>3. files = Above(D)
  <2>1. D \in Nat /\ calls \subseteq Sites
    BY DepthType DEF AffectedTypes
  <2>2. Within(D) \subseteq Symbols
    BY <2>1, WithinGrows
  <2>3. Above(D) \subseteq Files
    BY <2>2, GraphAssumption DEF Above, Within, Seeds
  <2> QED
    BY <1>1, <2>3, HopsAreDistance
<1>4. ListIsExact(Listed(tests), tests) /\ ListIsExact(Listed(impacted), impacted)
  <2>1. tests \subseteq files /\ impacted \subseteq files /\ files \subseteq Files
    OBVIOUS
  <2> HIDE DEF files, tests, impacted
  <2>2. ListIsExact(Listed(tests), tests)
    BY <1>2, <2>1, ListedIsExact
  <2>3. ListIsExact(Listed(impacted), impacted)
    BY <1>2, <2>1, ListedIsExact
  <2> QED
    BY <2>2, <2>3
<1> HIDE DEF files
<1>5. /\ AffectedDepth' = AffectedDepth /\ \A n : Above(n)' = Above(n)
      /\ Changed' = Changed /\ \A f : DistanceOf(f)' = DistanceOf(f)
  <2>1. AffectedDepth' = AffectedDepth /\ Seeds' = Seeds /\ Changed' = Changed /\ \A n : Within(n)' = Within(n)
    BY <1>1, SameSeeds DEF Changed
  <2>2. \A n : Above(n) = {FileOf[s] : s \in Within(n)}
    BY DEF Above, Within, Seeds
  <2>3. \A n : Above(n)' = {FileOf[s] : s \in Within(n)'}
    BY DEF Above, Within, Seeds
  <2>4. \A n : Above(n)' = Above(n)
    BY <2>1, <2>2, <2>3
  <2>5. \A f : DistanceOf(f)' = DistanceOf(f)
    BY <2>1, <2>4 DEF DistanceOf
  <2> QED
    BY <2>1, <2>4, <2>5
<1>6. \A rows, due : ListIsExact(rows, due)' <=> ListIsExact(rows, due)
  BY <1>5 DEF ListIsExact
<1>7. /\ report'.tests = Listed(tests) /\ report'.impacted = Listed(impacted)
      /\ report'.truncated <=> Cardinality(tests) > FileCap \/ Cardinality(impacted) > FileCap
  BY <1>1
<1> QED
  BY <1>3, <1>4, <1>5, <1>6, <1>7 DEF AffectedIsExact

AffectedInv ==
    /\ AffectedTypes /\ apc \in {"idle", "seed", "walk", "done"}
    /\ apc = "walk" => WalkInv
    /\ AffectedIsExact

LEMMA AffectedStart == Init => AffectedInv
<1> SUFFICES ASSUME Init PROVE AffectedInv
  OBVIOUS
<1>1. /\ calls \subseteq Sites /\ pending = <<>> /\ reached = [s \in Symbols |-> Unreached]
      /\ apc \in {"idle", "seed"} /\ input.depth \in Nat
  BY QueriesAssumption
     DEF Init, AnyGraph, Walking, Attributing, Grouping, Comparing, AffectedInit, AffectedIdle
<1>2. AffectedTypes
  BY <1>1 DEF AffectedTypes
<1> QED
  BY <1>1, <1>2 DEF AffectedInv, AffectedIsExact

\* A step of another query leaves the report as exact as it is.
LEMMA AffectedStays ==
    ASSUME AffectedInv, calls' = calls, affecting' = affecting
    PROVE  AffectedInv'
<1>1. input' = input /\ apc' = apc /\ pending' = pending /\ reached' = reached /\ report' = report
  BY DEF affecting
<1>2. /\ AffectedDepth' = AffectedDepth /\ Seeds' = Seeds /\ Changed' = Changed
      /\ \A n : Within(n)' = Within(n)
      /\ \A s : Callers(s)' = Callers(s)
  BY <1>1, SameSeeds DEF Changed
<1>3. AffectedTypes' /\ (\A s : Reached(s)' <=> Reached(s)) /\ (\A s : Queued(s)' <=> Queued(s))
  BY <1>1 DEF AffectedInv, AffectedTypes, Reached, Queued
<1>4. ASSUME WalkInv PROVE WalkInv'
  <2>1. HopsAreLeast'
    BY <1>1, <1>2, <1>3, <1>4 DEF WalkInv, HopsAreLeast
  <2>2. QueueInTurn'
    BY <1>1, <1>4 DEF WalkInv, QueueInTurn
  <2>3. SeedsReached'
    BY <1>2, <1>3, <1>4 DEF WalkInv, SeedsReached
  <2>4. LeftIsSpread'
    BY <1>1, <1>2, <1>3, <1>4 DEF WalkInv, LeftIsSpread
  <2>5. LevelsInTurn'
    <3>1. pending # <<>> => \A s \in Within(pending[1].hops) : Reached(s)
      BY <1>4 DEF WalkInv, LevelsInTurn
    <3> QED
      BY <1>1, <1>2, <1>3, <3>1 DEF LevelsInTurn
  <2> QED
    BY <2>1, <2>2, <2>3, <2>4, <2>5 DEF WalkInv
<1>5. AffectedIsExact'
  <2>1. \A n : Above(n)' = Above(n)
    <3>1. \A n : Above(n) = {FileOf[s] : s \in Within(n)}
      BY DEF Above, Within, Seeds
    <3>2. \A n : Above(n)' = {FileOf[s] : s \in Within(n)'}
      BY DEF Above, Within, Seeds
    <3> QED
      BY <1>2, <3>1, <3>2
  <2>2. \A f : DistanceOf(f)' = DistanceOf(f)
    BY <1>2, <2>1 DEF DistanceOf
  <2>3. \A rows, due : ListIsExact(rows, due)' <=> ListIsExact(rows, due)
    BY <2>2 DEF ListIsExact
  <2> QED
    BY <1>1, <1>2, <2>1, <2>3 DEF AffectedInv, AffectedIsExact
<1> QED
  BY <1>1, <1>3, <1>4, <1>5 DEF AffectedInv

LEMMA AffectedStepKeeps == AffectedInv /\ [Next]_vars => AffectedInv'
<1> SUFFICES ASSUME AffectedInv, [Next]_vars PROVE AffectedInv'
  OBVIOUS
<1>1. ASSUME AffectedStep, calls' = calls PROVE AffectedInv'
  <2>1. CASE Seed
    <3>1. AffectedTypes' /\ WalkInv' /\ apc' = "walk"
      BY <1>1, <2>1, SeedKeeps DEF AffectedInv, Seed
    <3> QED
      BY <3>1 DEF AffectedInv, AffectedIsExact
  <2>2. CASE Pop
    <3>1. apc = "walk" /\ apc' = apc
      BY <2>2 DEF Pop
    <3>2. AffectedTypes'
      BY <1>1, <2>2, PopEffect DEF AffectedInv
    <3>3. WalkInv'
      BY <1>1, <2>2, <3>1, PopKeeps DEF AffectedInv
    <3> QED
      BY <3>1, <3>2, <3>3 DEF AffectedInv, AffectedIsExact
  <2>3. CASE Report
    <3>1. apc = "walk" /\ apc' = "done"
      BY <2>3 DEF Report
    <3>2. AffectedTypes'
      BY <1>1, <2>3 DEF AffectedInv, AffectedTypes, Report
    <3>3. AffectedIsExact'
      BY <1>1, <2>3, <3>1, ReportIsExact DEF AffectedInv
    <3> QED
      BY <3>1, <3>2, <3>3 DEF AffectedInv
  <2> QED
    BY <1>1, <2>1, <2>2, <2>3 DEF AffectedStep
<1>2. ASSUME calls' = calls, affecting' = affecting PROVE AffectedInv'
  BY <1>2, AffectedStays
<1> QED
  BY <1>1, <1>2 DEF Next, vars

\* What affected reports, on every call graph and for every list of changed files: exactly
\* the files within the depth, each with the length of its shortest path to a changed
\* symbol, and if a list is cut, none that is left out is nearer than one that is kept.
THEOREM AffectedReportIsExact == Spec => []AffectedIsExact
<1>1. AffectedInv => AffectedIsExact
  BY DEF AffectedInv
<1>2. Spec => []AffectedInv
  BY AffectedStart, AffectedStepKeeps, PTL DEF Spec
<1> QED
  BY <1>1, <1>2, PTL

-----------------------------------------------------------------------------
(* Walks.  The invariant.                                                  *)

Around(s, n) == Ball({s}, ask.direction, n)

AtLevel(s, v, n) == v \in Around(s, n) /\ \A m \in Nat : v \in Around(s, m) => n <= m

ReachOf(s) == {e \in calls : Near(e, ask.direction) \in Around(s, Depth - 1)}

\* What is left to walk from are the last of the symbols.
Started == Len(ask.starts) - Len(ask.left)

LeftAreLast ==
    /\ Len(ask.left) <= Len(ask.starts)
    /\ \A i \in DOMAIN ask.left : ask.left[i] = ask.starts[Started + i]

From == ask.starts[Started]

Waits(v) == \E i \in DOMAIN walk.queue : walk.queue[i].symbol = v

Rowed(rows, e) == \E i \in DOMAIN rows : rows[i].edge = e

\* The queue holds symbols of the level that is being expanded, and after them of the next.
QueueOfLevels ==
    /\ \A i \in DOMAIN walk.queue :
          /\ AtLevel(From, walk.queue[i].symbol, walk.queue[i].hops)
          /\ walk.queue[i].symbol \in walk.visited /\ walk.queue[i].symbol # walk.at.symbol
          /\ walk.at.hops <= walk.queue[i].hops /\ walk.queue[i].hops <= walk.at.hops + 1
          /\ walk.queue[i].hops <= Depth
    /\ \A i, j \in DOMAIN walk.queue : i < j =>
          /\ walk.queue[i].hops <= walk.queue[j].hops
          /\ walk.queue[i].symbol # walk.queue[j].symbol

AtIsPlaced ==
    /\ walk.at.symbol \in Symbols => AtLevel(From, walk.at.symbol, walk.at.hops)
    /\ \A e \in walk.fan : Near(e, ask.direction) = walk.at.symbol
    /\ walk.fan # {} => walk.at.hops < Depth

\* No symbol of a level is expanded before all of it have been visited.
LevelsVisited == Around(From, walk.at.hops) \subseteq walk.visited

\* A visited symbol has its edges among the rows, or will have.
VisitedSpread ==
    \A v \in walk.visited : v \in Around(From, Depth - 1) =>
        Waits(v) \/ \A e \in DirectEdges(v, ask.direction) : Rowed(walk.rows, e) \/ e \in walk.fan

RowPlaced(row) ==
    /\ row.edge \in calls /\ row.edge \notin walk.fan
    /\ Near(row.edge, ask.direction) \in walk.visited /\ ~Waits(Near(row.edge, ask.direction))
    /\ Far(row.edge, ask.direction) \in walk.visited
    /\ row.hops \in 1..Depth /\ row.hops <= walk.at.hops + 1
    /\ AtLevel(From, Near(row.edge, ask.direction), row.hops - 1)

RowsPlaced == \A i \in DOMAIN walk.rows : RowPlaced(walk.rows[i])

\* The rows of a walk, as far as they are edges: each once, nearest first.
RowsRise(rows) ==
    \A i, j \in DOMAIN rows : i < j /\ ~IsMarker(rows[i]) /\ ~IsMarker(rows[j]) =>
        rows[i].edge # rows[j].edge /\ rows[i].hops <= rows[j].hops

WalkGoesOn ==
    /\ QueueOfLevels /\ AtIsPlaced /\ LevelsVisited /\ VisitedSpread /\ RowsPlaced /\ RowsRise(walk.rows)
    /\ Len(walk.rows) <= Cap

\* No edge that the rows leave out is nearer than this row.
NoneNearer(rows, row, s) ==
    \A e \in ReachOf(s) : Rowed(rows, e) \/ \A n \in Nat : Near(e, ask.direction) \in Around(s, n) => row.hops - 1 <= n

\* What a walk from s brings: all the edges in its reach, or as many as the cap and a
\* marker; and no edge nearer than one it has brought is missing.
WalkOf(rows, s) ==
    /\ \A i \in DOMAIN rows : ~IsMarker(rows[i]) =>
          /\ rows[i].edge \in calls /\ rows[i].hops \in 1..Depth
          /\ AtLevel(s, Near(rows[i].edge, ask.direction), rows[i].hops - 1)
          /\ NoneNearer(rows, rows[i], s)
    /\ RowsRise(rows)
    /\ \/ (\A i \in DOMAIN rows : ~IsMarker(rows[i])) /\ \A e \in ReachOf(s) : Rowed(rows, e)
       \/ /\ Len(rows) = Cap + 1 /\ IsMarker(rows[Cap + 1]) /\ \A i \in 1..Cap : ~IsMarker(rows[i])
          /\ \E e \in ReachOf(s) : ~Rowed(rows, e)

WalkIsSound ==
    walk.pc = "walk" =>
        /\ Started >= 1
        /\ \/ WalkGoesOn
           \/ walk.fan = {} /\ walk.queue = <<>> /\ WalkOf(walk.rows, From)

EdgesIn(rows) == {rows[i].edge : i \in {i \in DOMAIN rows : ~IsMarker(rows[i])}}

HasMarker(rows) == \E i \in DOMAIN rows : IsMarker(rows[i])

Finished == IF walk.pc = "walk" THEN Started - 1 ELSE Started

AnswerIsSound ==
    walk.pc \in {"next", "walk"} =>
        /\ EdgesIn(answer) \subseteq InReach
        /\ HasMarker(answer) => Cardinality(EdgesIn(answer)) >= Cap /\ Cardinality(InReach) > Cap
        /\ ~HasMarker(answer) => \A j \in 1..Finished : ReachOf(ask.starts[j]) \subseteq EdgesIn(answer)
        /\ Finished = 0 => answer = <<>>
        /\ Finished = 1 => WalkOf(answer, ask.starts[1])

NoneLeft == walk.pc # "walk" => walk.fan = {}

TraversalInv ==
    /\ calls \subseteq Sites /\ TraversalTypeOK /\ LeftAreLast /\ WalkIsSound /\ AnswerIsSound
    /\ AnswerIsExact /\ NearestFirst /\ NoneLeft

-----------------------------------------------------------------------------
(* Walks.  What the parts are made of.                                     *)

LEMMA AskParts ==
    ASSUME calls \subseteq Sites, TraversalTypeOK
    PROVE  /\ ask.direction \in Directions /\ ask.limit \in Nat
           /\ ask.starts \in Seq(Symbols) /\ ask.left \in Seq(Symbols)
           /\ MaxDepth \in Nat /\ Depth \in 1..MaxDepth /\ Depth \in Nat /\ Cap \in Nat /\ Cap >= 1
           /\ \A e \in calls : /\ Near(e, ask.direction) \in Symbols /\ Far(e, ask.direction) \in Symbols
                               /\ e.source # Truncated
<1>1. IsAsk(ask) /\ MaxDepth \in Nat \ {0} /\ Cap \in Nat \ {0}
  BY GraphAssumption, TraversalAssumption DEF TraversalTypeOK
<1>2. /\ ask.direction \in Directions /\ ask.limit \in Nat /\ ask.depth \in Nat
      /\ ask.starts \in Seq(Symbols) /\ ask.left \in Seq(Symbols)
  BY <1>1 DEF IsAsk
<1>3. Depth \in 1..MaxDepth
  BY <1>1, <1>2 DEF Depth, NormalizeDepth
<1>4. \A e \in calls : e.source \in Symbols /\ e.target \in Symbols
  BY GraphAssumption
<1>5. \A e \in calls : /\ Near(e, ask.direction) \in Symbols /\ Far(e, ask.direction) \in Symbols
                       /\ e.source # Truncated
  BY <1>4, TraversalAssumption DEF Near, Far
<1> QED
  BY <1>1, <1>2, <1>3, <1>5

LEMMA WalkParts ==
    ASSUME TraversalTypeOK, MaxDepth \in Nat
    PROVE  /\ walk.at.hops \in Nat /\ walk.at.hops \in 0..MaxDepth /\ walk.fan \subseteq calls /\ walk.visited \subseteq Symbols
           /\ walk.at = Nowhere \/ walk.at \in Place
           /\ walk.queue \in Seq(Place) /\ walk.rows \in Seq(Rows) /\ answer \in Seq(Rows)
           /\ \A i \in DOMAIN walk.queue : walk.queue[i].symbol \in Symbols /\ walk.queue[i].hops \in 0..MaxDepth
           /\ \A i \in DOMAIN walk.rows : walk.rows[i].hops \in 1..MaxDepth
           /\ walk = [pc |-> walk.pc, at |-> walk.at, fan |-> walk.fan, queue |-> walk.queue,
                      visited |-> walk.visited, rows |-> walk.rows]
<1>1. /\ walk \in [pc : {"idle", "next", "walk", "done"}, at : Place \union {Nowhere}, fan : SUBSET calls,
                 queue : Seq(Place), visited : SUBSET Symbols, rows : Seq(Rows)]
      /\ answer \in Seq(Rows)
  BY DEF TraversalTypeOK
<1>2. /\ walk.at \in Place \union {Nowhere} /\ walk.fan \subseteq calls /\ walk.visited \subseteq Symbols
      /\ walk.queue \in Seq(Place) /\ walk.rows \in Seq(Rows)
      /\ walk = [pc |-> walk.pc, at |-> walk.at, fan |-> walk.fan, queue |-> walk.queue,
                      visited |-> walk.visited, rows |-> walk.rows]
  BY <1>1
<1>3. walk.at.hops \in Nat /\ walk.at.hops \in 0..MaxDepth
  BY <1>2 DEF Place, Nowhere
<1>4. \A p \in Place : p.symbol \in Symbols /\ p.hops \in 0..MaxDepth
  BY DEF Place
<1>5. \A r \in Rows : r.hops \in 1..MaxDepth
  BY DEF Rows
<1>6. \A i \in DOMAIN walk.queue : walk.queue[i] \in Place
  BY <1>2
<1>7. \A i \in DOMAIN walk.rows : walk.rows[i] \in Rows
  BY <1>2
<1> QED
  BY <1>1, <1>2, <1>3, <1>4, <1>5, <1>6, <1>7

LEMMA AroundGrows ==
    ASSUME calls \subseteq Sites, NEW s \in Symbols
    PROVE  /\ Around(s, 0) = {s}
           /\ \A n \in Nat :
                 /\ Around(s, n) \subseteq Symbols
                 /\ \A m \in 0..n : Around(s, m) \subseteq Around(s, n)
                 /\ \A v \in Around(s, n + 1) : \/ v \in Around(s, n)
                                                \/ \E e \in calls : Near(e, ask.direction) \in Around(s, n)
                                                                    /\ Far(e, ask.direction) = v
                 /\ \A e \in calls : Near(e, ask.direction) \in Around(s, n) => Far(e, ask.direction) \in Around(s, n + 1)
<1>1. {s} \in SUBSET Symbols
  OBVIOUS
<1>2. Around(s, 0) = {s}
  BY <1>1, BallGrows DEF Around
<1> SUFFICES ASSUME NEW n \in Nat
             PROVE  /\ Around(s, n) \subseteq Symbols
                    /\ \A m \in 0..n : Around(s, m) \subseteq Around(s, n)
                    /\ \A v \in Around(s, n + 1) : \/ v \in Around(s, n)
                                                   \/ \E e \in calls : Near(e, ask.direction) \in Around(s, n)
                                                                       /\ Far(e, ask.direction) = v
                    /\ \A e \in calls : Near(e, ask.direction) \in Around(s, n) => Far(e, ask.direction) \in Around(s, n + 1)
  BY <1>2
<1>3. Around(s, n + 1) = Around(s, n) \union Hop(Around(s, n), ask.direction)
  BY <1>1, BallGrows DEF Around
<1>4. Around(s, n) \subseteq Symbols /\ \A m \in 0..n : Around(s, m) \subseteq Around(s, n)
  BY <1>1, BallsNest DEF Around
<1> QED
  BY <1>3, <1>4 DEF Hop

\* What a walk brings depends on the request and the graph, not on where the walk is.
LEMMA SameAsk ==
    ASSUME calls' = calls, ask'.direction = ask.direction, ask'.depth = ask.depth, ask'.starts = ask.starts
    PROVE  /\ Depth' = Depth /\ InReach' = InReach
           /\ \A s, n : Around(s, n)' = Around(s, n)
           /\ \A s : ReachOf(s)' = ReachOf(s)
           /\ \A s, v, n : AtLevel(s, v, n)' <=> AtLevel(s, v, n)
           /\ \A rows, s : WalkOf(rows, s)' <=> WalkOf(rows, s)
<1>1. Depth' = Depth
  BY DEF Depth, NormalizeDepth
<1>2. \A s, n : Around(s, n)' = Around(s, n)
  BY SameBalls DEF Around
<1>3. InReach' = InReach
  BY <1>1, SameBalls DEF InReach, Near
<1>4. \A s : ReachOf(s)' = ReachOf(s)
  BY <1>1, <1>2 DEF ReachOf, Near
<1>5. \A s, v, n : AtLevel(s, v, n)' <=> AtLevel(s, v, n)
  BY <1>2 DEF AtLevel
<1>6. \A rows, row, s : NoneNearer(rows, row, s)' <=> NoneNearer(rows, row, s)
  BY <1>2, <1>4 DEF NoneNearer, Near, Rowed
<1>7. \A rows, s : WalkOf(rows, s)' <=> WalkOf(rows, s)
  BY <1>1, <1>4, <1>5, <1>6 DEF WalkOf, Near, Rowed, RowsRise, IsMarker
<1> QED
  BY <1>1, <1>2, <1>3, <1>4, <1>5, <1>7

-----------------------------------------------------------------------------
(* Walks.  The steps of one.                                               *)

LEMMA StartEffect ==
    ASSUME calls \subseteq Sites, TraversalTypeOK, LeftAreLast, calls' = calls, StartWalk
    PROVE  /\ walk.pc = "next" /\ answer' = answer
           /\ ask'.direction = ask.direction /\ ask'.depth = ask.depth /\ ask'.starts = ask.starts
           /\ ask'.limit = ask.limit
           /\ TraversalTypeOK' /\ LeftAreLast' /\ Started \in Nat /\ Started' = Started + 1
           /\ From' \in Symbols
           /\ walk'.pc = "walk" /\ walk'.at = Nowhere /\ walk'.fan = {} /\ walk'.rows = <<>>
           /\ walk'.visited = {From'} /\ walk'.queue = <<[symbol |-> From', hops |-> 0]>>
<1>1. /\ ask.starts \in Seq(Symbols) /\ ask.left \in Seq(Symbols) /\ IsAsk(ask) /\ MaxDepth \in Nat
      /\ ask = [direction |-> ask.direction, depth |-> ask.depth, limit |-> ask.limit,
                starts |-> ask.starts, left |-> ask.left]
  BY AskParts DEF TraversalTypeOK, IsAsk
<1> DEFINE s == Head(ask.left)
<1>2. /\ walk.pc = "next" /\ ask.left # <<>> /\ answer' = answer
      /\ ask' = [ask EXCEPT !.left = Tail(@)]
      /\ walk' = [NoWalk EXCEPT !.pc = "walk", !.visited = {s}, !.queue = <<[symbol |-> s, hops |-> 0]>>]
  BY DEF StartWalk
<1>3. /\ ask'.direction = ask.direction /\ ask'.depth = ask.depth /\ ask'.starts = ask.starts
      /\ ask'.limit = ask.limit /\ ask'.left = Tail(ask.left) /\ IsAsk(ask')
  <2>1. Tail(ask.left) \in Seq(Symbols)
    BY <1>1, <1>2
  <2>2. ask' = [direction |-> ask.direction, depth |-> ask.depth, limit |-> ask.limit,
                starts |-> ask.starts, left |-> Tail(ask.left)]
    BY <1>1, <1>2
  <2> QED
    BY <1>1, <2>1, <2>2 DEF IsAsk
<1>4. /\ walk'.pc = "walk" /\ walk'.at = Nowhere /\ walk'.fan = {} /\ walk'.rows = <<>>
      /\ walk'.visited = {s} /\ walk'.queue = <<[symbol |-> s, hops |-> 0]>>
      /\ walk' = [pc |-> "walk", at |-> Nowhere, fan |-> {}, queue |-> <<[symbol |-> s, hops |-> 0]>>,
                  visited |-> {s}, rows |-> <<>>]
  BY <1>2 DEF NoWalk
<1>5. s \in Symbols /\ Len(ask.left) \in Nat /\ Len(ask.left) >= 1 /\ Len(ask.starts) \in Nat
  BY <1>1, <1>2
<1>6. /\ Len(Tail(ask.left)) = Len(ask.left) - 1 /\ s = ask.left[1]
      /\ \A i \in 1..(Len(ask.left) - 1) : Tail(ask.left)[i] = ask.left[i + 1]
  BY <1>1, <1>2
<1>7. Started' = Started + 1 /\ Started \in Nat
  <2>1. Len(ask'.left) = Len(ask.left) - 1 /\ Len(ask'.starts) = Len(ask.starts)
    BY <1>3, <1>6
  <2>2. Len(ask.left) <= Len(ask.starts)
    BY DEF LeftAreLast
  <2>3. Started' = Len(ask'.starts) - Len(ask'.left)
    BY DEF Started
  <2>4. Started = Len(ask.starts) - Len(ask.left)
    BY DEF Started
  <2> QED
    BY <1>5, <2>1, <2>2, <2>3, <2>4
<1>8. From' = s
  <2>1. 1 \in DOMAIN ask.left
    BY <1>1, <1>5
  <2>2. s = ask.starts[Started + 1]
    BY <1>6, <2>1 DEF LeftAreLast
  <2> QED
    BY <1>3, <1>7, <2>2 DEF From
<1>9. LeftAreLast'
  <2>1. DOMAIN ask'.left = 1..(Len(ask.left) - 1) /\ Len(ask'.left) = Len(ask.left) - 1
    BY <1>1, <1>2, <1>3
  <2>2. Len(ask'.left) <= Len(ask'.starts)
    BY <1>3, <1>5, <2>1 DEF LeftAreLast
  <2>3. ASSUME NEW i \in DOMAIN ask'.left PROVE ask'.left[i] = ask'.starts[Started' + i]
    <3>1. i + 1 \in DOMAIN ask.left /\ ask'.left[i] = ask.left[i + 1] /\ i \in Nat
      BY <1>1, <1>3, <1>5, <1>6, <2>1, <2>3
    <3>2. Started + (i + 1) = Started' + i
      BY <1>7, <3>1
    <3> QED
      BY <1>3, <3>1, <3>2 DEF LeftAreLast
  <2> QED
    BY <2>2, <2>3 DEF LeftAreLast
<1>10. TraversalTypeOK'
  <2>1. <<[symbol |-> s, hops |-> 0]>> \in Seq(Place)
    <3>1. [symbol |-> s, hops |-> 0] \in Place
      BY <1>1, <1>5 DEF Place
    <3> QED
      BY <3>1
  <2>2. <<>> \in Seq(Rows) /\ answer' \in Seq(Rows)
    BY <1>2 DEF TraversalTypeOK
  <2> HIDE DEF s
  <2>3. walk' \in [pc : {"idle", "next", "walk", "done"}, at : Place \union {Nowhere}, fan : SUBSET calls',
                 queue : Seq(Place), visited : SUBSET Symbols, rows : Seq(Rows)]
    BY <1>4, <1>5, <2>1, <2>2
  <2> QED
    BY <1>3, <2>2, <2>3 DEF TraversalTypeOK, Place, Rows, Nowhere
<1> QED
  BY <1>2, <1>3, <1>4, <1>5, <1>7, <1>8, <1>9, <1>10

LEMMA StartKeeps ==
    ASSUME calls \subseteq Sites, TraversalTypeOK, LeftAreLast, calls' = calls, StartWalk
    PROVE  WalkGoesOn'
<1>1. /\ ask'.direction = ask.direction /\ ask'.depth = ask.depth /\ ask'.starts = ask.starts
      /\ TraversalTypeOK' /\ From' \in Symbols
      /\ walk'.at = Nowhere /\ walk'.fan = {} /\ walk'.rows = <<>>
      /\ walk'.visited = {From'} /\ walk'.queue = <<[symbol |-> From', hops |-> 0]>>
  BY StartEffect
<1>2. Around(From, 0)' = {From'}
  <2>1. calls' \subseteq Sites
    OBVIOUS
  <2>2. Around(From', 0) = {From'}
    BY <1>1, AroundGrows
  <2> QED
    BY <1>1, <2>2, SameAsk DEF From, Around
<1>3. Depth' \in Nat /\ Depth' >= 1 /\ Cap \in Nat
  <2>1. Depth \in Nat /\ Depth >= 1 /\ Cap \in Nat
    BY AskParts
  <2> QED
    BY <1>1, <2>1, SameAsk
<1>4. Nowhere.symbol \notin Symbols /\ Nowhere.hops = 0
  BY TraversalAssumption DEF Nowhere
<1>5. /\ DOMAIN walk'.queue = {1} /\ walk'.queue[1].symbol = From' /\ walk'.queue[1].hops = 0
      /\ DOMAIN walk'.rows = {} /\ Len(walk'.rows) = 0
  BY <1>1
<1>6. AtLevel(From, From, 0)'
  BY <1>2 DEF AtLevel
<1>7. QueueOfLevels'
  <2>1. From' \in walk'.visited /\ From' # walk'.at.symbol /\ walk'.at.hops = 0
    BY <1>1, <1>4
  <2>2. \A i \in DOMAIN walk'.queue : AtLevel(From, walk.queue[i].symbol, walk.queue[i].hops)'
    BY <1>5, <1>6 DEF AtLevel
  <2> QED
    BY <1>3, <1>5, <2>1, <2>2 DEF QueueOfLevels
<1>8. AtIsPlaced'
  BY <1>1, <1>4 DEF AtIsPlaced
<1>9. LevelsVisited'
  BY <1>1, <1>2, <1>4 DEF LevelsVisited, Around
<1>10. VisitedSpread'
  <2>1. Waits(From)'
    BY <1>5 DEF Waits
  <2> QED
    BY <1>1, <2>1 DEF VisitedSpread, Waits
<1>11. RowsPlaced' /\ RowsRise(walk.rows)' /\ Len(walk'.rows) <= Cap
  BY <1>3, <1>5 DEF RowsPlaced, RowsRise
<1> QED
  BY <1>7, <1>8, <1>9, <1>10, <1>11 DEF WalkGoesOn

LEMMA ExpandEffect ==
    ASSUME calls \subseteq Sites, TraversalTypeOK, calls' = calls, Expand
    PROVE  /\ walk.pc = "walk" /\ walk'.pc = "walk" /\ ask' = ask /\ answer' = answer
           /\ walk.fan = {} /\ walk'.at = walk.queue[1] /\ walk'.rows = walk.rows /\ walk'.visited = walk.visited
           /\ walk'.fan = IF walk.queue[1].hops >= Depth THEN {} ELSE DirectEdges(walk.queue[1].symbol, ask.direction)
           /\ Len(walk.queue) \in Nat /\ Len(walk.queue) >= 1 /\ DOMAIN walk.queue = 1..Len(walk.queue)
           /\ DOMAIN walk'.queue = 1..(Len(walk.queue) - 1)
           /\ \A i \in 1..(Len(walk.queue) - 1) : walk'.queue[i] = walk.queue[i + 1]
           /\ TraversalTypeOK'
<1>1. walk.queue \in Seq(Place) /\ walk.queue # <<>> /\ walk.fan = {}
  BY AskParts, WalkParts DEF Expand
<1>2. /\ Len(walk.queue) \in Nat /\ Len(walk.queue) >= 1 /\ DOMAIN walk.queue = 1..Len(walk.queue)
      /\ Head(walk.queue) = walk.queue[1] /\ walk.queue[1] \in Place /\ Tail(walk.queue) \in Seq(Place)
      /\ DOMAIN Tail(walk.queue) = 1..(Len(walk.queue) - 1)
      /\ \A i \in 1..(Len(walk.queue) - 1) : Tail(walk.queue)[i] = walk.queue[i + 1]
  BY <1>1
<1> DEFINE fan == IF walk.queue[1].hops >= Depth THEN {} ELSE DirectEdges(walk.queue[1].symbol, ask.direction)
<1>3. walk' = [walk EXCEPT !.queue = Tail(walk.queue), !.at = walk.queue[1], !.fan = fan]
  BY <1>2 DEF Expand
<1>4. fan \subseteq calls
  BY DEF DirectEdges
<1> HIDE DEF fan
<1>5. walk' = [pc |-> walk.pc, at |-> walk.queue[1], fan |-> fan, queue |-> Tail(walk.queue),
               visited |-> walk.visited, rows |-> walk.rows]
  BY <1>3, AskParts, WalkParts
<1>6. TraversalTypeOK'
  <2>1. walk.pc = "walk" /\ ask' = ask /\ answer' = answer
    BY DEF Expand
  <2>2. walk' \in [pc : {"idle", "next", "walk", "done"}, at : Place \union {Nowhere}, fan : SUBSET calls',
                 queue : Seq(Place), visited : SUBSET Symbols, rows : Seq(Rows)]
    BY <1>2, <1>4, <1>5, <2>1, AskParts, WalkParts
  <2> QED
    BY <2>1, <2>2 DEF TraversalTypeOK, Place, Rows, Nowhere
<1> QED
  BY <1>1, <1>2, <1>5, <1>6 DEF Expand, fan

LEMMA ExpandKeeps ==
    ASSUME calls \subseteq Sites, TraversalTypeOK, calls' = calls, From \in Symbols, WalkGoesOn, Expand
    PROVE  WalkGoesOn'
<1> DEFINE n == Len(walk.queue)
           v == walk.queue[1].symbol
           h == walk.queue[1].hops
           D == Depth
           a == walk.at.hops
<1>1. /\ ask' = ask /\ walk.fan = {} /\ walk'.at = walk.queue[1] /\ walk'.rows = walk.rows
      /\ walk'.visited = walk.visited
      /\ walk'.fan = IF h >= D THEN {} ELSE DirectEdges(v, ask.direction)
      /\ n \in Nat /\ n >= 1 /\ DOMAIN walk.queue = 1..n /\ 1 \in DOMAIN walk.queue
      /\ DOMAIN walk'.queue = 1..(n - 1)
      /\ \A i \in 1..(n - 1) : walk'.queue[i] = walk.queue[i + 1] /\ i + 1 \in DOMAIN walk.queue
  BY ExpandEffect
<1>2. QueueOfLevels /\ AtIsPlaced /\ LevelsVisited /\ VisitedSpread /\ RowsPlaced /\ RowsRise(walk.rows)
      /\ Len(walk.rows) <= Cap
  BY DEF WalkGoesOn
<1>3. /\ \A s, m : Around(s, m)' = Around(s, m)
      /\ \A s, u, m : AtLevel(s, u, m)' <=> AtLevel(s, u, m)
      /\ Depth' = D /\ From' = From
  BY <1>1, SameAsk DEF From, Started
<1>4. /\ D \in Nat /\ D >= 1 /\ a \in Nat /\ h \in Nat
      /\ \A i \in DOMAIN walk.queue : walk.queue[i].symbol \in Symbols /\ walk.queue[i].hops \in Nat
      /\ \A i \in DOMAIN walk.rows : walk.rows[i].hops \in Nat
  <2>1. MaxDepth \in Nat /\ D \in Nat /\ D \in 1..MaxDepth
    BY AskParts
  <2>2. /\ a \in Nat
        /\ \A i \in DOMAIN walk.queue : walk.queue[i].symbol \in Symbols /\ walk.queue[i].hops \in 0..MaxDepth
        /\ \A i \in DOMAIN walk.rows : walk.rows[i].hops \in 1..MaxDepth
    BY <2>1, WalkParts
  <2>3. D >= 1
    <3> HIDE DEF D
    <3> QED
      BY <2>1
  <2>4. /\ \A i \in DOMAIN walk.queue : walk.queue[i].hops \in Nat
        /\ \A i \in DOMAIN walk.rows : walk.rows[i].hops \in Nat
    BY <2>1, <2>2
  <2> QED
    BY <1>1, <2>1, <2>2, <2>3, <2>4
<1>5. /\ AtLevel(From, v, h) /\ v \in walk.visited /\ a <= h /\ h <= a + 1 /\ h <= D
      /\ walk'.at.hops = h /\ walk'.at.symbol = v
  BY <1>1, <1>2 DEF QueueOfLevels
<1> HIDE DEF n, v, h, D, a
<1>6. ASSUME NEW u, Waits(u)' PROVE Waits(u)
  <2>1. PICK i \in DOMAIN walk'.queue : walk'.queue[i].symbol = u
    BY <1>6 DEF Waits
  <2> QED
    BY <1>1, <2>1 DEF Waits
<1>7. ASSUME NEW u, Waits(u), u # v PROVE Waits(u)'
  <2>1. PICK i \in DOMAIN walk.queue : walk.queue[i].symbol = u
    BY <1>7 DEF Waits
  <2>2. i # 1
    BY <1>7, <2>1 DEF v
  <2>3. i - 1 \in 1..(n - 1) /\ (i - 1) + 1 = i
    BY <1>1, <2>1, <2>2
  <2> QED
    BY <1>1, <2>1, <2>3 DEF Waits
<1>9. QueueOfLevels'
  <2>1. ASSUME NEW i \in DOMAIN walk'.queue
        PROVE  /\ AtLevel(From, walk.queue[i].symbol, walk.queue[i].hops)'
               /\ walk'.queue[i].symbol \in walk'.visited /\ walk'.queue[i].symbol # walk'.at.symbol
               /\ walk'.at.hops <= walk'.queue[i].hops /\ walk'.queue[i].hops <= walk'.at.hops + 1
               /\ walk'.queue[i].hops <= D
    <3>1. i + 1 \in DOMAIN walk.queue /\ 1 \in DOMAIN walk.queue /\ 1 < i + 1 /\ walk'.queue[i] = walk.queue[i + 1]
      BY <1>1
    <3>2. /\ AtLevel(From, walk.queue[i + 1].symbol, walk.queue[i + 1].hops)
          /\ walk.queue[i + 1].symbol \in walk.visited
          /\ walk.queue[i + 1].hops <= a + 1 /\ walk.queue[i + 1].hops <= D
      BY <1>2, <3>1 DEF QueueOfLevels, a, D
    <3>3. h <= walk.queue[i + 1].hops /\ walk.queue[i + 1].symbol # v
      BY <1>2, <3>1 DEF QueueOfLevels, h, v
    <3>4. walk.queue[i + 1].hops <= h + 1
      BY <1>4, <1>5, <3>1, <3>2
    <3>5. AtLevel(From, walk.queue[i].symbol, walk.queue[i].hops)'
      BY <1>3, <3>1, <3>2
    <3> QED
      BY <1>1, <1>5, <3>1, <3>2, <3>3, <3>4, <3>5
  <2>2. ASSUME NEW i \in DOMAIN walk'.queue, NEW j \in DOMAIN walk'.queue, i < j
        PROVE  walk'.queue[i].hops <= walk'.queue[j].hops /\ walk'.queue[i].symbol # walk'.queue[j].symbol
    <3>1. i \in 1..(n - 1) /\ j \in 1..(n - 1) /\ i + 1 < j + 1
      BY <1>1, <2>2
    <3>2. /\ i + 1 \in DOMAIN walk.queue /\ j + 1 \in DOMAIN walk.queue
          /\ walk'.queue[i] = walk.queue[i + 1] /\ walk'.queue[j] = walk.queue[j + 1]
      BY <1>1, <3>1
    <3> QED
      BY <1>2, <3>1, <3>2 DEF QueueOfLevels
  <2> QED
    BY <1>3, <2>1, <2>2 DEF QueueOfLevels
<1>10. AtIsPlaced'
  <2>1. AtLevel(From, walk.at.symbol, walk.at.hops)'
    BY <1>3, <1>5
  <2>2. \A e \in walk'.fan : Near(e, ask'.direction) = walk'.at.symbol
    BY <1>1, <1>5 DEF DirectEdges
  <2>3. walk'.fan # {} => walk'.at.hops < Depth'
    BY <1>1, <1>3, <1>4, <1>5
  <2> QED
    BY <2>1, <2>2, <2>3 DEF AtIsPlaced
<1>11. LevelsVisited'
  <2>1. Around(From, a) \subseteq walk.visited
    BY <1>2 DEF LevelsVisited, a
  <2> SUFFICES ASSUME NEW u \in Around(From, h) PROVE u \in walk.visited
    BY <1>1, <1>3, <1>5 DEF LevelsVisited
  <2>2. h = a \/ h = a + 1
    BY <1>4, <1>5
  <2>3. CASE h = a
    BY <2>1, <2>3
  <2>4. ASSUME h = a + 1, NEW e \in calls, Near(e, ask.direction) \in Around(From, a), Far(e, ask.direction) = u
        PROVE  u \in walk.visited
    <3> DEFINE w == Near(e, ask.direction)
    <3>1. w \in walk.visited
      BY <2>1, <2>4
    <3>2. D - 1 \in Nat /\ a \in 0..(D - 1)
      BY <1>4, <1>5, <2>4
    <3>3. w \in Around(From, D - 1)
      BY <2>4, <3>2, AroundGrows
    <3>4. ~Waits(w)
      <4> SUFFICES ASSUME NEW i \in DOMAIN walk.queue, walk.queue[i].symbol = w PROVE FALSE
        BY DEF Waits
      <4>1. AtLevel(From, w, walk.queue[i].hops)
        BY <1>2 DEF QueueOfLevels
      <4>2. walk.queue[i].hops <= a
        BY <1>4, <2>4, <4>1 DEF AtLevel
      <4>3. h <= walk.queue[i].hops
        <5>1. CASE i = 1
          BY <1>4, <5>1 DEF h
        <5>2. CASE 1 < i
          BY <1>1, <1>2, <5>2 DEF QueueOfLevels, h
        <5>3. i = 1 \/ 1 < i
          BY <1>1
        <5> QED
          BY <5>1, <5>2, <5>3
      <4>4. walk.queue[i].hops \in Nat
        BY <1>4
      <4> QED
        BY <1>4, <2>4, <4>2, <4>3, <4>4
    <3>5. e \in DirectEdges(w, ask.direction)
      BY DEF DirectEdges
    <3>6. Rowed(walk.rows, e)
      BY <1>1, <1>2, <3>1, <3>3, <3>4, <3>5 DEF VisitedSpread, D
    <3>7. PICK i \in DOMAIN walk.rows : walk.rows[i].edge = e
      BY <3>6 DEF Rowed
    <3> QED
      BY <1>2, <2>4, <3>7 DEF RowsPlaced, RowPlaced
  <2>5. CASE h = a + 1 /\ u \in Around(From, a)
    BY <2>1, <2>5
  <2>6. h = a + 1 => \/ u \in Around(From, a)
                     \/ \E e \in calls : Near(e, ask.direction) \in Around(From, a) /\ Far(e, ask.direction) = u
    BY <1>4, AroundGrows
  <2> QED
    BY <2>2, <2>3, <2>4, <2>5, <2>6
<1>12. VisitedSpread'
  <2> SUFFICES ASSUME NEW u \in walk.visited, u \in Around(From, D - 1), ~Waits(u)', NEW e \in DirectEdges(u, ask.direction)
               PROVE  Rowed(walk.rows, e) \/ e \in walk'.fan
    BY <1>1, <1>3 DEF VisitedSpread, DirectEdges, Near, Rowed
  <2>1. CASE u = v
    <3>1. h <= D - 1
      <4>1. D - 1 \in Nat
        BY <1>4
      <4> QED
        BY <1>5, <2>1, <4>1 DEF AtLevel
    <3>2. ~(h >= D)
      BY <1>4, <3>1
    <3> QED
      BY <1>1, <2>1, <3>2
  <2>2. CASE u # v
    <3>1. ~Waits(u)
      BY <1>7, <2>2
    <3> QED
      BY <1>1, <1>2, <3>1 DEF VisitedSpread, D
  <2> QED
    BY <2>1, <2>2
<1>13. RowsPlaced'
  <2> SUFFICES ASSUME NEW i \in DOMAIN walk.rows PROVE RowPlaced(walk.rows[i])'
    BY <1>1 DEF RowsPlaced
  <2>0. PICK row, near : row = walk.rows[i] /\ near = Near(row.edge, ask.direction)
    OBVIOUS
  <2>1. RowPlaced(row)
    BY <1>2, <2>0 DEF RowsPlaced
  <2>2. row.edge \notin walk'.fan
    <3> SUFFICES ASSUME row.edge \in DirectEdges(v, ask.direction) PROVE FALSE
      BY <1>1
    <3>1. near = v
      BY <2>0 DEF DirectEdges
    <3>2. Waits(v)
      BY <1>1 DEF Waits, v
    <3> QED
      BY <2>0, <2>1, <3>1, <3>2 DEF RowPlaced
  <2>3. ~Waits(near)'
    BY <1>6, <2>0, <2>1 DEF RowPlaced
  <2>4. row.hops <= h + 1
    <3>1. row.hops <= a + 1 /\ row.hops \in Nat
      BY <1>4, <2>0, <2>1 DEF RowPlaced, a
    <3> QED
      BY <1>4, <1>5, <3>1
  <2>5. AtLevel(From, near, row.hops - 1)'
    BY <1>3, <2>0, <2>1 DEF RowPlaced
  <2> QED
    BY <1>1, <1>3, <1>5, <2>0, <2>1, <2>2, <2>3, <2>4, <2>5 DEF RowPlaced, D, Near, Far
<1>14. RowsRise(walk.rows)' /\ Len(walk'.rows) <= Cap
  BY <1>1, <1>2 DEF RowsRise, IsMarker
<1> QED
  BY <1>9, <1>10, <1>11, <1>12, <1>13, <1>14 DEF WalkGoesOn

LEMMA FollowEffect ==
    ASSUME calls \subseteq Sites, TraversalTypeOK, AtIsPlaced, walk.pc = "walk", calls' = calls,
           NEW e \in NextEdges, Follow(e)
    PROVE  /\ walk'.pc = "walk" /\ ask' = ask /\ answer' = answer
           /\ e \in walk.fan /\ e \in calls /\ walk'.at = walk.at /\ walk'.fan = walk.fan \ {e}
           /\ walk'.visited = walk.visited \union {Far(e, ask.direction)}
           /\ Len(walk.rows) \in Nat /\ Len(walk.rows) < Cap /\ DOMAIN walk.rows = 1..Len(walk.rows)
           /\ DOMAIN walk'.rows = 1..(Len(walk.rows) + 1) /\ Len(walk'.rows) = Len(walk.rows) + 1
           /\ \A i \in 1..Len(walk.rows) : walk'.rows[i] = walk.rows[i]
           /\ walk'.rows[Len(walk.rows) + 1].edge = e /\ walk'.rows[Len(walk.rows) + 1].hops = walk.at.hops + 1
           /\ Len(walk.queue) \in Nat /\ DOMAIN walk.queue = 1..Len(walk.queue)
           /\ Far(e, ask.direction) \in walk.visited => walk'.queue = walk.queue
           /\ Far(e, ask.direction) \notin walk.visited =>
                /\ DOMAIN walk'.queue = 1..(Len(walk.queue) + 1)
                /\ \A i \in 1..Len(walk.queue) : walk'.queue[i] = walk.queue[i]
                /\ walk'.queue[Len(walk.queue) + 1].symbol = Far(e, ask.direction)
                /\ walk'.queue[Len(walk.queue) + 1].hops = walk.at.hops + 1
           /\ TraversalTypeOK'
<1> DEFINE far == Far(e, ask.direction)
           row == [edge |-> e, hops |-> walk.at.hops + 1]
           place == [symbol |-> far, hops |-> walk.at.hops + 1]
           queue == IF far \notin walk.visited THEN Append(walk.queue, place) ELSE walk.queue
<1>1. e \in walk.fan /\ e \in calls /\ far \in Symbols
  BY AskParts, WalkParts DEF NextEdges
<1>2. walk.at.hops + 1 \in 1..MaxDepth /\ walk.at.hops + 1 \in 0..MaxDepth
  <2>1. walk.at.hops \in Nat /\ MaxDepth \in Nat /\ Depth \in 1..MaxDepth
    BY AskParts, WalkParts
  <2>2. walk.at.hops < Depth
    BY <1>1 DEF AtIsPlaced
  <2> QED
    BY <2>1, <2>2
<1>3. row \in Rows /\ place \in Place
  BY <1>1, <1>2 DEF Rows, Place
<1>4. walk.queue \in Seq(Place) /\ walk.rows \in Seq(Rows)
  BY AskParts, WalkParts
<1>5. /\ Len(walk.rows) < Cap /\ ask' = ask /\ answer' = answer
      /\ walk' = [walk EXCEPT !.fan = walk.fan \ {e}, !.rows = Append(walk.rows, row),
                              !.visited = walk.visited \union {far}, !.queue = queue]
  BY DEF Follow
<1> HIDE DEF row, place, far
<1>6. queue \in Seq(Place)
  BY <1>3, <1>4
<1>7. Append(walk.rows, row) \in Seq(Rows)
  BY <1>3, <1>4
<1>8. /\ Len(walk.rows) \in Nat /\ DOMAIN walk.rows = 1..Len(walk.rows)
      /\ DOMAIN Append(walk.rows, row) = 1..(Len(walk.rows) + 1)
      /\ Len(Append(walk.rows, row)) = Len(walk.rows) + 1
      /\ \A i \in 1..Len(walk.rows) : Append(walk.rows, row)[i] = walk.rows[i]
      /\ Append(walk.rows, row)[Len(walk.rows) + 1] = row
  BY <1>3, <1>4
<1>9. /\ Len(walk.queue) \in Nat /\ DOMAIN walk.queue = 1..Len(walk.queue)
      /\ DOMAIN Append(walk.queue, place) = 1..(Len(walk.queue) + 1)
      /\ \A i \in 1..Len(walk.queue) : Append(walk.queue, place)[i] = walk.queue[i]
      /\ Append(walk.queue, place)[Len(walk.queue) + 1] = place
  BY <1>3, <1>4
<1>10. /\ far \in walk.visited => queue = walk.queue
       /\ far \notin walk.visited => queue = Append(walk.queue, place)
  OBVIOUS
<1> HIDE DEF queue
<1>11. walk' = [pc |-> "walk", at |-> walk.at, fan |-> walk.fan \ {e}, queue |-> queue,
               visited |-> walk.visited \union {far}, rows |-> Append(walk.rows, row)]
  BY <1>5, AskParts, WalkParts
<1>12. TraversalTypeOK'
  <2>1. walk' \in [pc : {"idle", "next", "walk", "done"}, at : Place \union {Nowhere}, fan : SUBSET calls',
                 queue : Seq(Place), visited : SUBSET Symbols, rows : Seq(Rows)]
    BY <1>1, <1>6, <1>7, <1>11, AskParts, WalkParts
  <2> QED
    BY <1>5, <2>1 DEF TraversalTypeOK, Place, Rows, Nowhere
<1> QED
  BY <1>1, <1>5, <1>8, <1>9, <1>10, <1>11, <1>12 DEF row, place, far

LEMMA FollowKeeps ==
    ASSUME calls \subseteq Sites, TraversalTypeOK, walk.pc = "walk", calls' = calls, From \in Symbols,
           WalkGoesOn, NEW e \in NextEdges, Follow(e)
    PROVE  WalkGoesOn'
<1>1. QueueOfLevels /\ AtIsPlaced /\ LevelsVisited /\ VisitedSpread /\ RowsPlaced /\ RowsRise(walk.rows)
      /\ Len(walk.rows) <= Cap
  BY DEF WalkGoesOn
<1>2. PICK a, v, far, n, q, D : a = walk.at.hops /\ v = walk.at.symbol /\ far = Far(e, ask.direction)
                          /\ n = Len(walk.rows) /\ q = Len(walk.queue) /\ D = Depth
  OBVIOUS
<1>3. /\ ask' = ask
      /\ e \in walk.fan /\ e \in calls /\ walk'.at = walk.at /\ walk'.fan = walk.fan \ {e}
      /\ walk'.visited = walk.visited \union {far}
      /\ n \in Nat /\ n < Cap /\ DOMAIN walk.rows = 1..n
      /\ DOMAIN walk'.rows = 1..(n + 1) /\ Len(walk'.rows) = n + 1
      /\ \A i \in 1..n : walk'.rows[i] = walk.rows[i]
      /\ walk'.rows[n + 1].edge = e /\ walk'.rows[n + 1].hops = a + 1
      /\ q \in Nat /\ DOMAIN walk.queue = 1..q
      /\ far \in walk.visited => walk'.queue = walk.queue
      /\ far \notin walk.visited => /\ DOMAIN walk'.queue = 1..(q + 1)
                                    /\ \A i \in 1..q : walk'.queue[i] = walk.queue[i]
                                    /\ walk'.queue[q + 1].symbol = far /\ walk'.queue[q + 1].hops = a + 1
  BY <1>1, <1>2, FollowEffect
<1>4. /\ \A s, m : Around(s, m)' = Around(s, m)
      /\ \A s, u, m : AtLevel(s, u, m)' <=> AtLevel(s, u, m)
      /\ Depth' = D /\ From' = From
  BY <1>2, <1>3, SameAsk DEF From, Started
<1>5. /\ D \in Nat /\ D >= 1 /\ a \in Nat /\ Cap \in Nat /\ far \in Symbols /\ v \in Symbols
      /\ Near(e, ask.direction) = v /\ e.source # Truncated
      /\ \A i \in DOMAIN walk.queue : walk.queue[i].symbol \in Symbols /\ walk.queue[i].hops \in Nat
      /\ \A i \in DOMAIN walk.rows : walk.rows[i].hops \in Nat
  <2>1. Near(e, ask.direction) = v
    BY <1>1, <1>2, <1>3 DEF AtIsPlaced
  <2> QED
    BY <1>2, <1>3, <2>1, AskParts, WalkParts
<1>6. AtLevel(From, v, a) /\ a < D /\ v \in walk.visited
  <2>1. AtLevel(From, v, a) /\ a < D
    BY <1>1, <1>2, <1>3, <1>5 DEF AtIsPlaced
  <2> QED
    BY <1>1, <1>2, <2>1 DEF LevelsVisited, AtLevel
<1>7. ASSUME far \notin walk.visited PROVE AtLevel(From, far, a + 1)
  <2>1. far \in Around(From, a + 1)
    BY <1>2, <1>3, <1>5, <1>6, AroundGrows DEF AtLevel
  <2>2. ASSUME NEW m \in Nat, far \in Around(From, m), ~(a + 1 <= m) PROVE FALSE
    <3>1. m \in 0..a
      BY <1>5, <2>2
    <3>2. far \in Around(From, a)
      BY <1>5, <2>2, <3>1, AroundGrows
    <3> QED
      BY <1>1, <1>2, <1>7, <3>2 DEF LevelsVisited
  <2> QED
    BY <2>1, <2>2 DEF AtLevel
<1>8. ASSUME NEW u, Waits(u) PROVE Waits(u)'
  <2>1. PICK i \in DOMAIN walk.queue : walk.queue[i].symbol = u
    BY <1>8 DEF Waits
  <2>2. i \in DOMAIN walk'.queue /\ walk'.queue[i] = walk.queue[i]
    BY <1>3
  <2> QED
    BY <2>1, <2>2 DEF Waits
<1>9. ASSUME NEW u, Waits(u)' PROVE Waits(u) \/ (u = far /\ far \notin walk.visited)
  <2>1. PICK i \in DOMAIN walk'.queue : walk'.queue[i].symbol = u
    BY <1>9 DEF Waits
  <2>2. CASE far \in walk.visited
    BY <1>3, <2>1, <2>2 DEF Waits
  <2>3. CASE far \notin walk.visited
    <3>1. i \in 1..q \/ i = q + 1
      BY <1>3, <2>3
    <3> QED
      BY <1>3, <2>1, <2>3, <3>1 DEF Waits
  <2> QED
    BY <2>2, <2>3
<1>10. QueueOfLevels'
  <2>1. ASSUME NEW i \in DOMAIN walk.queue
        PROVE  /\ AtLevel(From, walk.queue[i].symbol, walk.queue[i].hops)
               /\ walk.queue[i].symbol \in walk.visited /\ walk.queue[i].symbol # v
               /\ a <= walk.queue[i].hops /\ walk.queue[i].hops <= a + 1
               /\ walk.queue[i].hops <= D
    BY <1>1, <1>2 DEF QueueOfLevels
  <2>2. \A i, j \in DOMAIN walk.queue : i < j => /\ walk.queue[i].hops <= walk.queue[j].hops
                                                 /\ walk.queue[i].symbol # walk.queue[j].symbol
    BY <1>1 DEF QueueOfLevels
  <2>3. CASE far \in walk.visited
    <3>1. \A i \in DOMAIN walk.queue : AtLevel(From, walk.queue[i].symbol, walk.queue[i].hops)'
      <4>1. walk'.queue = walk.queue
        BY <1>3, <2>3
      <4> QED
        BY <1>4, <2>1, <4>1
    <3>2. walk'.queue = walk.queue
      BY <1>3, <2>3
    <3>3. ASSUME NEW i \in DOMAIN walk'.queue
          PROVE  /\ AtLevel(From, walk.queue[i].symbol, walk.queue[i].hops)'
                 /\ walk'.queue[i].symbol \in walk'.visited /\ walk'.queue[i].symbol # v
                 /\ a <= walk'.queue[i].hops /\ walk'.queue[i].hops <= a + 1
                 /\ walk'.queue[i].hops <= D
      BY <1>3, <2>1, <3>1, <3>2
    <3>4. \A i, j \in DOMAIN walk'.queue : i < j => /\ walk'.queue[i].hops <= walk'.queue[j].hops
                                                     /\ walk'.queue[i].symbol # walk'.queue[j].symbol
      BY <2>2, <3>2
    <3> QED
      BY <1>2, <1>3, <1>4, <3>3, <3>4 DEF QueueOfLevels
  <2>4. CASE far \notin walk.visited
    <3>1. ASSUME NEW i \in DOMAIN walk'.queue
          PROVE  /\ AtLevel(From, walk.queue[i].symbol, walk.queue[i].hops)'
                 /\ walk'.queue[i].symbol \in walk'.visited /\ walk'.queue[i].symbol # v
                 /\ a <= walk'.queue[i].hops /\ walk'.queue[i].hops <= a + 1
                 /\ walk'.queue[i].hops <= D
      <4>1. CASE i \in 1..q
        <5>1. i \in DOMAIN walk.queue /\ walk'.queue[i] = walk.queue[i]
          BY <1>3, <2>4, <4>1
        <5>2. AtLevel(From, walk.queue[i].symbol, walk.queue[i].hops)'
          BY <1>4, <2>1, <5>1
        <5> QED
          BY <1>3, <2>1, <5>1, <5>2
      <4>2. CASE i = q + 1
        <5>1. walk'.queue[i].symbol = far /\ walk'.queue[i].hops = a + 1
          BY <1>3, <2>4, <4>2
        <5>2. AtLevel(From, walk.queue[i].symbol, walk.queue[i].hops)'
          BY <1>4, <1>7, <2>4, <5>1
        <5>3. far # v /\ a + 1 <= D /\ a <= a + 1
          BY <1>5, <1>6, <2>4
        <5> QED
          BY <1>3, <1>5, <5>1, <5>2, <5>3
      <4>3. i \in 1..q \/ i = q + 1
        BY <1>3, <2>4
      <4> QED
        BY <4>1, <4>2, <4>3
    <3>2. ASSUME NEW i \in DOMAIN walk'.queue, NEW j \in DOMAIN walk'.queue, i < j
          PROVE  walk'.queue[i].hops <= walk'.queue[j].hops /\ walk'.queue[i].symbol # walk'.queue[j].symbol
      <4>1. i \in 1..q /\ (j \in 1..q \/ j = q + 1)
        BY <1>3, <2>4, <3>2
      <4>2. walk'.queue[i] = walk.queue[i] /\ i \in DOMAIN walk.queue
        BY <1>3, <2>4, <4>1
      <4>3. CASE j \in 1..q
        BY <1>3, <2>2, <2>4, <3>2, <4>2, <4>3
      <4>4. CASE j = q + 1
        BY <1>3, <2>1, <2>4, <4>2, <4>4
      <4> QED
        BY <4>1, <4>3, <4>4
    <3> QED
      BY <1>2, <1>3, <1>4, <3>1, <3>2 DEF QueueOfLevels
  <2> QED
    BY <2>3, <2>4
<1>11. AtIsPlaced'
  <2>1. AtLevel(From, walk.at.symbol, walk.at.hops)'
    BY <1>2, <1>3, <1>4, <1>6
  <2> QED
    BY <1>1, <1>2, <1>3, <1>4, <1>6, <2>1 DEF AtIsPlaced
<1>12. LevelsVisited'
  BY <1>1, <1>3, <1>4 DEF LevelsVisited
<1>13. ASSUME NEW f PROVE Rowed(walk.rows, f)' <=> Rowed(walk.rows, f) \/ f = e
  <2>1. ASSUME Rowed(walk.rows, f) PROVE Rowed(walk.rows, f)'
    BY <1>3, <2>1 DEF Rowed
  <2>2. Rowed(walk.rows, e)'
    BY <1>3 DEF Rowed
  <2>3. ASSUME NEW i \in 1..(n + 1), walk'.rows[i].edge = f PROVE Rowed(walk.rows, f) \/ f = e
    <3>1. i \in 1..n \/ i = n + 1
      BY <1>3
    <3> QED
      BY <1>3, <2>3, <3>1 DEF Rowed
  <2> QED
    BY <1>3, <2>1, <2>2, <2>3 DEF Rowed
<1>14. VisitedSpread'
  <2> SUFFICES ASSUME NEW u \in walk'.visited, u \in Around(From, D - 1), ~Waits(u)', NEW f \in DirectEdges(u, ask.direction)
               PROVE  Rowed(walk.rows, f)' \/ f \in walk'.fan
    BY <1>3, <1>4 DEF VisitedSpread, DirectEdges, Near, Rowed
  <2>1. u \in walk.visited
    <3> SUFFICES ASSUME far \notin walk.visited PROVE ~(u = far)
      BY <1>3
    <3>1. Waits(far)'
      BY <1>3 DEF Waits
    <3> QED
      BY <3>1
  <2>2. ~Waits(u)
    BY <1>8
  <2>3. Rowed(walk.rows, f) \/ f \in walk.fan
    BY <1>1, <1>2, <2>1, <2>2 DEF VisitedSpread
  <2> QED
    BY <1>3, <1>13, <2>3
<1>15. RowsPlaced'
  <2> SUFFICES ASSUME NEW i \in 1..(n + 1), NEW row, row = walk'.rows[i],
                      NEW near, near = Near(row.edge, ask.direction)
               PROVE  /\ row.edge \in calls /\ row.edge \notin walk'.fan
                      /\ near \in walk'.visited /\ ~Waits(near)'
                      /\ Far(row.edge, ask.direction) \in walk'.visited
                      /\ row.hops \in 1..D /\ row.hops <= a + 1
                      /\ AtLevel(From, near, row.hops - 1)
    <3>1. ASSUME NEW i \in 1..(n + 1), NEW row, row = walk'.rows[i],
                 /\ row.edge \in calls /\ row.edge \notin walk'.fan
                      /\ Near(row.edge, ask.direction) \in walk'.visited /\ ~Waits(Near(row.edge, ask.direction))'
                      /\ Far(row.edge, ask.direction) \in walk'.visited
                      /\ row.hops \in 1..D /\ row.hops <= a + 1
                      /\ AtLevel(From, Near(row.edge, ask.direction), row.hops - 1)
          PROVE  RowPlaced(walk.rows[i])'
      <4>1. AtLevel(From, Near(row.edge, ask.direction), row.hops - 1)'
        BY <1>3, <1>4, <3>1 DEF Near
      <4> QED
        BY <1>2, <1>3, <1>4, <3>1, <4>1 DEF RowPlaced, Near, Far
    <3> QED
      BY <1>3, <3>1 DEF RowsPlaced, Near
  <2>1. CASE i \in 1..n
    <3>1. row = walk.rows[i] /\ i \in DOMAIN walk.rows
      BY <1>3, <2>1
    <3>2. RowPlaced(row)
      BY <1>1, <3>1 DEF RowsPlaced
    <3>3. ~Waits(near)'
      BY <1>9, <3>2 DEF RowPlaced
    <3> QED
      BY <1>2, <1>3, <3>2, <3>3 DEF RowPlaced
  <2>2. CASE i = n + 1
    <3>1. row.edge = e /\ row.hops = a + 1 /\ near = v
      BY <1>3, <1>5, <2>2
    <3>2. ~Waits(v)
      BY <1>1, <1>2 DEF QueueOfLevels, Waits
    <3>3. ~Waits(near)'
      BY <1>6, <1>9, <3>1, <3>2
    <3>4. a + 1 \in 1..D /\ (a + 1) - 1 = a
      BY <1>5, <1>6
    <3> QED
      BY <1>2, <1>3, <1>5, <1>6, <3>1, <3>3, <3>4
  <2>3. i \in 1..n \/ i = n + 1
    BY <1>3
  <2> QED
    BY <2>1, <2>2, <2>3
<1>16. RowsRise(walk.rows)'
  <2> SUFFICES ASSUME NEW i \in 1..(n + 1), NEW j \in 1..(n + 1), i < j,
                      ~IsMarker(walk'.rows[i]), ~IsMarker(walk'.rows[j])
               PROVE  walk'.rows[i].edge # walk'.rows[j].edge /\ walk'.rows[i].hops <= walk'.rows[j].hops
    BY <1>3 DEF RowsRise, IsMarker
  <2>1. i \in 1..n /\ (j \in 1..n \/ j = n + 1)
    BY <1>3
  <2>2. walk'.rows[i] = walk.rows[i] /\ i \in DOMAIN walk.rows
    BY <1>3, <2>1
  <2>3. CASE j \in 1..n
    <3>1. walk'.rows[j] = walk.rows[j] /\ j \in DOMAIN walk.rows
      BY <1>3, <2>3
    <3> QED
      BY <1>1, <2>2, <3>1 DEF RowsRise
  <2>4. CASE j = n + 1
    <3>1. walk.rows[i].edge \notin walk.fan /\ walk.rows[i].hops <= a + 1
      BY <1>1, <1>2, <2>2 DEF RowsPlaced, RowPlaced
    <3> QED
      BY <1>3, <2>2, <2>4, <3>1
  <2> QED
    BY <2>1, <2>3, <2>4
<1>17. Len(walk'.rows) <= Cap
  BY <1>3, <1>5
<1> QED
  BY <1>10, <1>11, <1>12, <1>14, <1>15, <1>16, <1>17 DEF WalkGoesOn

LEMMA OverflowEffect ==
    ASSUME calls \subseteq Sites, TraversalTypeOK, AtIsPlaced, walk.pc = "walk", calls' = calls,
           NEW e \in NextEdges, Overflow(e)
    PROVE  /\ walk'.pc = "walk" /\ ask' = ask /\ answer' = answer
           /\ e \in walk.fan /\ e \in calls /\ walk'.fan = {} /\ walk'.queue = <<>>
           /\ Len(walk.rows) = Cap /\ DOMAIN walk.rows = 1..Cap
           /\ DOMAIN walk'.rows = 1..(Cap + 1) /\ Len(walk'.rows) = Cap + 1
           /\ \A i \in 1..Cap : walk'.rows[i] = walk.rows[i]
           /\ IsMarker(walk'.rows[Cap + 1])
           /\ TraversalTypeOK'
<1> DEFINE row == Marker(walk.at.symbol, walk.at.hops + 1)
<1>1. e \in walk.fan /\ e \in calls
  BY AskParts, WalkParts DEF NextEdges
<1>2. walk.at.hops + 1 \in 1..MaxDepth
  <2>1. walk.at.hops \in Nat /\ MaxDepth \in Nat /\ Depth \in 1..MaxDepth
    BY AskParts, WalkParts
  <2>2. walk.at.hops < Depth
    BY <1>1 DEF AtIsPlaced
  <2> QED
    BY <2>1, <2>2
<1>3. row \in Rows /\ IsMarker(row)
  <2>1. walk.at.symbol \in Symbols \union {Truncated}
    BY AskParts, WalkParts DEF Place, Nowhere
  <2> QED
    BY <1>2, <2>1 DEF Rows, Marker, IsMarker
<1>4. walk.rows \in Seq(Rows) /\ Cap \in Nat
  BY AskParts, WalkParts
<1>5. /\ Len(walk.rows) = Cap /\ ask' = ask /\ answer' = answer
      /\ walk' = [walk EXCEPT !.fan = {}, !.queue = <<>>, !.rows = Append(walk.rows, row)]
  BY DEF Overflow
<1> HIDE DEF row
<1>6. /\ Append(walk.rows, row) \in Seq(Rows) /\ DOMAIN walk.rows = 1..Cap
      /\ DOMAIN Append(walk.rows, row) = 1..(Cap + 1)
      /\ Len(Append(walk.rows, row)) = Cap + 1
      /\ \A i \in 1..Cap : Append(walk.rows, row)[i] = walk.rows[i]
      /\ Append(walk.rows, row)[Cap + 1] = row
  BY <1>3, <1>4, <1>5
<1>7. walk' = [pc |-> "walk", at |-> walk.at, fan |-> {}, queue |-> <<>>,
               visited |-> walk.visited, rows |-> Append(walk.rows, row)]
  BY <1>5, AskParts, WalkParts
<1>8. TraversalTypeOK'
  <2>1. <<>> \in Seq(Place)
    OBVIOUS
  <2>2. walk' \in [pc : {"idle", "next", "walk", "done"}, at : Place \union {Nowhere}, fan : SUBSET calls',
                 queue : Seq(Place), visited : SUBSET Symbols, rows : Seq(Rows)]
    BY <1>6, <1>7, <2>1, AskParts, WalkParts
  <2> QED
    BY <1>5, <2>2 DEF TraversalTypeOK, Place, Rows, Nowhere
<1> QED
  BY <1>1, <1>3, <1>5, <1>6, <1>7, <1>8

\* The edges that are left out of rows placed so far are none of them nearer.
LEMMA LeftOutIsFarther ==
    ASSUME calls \subseteq Sites, TraversalTypeOK, From \in Symbols, WalkGoesOn, NEW i \in DOMAIN walk.rows
    PROVE  NoneNearer(walk.rows, walk.rows[i], From)
<1>1. QueueOfLevels /\ AtIsPlaced /\ LevelsVisited /\ VisitedSpread /\ RowsPlaced
  BY DEF WalkGoesOn
<1>2. /\ walk.at.hops \in Nat /\ walk.rows[i].hops \in Nat /\ Depth \in Nat
      /\ \A j \in DOMAIN walk.queue : walk.queue[j].hops \in Nat
      /\ \A e \in calls : Near(e, ask.direction) \in Symbols
  BY AskParts, WalkParts
<1>3. walk.rows[i].hops <= walk.at.hops + 1
  BY <1>1 DEF RowsPlaced, RowPlaced
<1> SUFFICES ASSUME NEW e \in ReachOf(From), ~Rowed(walk.rows, e), NEW n \in Nat, Near(e, ask.direction) \in Around(From, n),
                    ~(walk.rows[i].hops - 1 <= n)
             PROVE  FALSE
  BY DEF NoneNearer
<1> DEFINE v == Near(e, ask.direction)
<1>4. e \in calls /\ v \in Around(From, Depth - 1) /\ v \in Symbols
  BY <1>2 DEF ReachOf
<1>5. n < walk.at.hops /\ n \in 0..walk.at.hops
  BY <1>2, <1>3
<1>6. v \in walk.visited
  BY <1>1, <1>2, <1>5, AroundGrows DEF LevelsVisited
<1>7. ~Waits(v)
  <2> SUFFICES ASSUME NEW j \in DOMAIN walk.queue, walk.queue[j].symbol = v PROVE FALSE
    BY DEF Waits
  <2>1. AtLevel(From, v, walk.queue[j].hops) /\ walk.at.hops <= walk.queue[j].hops
    BY <1>1 DEF QueueOfLevels
  <2>2. walk.queue[j].hops <= n
    BY <2>1 DEF AtLevel
  <2> QED
    BY <1>2, <1>5, <2>1, <2>2
<1>8. e \notin walk.fan
  <2> SUFFICES ASSUME e \in walk.fan PROVE FALSE
    OBVIOUS
  <2>1. AtLevel(From, v, walk.at.hops)
    BY <1>1, <1>4 DEF AtIsPlaced
  <2>2. walk.at.hops <= n
    BY <2>1 DEF AtLevel
  <2> QED
    BY <1>2, <1>5, <2>2
<1>9. e \in DirectEdges(v, ask.direction)
  BY <1>4 DEF DirectEdges
<1> QED
  BY <1>1, <1>4, <1>6, <1>7, <1>8, <1>9 DEF VisitedSpread

\* A walk that has read all it had to read has brought all edges in its reach.
LEMMA WalkIsWhole ==
    ASSUME calls \subseteq Sites, TraversalTypeOK, From \in Symbols, WalkGoesOn, walk.fan = {}, walk.queue = <<>>
    PROVE  WalkOf(walk.rows, From)
<1>1. LevelsVisited /\ VisitedSpread /\ RowsPlaced /\ RowsRise(walk.rows)
  BY DEF WalkGoesOn
<1>2. /\ walk.at.hops \in Nat /\ Depth \in Nat /\ Depth >= 1 /\ Depth - 1 \in Nat
      /\ \A e \in calls : Near(e, ask.direction) \in Symbols /\ e.source # Truncated
  BY AskParts, WalkParts
<1>3. \A v : ~Waits(v)
  BY DEF Waits
<1>4. ASSUME NEW v \in walk.visited, v \in Around(From, Depth - 1), NEW e \in calls, Near(e, ask.direction) = v
      PROVE  Rowed(walk.rows, e) /\ Far(e, ask.direction) \in walk.visited
  <2>1. e \in DirectEdges(v, ask.direction)
    BY <1>4 DEF DirectEdges
  <2>2. Rowed(walk.rows, e)
    BY <1>1, <1>3, <1>4, <2>1 DEF VisitedSpread
  <2>3. PICK i \in DOMAIN walk.rows : walk.rows[i].edge = e
    BY <2>2 DEF Rowed
  <2> QED
    BY <1>1, <2>2, <2>3 DEF RowsPlaced, RowPlaced
<1> DEFINE P == {n \in 0..(Depth - 1) : Around(From, n) \subseteq walk.visited}
<1>5. 0 \in P
  <2>1. 0 \in 0..walk.at.hops /\ 0 \in 0..(Depth - 1)
    BY <1>2
  <2>2. Around(From, 0) \subseteq Around(From, walk.at.hops)
    BY <1>2, <2>1, AroundGrows
  <2> QED
    BY <1>1, <2>1, <2>2 DEF LevelsVisited
<1>6. ASSUME NEW n \in 1..(Depth - 1), n - 1 \in P PROVE n \in P
  <2>1. n - 1 \in Nat /\ (n - 1) + 1 = n /\ n - 1 \in 0..(Depth - 1) /\ n \in 0..(Depth - 1)
    BY <1>2
  <2> SUFFICES ASSUME NEW u \in Around(From, n), u \notin Around(From, n - 1) PROVE u \in walk.visited
    BY <1>6, <2>1
  <2>2. PICK e \in calls : Near(e, ask.direction) \in Around(From, n - 1) /\ Far(e, ask.direction) = u
    BY <2>1, AroundGrows
  <2>3. Near(e, ask.direction) \in walk.visited
    BY <1>6, <2>2
  <2>4. Near(e, ask.direction) \in Around(From, Depth - 1)
    BY <1>2, <2>1, <2>2, AroundGrows
  <2> QED
    BY <1>4, <2>2, <2>3, <2>4
<1>7. P = 0..(Depth - 1)
  <2>1. P \subseteq 0..(Depth - 1)
    OBVIOUS
  <2> HIDE DEF P
  <2> QED
    BY <1>2, <1>5, <1>6, <2>1, Stepwise
<1>8. Around(From, Depth - 1) \subseteq walk.visited
  <2>1. Depth - 1 \in P
    BY <1>2, <1>7
  <2> QED
    BY <2>1
<1>9. \A e \in ReachOf(From) : Rowed(walk.rows, e)
  BY <1>4, <1>8 DEF ReachOf
<1>10. ASSUME NEW i \in DOMAIN walk.rows
       PROVE  /\ ~IsMarker(walk.rows[i])
              /\ walk.rows[i].edge \in calls /\ walk.rows[i].hops \in 1..Depth
              /\ AtLevel(From, Near(walk.rows[i].edge, ask.direction), walk.rows[i].hops - 1)
              /\ NoneNearer(walk.rows, walk.rows[i], From)
  <2>1. /\ walk.rows[i].edge \in calls /\ walk.rows[i].hops \in 1..Depth
        /\ AtLevel(From, Near(walk.rows[i].edge, ask.direction), walk.rows[i].hops - 1)
    BY <1>1 DEF RowsPlaced, RowPlaced
  <2>2. NoneNearer(walk.rows, walk.rows[i], From)
    BY LeftOutIsFarther
  <2> QED
    BY <1>2, <2>1, <2>2 DEF IsMarker
<1> QED
  BY <1>1, <1>9, <1>10 DEF WalkOf

\* A walk that has one edge more to read than the cap allows has that edge in its reach.
LEMMA WalkIsCapped ==
    ASSUME calls \subseteq Sites, TraversalTypeOK, walk.pc = "walk", calls' = calls, From \in Symbols,
           WalkGoesOn, NEW e \in NextEdges, Overflow(e)
    PROVE  walk'.fan = {} /\ walk'.queue = <<>> /\ WalkOf(walk.rows, From)'
<1>1. AtIsPlaced /\ RowsPlaced /\ RowsRise(walk.rows)
  BY DEF WalkGoesOn
<1>2. /\ ask' = ask /\ e \in walk.fan /\ e \in calls /\ walk'.fan = {} /\ walk'.queue = <<>>
      /\ DOMAIN walk.rows = 1..Cap
      /\ DOMAIN walk'.rows = 1..(Cap + 1) /\ Len(walk'.rows) = Cap + 1
      /\ \A i \in 1..Cap : walk'.rows[i] = walk.rows[i]
      /\ IsMarker(walk'.rows[Cap + 1])
  BY <1>1, OverflowEffect
<1>3. /\ walk.at.hops \in Nat /\ Depth \in Nat /\ Depth >= 1 /\ Depth - 1 \in Nat /\ Cap \in Nat
      /\ \A f \in calls : Near(f, ask.direction) \in Symbols /\ f.source # Truncated
  BY AskParts, WalkParts
<1>4. \A i \in 1..(Cap + 1) : i \in 1..Cap \/ i = Cap + 1
  BY <1>3
<1>5. \A i \in 1..Cap : ~IsMarker(walk.rows[i])
  BY <1>1, <1>2, <1>3 DEF RowsPlaced, RowPlaced, IsMarker
<1>6. ASSUME NEW f \in calls PROVE Rowed(walk'.rows, f) <=> Rowed(walk.rows, f)
  <2>1. walk'.rows[Cap + 1].edge # f
    BY <1>2, <1>3 DEF IsMarker
  <2> QED
    BY <1>2, <1>3, <1>4, <2>1 DEF Rowed
<1>7. ReachOf(From) \subseteq calls
  BY DEF ReachOf
<1>8. ASSUME NEW i \in 1..(Cap + 1), ~IsMarker(walk'.rows[i])
      PROVE  /\ walk'.rows[i].edge \in calls /\ walk'.rows[i].hops \in 1..Depth
             /\ AtLevel(From, Near(walk'.rows[i].edge, ask.direction), walk'.rows[i].hops - 1)
             /\ NoneNearer(walk'.rows, walk'.rows[i], From)
  <2>1. i \in 1..Cap /\ i \in DOMAIN walk.rows /\ walk'.rows[i] = walk.rows[i]
    BY <1>2, <1>4, <1>8
  <2>2. /\ walk.rows[i].edge \in calls /\ walk.rows[i].hops \in 1..Depth
        /\ AtLevel(From, Near(walk.rows[i].edge, ask.direction), walk.rows[i].hops - 1)
    BY <1>1, <2>1 DEF RowsPlaced, RowPlaced
  <2>3. NoneNearer(walk.rows, walk.rows[i], From)
    BY <2>1, LeftOutIsFarther
  <2>4. NoneNearer(walk'.rows, walk.rows[i], From)
    BY <1>6, <1>7, <2>3 DEF NoneNearer
  <2> QED
    BY <2>1, <2>2, <2>4
<1>9. RowsRise(walk'.rows)
  <2> SUFFICES ASSUME NEW i \in 1..(Cap + 1), NEW j \in 1..(Cap + 1), i < j,
                      ~IsMarker(walk'.rows[i]), ~IsMarker(walk'.rows[j])
               PROVE  walk'.rows[i].edge # walk'.rows[j].edge /\ walk'.rows[i].hops <= walk'.rows[j].hops
    BY <1>2 DEF RowsRise
  <2>1. /\ i \in DOMAIN walk.rows /\ walk'.rows[i] = walk.rows[i]
        /\ j \in DOMAIN walk.rows /\ walk'.rows[j] = walk.rows[j]
    BY <1>2, <1>4
  <2> QED
    BY <1>1, <2>1 DEF RowsRise
<1>10. e \in ReachOf(From) /\ ~Rowed(walk'.rows, e)
  <2>1. /\ Near(e, ask.direction) = walk.at.symbol /\ AtLevel(From, Near(e, ask.direction), walk.at.hops)
        /\ walk.at.hops < Depth
    BY <1>1, <1>2, <1>3 DEF AtIsPlaced
  <2>2. Near(e, ask.direction) \in Around(From, Depth - 1)
    <3>1. walk.at.hops \in 0..(Depth - 1)
      BY <1>3, <2>1
    <3> QED
      BY <1>3, <2>1, <3>1, AroundGrows DEF AtLevel
  <2>3. ~Rowed(walk.rows, e)
    BY <1>1, <1>2 DEF Rowed, RowsPlaced, RowPlaced
  <2> QED
    BY <1>2, <1>6, <2>2, <2>3 DEF ReachOf
<1>11. WalkOf(walk'.rows, From)
  BY <1>2, <1>5, <1>8, <1>9, <1>10 DEF WalkOf
<1>12. From' = From
  BY <1>2 DEF From, Started
<1> QED
  BY <1>2, <1>11, <1>12, SameAsk

-----------------------------------------------------------------------------
(* Walks.  The walks of several symbols together.                          *)

\* What is within n hops from some of the symbols is so from one of them.
LEMMA BallOfEach ==
    ASSUME calls \subseteq Sites, NEW S \in SUBSET Symbols, NEW direction, NEW n \in Nat
    PROVE  \A v : v \in Ball(S, direction, n) <=> \E s \in S : v \in Ball({s}, direction, n)
<1> DEFINE P == {k \in 0..n : \A v : v \in Ball(S, direction, k) <=> \E s \in S : v \in Ball({s}, direction, k)}
<1>1. 0 \in P
  <2>1. Ball(S, direction, 0) = S
    BY BallGrows
  <2>2. \A s \in S : Ball({s}, direction, 0) = {s}
    <3> TAKE s \in S
    <3>1. {s} \in SUBSET Symbols
      OBVIOUS
    <3> QED
      BY <3>1, BallGrows
  <2>3. \A v : v \in Ball(S, direction, 0) <=> \E s \in S : v \in Ball({s}, direction, 0)
    BY <2>1, <2>2
  <2>4. 0 \in 0..n
    OBVIOUS
  <2> QED
    BY <2>3, <2>4
<1>2. ASSUME NEW k \in 1..n, k - 1 \in P PROVE k \in P
  <2>1. k - 1 \in Nat /\ (k - 1) + 1 = k /\ k \in 0..n
    OBVIOUS
  <2>2. Ball(S, direction, k) = Ball(S, direction, k - 1) \union Hop(Ball(S, direction, k - 1), direction)
    BY <2>1, BallGrows
  <2>3. \A s \in S : Ball({s}, direction, k) = Ball({s}, direction, k - 1) \union Hop(Ball({s}, direction, k - 1), direction)
    <3> TAKE s \in S
    <3>1. {s} \in SUBSET Symbols
      OBVIOUS
    <3> QED
      BY <2>1, <3>1, BallGrows
  <2>4. \A v : v \in Ball(S, direction, k - 1) <=> \E s \in S : v \in Ball({s}, direction, k - 1)
    BY <1>2
  <2>5. \A v : v \in Hop(Ball(S, direction, k - 1), direction)
               <=> \E s \in S : v \in Hop(Ball({s}, direction, k - 1), direction)
    BY <2>4 DEF Hop
  <2> QED
    BY <2>1, <2>2, <2>3, <2>4, <2>5
<1>3. P = 0..n
  <2>1. P \subseteq 0..n
    OBVIOUS
  <2> HIDE DEF P
  <2> QED
    BY <1>1, <1>2, <2>1, Stepwise
<1>4. n \in P
  <2>1. n \in 0..n
    OBVIOUS
  <2> HIDE DEF P
  <2> QED
    BY <1>3, <2>1
<1> QED
  BY <1>4

LEMMA ReachOfEach ==
    ASSUME calls \subseteq Sites, TraversalTypeOK
    PROVE  /\ \A e : e \in InReach <=> \E j \in 1..Len(ask.starts) : e \in ReachOf(ask.starts[j])
           /\ IsFiniteSet(calls) /\ IsFiniteSet(InReach) /\ InReach \subseteq calls
<1>1. ask.starts \in Seq(Symbols) /\ Depth - 1 \in Nat
  BY AskParts
<1>2. ToSet(ask.starts) = {ask.starts[j] : j \in 1..Len(ask.starts)} /\ ToSet(ask.starts) \in SUBSET Symbols
  BY <1>1 DEF ToSet
<1>3. \A v : v \in Ball(ToSet(ask.starts), ask.direction, Depth - 1)
             <=> \E s \in ToSet(ask.starts) : v \in Around(s, Depth - 1)
  BY <1>1, <1>2, BallOfEach DEF Around
<1>4. \A e : e \in InReach <=> \E s \in ToSet(ask.starts) : e \in ReachOf(s)
  BY <1>3 DEF InReach, ReachOf
<1>5. IsFiniteSet(calls) /\ InReach \subseteq calls
  BY GraphAssumption, FS_Subset DEF InReach
<1> QED
  BY <1>2, <1>4, <1>5, FS_Subset

LEMMA EdgesTogether ==
    ASSUME NEW T, NEW rows \in Seq(T), NEW more \in Seq(T)
    PROVE  /\ rows \o more \in Seq(T)
           /\ EdgesIn(rows \o more) = EdgesIn(rows) \union EdgesIn(more)
           /\ HasMarker(rows \o more) <=> HasMarker(rows) \/ HasMarker(more)
<1>1. PICK n, m : n = Len(rows) /\ m = Len(more)
  OBVIOUS
<1>2. /\ rows \o more \in Seq(T) /\ n \in Nat /\ m \in Nat
      /\ DOMAIN rows = 1..n /\ DOMAIN more = 1..m /\ DOMAIN (rows \o more) = 1..(n + m)
      /\ \A i \in 1..n : (rows \o more)[i] = rows[i]
      /\ \A i \in 1..m : (rows \o more)[n + i] = more[i]
  BY <1>1
<1> DEFINE both == rows \o more
<1> HIDE DEF both
<1>3. /\ DOMAIN both = 1..(n + m)
      /\ \A i \in 1..n : i \in 1..(n + m) /\ both[i] = rows[i]
      /\ \A i \in 1..m : n + i \in 1..(n + m) /\ both[n + i] = more[i]
      /\ \A i \in 1..(n + m) : i \in 1..n \/ \E j \in 1..m : i = n + j
  <2>1. \A i \in 1..n : i \in 1..(n + m)
    BY <1>2
  <2>2. \A i \in 1..m : n + i \in 1..(n + m)
    BY <1>2
  <2>3. ASSUME NEW i \in 1..(n + m), i \notin 1..n PROVE \E j \in 1..m : i = n + j
    <3>1. i - n \in 1..m /\ i = n + (i - n)
      BY <1>2, <2>3
    <3> QED
      BY <3>1
  <2> QED
    BY <1>2, <2>1, <2>2, <2>3 DEF both
<1>4. \A i \in DOMAIN rows : i \in DOMAIN both /\ both[i] = rows[i]
  BY <1>2, <1>3
<1>5. \A i \in DOMAIN more : n + i \in DOMAIN both /\ both[n + i] = more[i]
  BY <1>2, <1>3
<1>6. \A i \in DOMAIN both : \/ i \in DOMAIN rows /\ both[i] = rows[i]
                             \/ \E j \in DOMAIN more : both[i] = more[j]
  <2> TAKE i \in DOMAIN both
  <2>1. CASE i \in 1..n
    BY <1>2, <1>4, <2>1
  <2>2. ASSUME NEW j \in 1..m, i = n + j PROVE \E k \in DOMAIN more : both[i] = more[k]
    BY <1>2, <1>3, <2>2
  <2> QED
    BY <1>3, <2>1, <2>2
<1>7. EdgesIn(both) = EdgesIn(rows) \union EdgesIn(more)
  <2>1. EdgesIn(rows) \subseteq EdgesIn(both)
    <3> SUFFICES ASSUME NEW i \in DOMAIN rows, ~IsMarker(rows[i]) PROVE rows[i].edge \in EdgesIn(both)
      BY DEF EdgesIn
    <3> QED
      BY <1>4 DEF EdgesIn
  <2>2. EdgesIn(more) \subseteq EdgesIn(both)
    <3> SUFFICES ASSUME NEW i \in DOMAIN more, ~IsMarker(more[i]) PROVE more[i].edge \in EdgesIn(both)
      BY DEF EdgesIn
    <3> QED
      BY <1>5 DEF EdgesIn
  <2>3. EdgesIn(both) \subseteq EdgesIn(rows) \union EdgesIn(more)
    <3> SUFFICES ASSUME NEW i \in DOMAIN both, ~IsMarker(both[i])
                 PROVE  both[i].edge \in EdgesIn(rows) \union EdgesIn(more)
      BY DEF EdgesIn
    <3> QED
      BY <1>6 DEF EdgesIn
  <2> QED
    BY <2>1, <2>2, <2>3
<1>8. HasMarker(both) <=> HasMarker(rows) \/ HasMarker(more)
  <2>1. HasMarker(rows) => HasMarker(both)
    BY <1>4 DEF HasMarker
  <2>2. HasMarker(more) => HasMarker(both)
    BY <1>5 DEF HasMarker
  <2>3. HasMarker(both) => HasMarker(rows) \/ HasMarker(more)
    BY <1>6 DEF HasMarker
  <2> QED
    BY <2>1, <2>2, <2>3
<1> QED
  BY <1>2, <1>7, <1>8 DEF both

\* What one walk adds.
LEMMA WalkBrings ==
    ASSUME calls \subseteq Sites, TraversalTypeOK, NEW rows \in Seq(Rows), NEW s \in Symbols, WalkOf(rows, s)
    PROVE  /\ EdgesIn(rows) \subseteq ReachOf(s)
           /\ ~HasMarker(rows) => ReachOf(s) \subseteq EdgesIn(rows)
           /\ HasMarker(rows) => Cardinality(EdgesIn(rows)) >= Cap /\ Cardinality(ReachOf(s)) > Cap
<1>1. Depth \in Nat /\ Depth - 1 \in Nat /\ Cap \in Nat /\ DOMAIN rows = 1..Len(rows) /\ Len(rows) \in Nat
  BY AskParts
<1>2. EdgesIn(rows) \subseteq ReachOf(s)
  <2> SUFFICES ASSUME NEW i \in DOMAIN rows, ~IsMarker(rows[i]) PROVE rows[i].edge \in ReachOf(s)
    BY DEF EdgesIn
  <2>1. /\ rows[i].edge \in calls /\ rows[i].hops \in 1..Depth
        /\ AtLevel(s, Near(rows[i].edge, ask.direction), rows[i].hops - 1)
    BY DEF WalkOf
  <2>2. rows[i].hops - 1 \in 0..(Depth - 1)
    BY <1>1, <2>1
  <2>3. Near(rows[i].edge, ask.direction) \in Around(s, Depth - 1)
    BY <1>1, <2>1, <2>2, AroundGrows DEF AtLevel
  <2> QED
    BY <2>1, <2>3 DEF ReachOf
<1>3. ASSUME ~HasMarker(rows) PROVE ReachOf(s) \subseteq EdgesIn(rows)
  <2>1. ~(Len(rows) = Cap + 1 /\ IsMarker(rows[Cap + 1]))
    <3> SUFFICES ASSUME Len(rows) = Cap + 1 PROVE Cap + 1 \in DOMAIN rows
      BY <1>3 DEF HasMarker
    <3> QED
      BY <1>1
  <2>2. \A e \in ReachOf(s) : Rowed(rows, e)
    BY <2>1 DEF WalkOf
  <2> QED
    BY <1>3, <2>2 DEF Rowed, EdgesIn, HasMarker
<1>4. ASSUME HasMarker(rows) PROVE Cardinality(EdgesIn(rows)) >= Cap /\ Cardinality(ReachOf(s)) > Cap
  <2>1. /\ Len(rows) = Cap + 1 /\ \A i \in 1..Cap : i \in DOMAIN rows /\ ~IsMarker(rows[i])
        /\ \E e \in ReachOf(s) : ~Rowed(rows, e)
    <3>1. ~\A i \in DOMAIN rows : ~IsMarker(rows[i])
      BY <1>4 DEF HasMarker
    <3>2. Len(rows) = Cap + 1 /\ (\A i \in 1..Cap : ~IsMarker(rows[i])) /\ \E e \in ReachOf(s) : ~Rowed(rows, e)
      BY <3>1 DEF WalkOf
    <3> QED
      BY <1>1, <3>2
  <2>2. \A i, j \in 1..Cap : i < j => rows[i].edge # rows[j].edge
    BY <2>1 DEF WalkOf, RowsRise
  <2> DEFINE first == {rows[i].edge : i \in 1..Cap}
             f == [i \in 1..Cap |-> rows[i].edge]
  <2>3. IsFiniteSet(first) /\ Cardinality(first) = Cap
    <3>1. f \in [1..Cap -> first] /\ (\A i \in 1..Cap : f[i] = rows[i].edge) /\ \A e \in first : \E i \in 1..Cap : f[i] = e
      OBVIOUS
    <3>2. \A i, j \in 1..Cap : f[i] = f[j] => i = j
      BY <1>1, <2>2, <3>1
    <3>3. IsFiniteSet(1..Cap) /\ Cardinality(1..Cap) = Cap
      BY <1>1, CountTo
    <3> HIDE DEF f, first
    <3> QED
      BY <3>1, <3>2, <3>3, SameSize
  <2>4. first \subseteq EdgesIn(rows)
    BY <2>1 DEF EdgesIn
  <2>5. IsFiniteSet(ReachOf(s)) /\ IsFiniteSet(EdgesIn(rows))
    <3>1. IsFiniteSet(calls)
      BY ReachOfEach
    <3> QED
      BY <1>2, <3>1, FS_Subset DEF ReachOf
  <2>6. Cardinality(EdgesIn(rows)) \in Nat /\ Cardinality(ReachOf(s)) \in Nat
    BY <2>5, FS_CardinalityType
  <2>7. Cardinality(EdgesIn(rows)) >= Cap
    BY <1>1, <2>3, <2>4, <2>5, <2>6, FS_Subset
  <2>8. EdgesIn(rows) # ReachOf(s)
    BY <2>1 DEF EdgesIn, Rowed
  <2>9. Cardinality(EdgesIn(rows)) < Cardinality(ReachOf(s))
    <3>1. Cardinality(EdgesIn(rows)) <= Cardinality(ReachOf(s)) /\ Cardinality(EdgesIn(rows)) # Cardinality(ReachOf(s))
      BY <1>2, <2>5, <2>8, FS_Subset
    <3> QED
      BY <2>6, <3>1
  <2> QED
    BY <1>1, <2>6, <2>7, <2>9
<1> QED
  BY <1>2, <1>3, <1>4

LEMMA FinishKeeps ==
    ASSUME calls \subseteq Sites, TraversalTypeOK, LeftAreLast, WalkIsSound, AnswerIsSound, calls' = calls, FinishWalk
    PROVE  TraversalTypeOK' /\ LeftAreLast' /\ AnswerIsSound' /\ walk'.pc = "next" /\ ask' = ask
<1>1. /\ walk.pc = "walk" /\ walk.fan = {} /\ walk.queue = <<>>
      /\ answer' = answer \o walk.rows /\ walk' = NoWalk /\ ask' = ask /\ walk'.pc = "next"
  BY DEF FinishWalk, NoWalk
<1>2. /\ walk.rows \in Seq(Rows) /\ answer \in Seq(Rows) /\ ask.starts \in Seq(Symbols) /\ ask.left \in Seq(Symbols)
      /\ Cap \in Nat
  BY AskParts, WalkParts
<1>3. /\ Started \in 1..Len(ask.starts) /\ Started >= 1 /\ Started \in Nat /\ From \in Symbols
      /\ ask.starts[Started] = From
  <2>1. Len(ask.left) \in Nat /\ Len(ask.starts) \in Nat /\ Started >= 1
    BY <1>1, <1>2 DEF WalkIsSound
  <2>2. Started \in 1..Len(ask.starts) /\ Started \in Nat
    <3>1. Started = Len(ask.starts) - Len(ask.left)
      BY DEF Started
    <3>2. Len(ask.left) <= Len(ask.starts)
      BY DEF LeftAreLast
    <3> HIDE DEF Started
    <3>3. PICK a, b, k : a = Len(ask.left) /\ b = Len(ask.starts) /\ k = Started
      OBVIOUS
    <3>4. a \in Nat /\ b \in Nat /\ k >= 1 /\ k = b - a
      BY <2>1, <3>1, <3>3
    <3>5. k \in 1..b /\ k \in Nat
      BY <3>4
    <3> QED
      BY <3>3, <3>5
  <2> QED
    BY <1>2, <2>1, <2>2 DEF From
<1>4. WalkOf(walk.rows, From)
  BY <1>1, <1>3, WalkIsWhole DEF WalkIsSound
<1>5. /\ answer' \in Seq(Rows)
      /\ EdgesIn(answer') = EdgesIn(answer) \union EdgesIn(walk.rows)
      /\ HasMarker(answer') <=> HasMarker(answer) \/ HasMarker(walk.rows)
  BY <1>1, <1>2, EdgesTogether
<1>6. /\ EdgesIn(walk.rows) \subseteq ReachOf(From)
      /\ ~HasMarker(walk.rows) => ReachOf(From) \subseteq EdgesIn(walk.rows)
      /\ HasMarker(walk.rows) => Cardinality(EdgesIn(walk.rows)) >= Cap /\ Cardinality(ReachOf(From)) > Cap
  BY <1>2, <1>3, <1>4, WalkBrings
<1>7. /\ EdgesIn(answer) \subseteq InReach
      /\ HasMarker(answer) => Cardinality(EdgesIn(answer)) >= Cap /\ Cardinality(InReach) > Cap
      /\ ~HasMarker(answer) => \A j \in 1..(Started - 1) : ReachOf(ask.starts[j]) \subseteq EdgesIn(answer)
      /\ Started - 1 = 0 => answer = <<>>
  BY <1>1 DEF AnswerIsSound, Finished
<1>8. ReachOf(From) \subseteq InReach
  BY <1>3, ReachOfEach
<1>9. EdgesIn(answer') \subseteq InReach
  BY <1>5, <1>6, <1>7, <1>8
<1>10. /\ IsFiniteSet(EdgesIn(answer')) /\ IsFiniteSet(InReach)
       /\ Cardinality(EdgesIn(answer')) \in Nat /\ Cardinality(InReach) \in Nat
       /\ \A S \in SUBSET EdgesIn(answer') : Cardinality(S) \in Nat /\ Cardinality(S) <= Cardinality(EdgesIn(answer'))
       /\ Cardinality(ReachOf(From)) \in Nat /\ Cardinality(ReachOf(From)) <= Cardinality(InReach)
  <2>1. IsFiniteSet(InReach)
    BY ReachOfEach
  <2>2. IsFiniteSet(EdgesIn(answer'))
    BY <1>9, <2>1, FS_Subset
  <2> QED
    BY <1>8, <2>1, <2>2, FS_Subset, FS_CardinalityType
<1>11. HasMarker(answer') => Cardinality(EdgesIn(answer')) >= Cap /\ Cardinality(InReach) > Cap
  <2>1. CASE HasMarker(answer)
    <3>1. Cardinality(EdgesIn(answer)) \in Nat /\ Cardinality(EdgesIn(answer)) <= Cardinality(EdgesIn(answer'))
      BY <1>5, <1>10
    <3> QED
      BY <1>2, <1>7, <1>10, <2>1, <3>1
  <2>2. CASE HasMarker(walk.rows)
    <3>1. Cardinality(EdgesIn(walk.rows)) \in Nat /\ Cardinality(EdgesIn(walk.rows)) <= Cardinality(EdgesIn(answer'))
      BY <1>5, <1>10
    <3> QED
      BY <1>2, <1>6, <1>10, <2>2, <3>1
  <2> QED
    BY <1>5, <2>1, <2>2
<1>12. ASSUME ~HasMarker(answer'), NEW j \in 1..Started PROVE ReachOf(ask.starts[j]) \subseteq EdgesIn(answer')
  <2>1. j \in 1..(Started - 1) \/ j = Started
    BY <1>3
  <2>2. CASE j \in 1..(Started - 1)
    BY <1>5, <1>7, <1>12, <2>2
  <2>3. CASE j = Started
    BY <1>3, <1>5, <1>6, <1>12, <2>3
  <2> QED
    BY <2>1, <2>2, <2>3
<1>13. ASSUME Started = 1 PROVE WalkOf(answer', ask.starts[1])
  <2>1. answer = <<>>
    BY <1>7, <1>13
  <2>2. answer' = walk.rows
    BY <1>1, <1>2, <2>1
  <2> QED
    BY <1>3, <1>4, <1>13, <2>2
<1>14. Finished' = Started /\ Started' = Started
  BY <1>1 DEF Finished, Started
<1>15. AnswerIsSound'
  <2>1. InReach' = InReach /\ (\A s : ReachOf(s)' = ReachOf(s)) /\ \A rows, s : WalkOf(rows, s)' <=> WalkOf(rows, s)
    BY <1>1, SameAsk
  <2>2. EdgesIn(answer)' = EdgesIn(answer') /\ (HasMarker(answer)' <=> HasMarker(answer'))
    BY DEF EdgesIn, HasMarker, IsMarker
  <2>3. \A j : ReachOf(ask.starts[j])' = ReachOf(ask.starts[j])
    BY <1>1, <2>1
  <2>4. WalkOf(answer, ask.starts[1])' <=> WalkOf(answer', ask.starts[1])
    BY <1>1, <2>1
  <2> QED
    BY <1>1, <1>3, <1>9, <1>11, <1>12, <1>13, <1>14, <2>1, <2>2, <2>3, <2>4 DEF AnswerIsSound
<1>16. TraversalTypeOK'
  <2>1. NoWalk \in [pc : {"idle", "next", "walk", "done"}, at : Place \union {Nowhere}, fan : SUBSET calls',
                 queue : Seq(Place), visited : SUBSET Symbols, rows : Seq(Rows)]
    <3>1. <<>> \in Seq(Place) /\ <<>> \in Seq(Rows)
      OBVIOUS
    <3> QED
      BY <3>1 DEF NoWalk
  <2> QED
    BY <1>1, <1>5, <2>1 DEF TraversalTypeOK, Place, Rows, Nowhere
<1>17. LeftAreLast'
  BY <1>1, <1>14 DEF LeftAreLast
<1> QED
  BY <1>1, <1>15, <1>16, <1>17

-----------------------------------------------------------------------------
(* Walks.  The answer.                                                     *)

EdgesDiffer(rows) == \A i, j \in DOMAIN rows : i < j => rows[i].edge # rows[j].edge

LEMMA ChosenRows ==
    ASSUME NEW rows \in Seq(Rows), NEW P, NEW r, r = EntriesAt(rows, P)
    PROVE  /\ r \in Seq(Rows)
           /\ \A k \in DOMAIN r : \E i \in DOMAIN rows : i \in P /\ r[k] = rows[i]
           /\ \A i \in DOMAIN rows : i \in P => \E k \in DOMAIN r : r[k] = rows[i]
           /\ RowsRise(rows) => RowsRise(r)
           /\ EdgesDiffer(rows) => EdgesDiffer(r)
           /\ (\A i, j \in DOMAIN rows : i < j /\ i \in P /\ j \in P => rows[i].edge # rows[j].edge) => EdgesDiffer(r)
           /\ Len(r) <= Len(rows)
           /\ (\E i \in DOMAIN rows : i \notin P) => Len(r) < Len(rows)
<1>1. PICK f : r \in Seq(Rows) /\ IsChoice(f, r, rows, P, Len(rows))
  BY EntriesAreChosen
<1>2. PICK n, m : n = Len(rows) /\ m = Len(r)
  OBVIOUS
<1>3. DOMAIN rows = 1..n /\ DOMAIN r = 1..m /\ n \in Nat /\ m \in Nat
  BY <1>1, <1>2
<1>4. /\ \A k \in 1..m : f[k] \in 1..n /\ f[k] \in P /\ r[k] = rows[f[k]]
      /\ \A j, k \in 1..m : j < k => f[j] < f[k]
      /\ \A i \in 1..n : i \in P => \E k \in 1..m : f[k] = i
      /\ m <= n
      /\ (\E i \in 1..n : i \notin P) => m < n
  BY <1>1, <1>2 DEF IsChoice
<1>5. \A k \in DOMAIN r : \E i \in DOMAIN rows : i \in P /\ r[k] = rows[i]
  BY <1>3, <1>4
<1>6. \A i \in DOMAIN rows : i \in P => \E k \in DOMAIN r : r[k] = rows[i]
  BY <1>3, <1>4
<1>7. ASSUME RowsRise(rows) PROVE RowsRise(r)
  BY <1>3, <1>4, <1>7 DEF RowsRise
<1>8. ASSUME EdgesDiffer(rows) PROVE EdgesDiffer(r)
  BY <1>3, <1>4, <1>8 DEF EdgesDiffer
<1>9. ASSUME \A i, j \in DOMAIN rows : i < j /\ i \in P /\ j \in P => rows[i].edge # rows[j].edge
      PROVE  EdgesDiffer(r)
  BY <1>3, <1>4, <1>9 DEF EdgesDiffer
<1> QED
  BY <1>1, <1>2, <1>3, <1>4, <1>5, <1>6, <1>7, <1>8, <1>9

\* The first row of each edge stays.
LEMMA DedupeKeeps ==
    ASSUME NEW rows \in Seq(Rows), NEW r, r = DedupeEdges(rows)
    PROVE  /\ r \in Seq(Rows) /\ EdgesDiffer(r) /\ (RowsRise(rows) => RowsRise(r))
           /\ EdgesIn(r) = EdgesIn(rows) /\ (HasMarker(r) <=> HasMarker(rows))
           /\ \A k \in DOMAIN r : \E i \in DOMAIN rows : r[k] = rows[i]
<1> DEFINE P == {i \in DOMAIN rows : \A j \in 1..(i - 1) : rows[j].edge # rows[i].edge}
<1>1. r = EntriesAt(rows, P)
  BY DEF DedupeEdges
<1>2. DOMAIN rows = 1..Len(rows) /\ Len(rows) \in Nat
  OBVIOUS
<1>3. \A i, j \in DOMAIN rows : i < j /\ i \in P /\ j \in P => rows[i].edge # rows[j].edge
  <2> SUFFICES ASSUME NEW i \in DOMAIN rows, NEW j \in DOMAIN rows, i < j, j \in P PROVE rows[i].edge # rows[j].edge
    OBVIOUS
  <2>1. i \in 1..(j - 1)
    BY <1>2
  <2> QED
    BY <2>1
<1>4. ASSUME NEW i \in DOMAIN rows PROVE \E m \in DOMAIN rows : m \in P /\ rows[m].edge = rows[i].edge
  <2> DEFINE T == {m \in DOMAIN rows : rows[m].edge = rows[i].edge}
  <2>1. T \subseteq Nat /\ i \in T
    BY <1>2
  <2>2. PICK m \in T : \A k \in T : m <= k
    BY <2>1, LeastNumber
  <2>3. ASSUME NEW j \in 1..(m - 1) PROVE rows[j].edge # rows[m].edge
    <3>1. j \in DOMAIN rows /\ ~(m <= j)
      BY <1>2, <2>2
    <3> QED
      BY <2>2, <3>1
  <2> QED
    BY <2>2, <2>3
<1> HIDE DEF P
<1>5. /\ r \in Seq(Rows) /\ EdgesDiffer(r) /\ (RowsRise(rows) => RowsRise(r))
      /\ \A k \in DOMAIN r : \E i \in DOMAIN rows : r[k] = rows[i]
      /\ \A i \in DOMAIN rows : i \in P => \E k \in DOMAIN r : r[k] = rows[i]
  BY <1>1, <1>3, ChosenRows
<1>6. ASSUME NEW i \in DOMAIN rows
      PROVE  \E k \in DOMAIN r : r[k].edge = rows[i].edge /\ (IsMarker(r[k]) <=> IsMarker(rows[i]))
  <2>1. PICK m \in DOMAIN rows : m \in P /\ rows[m].edge = rows[i].edge
    BY <1>4
  <2>2. PICK k \in DOMAIN r : r[k] = rows[m]
    BY <1>5, <2>1
  <2> QED
    BY <2>1, <2>2 DEF IsMarker
<1>7. EdgesIn(r) = EdgesIn(rows)
  <2>1. EdgesIn(r) \subseteq EdgesIn(rows)
    <3> SUFFICES ASSUME NEW k \in DOMAIN r, ~IsMarker(r[k]) PROVE r[k].edge \in EdgesIn(rows)
      BY DEF EdgesIn
    <3> QED
      BY <1>5 DEF EdgesIn
  <2>2. EdgesIn(rows) \subseteq EdgesIn(r)
    <3> SUFFICES ASSUME NEW i \in DOMAIN rows, ~IsMarker(rows[i]) PROVE rows[i].edge \in EdgesIn(r)
      BY DEF EdgesIn
    <3> QED
      BY <1>6 DEF EdgesIn
  <2> QED
    BY <2>1, <2>2
<1>8. HasMarker(r) <=> HasMarker(rows)
  <2>1. HasMarker(r) => HasMarker(rows)
    BY <1>5 DEF HasMarker
  <2>2. HasMarker(rows) => HasMarker(r)
    BY <1>6 DEF HasMarker
  <2> QED
    BY <2>1, <2>2
<1> QED
  BY <1>5, <1>7, <1>8

LEMMA RealRowsKeep ==
    ASSUME NEW rows \in Seq(Rows), EdgesDiffer(rows), NEW r, r = RealRows(rows)
    PROVE  /\ r \in Seq(Rows) /\ EdgesDiffer(r) /\ (RowsRise(rows) => RowsRise(r))
           /\ EdgesIn(r) = EdgesIn(rows)
           /\ \A k \in DOMAIN r : ~IsMarker(r[k]) /\ \E i \in DOMAIN rows : r[k] = rows[i]
           /\ Len(r) < Len(rows) <=> HasMarker(rows)
<1> DEFINE P == {i \in DOMAIN rows : ~IsMarker(rows[i])}
<1>1. r = EntriesAt(rows, P)
  BY DEF RealRows
<1>2. \A i \in DOMAIN rows : i \in P <=> ~IsMarker(rows[i])
  OBVIOUS
<1> HIDE DEF P
<1>3. /\ r \in Seq(Rows) /\ EdgesDiffer(r) /\ (RowsRise(rows) => RowsRise(r))
      /\ \A k \in DOMAIN r : \E i \in DOMAIN rows : i \in P /\ r[k] = rows[i]
      /\ \A i \in DOMAIN rows : i \in P => \E k \in DOMAIN r : r[k] = rows[i]
      /\ (\E i \in DOMAIN rows : i \notin P) => Len(r) < Len(rows)
  BY <1>1, ChosenRows
<1>4. \A k \in DOMAIN r : ~IsMarker(r[k]) /\ \E i \in DOMAIN rows : r[k] = rows[i]
  BY <1>2, <1>3
<1>5. EdgesIn(r) = EdgesIn(rows)
  <2>1. EdgesIn(r) \subseteq EdgesIn(rows)
    BY <1>4 DEF EdgesIn
  <2>2. EdgesIn(rows) \subseteq EdgesIn(r)
    <3> SUFFICES ASSUME NEW i \in DOMAIN rows, ~IsMarker(rows[i]) PROVE rows[i].edge \in EdgesIn(r)
      BY DEF EdgesIn
    <3>1. PICK k \in DOMAIN r : r[k] = rows[i]
      BY <1>2, <1>3
    <3> QED
      BY <1>4, <3>1 DEF EdgesIn
  <2> QED
    BY <2>1, <2>2
<1>6. ASSUME HasMarker(rows) PROVE Len(r) < Len(rows)
  BY <1>2, <1>3, <1>6 DEF HasMarker
<1>7. ASSUME ~HasMarker(rows) PROVE ~(Len(r) < Len(rows))
  <2>1. \A i \in DOMAIN rows : i \in P
    BY <1>2, <1>7 DEF HasMarker
  <2>2. Len(rows) \in 0..Len(rows) /\ \A i \in 1..Len(rows) : i \in P <=> i <= Len(rows)
    BY <2>1
  <2>3. r = SubSeq(rows, 1, Len(rows))
    BY <1>1, <2>2, EntriesOfFirst
  <2>4. SubSeq(rows, 1, Len(rows)) = rows
    OBVIOUS
  <2>5. Len(rows) \in Nat
    OBVIOUS
  <2> QED
    BY <2>3, <2>4, <2>5
<1> QED
  BY <1>3, <1>4, <1>5, <1>6, <1>7

\* The first m of some rows that are edges, and a marker after them.
First(rows, m) == SubSeq(rows, 1, m)
WithMarker(rows, m, row) == Append(SubSeq(rows, 1, m), row)

LEMMA CutParts ==
    ASSUME NEW rows \in Seq(Rows), ~HasMarker(rows), NEW m \in 0..Len(rows), NEW row \in Rows, IsMarker(row)
    PROVE  /\ First(rows, m) \in Seq(Rows) /\ Len(First(rows, m)) = m /\ DOMAIN First(rows, m) = 1..m
           /\ \A i \in 1..m : First(rows, m)[i] = rows[i]
           /\ RealRows(First(rows, m)) = First(rows, m) /\ ~HasMarker(First(rows, m))
           /\ WithMarker(rows, m, row) \in Seq(Rows) /\ Len(WithMarker(rows, m, row)) = m + 1
           /\ DOMAIN WithMarker(rows, m, row) = 1..(m + 1)
           /\ \A i \in 1..m : WithMarker(rows, m, row)[i] = rows[i]
           /\ RealRows(WithMarker(rows, m, row)) = First(rows, m)
           /\ HasMarker(WithMarker(rows, m, row)) /\ IsMarker(WithMarker(rows, m, row)[m + 1])
<1>0. PICK cut, marked : /\ cut = First(rows, m) /\ cut = SubSeq(rows, 1, m)
                         /\ marked = WithMarker(rows, m, row) /\ marked = Append(cut, row)
  BY DEF First, WithMarker
<1>1. PICK n : n = Len(rows)
  OBVIOUS
<1>2. n \in Nat /\ m \in Nat /\ m <= n /\ DOMAIN rows = 1..n
  BY <1>1
<1>3. cut \in Seq(Rows) /\ Len(cut) = m /\ DOMAIN cut = 1..m /\ \A i \in 1..m : cut[i] = rows[i]
  BY <1>0, <1>1, <1>2
<1>4. /\ marked \in Seq(Rows) /\ Len(marked) = m + 1 /\ DOMAIN marked = 1..(m + 1)
      /\ \A i \in 1..m : marked[i] = cut[i]
      /\ marked[m + 1] = row
  BY <1>0, <1>2, <1>3
<1>5. \A i \in 1..m : ~IsMarker(rows[i]) /\ i \in 1..(m + 1)
  BY <1>2 DEF HasMarker
<1>6. RealRows(cut) = cut
  <2> DEFINE P == {i \in DOMAIN cut : ~IsMarker(cut[i])}
  <2>1. m \in 0..Len(cut) /\ \A i \in 1..Len(cut) : i \in P <=> i <= m
    BY <1>2, <1>3, <1>5
  <2>2. RealRows(cut) = EntriesAt(cut, P)
    BY DEF RealRows
  <2> HIDE DEF P
  <2>3. EntriesAt(cut, P) = SubSeq(cut, 1, m)
    BY <1>3, <2>1, EntriesOfFirst
  <2>4. SubSeq(cut, 1, m) = cut
    BY <1>2, <1>3
  <2> QED
    BY <2>2, <2>3, <2>4
<1>7. RealRows(marked) = cut
  <2> DEFINE P == {i \in DOMAIN marked : ~IsMarker(marked[i])}
  <2>1. ASSUME NEW i \in 1..(m + 1) PROVE i \in P <=> i <= m
    <3>1. CASE i \in 1..m
      BY <1>2, <1>3, <1>4, <1>5, <3>1
    <3>2. CASE i = m + 1
      BY <1>2, <1>4, <3>2
    <3> QED
      BY <1>2, <3>1, <3>2
  <2>2. RealRows(marked) = EntriesAt(marked, P)
    BY DEF RealRows
  <2> HIDE DEF P
  <2>3. m \in 0..Len(marked) /\ \A i \in 1..Len(marked) : i \in P <=> i <= m
    BY <1>2, <1>4, <2>1
  <2>4. EntriesAt(marked, P) = SubSeq(marked, 1, m)
    BY <1>4, <2>3, EntriesOfFirst
  <2>5. SubSeq(marked, 1, m) = cut
    BY <1>2, <1>3, <1>4
  <2> QED
    BY <2>2, <2>4, <2>5
<1>8. ~HasMarker(cut)
  BY <1>3, <1>5 DEF HasMarker
<1>9. HasMarker(marked) /\ IsMarker(marked[m + 1])
  <2>1. m + 1 \in 1..(m + 1)
    BY <1>2
  <2> QED
    BY <1>4, <2>1 DEF HasMarker
<1> QED
  BY <1>0, <1>3, <1>4, <1>6, <1>7, <1>8, <1>9

LEMMA MaxHopsType ==
    ASSUME NEW rows \in Seq(Rows), MaxDepth \in Nat, MaxDepth >= 1
    PROVE  MaxHops(rows) \in 1..MaxDepth
<1> DEFINE T == {rows[i].hops : i \in DOMAIN rows}
           U == {MaxDepth - x : x \in T}
<1>1. CASE rows = <<>>
  BY <1>1 DEF MaxHops
<1>2. CASE rows # <<>>
  <2>1. T \subseteq 1..MaxDepth
    <3> SUFFICES ASSUME NEW i \in DOMAIN rows PROVE rows[i].hops \in 1..MaxDepth
      OBVIOUS
    <3>1. rows[i] \in Rows
      OBVIOUS
    <3> QED
      BY <3>1 DEF Rows
  <2>2. T # {}
    <3>1. 1 \in DOMAIN rows
      BY <1>2
    <3> QED
      BY <3>1
  <2> HIDE DEF T
  <2>3. U \subseteq Nat /\ U # {}
    <3>1. \A x \in T : MaxDepth - x \in Nat
      <4> TAKE x \in T
      <4>1. x \in 1..MaxDepth
        BY <2>1
      <4> QED
        BY <4>1
    <3> QED
      BY <2>2, <3>1
  <2>4. PICK u \in U : \A k \in U : u <= k
    BY <2>3, LeastNumber
  <2>5. PICK x \in T : u = MaxDepth - x
    BY <2>4
  <2>6. \A y \in T : x >= y
    <3> TAKE y \in T
    <3>1. MaxDepth - x <= MaxDepth - y
      BY <2>4, <2>5
    <3>2. x \in 1..MaxDepth /\ y \in 1..MaxDepth
      BY <2>1
    <3> QED
      BY <3>1, <3>2
  <2>7. Max(T) \in T
    BY <2>6 DEF Max
  <2> QED
    BY <1>2, <2>1, <2>7 DEF MaxHops, T
<1> QED
  BY <1>1, <1>2

LEMMA LesserOfTwo ==
    ASSUME NEW a \in Nat, NEW b \in Nat
    PROVE  Min({a, b}) = IF a <= b THEN a ELSE b
  BY MinOfTwo

\* What cap_direction_edges and limit_edges leave of the rows: the first of those that are
\* edges, and a marker if there were more of them, or one among them.
IsCut(rows, real, limit, result) ==
    \E m \in 0..Len(real), row \in Rows :
        /\ IsMarker(row)
        /\ m <= Cap /\ m <= limit /\ (m = Cap \/ m = limit \/ m = Len(real))
        /\ \/ (HasMarker(rows) \/ m < Len(real)) /\ result = Append(SubSeq(real, 1, m), row)
           \/ ~HasMarker(rows) /\ m = Len(real) /\ result = SubSeq(real, 1, m)

LEMMA CombinedIsCut ==
    ASSUME MaxDepth \in Nat, MaxDepth >= 1, Cap \in Nat, NEW rows \in Seq(Rows), EdgesDiffer(rows), NEW limit \in Nat
    PROVE  IsCut(rows, RealRows(rows), limit, LimitEdges(CapDirectionEdges(rows), limit))
<1>1. PICK real, n, c : real = RealRows(rows) /\ n = Len(real) /\ c = Min({Cap, n})
  OBVIOUS
<1>2. real \in Seq(Rows) /\ ~HasMarker(real) /\ (Len(real) < Len(rows) <=> HasMarker(rows))
  BY <1>1, RealRowsKeep DEF HasMarker
<1>3. n \in Nat /\ SubSeq(real, 1, n) = real
  BY <1>1, <1>2
<1>4. c \in Nat /\ c <= n /\ c <= Cap /\ (c = n \/ c = Cap) /\ c \in 0..n
  BY <1>1, <1>3, MinOfTwo
<1>5. \A h \in 1..MaxDepth : Marker(Truncated, h) \in Rows /\ IsMarker(Marker(Truncated, h))
  BY DEF Marker, Rows, IsMarker
<1>6. PICK capped : capped = CapDirectionEdges(rows)
  OBVIOUS
<1>7. capped = IF n > Cap \/ HasMarker(rows) THEN Append(SubSeq(real, 1, c), Marker(Truncated, MaxHops(rows))) ELSE real
  BY <1>1, <1>2, <1>6 DEF CapDirectionEdges
<1>8. PICK result : result = LimitEdges(capped, limit)
  OBVIOUS
<1>9. result = IF Len(RealRows(capped)) <= limit THEN capped
               ELSE Append(SubSeq(RealRows(capped), 1, limit), Marker(Truncated, MaxHops(capped)))
  BY <1>8 DEF LimitEdges
<1>10. \A m \in 0..n : m <= c => SubSeq(SubSeq(real, 1, c), 1, m) = SubSeq(real, 1, m)
  BY <1>1, <1>2, <1>3, <1>4
<1>11. PICK first : first = Marker(Truncated, MaxHops(rows))
  OBVIOUS
<1>12. first \in Rows /\ IsMarker(first)
  BY <1>5, <1>11, MaxHopsType
<1>13. CASE n > Cap \/ HasMarker(rows)
  <2>1. capped = Append(SubSeq(real, 1, c), first)
    BY <1>7, <1>11, <1>13
  <2>2. capped \in Seq(Rows) /\ RealRows(capped) = SubSeq(real, 1, c) /\ Len(SubSeq(real, 1, c)) = c
    <3>1. SubSeq(real, 1, c) = First(real, c) /\ capped = WithMarker(real, c, first)
      BY <2>1 DEF First, WithMarker
    <3>2. c \in 0..Len(real)
      BY <1>1, <1>4
    <3> QED
      BY <1>2, <1>12, <3>1, <3>2, CutParts
  <2>3. CASE c <= limit
    <3>1. result = Append(SubSeq(real, 1, c), first)
      BY <1>9, <2>1, <2>2, <2>3
    <3>2. HasMarker(rows) \/ c < n
      BY <1>3, <1>4, <1>13
    <3>3. IsCut(rows, real, limit, result)
      BY <1>1, <1>4, <1>12, <2>3, <3>1, <3>2 DEF IsCut
    <3> QED
      BY <1>1, <1>6, <1>8, <3>3
  <2>4. CASE ~(c <= limit)
    <3>1. PICK second : second = Marker(Truncated, MaxHops(capped))
      OBVIOUS
    <3>2. second \in Rows /\ IsMarker(second)
      BY <1>5, <2>2, <3>1, MaxHopsType
    <3>3. limit \in 0..n /\ limit <= c /\ limit < n /\ limit <= Cap
      BY <1>3, <1>4, <2>4
    <3>4. result = Append(SubSeq(real, 1, limit), second)
      BY <1>9, <1>10, <2>2, <2>4, <3>1, <3>3
    <3>5. IsCut(rows, real, limit, result)
      BY <1>1, <3>2, <3>3, <3>4 DEF IsCut
    <3> QED
      BY <1>1, <1>6, <1>8, <3>5
  <2> QED
    BY <2>3, <2>4
<1>14. CASE ~(n > Cap \/ HasMarker(rows))
  <2>1. capped = real /\ n <= Cap /\ ~HasMarker(rows)
    BY <1>3, <1>7, <1>14
  <2>2. RealRows(real) = real
    <3>1. n \in 0..Len(real)
      BY <1>1, <1>3
    <3>2. SubSeq(real, 1, n) = First(real, n)
      BY DEF First
    <3>3. RealRows(First(real, n)) = First(real, n)
      BY <1>2, <1>12, <3>1, CutParts
    <3> QED
      BY <1>3, <3>2, <3>3
  <2>3. CASE n <= limit
    <3>1. result = SubSeq(real, 1, n)
      BY <1>1, <1>3, <1>9, <2>1, <2>2, <2>3
    <3>2. IsCut(rows, real, limit, result)
      <4>1. n \in 0..Len(real)
        BY <1>1, <1>3
      <4> QED
        BY <1>1, <1>12, <2>1, <2>3, <3>1, <4>1 DEF IsCut
    <3> QED
      BY <1>1, <1>6, <1>8, <3>2
  <2>4. CASE ~(n <= limit)
    <3>1. PICK second : second = Marker(Truncated, MaxHops(capped))
      OBVIOUS
    <3>2. second \in Rows /\ IsMarker(second)
      BY <1>2, <1>5, <2>1, <3>1, MaxHopsType
    <3>3. limit \in 0..n /\ limit < n /\ limit <= Cap
      BY <1>3, <2>1, <2>4
    <3>4. result = Append(SubSeq(real, 1, limit), second)
      BY <1>1, <1>9, <2>1, <2>2, <2>4, <3>1
    <3>5. IsCut(rows, real, limit, result)
      BY <1>1, <3>2, <3>3, <3>4 DEF IsCut
    <3> QED
      BY <1>1, <1>6, <1>8, <3>5
  <2> QED
    BY <2>3, <2>4
<1> QED
  BY <1>13, <1>14

\* Rows that differ in their edges have as many of them as there are rows.
LEMMA EdgesOfFirst ==
    ASSUME NEW real \in Seq(Rows), EdgesDiffer(real), NEW m \in 0..Len(real)
    PROVE  /\ IsFiniteSet({real[i].edge : i \in 1..m}) /\ Cardinality({real[i].edge : i \in 1..m}) = m
<1> DEFINE first == {real[i].edge : i \in 1..m}
           f == [i \in 1..m |-> real[i].edge]
<1>1. m \in Nat /\ 1..m \subseteq DOMAIN real /\ \A i \in 1..m : i \in Nat
  BY SMT
<1>2. f \in [1..m -> first] /\ (\A i \in 1..m : f[i] = real[i].edge) /\ \A e \in first : \E i \in 1..m : f[i] = e
  OBVIOUS
<1>3. \A i, j \in 1..m : f[i] = f[j] => i = j
  <2> SUFFICES ASSUME NEW i \in 1..m, NEW j \in 1..m, i < j, f[i] = f[j] PROVE FALSE
    BY <1>1
  <2> QED
    BY <1>1, <1>2 DEF EdgesDiffer
<1>4. IsFiniteSet(1..m) /\ Cardinality(1..m) = m
  BY <1>1, CountTo
<1> HIDE DEF f, first
<1>5. IsFiniteSet(first) /\ Cardinality(first) = m
  BY <1>2, <1>3, <1>4, SameSize
<1> QED
  BY <1>5 DEF first

\* The answer to what some walks have brought.
ShowsFirst(result, real, m) ==
    /\ real \in Seq(Rows) /\ result \in Seq(Rows)
    /\ \A i \in 1..m : result[i] = real[i]
    /\ \A i \in DOMAIN result : i \in 1..m \/ IsMarker(result[i])
    /\ {r.edge : r \in ToSet(RealRows(result))} = {real[i].edge : i \in 1..m}
    /\ {real[i].edge : i \in 1..m} \subseteq InReach
    /\ HasMarker(result) <=> Cardinality(InReach) > Bound
    /\ Cardinality({real[i].edge : i \in 1..m}) = Min({Bound, Cardinality(InReach)})
    /\ Len(result) = m + (IF HasMarker(result) THEN 1 ELSE 0)
    /\ Cardinality({real[i].edge : i \in 1..m}) = m

LEMMA CutIsExact ==
    ASSUME calls \subseteq Sites, TraversalTypeOK, EdgesIn(answer) \subseteq InReach,
           HasMarker(answer) => Cardinality(EdgesIn(answer)) >= Cap /\ Cardinality(InReach) > Cap,
           ~HasMarker(answer) => InReach \subseteq EdgesIn(answer),
           NEW real, real = RealRows(DedupeEdges(answer)), NEW result, IsCut(DedupeEdges(answer), real, ask.limit, result)
    PROVE  \E m \in 0..Len(real) : ShowsFirst(result, real, m)
<1>1. /\ answer \in Seq(Rows) /\ ask.limit \in Nat /\ Cap \in Nat
  BY AskParts, WalkParts
<1>2. PICK rows : rows = DedupeEdges(answer)
  OBVIOUS
<1>3. /\ rows \in Seq(Rows) /\ EdgesDiffer(rows)
      /\ EdgesIn(rows) = EdgesIn(answer) /\ (HasMarker(rows) <=> HasMarker(answer))
  BY <1>1, <1>2, DedupeKeeps
<1>4. /\ real \in Seq(Rows) /\ EdgesDiffer(real) /\ EdgesIn(real) = EdgesIn(answer) /\ ~HasMarker(real)
  <2>1. /\ real \in Seq(Rows) /\ EdgesDiffer(real) /\ EdgesIn(real) = EdgesIn(rows)
        /\ \A k \in DOMAIN real : ~IsMarker(real[k])
    BY <1>2, <1>3, RealRowsKeep
  <2> QED
    BY <1>3, <2>1 DEF HasMarker
<1>5. PICK x, c : x = Len(real) /\ c = Cardinality(InReach)
  OBVIOUS
<1>6. x \in Nat /\ x \in 0..Len(real) /\ DOMAIN real = 1..x
  BY <1>4, <1>5
<1>7. EdgesIn(real) = {real[i].edge : i \in 1..x}
  BY <1>4, <1>6 DEF EdgesIn, HasMarker
<1>8. Cardinality(EdgesIn(answer)) = x
  BY <1>4, <1>6, <1>7, EdgesOfFirst
<1>9. c \in Nat /\ x <= c
  <2>1. IsFiniteSet(InReach)
    BY ReachOfEach
  <2> QED
    BY <1>5, <1>8, <2>1, FS_Subset, FS_CardinalityType
<1>10. HasMarker(rows) => x >= Cap /\ c > Cap
  BY <1>3, <1>5, <1>8
<1>11. ASSUME ~HasMarker(rows) PROVE c = x
  <2>1. InReach = EdgesIn(answer)
    BY <1>3, <1>11
  <2> QED
    BY <1>5, <1>8, <2>1
<1>12. PICK m \in 0..Len(real), row \in Rows :
        /\ IsMarker(row)
        /\ m <= Cap /\ m <= ask.limit /\ (m = Cap \/ m = ask.limit \/ m = Len(real))
        /\ \/ (HasMarker(rows) \/ m < Len(real)) /\ result = WithMarker(real, m, row)
           \/ ~HasMarker(rows) /\ m = Len(real) /\ result = First(real, m)
  BY <1>2 DEF IsCut, WithMarker, First
<1>13. m \in Nat /\ m <= x /\ 1..m \subseteq 1..x
  BY <1>5, <1>6, <1>12
<1>14. /\ First(real, m) \in Seq(Rows) /\ Len(First(real, m)) = m /\ DOMAIN First(real, m) = 1..m
       /\ \A i \in 1..m : First(real, m)[i] = real[i]
       /\ RealRows(First(real, m)) = First(real, m) /\ ~HasMarker(First(real, m))
       /\ WithMarker(real, m, row) \in Seq(Rows) /\ Len(WithMarker(real, m, row)) = m + 1
       /\ DOMAIN WithMarker(real, m, row) = 1..(m + 1)
       /\ \A i \in 1..m : WithMarker(real, m, row)[i] = real[i]
       /\ RealRows(WithMarker(real, m, row)) = First(real, m)
       /\ HasMarker(WithMarker(real, m, row)) /\ IsMarker(WithMarker(real, m, row)[m + 1])
  BY <1>4, <1>12, CutParts
<1>15. /\ HasMarker(result) <=> HasMarker(rows) \/ m < x
       /\ RealRows(result) = First(real, m)
       /\ Len(result) = m + (IF HasMarker(result) THEN 1 ELSE 0)
       /\ result \in Seq(Rows) /\ \A i \in 1..m : result[i] = real[i]
  <2>1. CASE (HasMarker(rows) \/ m < Len(real)) /\ result = WithMarker(real, m, row)
    BY <1>5, <1>14, <2>1
  <2>2. CASE ~HasMarker(rows) /\ m = Len(real) /\ result = First(real, m)
    <3>1. ~(m < x) /\ m + 0 = m
      BY <1>5, <1>6, <2>2
    <3> QED
      BY <1>5, <1>14, <2>2, <3>1
  <2> QED
    BY <1>12, <2>1, <2>2
<1>16. \A i \in DOMAIN result : i \in 1..m \/ IsMarker(result[i])
  <2>1. CASE result = WithMarker(real, m, row)
    <3>1. \A i \in 1..(m + 1) : i \in 1..m \/ i = m + 1
      BY <1>13
    <3> QED
      BY <1>14, <2>1, <3>1
  <2>2. CASE result = First(real, m)
    BY <1>14, <2>2
  <2> QED
    BY <1>12, <2>1, <2>2
<1>17. {r.edge : r \in ToSet(RealRows(result))} = {real[i].edge : i \in 1..m}
  <2>1. RealRows(result) = First(real, m) /\ DOMAIN First(real, m) = 1..m /\ \A i \in 1..m : First(real, m)[i] = real[i]
    BY <1>14, <1>15
  <2>2. ToSet(RealRows(result)) = {real[i] : i \in 1..m}
    BY <2>1 DEF ToSet
  <2> QED
    BY <2>2
<1>18. {real[i].edge : i \in 1..m} \subseteq InReach
  BY <1>4, <1>7, <1>13
<1>19. Cardinality({real[i].edge : i \in 1..m}) = m
  BY <1>4, <1>12, EdgesOfFirst
<1>20. PICK B : B = Bound
  OBVIOUS
<1>21. B = IF Cap <= ask.limit THEN Cap ELSE ask.limit
  BY <1>1, <1>20, LesserOfTwo DEF Bound
<1>22. Min({B, c}) = IF B <= c THEN B ELSE c
  <2>1. B \in Nat
    BY <1>1, <1>21
  <2> QED
    BY <1>9, <2>1, LesserOfTwo
<1>23. m <= Cap /\ m <= ask.limit /\ (m = Cap \/ m = ask.limit \/ m = x)
  BY <1>5, <1>12
<1>24. HasMarker(result) <=> c > B
  BY <1>1, <1>6, <1>9, <1>10, <1>11, <1>13, <1>15, <1>21, <1>23
<1>25. Min({B, c}) = m
  BY <1>1, <1>6, <1>9, <1>10, <1>11, <1>13, <1>21, <1>22, <1>23
<1> QED
  BY <1>4, <1>5, <1>12, <1>15, <1>16, <1>17, <1>18, <1>19, <1>20, <1>24, <1>25 DEF ShowsFirst

\* What all the walks have brought.
LEMMA AllWalked ==
    ASSUME calls \subseteq Sites, TraversalTypeOK, LeftAreLast, AnswerIsSound, walk.pc = "next", ask.left = <<>>
    PROVE  /\ EdgesIn(answer) \subseteq InReach
           /\ HasMarker(answer) => Cardinality(EdgesIn(answer)) >= Cap /\ Cardinality(InReach) > Cap
           /\ ~HasMarker(answer) => InReach \subseteq EdgesIn(answer)
           /\ Len(ask.starts) = 1 => WalkOf(answer, ask.starts[1])
<1>1. Finished = Len(ask.starts)
  <2>1. Len(ask.left) = 0 /\ Len(ask.starts) \in Nat
    BY AskParts
  <2> QED
    BY <2>1 DEF Finished, Started
<1>2. /\ EdgesIn(answer) \subseteq InReach
      /\ HasMarker(answer) => Cardinality(EdgesIn(answer)) >= Cap /\ Cardinality(InReach) > Cap
      /\ ~HasMarker(answer) => \A j \in 1..Len(ask.starts) : ReachOf(ask.starts[j]) \subseteq EdgesIn(answer)
      /\ Len(ask.starts) = 1 => WalkOf(answer, ask.starts[1])
  BY <1>1 DEF AnswerIsSound
<1>3. ASSUME ~HasMarker(answer) PROVE InReach \subseteq EdgesIn(answer)
  BY <1>2, <1>3, ReachOfEach
<1> QED
  BY <1>2, <1>3

\* The distance of an edge is the level that its near end has, and one.
LEMMA DistanceIs ==
    ASSUME calls \subseteq Sites, TraversalTypeOK, Len(ask.starts) = 1, NEW e \in InReach
    PROVE  /\ ask.starts[1] \in Symbols
           /\ Distance(e) \in 1..Depth /\ Near(e, ask.direction) \in Around(ask.starts[1], Distance(e) - 1)
           /\ \A n \in 1..Depth : Near(e, ask.direction) \in Around(ask.starts[1], n - 1) => Distance(e) <= n
<1>1. ask.starts \in Seq(Symbols) /\ Depth \in Nat /\ Depth >= 1
  BY AskParts
<1>2. ask.starts[1] \in Symbols /\ ToSet(ask.starts) = {ask.starts[1]}
  BY <1>1 DEF ToSet
<1> DEFINE T == {n \in 1..Depth : Near(e, ask.direction) \in Ball(ToSet(ask.starts), ask.direction, n - 1)}
<1>3. Near(e, ask.direction) \in Ball(ToSet(ask.starts), ask.direction, Depth - 1)
  BY DEF InReach
<1>4. T \subseteq Nat /\ Depth \in T
  BY <1>1, <1>3
<1>5. \A n : n \in T <=> n \in 1..Depth /\ Near(e, ask.direction) \in Around(ask.starts[1], n - 1)
  BY <1>2 DEF Around
<1>6. Distance(e) = Min(T)
  BY DEF Distance
<1> HIDE DEF T
<1>7. PICK m \in T : \A k \in T : m <= k
  BY <1>4, LeastNumber
<1>8. Min(T) \in T /\ \A k \in T : Min(T) <= k
  BY <1>7 DEF Min
<1> QED
  BY <1>2, <1>5, <1>6, <1>8

\* The rows of one walk, cut, are nearest first and of least hops.
LEMMA CutIsNearest ==
    ASSUME calls \subseteq Sites, TraversalTypeOK, Len(ask.starts) = 1, WalkOf(answer, ask.starts[1]),
           NEW real, real = RealRows(DedupeEdges(answer)), NEW m \in 0..Len(real), NEW i \in 1..m
    PROVE  /\ real[i].hops = Distance(real[i].edge)
           /\ \A e \in InReach \ {real[k].edge : k \in 1..m} : real[i].hops <= Distance(e)
<1> DEFINE s == ask.starts[1]
<1>1. /\ answer \in Seq(Rows) /\ ask.starts \in Seq(Symbols) /\ Depth \in Nat /\ Depth >= 1 /\ s \in Symbols
      /\ \A e : e \in InReach <=> e \in ReachOf(s)
  <2>1. ask.starts \in Seq(Symbols) /\ Depth \in Nat /\ Depth >= 1
    BY AskParts
  <2>2. s \in Symbols /\ 1..Len(ask.starts) = {1}
    BY <2>1
  <2>3. \A e : e \in InReach <=> e \in ReachOf(s)
    BY <2>2, ReachOfEach
  <2> QED
    BY <2>1, <2>2, <2>3, WalkParts, AskParts
<1>2. PICK rows : rows = DedupeEdges(answer)
  OBVIOUS
<1>3. /\ rows \in Seq(Rows) /\ EdgesDiffer(rows) /\ (RowsRise(answer) => RowsRise(rows))
      /\ EdgesIn(rows) = EdgesIn(answer) /\ \A k \in DOMAIN rows : \E j \in DOMAIN answer : rows[k] = answer[j]
  BY <1>1, <1>2, DedupeKeeps
<1>4. /\ real \in Seq(Rows) /\ (RowsRise(rows) => RowsRise(real)) /\ EdgesIn(real) = EdgesIn(rows)
      /\ \A k \in DOMAIN real : ~IsMarker(real[k]) /\ \E j \in DOMAIN rows : real[k] = rows[j]
  BY <1>2, <1>3, RealRowsKeep
<1>5. RowsRise(real)
  BY <1>3, <1>4 DEF WalkOf
<1>6. ASSUME NEW k \in DOMAIN real
      PROVE  /\ real[k].edge \in calls /\ real[k].hops \in 1..Depth
             /\ AtLevel(s, Near(real[k].edge, ask.direction), real[k].hops - 1)
             /\ NoneNearer(answer, real[k], s)
  <2>1. PICK j \in DOMAIN answer : real[k] = answer[j]
    BY <1>3, <1>4
  <2>2. ~IsMarker(answer[j])
    BY <1>4, <2>1
  <2> QED
    BY <2>1, <2>2 DEF WalkOf
<1>7. ASSUME NEW k \in DOMAIN real PROVE real[k].edge \in InReach /\ real[k].hops = Distance(real[k].edge)
  <2> DEFINE e == real[k].edge
             h == real[k].hops
             v == Near(e, ask.direction)
  <2>1. e \in calls /\ h \in 1..Depth /\ v \in Around(s, h - 1) /\ \A n \in Nat : v \in Around(s, n) => h - 1 <= n
    BY <1>6 DEF AtLevel
  <2>2. e \in InReach
    <3>1. h - 1 \in 0..(Depth - 1) /\ Depth - 1 \in Nat
      BY <1>1, <2>1
    <3>2. v \in Around(s, Depth - 1)
      BY <1>1, <2>1, <3>1, AroundGrows
    <3> QED
      BY <1>1, <2>1, <3>2 DEF ReachOf
  <2> HIDE DEF e, h, v
  <2>3. /\ Distance(e) \in 1..Depth /\ Near(e, ask.direction) \in Around(s, Distance(e) - 1)
        /\ \A n \in 1..Depth : Near(e, ask.direction) \in Around(s, n - 1) => Distance(e) <= n
    BY <2>2, DistanceIs
  <2>4. PICK d : d = Distance(e)
    OBVIOUS
  <2>5. d <= h
    BY <2>1, <2>3, <2>4 DEF v
  <2>6. h - 1 <= d - 1
    <3>1. d - 1 \in Nat
      BY <1>1, <2>3, <2>4
    <3> QED
      BY <2>1, <2>3, <2>4, <3>1 DEF v
  <2>7. d = h
    BY <1>1, <2>1, <2>3, <2>4, <2>5, <2>6
  <2> QED
    BY <2>2, <2>4, <2>7 DEF e, h
<1>8. i \in DOMAIN real /\ m \in Nat /\ m <= Len(real) /\ Len(real) \in Nat /\ i \in Nat /\ DOMAIN real = 1..Len(real)
  BY <1>4
<1>9. ASSUME NEW e \in InReach, e \notin {real[k].edge : k \in 1..m} PROVE real[i].hops <= Distance(e)
  <2>1. CASE e \in EdgesIn(real)
    <3>1. PICK k \in DOMAIN real : real[k].edge = e
      BY <2>1 DEF EdgesIn
    <3>2. k \notin 1..m
      BY <1>9, <3>1
    <3>3. i < k
      BY <1>8, <3>2
    <3>4. real[i].hops <= real[k].hops
      BY <1>4, <1>5, <1>8, <3>3 DEF RowsRise
    <3> QED
      BY <1>7, <3>1, <3>4
  <2>2. CASE e \notin EdgesIn(real)
    <3>1. e \in calls /\ e \in ReachOf(s)
      BY <1>1 DEF ReachOf
    <3>2. ~Rowed(answer, e)
      <4> SUFFICES ASSUME NEW j \in DOMAIN answer, answer[j].edge = e PROVE FALSE
        BY DEF Rowed
      <4>1. ~IsMarker(answer[j])
        BY <3>1, AskParts DEF IsMarker
      <4>2. e \in EdgesIn(answer)
        BY <4>1 DEF EdgesIn
      <4> QED
        BY <1>3, <1>4, <2>2, <4>2
    <3>3. \A n \in Nat : Near(e, ask.direction) \in Around(s, n) => real[i].hops - 1 <= n
      BY <1>6, <1>8, <3>1, <3>2 DEF NoneNearer
    <3>4. Distance(e) \in 1..Depth /\ Near(e, ask.direction) \in Around(s, Distance(e) - 1)
      BY DistanceIs
    <3>5. PICK d, h : d = Distance(e) /\ h = real[i].hops
      OBVIOUS
    <3>6. d \in 1..Depth /\ d - 1 \in Nat /\ h \in Nat
      BY <1>1, <1>6, <1>8, <3>4, <3>5
    <3>7. h - 1 <= d - 1
      BY <3>3, <3>4, <3>5, <3>6
    <3>8. h <= d
      BY <3>6, <3>7
    <3> QED
      BY <3>5, <3>8
  <2> QED
    BY <2>1, <2>2
<1> QED
  BY <1>7, <1>8, <1>9

LEMMA CombineKeeps ==
    ASSUME calls \subseteq Sites, TraversalTypeOK, LeftAreLast, AnswerIsSound, calls' = calls, Combine
    PROVE  /\ TraversalTypeOK' /\ LeftAreLast' /\ AnswerIsExact' /\ NearestFirst' /\ walk'.pc = "done"
<1>1. /\ walk.pc = "next" /\ ask.left = <<>> /\ ask' = ask
      /\ answer' = LimitEdges(CapDirectionEdges(DedupeEdges(answer)), ask.limit)
      /\ walk' = [walk EXCEPT !.pc = "done"]
  BY DEF Combine
<1>2. walk' = [pc |-> "done", at |-> walk.at, fan |-> walk.fan, queue |-> walk.queue,
               visited |-> walk.visited, rows |-> walk.rows]
  BY <1>1, AskParts, WalkParts
<1>3. /\ EdgesIn(answer) \subseteq InReach
      /\ HasMarker(answer) => Cardinality(EdgesIn(answer)) >= Cap /\ Cardinality(InReach) > Cap
      /\ ~HasMarker(answer) => InReach \subseteq EdgesIn(answer)
      /\ Len(ask.starts) = 1 => WalkOf(answer, ask.starts[1])
  BY <1>1, AllWalked
<1>4. PICK real, result : real = RealRows(DedupeEdges(answer)) /\ result = answer'
  OBVIOUS
<1>5. IsCut(DedupeEdges(answer), real, ask.limit, result)
  <2>1. DedupeEdges(answer) \in Seq(Rows) /\ EdgesDiffer(DedupeEdges(answer))
    BY AskParts, WalkParts, DedupeKeeps
  <2>2. MaxDepth \in Nat /\ MaxDepth >= 1 /\ Cap \in Nat /\ ask.limit \in Nat
    BY AskParts
  <2> QED
    BY <1>1, <1>4, <2>1, <2>2, CombinedIsCut
<1>6. PICK m \in 0..Len(real) : ShowsFirst(result, real, m)
  BY <1>3, <1>4, <1>5, CutIsExact
<1>7. InReach' = InReach /\ Depth' = Depth /\ Bound' = Bound
  BY <1>1, SameAsk DEF Bound
<1>8. RealEdges' = {real[i].edge : i \in 1..m}
  <2>1. RealEdges' = {r.edge : r \in ToSet(RealRows(result))}
    BY <1>4 DEF RealEdges, RealRows, IsMarker
  <2> QED
    BY <1>6, <2>1 DEF ShowsFirst
<1>9. Marked' <=> HasMarker(result)
  BY <1>4 DEF Marked, HasMarker, IsMarker
<1>10. AnswerIsExact'
  BY <1>4, <1>6, <1>7, <1>8, <1>9 DEF AnswerIsExact, ShowsFirst
<1>11. NearestFirst'
  <2> SUFFICES ASSUME Len(ask.starts) = 1, NEW i \in DOMAIN result, ~IsMarker(result[i])
               PROVE  /\ result[i].hops = Distance(result[i].edge)'
                      /\ \A e \in InReach \ {real[k].edge : k \in 1..m} : result[i].hops <= Distance(e)'
    BY <1>1, <1>4, <1>7, <1>8 DEF NearestFirst, IsMarker
  <2>1. \A e : Distance(e)' = Distance(e)
    BY <1>1, <1>7, SameBalls DEF Distance, Near
  <2>2. i \in 1..m /\ result[i] = real[i]
    BY <1>6 DEF ShowsFirst
  <2>3. /\ real[i].hops = Distance(real[i].edge)
        /\ \A e \in InReach \ {real[k].edge : k \in 1..m} : real[i].hops <= Distance(e)
    BY <1>3, <1>4, <2>2, CutIsNearest
  <2> QED
    BY <1>4, <2>1, <2>2, <2>3
<1>12. TraversalTypeOK'
  <2>1. walk' \in [pc : {"idle", "next", "walk", "done"}, at : Place \union {Nowhere}, fan : SUBSET calls',
                 queue : Seq(Place), visited : SUBSET Symbols, rows : Seq(Rows)]
    BY <1>2, AskParts, WalkParts
  <2> QED
    BY <1>1, <1>4, <1>6, <2>1 DEF ShowsFirst, TraversalTypeOK, Place, Rows, Nowhere
<1>13. LeftAreLast'
  BY <1>1 DEF LeftAreLast, Started
<1> QED
  BY <1>2, <1>10, <1>11, <1>12, <1>13

-----------------------------------------------------------------------------
(* Walks.  Every step keeps the invariant.                                 *)

LEMMA NoWalkType == <<>> \in Seq(Rows) /\ <<>> \in Seq(Place)
  OBVIOUS

LEMMA TraversalStart == Init => TraversalInv
<1> SUFFICES ASSUME Init PROVE TraversalInv
  OBVIOUS
<1>1. calls \subseteq Sites
  BY DEF Init, AnyGraph
<1>2. CASE TraversalInit(Asks)
  <2>1. IsAsk(ask) /\ ask.left = ask.starts /\ walk = NoWalk /\ answer = <<>>
    BY <1>2, QueriesAssumption DEF TraversalInit
  <2>2. TraversalTypeOK
    <3>1. NoWalk \in [pc : {"idle", "next", "walk", "done"}, at : Place \union {Nowhere}, fan : SUBSET calls,
                      queue : Seq(Place), visited : SUBSET Symbols, rows : Seq(Rows)]
      BY NoWalkType DEF NoWalk
    <3> QED
      BY <2>1, <3>1, NoWalkType DEF TraversalTypeOK
  <2>3. ask.starts \in Seq(Symbols) /\ Len(ask.starts) \in Nat
    BY <1>1, <2>2, AskParts
  <2>4. Started = 0
    BY <2>1, <2>3 DEF Started
  <2>5. LeftAreLast
    BY <2>1, <2>3, <2>4 DEF LeftAreLast
  <2>6. walk.pc = "next" /\ NoneLeft
    BY <2>1 DEF NoWalk, NoneLeft
  <2>7. Finished = 0
    BY <2>4, <2>6 DEF Finished
  <2>8. AnswerIsSound
    BY <2>1, <2>7 DEF AnswerIsSound, EdgesIn, HasMarker
  <2> QED
    BY <1>1, <2>2, <2>5, <2>6, <2>8 DEF TraversalInv, WalkIsSound, AnswerIsExact, NearestFirst, Answered
<1>3. CASE TraversalIdle
  <2>1. /\ ask = [direction |-> "incoming", depth |-> 1, limit |-> 0, starts |-> <<>>, left |-> <<>>]
        /\ walk = [NoWalk EXCEPT !.pc = "idle"] /\ answer = <<>>
    BY <1>3 DEF TraversalIdle
  <2>2. IsAsk(ask)
    <3>1. <<>> \in Seq(Symbols)
      OBVIOUS
    <3> QED
      BY <2>1, <3>1 DEF IsAsk, Directions
  <2>3. walk = [pc |-> "idle", at |-> Nowhere, fan |-> {}, queue |-> <<>>, visited |-> {}, rows |-> <<>>]
    BY <2>1 DEF NoWalk
  <2>4. TraversalTypeOK
    <3>1. walk \in [pc : {"idle", "next", "walk", "done"}, at : Place \union {Nowhere}, fan : SUBSET calls,
                      queue : Seq(Place), visited : SUBSET Symbols, rows : Seq(Rows)]
      BY <2>3, NoWalkType
    <3> QED
      BY <2>1, <2>2, <3>1, NoWalkType DEF TraversalTypeOK
  <2>5. LeftAreLast
    BY <2>1 DEF LeftAreLast
  <2> QED
    BY <1>1, <2>3, <2>4, <2>5 DEF TraversalInv, NoneLeft, WalkIsSound, AnswerIsSound, AnswerIsExact, NearestFirst, Answered
<1> QED
  BY <1>2, <1>3 DEF Init, Walking, Attributing, Grouping, Comparing

\* While a walk goes on, what the earlier ones have brought stays.
LEMMA AnswerStays ==
    ASSUME AnswerIsSound, walk.pc \in {"next", "walk"}, calls' = calls, answer' = answer, Finished' = Finished,
           ask'.direction = ask.direction, ask'.depth = ask.depth, ask'.starts = ask.starts
    PROVE  AnswerIsSound'
<1>1. InReach' = InReach /\ (\A s : ReachOf(s)' = ReachOf(s)) /\ \A rows, s : WalkOf(rows, s)' <=> WalkOf(rows, s)
  BY SameAsk
<1>2. EdgesIn(answer)' = EdgesIn(answer) /\ (HasMarker(answer)' <=> HasMarker(answer))
  BY DEF EdgesIn, HasMarker, IsMarker
<1>3. \A j : ReachOf(ask.starts[j])' = ReachOf(ask.starts[j])
  BY <1>1
<1>4. WalkOf(answer, ask.starts[1])' <=> WalkOf(answer, ask.starts[1])
  BY <1>1
<1> QED
  BY <1>1, <1>2, <1>3, <1>4 DEF AnswerIsSound

LEMMA TraversalStays == TraversalInv /\ calls' = calls /\ traversal' = traversal => TraversalInv'
<1> SUFFICES ASSUME TraversalInv, calls' = calls, traversal' = traversal PROVE TraversalInv'
  OBVIOUS
<1>1. ask' = ask /\ walk' = walk /\ answer' = answer
  BY DEF traversal
<1>2. calls' \subseteq Sites /\ TraversalTypeOK' /\ LeftAreLast' /\ NoneLeft'
  BY <1>1 DEF TraversalInv, NoneLeft, TraversalTypeOK, Place, Rows, Nowhere, LeftAreLast, Started
<1>3. /\ Depth' = Depth /\ InReach' = InReach
      /\ \A s, n : Around(s, n)' = Around(s, n)
      /\ \A s, v, n : AtLevel(s, v, n)' <=> AtLevel(s, v, n)
      /\ \A rows, s : WalkOf(rows, s)' <=> WalkOf(rows, s)
  BY <1>1, SameAsk
<1>4. From' = From /\ Started' = Started /\ Finished' = Finished
  BY <1>1 DEF From, Started, Finished
<1>5. WalkIsSound'
  <2> SUFFICES ASSUME walk.pc = "walk" PROVE Started' >= 1 /\ (WalkGoesOn' \/ (walk'.fan = {} /\ walk'.queue = <<>> /\ WalkOf(walk.rows, From)'))
    BY <1>1 DEF WalkIsSound
  <2>1. Started' >= 1
    BY <1>4 DEF TraversalInv, WalkIsSound
  <2>2. CASE WalkGoesOn
    <3>1. QueueOfLevels'
      BY <1>1, <1>3, <1>4, <2>2 DEF WalkGoesOn, QueueOfLevels
    <3>2. AtIsPlaced'
      BY <1>1, <1>3, <1>4, <2>2 DEF WalkGoesOn, AtIsPlaced, Near
    <3>3. LevelsVisited' /\ VisitedSpread'
      BY <1>1, <1>3, <1>4, <2>2 DEF WalkGoesOn, LevelsVisited, VisitedSpread, Waits, Rowed, DirectEdges, Near
    <3>4. RowsPlaced'
      <4> SUFFICES ASSUME NEW i \in DOMAIN walk.rows PROVE RowPlaced(walk.rows[i])'
        BY <1>1 DEF RowsPlaced
      <4>0. PICK row : row = walk.rows[i]
        OBVIOUS
      <4>1. RowPlaced(row)
        BY <2>2, <4>0 DEF WalkGoesOn, RowsPlaced
      <4>2. RowPlaced(row)'
        BY <1>1, <1>3, <1>4, <4>1 DEF RowPlaced, Near, Far, Waits
      <4> QED
        BY <1>1, <4>0, <4>2
    <3>5. RowsRise(walk.rows)' /\ Len(walk'.rows) <= Cap
      BY <1>1, <2>2 DEF WalkGoesOn, RowsRise, IsMarker
    <3> QED
      BY <2>1, <3>1, <3>2, <3>3, <3>4, <3>5 DEF WalkGoesOn
  <2>3. CASE walk.fan = {} /\ walk.queue = <<>> /\ WalkOf(walk.rows, From)
    BY <1>1, <1>3, <1>4, <2>1, <2>3
  <2> QED
    BY <2>2, <2>3 DEF TraversalInv, WalkIsSound
<1>6. AnswerIsSound'
  <2>1. CASE walk.pc \in {"next", "walk"}
    BY <1>1, <1>4, <2>1, AnswerStays DEF TraversalInv
  <2>2. CASE walk.pc \notin {"next", "walk"}
    BY <1>1, <2>2 DEF AnswerIsSound
  <2> QED
    BY <2>1, <2>2
<1>7. RealEdges' = RealEdges /\ Marked' = Marked /\ Bound' = Bound
  BY <1>1 DEF RealEdges, RealRows, IsMarker, Marked, Bound
<1>8. AnswerIsExact'
  BY <1>1, <1>3, <1>7 DEF TraversalInv, AnswerIsExact, Answered
<1>9. NearestFirst'
  <2>1. \A e : Distance(e)' = Distance(e)
    BY <1>1, <1>3, SameBalls DEF Distance, Near
  <2>2. \A i \in DOMAIN answer : Distance(answer[i].edge)' = Distance(answer[i].edge)
    BY <1>1, <2>1
  <2> QED
    BY <1>1, <1>3, <1>7, <2>1, <2>2 DEF TraversalInv, NearestFirst, Answered, IsMarker
<1> QED
  BY <1>2, <1>5, <1>6, <1>8, <1>9 DEF TraversalInv

LEMMA TraversalStepKeeps == TraversalInv /\ [Next]_vars => TraversalInv'
<1> SUFFICES ASSUME TraversalInv, [Next]_vars PROVE TraversalInv'
  OBVIOUS
<1>1. ASSUME TraversalStep, calls' = calls PROVE TraversalInv'
  <2>1. /\ calls \subseteq Sites /\ calls' \subseteq Sites /\ TraversalTypeOK /\ LeftAreLast /\ WalkIsSound /\ AnswerIsSound
    BY <1>1 DEF TraversalInv
  <2>2. CASE StartWalk
    <3>1. /\ walk.pc = "next" /\ answer' = answer
          /\ ask'.direction = ask.direction /\ ask'.depth = ask.depth /\ ask'.starts = ask.starts
          /\ TraversalTypeOK' /\ LeftAreLast' /\ Started \in Nat /\ Started' = Started + 1 /\ walk'.pc = "walk"
      BY <1>1, <2>1, <2>2, StartEffect
    <3>2. WalkGoesOn'
      BY <1>1, <2>1, <2>2, StartKeeps
    <3>3. Finished' = Finished
      BY <3>1 DEF Finished
    <3>4. AnswerIsSound'
      BY <1>1, <2>1, <3>1, <3>3, AnswerStays
    <3>5. WalkIsSound'
      BY <3>1, <3>2 DEF WalkIsSound
    <3> QED
      BY <2>1, <3>1, <3>4, <3>5 DEF TraversalInv, NoneLeft, AnswerIsExact, NearestFirst, Answered
  <2>3. ASSUME walk.pc = "walk", walk.fan # {} \/ walk.queue # <<>>
        PROVE  WalkGoesOn /\ Started >= 1 /\ From \in Symbols
    <3>1. WalkGoesOn /\ Started >= 1
      BY <2>1, <2>3 DEF WalkIsSound
    <3>2. ask.starts \in Seq(Symbols) /\ ask.left \in Seq(Symbols)
      BY <2>1, AskParts
    <3>3. PICK a, b, k : a = Len(ask.left) /\ b = Len(ask.starts) /\ k = Started
      OBVIOUS
    <3>4. a \in Nat /\ b \in Nat /\ k >= 1 /\ k = b - a
      BY <3>1, <3>2, <3>3 DEF Started
    <3>5. k \in 1..b
      BY <3>4
    <3>6. From \in Symbols
      BY <3>2, <3>3, <3>5 DEF From
    <3> QED
      BY <3>1, <3>6
  <2>4. ASSUME walk.pc = "walk", walk'.pc = "walk", ask' = ask, answer' = answer, TraversalTypeOK', Started >= 1,
               WalkGoesOn' \/ (walk'.fan = {} /\ walk'.queue = <<>> /\ WalkOf(walk.rows, From)')
        PROVE  TraversalInv'
    <3>1. Started' = Started /\ Finished' = Finished /\ LeftAreLast'
      BY <2>1, <2>4 DEF Started, Finished, LeftAreLast
    <3>2. AnswerIsSound'
      BY <1>1, <2>1, <2>4, <3>1, AnswerStays
    <3>3. WalkIsSound'
      BY <2>4, <3>1 DEF WalkIsSound
    <3> QED
      BY <2>1, <2>4, <3>1, <3>2, <3>3 DEF TraversalInv, NoneLeft, AnswerIsExact, NearestFirst, Answered
  <2>5. CASE Expand
    <3>1. WalkGoesOn /\ Started >= 1 /\ From \in Symbols
      BY <2>3, <2>5 DEF Expand
    <3>2. walk.pc = "walk" /\ walk'.pc = "walk" /\ ask' = ask /\ answer' = answer /\ TraversalTypeOK'
      BY <1>1, <2>1, <2>5, ExpandEffect
    <3>3. WalkGoesOn'
      BY <1>1, <2>1, <2>5, <3>1, ExpandKeeps
    <3> QED
      BY <2>4, <3>1, <3>2, <3>3
  <2>6. ASSUME NEW e \in NextEdges, Follow(e) \/ Overflow(e) PROVE TraversalInv'
    <3>0. walk.pc = "walk" /\ walk.fan # {}
      BY <1>1, <2>6 DEF NextEdges, TraversalInv, NoneLeft
    <3>1. WalkGoesOn /\ Started >= 1 /\ From \in Symbols
      BY <2>3, <3>0
    <3>2. AtIsPlaced
      BY <3>1 DEF WalkGoesOn
    <3>3. CASE Follow(e)
      <4>1. walk.pc = "walk" /\ walk'.pc = "walk" /\ ask' = ask /\ answer' = answer /\ TraversalTypeOK'
        BY <1>1, <2>1, <2>6, <3>0, <3>2, <3>3, FollowEffect
      <4>2. WalkGoesOn'
        BY <1>1, <2>1, <2>6, <3>0, <3>1, <3>3, FollowKeeps
      <4> QED
        BY <2>4, <3>1, <4>1, <4>2
    <3>4. CASE Overflow(e)
      <4>1. walk.pc = "walk" /\ walk'.pc = "walk" /\ ask' = ask /\ answer' = answer /\ TraversalTypeOK'
        BY <1>1, <2>1, <2>6, <3>0, <3>2, <3>4, OverflowEffect
      <4>2. walk'.fan = {} /\ walk'.queue = <<>> /\ WalkOf(walk.rows, From)'
        BY <1>1, <2>1, <2>6, <3>0, <3>1, <3>4, WalkIsCapped
      <4> QED
        BY <2>4, <3>1, <4>1, <4>2
    <3> QED
      BY <2>6, <3>3, <3>4
  <2>7. CASE FinishWalk
    <3>1. TraversalTypeOK' /\ LeftAreLast' /\ AnswerIsSound' /\ walk'.pc = "next"
      BY <1>1, <2>1, <2>7, FinishKeeps
    <3>2. NoneLeft'
      BY <2>7 DEF FinishWalk, NoWalk, NoneLeft
    <3> QED
      BY <2>1, <3>1, <3>2 DEF TraversalInv, WalkIsSound, AnswerIsExact, NearestFirst, Answered
  <2>8. CASE Combine
    <3>1. TraversalTypeOK' /\ LeftAreLast' /\ AnswerIsExact' /\ NearestFirst' /\ walk'.pc = "done"
      BY <1>1, <2>1, <2>8, CombineKeeps
    <3>2. walk.fan = {} /\ walk'.fan = walk.fan
      <4>1. walk = [pc |-> walk.pc, at |-> walk.at, fan |-> walk.fan, queue |-> walk.queue,
                    visited |-> walk.visited, rows |-> walk.rows]
        BY <2>1, AskParts, WalkParts
      <4> QED
        BY <1>1, <2>8, <4>1 DEF Combine, TraversalInv, NoneLeft
    <3>3. NoneLeft'
      BY <3>2 DEF NoneLeft
    <3> QED
      BY <2>1, <3>1, <3>3 DEF TraversalInv, WalkIsSound, AnswerIsSound
  <2> QED
    BY <1>1, <2>2, <2>5, <2>6, <2>7, <2>8 DEF TraversalStep
<1>2. ASSUME calls' = calls, traversal' = traversal PROVE TraversalInv'
  BY <1>2, TraversalStays
<1> QED
  BY <1>1, <1>2 DEF Next, vars

\* Callers, callees and each half of impact, on every call graph, for every question: the answer has
\* every edge in reach, once, or as many as the cap and the limit allow and a marker, and
\* a marker for no other reason.
THEOREM AnswersAreExact == Spec => []AnswerIsExact
<1>1. TraversalInv => AnswerIsExact
  BY DEF TraversalInv
<1>2. Spec => []TraversalInv
  BY TraversalStart, TraversalStepKeeps, PTL DEF Spec
<1> QED
  BY <1>1, <1>2, PTL

\* From one symbol, the hops of an answer are shortest distances, and what a cap or a limit
\* cuts off is never nearer than what it leaves.
THEOREM AnswersAreNearest == Spec => []NearestFirst
<1>1. TraversalInv => NearestFirst
  BY DEF TraversalInv
<1>2. Spec => []TraversalInv
  BY TraversalStart, TraversalStepKeeps, PTL DEF Spec
<1> QED
  BY <1>1, <1>2, PTL

-----------------------------------------------------------------------------
(* Types.                                                                  *)

\* Some element of a set.
Pick(s) == CHOOSE x \in s : TRUE

\* it is the sum of f over every subset of S, as a fold comes to it.
IsFold(it, f, S) ==
    it = [s \in SUBSET S |-> IF s = {} THEN 0 ELSE f[Pick(s)] + it[s \ {Pick(s)}]]

LEMMA SumIsFold ==
    ASSUME NEW S, NEW f \in [S -> Nat]
    PROVE  SumFunction(f) = (CHOOSE it : IsFold(it, f, S))[S]
<1>1. DOMAIN f = S
  OBVIOUS
<1> QED
  BY <1>1 DEF SumFunction, SumFunctionOnSet, FoldFunctionOnSet, MapThenFoldSet, IsFold, Pick

UpTo(n, S) == {s \in SUBSET S : Cardinality(s) <= n}

LEMMA UpToGrows ==
    ASSUME NEW S, IsFiniteSet(S), NEW n \in Nat
    PROVE  /\ UpTo(0, S) = {{}} /\ {} \in UpTo(n, S)
           /\ UpTo(Cardinality(S), S) = SUBSET S
           /\ n >= 1 => UpTo(n - 1, S) \subseteq UpTo(n, S)
           /\ \A s \in UpTo(n, S) : s # {} => n >= 1 /\ Pick(s) \in S /\ s \ {Pick(s)} \in UpTo(n - 1, S)
<1>1. \A s \in SUBSET S : IsFiniteSet(s) /\ Cardinality(s) \in Nat /\ Cardinality(s) <= Cardinality(S)
  BY FS_Subset, FS_CardinalityType
<1>2. \A s \in SUBSET S : Cardinality(s) = 0 <=> s = {}
  BY <1>1, FS_EmptySet
<1>3. ASSUME NEW s \in UpTo(n, S), s # {}
      PROVE  n >= 1 /\ Pick(s) \in S /\ s \ {Pick(s)} \in UpTo(n - 1, S)
  <2>1. s \in SUBSET S /\ Pick(s) \in s
    BY <1>3 DEF UpTo, Pick
  <2>2. Cardinality(s \ {Pick(s)}) = Cardinality(s) - 1
    BY <1>1, <2>1, FS_RemoveElement
  <2>3. Cardinality(s) \in Nat /\ Cardinality(s) # 0 /\ Cardinality(s) <= n
    BY <1>1, <1>2, <1>3, <2>1 DEF UpTo
  <2>4. s \ {Pick(s)} \in SUBSET S
    BY <2>1
  <2>5. Cardinality(s \ {Pick(s)}) <= n - 1 /\ n >= 1
    BY <2>2, <2>3
  <2> QED
    BY <2>1, <2>4, <2>5 DEF UpTo
<1>4. UpTo(0, S) = {{}}
  <2>1. \A s \in SUBSET S : Cardinality(s) <= 0 <=> s = {}
    BY <1>1, <1>2
  <2> QED
    BY <2>1 DEF UpTo
<1>5. {} \in UpTo(n, S) /\ UpTo(Cardinality(S), S) = SUBSET S
  BY <1>1, <1>2 DEF UpTo
<1>6. n >= 1 => UpTo(n - 1, S) \subseteq UpTo(n, S)
  BY <1>1 DEF UpTo
<1> QED
  BY <1>3, <1>4, <1>5, <1>6

FoldsTo(it, f, n, S) ==
    /\ it \in [UpTo(n, S) -> Nat]
    /\ \A s \in UpTo(n, S) : it[s] = IF s = {} THEN 0 ELSE f[Pick(s)] + it[s \ {Pick(s)}]

LEMMA FoldGoesOn ==
    ASSUME NEW S, IsFiniteSet(S), NEW f \in [S -> Nat], NEW n \in Nat, n >= 1,
           NEW it, FoldsTo(it, f, n - 1, S)
    PROVE  \E more : FoldsTo(more, f, n, S)
<1> DEFINE rest(s) == s \ {Pick(s)}
           more == [s \in UpTo(n, S) |-> IF s = {} THEN 0 ELSE f[Pick(s)] + it[rest(s)]]
<1>1. /\ n - 1 \in Nat /\ UpTo(n - 1, S) \subseteq UpTo(n, S)
      /\ \A s \in UpTo(n, S) : s # {} => Pick(s) \in S /\ rest(s) \in UpTo(n - 1, S)
  BY UpToGrows
<1> HIDE DEF rest
<1>2. \A s \in UpTo(n, S) : s # {} => f[Pick(s)] \in Nat /\ it[rest(s)] \in Nat
  BY <1>1 DEF FoldsTo
<1>3. more \in [UpTo(n, S) -> Nat]
  <2>1. \A s \in UpTo(n, S) : (IF s = {} THEN 0 ELSE f[Pick(s)] + it[rest(s)]) \in Nat
    BY <1>2
  <2> QED
    BY <2>1
<1>4. \A s \in UpTo(n - 1, S) : more[s] = it[s]
  BY <1>1 DEF FoldsTo, rest
<1>5. \A s \in UpTo(n, S) : more[s] = IF s = {} THEN 0 ELSE f[Pick(s)] + more[rest(s)]
  BY <1>1, <1>4
<1> HIDE DEF more
<1>6. FoldsTo(more, f, n, S)
  BY <1>3, <1>5 DEF FoldsTo, rest
<1> QED
  BY <1>6

LEMMA SumOfNats ==
    ASSUME NEW S, IsFiniteSet(S), NEW f \in [S -> Nat]
    PROVE  SumFunction(f) \in Nat
<1> DEFINE N == Cardinality(S)
           P == {n \in 0..N : \E it : FoldsTo(it, f, n, S)}
<1>1. N \in Nat /\ UpTo(0, S) = {{}} /\ UpTo(N, S) = SUBSET S
  BY FS_CardinalityType, UpToGrows
<1>2. 0 \in P
  <2>1. FoldsTo([s \in {{}} |-> 0], f, 0, S)
    BY <1>1 DEF FoldsTo
  <2> QED
    BY <1>1, <2>1
<1>3. ASSUME NEW n \in 1..N, n - 1 \in P PROVE n \in P
  <2>1. n \in Nat /\ n >= 1 /\ n \in 0..N
    BY <1>1
  <2>2. PICK it : FoldsTo(it, f, n - 1, S)
    BY <1>3
  <2>3. \E more : FoldsTo(more, f, n, S)
    BY <2>1, <2>2, FoldGoesOn
  <2> QED
    BY <2>1, <2>3
<1>4. P = 0..N
  <2>1. P \subseteq 0..N
    OBVIOUS
  <2> HIDE DEF P
  <2> QED
    BY <1>1, <1>2, <1>3, <2>1, Stepwise
<1>5. PICK it : FoldsTo(it, f, N, S)
  BY <1>1, <1>4
<1>6. IsFold(it, f, S)
  BY <1>1, <1>5 DEF FoldsTo, IsFold
<1>7. PICK sum : sum = (CHOOSE i : IsFold(i, f, S)) /\ IsFold(sum, f, S)
  BY <1>6
<1> DEFINE Q == {n \in 0..N : \A s \in UpTo(n, S) : sum[s] \in Nat}
<1>8. \A s \in SUBSET S : sum[s] = IF s = {} THEN 0 ELSE f[Pick(s)] + sum[s \ {Pick(s)}]
  BY <1>7 DEF IsFold
<1>9. 0 \in Q
  BY <1>1, <1>8
<1>10. ASSUME NEW n \in 1..N, n - 1 \in Q PROVE n \in Q
  <2>1. n \in Nat /\ n >= 1 /\ n \in 0..N
    BY <1>1
  <2>2. ASSUME NEW s \in UpTo(n, S) PROVE sum[s] \in Nat
    <3>1. s # {} => Pick(s) \in S /\ s \ {Pick(s)} \in UpTo(n - 1, S)
      BY <2>1, UpToGrows
    <3>2. s \in SUBSET S
      BY DEF UpTo
    <3>3. s # {} => f[Pick(s)] \in Nat /\ sum[s \ {Pick(s)}] \in Nat
      BY <1>10, <3>1
    <3>4. CASE s = {}
      <4>1. sum[s] = IF s = {} THEN 0 ELSE f[Pick(s)] + sum[s \ {Pick(s)}]
        BY <1>8, <3>2, Zenon
      <4>2. sum[s] = 0
        BY <3>4, <4>1, Zenon
      <4> QED
        BY <4>2
    <3>5. CASE s # {}
      <4>1. PICK a, b : a = f[Pick(s)] /\ b = sum[s \ {Pick(s)}]
        OBVIOUS
      <4>2. sum[s] = a + b /\ a \in Nat /\ b \in Nat
        BY <1>8, <3>2, <3>3, <3>5, <4>1
      <4> QED
        BY <4>2
    <3> QED
      BY <3>4, <3>5
  <2> QED
    BY <2>1, <2>2
<1>11. Q = 0..N
  <2>1. Q \subseteq 0..N
    OBVIOUS
  <2> HIDE DEF Q
  <2> QED
    BY <1>1, <1>9, <1>10, <2>1, Stepwise
<1>12. sum[S] \in Nat
  <2>1. N \in Q /\ S \in UpTo(N, S)
    BY <1>1, <1>11
  <2> QED
    BY <2>1
<1> QED
  BY <1>7, <1>12, SumIsFold

\* What the invariants of the four queries leave open: the reports, and the diff.
FileRows == Seq([file : Files, min_hops : 0..MaxDepth])

Reports == [tests : FileRows, impacted : FileRows, truncated : BOOLEAN]

Groupings == [groups : Seq(SUBSET Files), total : Nat, truncated : BOOLEAN]

TypesInv ==
    /\ TraversalInv /\ AffectedInv /\ CyclesInv
    /\ report \in Reports /\ (apc # "walk" => AffectedTypeOK)
    /\ cpc \in {"idle", "search", "done"} /\ groups \in Groupings
    /\ DiffTypeOK

\* While affected walks, a symbol that is reached is within the depth, and so is what waits.
LEMMA WalkTyped ==
    ASSUME AffectedInv, apc = "walk", report \in Reports
    PROVE  AffectedTypeOK
<1>1. AffectedTypes /\ HopsAreLeast /\ QueueInTurn
  BY DEF AffectedInv, WalkInv
<1>2. AffectedDepth \in Nat /\ AffectedDepth <= MaxDepth /\ MaxDepth \in Nat
  BY <1>1, GraphAssumption, AffectedAssumption DEF AffectedTypes, AffectedDepth, NormalizeDepth
<1>3. \A s \in Symbols : reached[s] # Unreached => reached[s] \in 0..MaxDepth
  <2> SUFFICES ASSUME NEW s \in Symbols, reached[s] # Unreached PROVE reached[s] \in 0..MaxDepth
    OBVIOUS
  <2>1. reached[s] \in Nat
    BY <1>1 DEF AffectedTypes
  <2>2. reached[s] <= AffectedDepth
    BY <1>1 DEF HopsAreLeast, Reached
  <2> QED
    BY <1>2, <2>1, <2>2
<1>4. reached \in [Symbols -> (0..MaxDepth) \union {Unreached}]
  BY <1>1, <1>3 DEF AffectedTypes
<1>5. pending \in Seq([symbol : Symbols, hops : 0..MaxDepth])
  <2>0. PICK P, Q : P = [symbol : Symbols, hops : Nat] /\ Q = [symbol : Symbols, hops : 0..MaxDepth]
    OBVIOUS
  <2>1. pending \in Seq(P)
    BY <1>1, <2>0 DEF AffectedTypes
  <2>2. ASSUME NEW i \in DOMAIN pending PROVE pending[i] \in [symbol : Symbols, hops : 0..MaxDepth]
    <3>0. pending[i] \in P
      BY <2>1
    <3>1. pending[i] \in [symbol : Symbols, hops : Nat]
      BY <2>0, <3>0
    <3>2. pending[i].hops = reached[pending[i].symbol] /\ pending[i].hops # Unreached
      BY <1>1, <3>1, AffectedAssumption DEF QueueInTurn
    <3>3. pending[i].hops \in 0..MaxDepth
      BY <1>3, <3>1, <3>2
    <3> QED
      BY <3>1, <3>3
  <2>3. Len(pending) \in Nat /\ DOMAIN pending = 1..Len(pending)
    BY <2>1
  <2>4. pending \in [1..Len(pending) -> Q]
    BY <2>0, <2>1, <2>2, <2>3
  <2>5. pending \in Seq(Q)
    BY <2>3, <2>4
  <2> QED
    BY <2>0, <2>5
<1> QED
  BY <1>1, <1>4, <1>5 DEF AffectedTypes, AffectedTypeOK, Reports, FileRows

LEMMA ListedTyped ==
    ASSUME AffectedTypeOK, NEW due, due \subseteq Files, \A f \in due : HopsIn(f) # {}
    PROVE  Listed(due) \in FileRows
<1>1. ASSUME NEW f \in due PROVE Min(HopsIn(f)) \in 0..MaxDepth /\ Min(HopsIn(f)) \in Nat
  <2>1. HopsIn(f) \subseteq 0..MaxDepth /\ HopsIn(f) \subseteq Nat
    BY GraphAssumption DEF AffectedTypeOK, HopsIn
  <2>2. Min(HopsIn(f)) \in HopsIn(f)
    BY <1>1, <2>1, MinIsMember
  <2> QED
    BY <2>1, <2>2
<1>2. PICK order : IsRanking(order, NearerThan(due), due) /\ Listed(due) = RowsBy(order, Cardinality(due))
  BY <1>1, ListedIsRanked
<1>3. Cardinality(due) \in Nat
  BY <1>1, ListedIsRanked, FS_CardinalityType
<1>4. order \in [1..Cardinality(due) -> due]
  BY <1>2 DEF IsRanking
<1>5. PICK n : n = Min({FileCap, Cardinality(due)})
  OBVIOUS
<1>6. n \in Nat /\ n <= Cardinality(due)
  BY <1>3, <1>5, MinOfTwo, AffectedAssumption
<1>7. Listed(due) = [i \in 1..n |-> [file |-> order[i], min_hops |-> Min(HopsIn(order[i]))]]
  BY <1>2, <1>5 DEF RowsBy
<1>8. ASSUME NEW i \in 1..n
      PROVE  [file |-> order[i], min_hops |-> Min(HopsIn(order[i]))] \in [file : Files, min_hops : 0..MaxDepth]
  <2>1. i \in 1..Cardinality(due)
    BY <1>3, <1>6
  <2> QED
    BY <1>1, <1>4, <2>1
<1>9. PICK R : R = [file : Files, min_hops : 0..MaxDepth]
  OBVIOUS
<1>10. Listed(due) \in [1..n -> R]
  BY <1>7, <1>8, <1>9
<1>11. Listed(due) \in Seq(R)
  BY <1>6, <1>10
<1> QED
  BY <1>9, <1>11 DEF FileRows

LEMMA GroupsTyped ==
    ASSUME SearchInv, ReportGroups
    PROVE  groups' \in Groupings
<1>1. PICK order : IsRanking(order, BiggerThan, Large) /\ groups' = GroupsBy(order)
  BY ReportIsRanked
<1>2. PICK total, n : total = Cardinality(Large) /\ n = Min({GroupCap, Cardinality(Large)})
  OBVIOUS
<1>3. total \in Nat /\ n \in Nat /\ n <= total
  <2>1. total \in Nat
    BY <1>2, BiggerIsOrder, FS_CardinalityType
  <2> QED
    BY <1>2, <2>1, MinOfTwo, CyclesAssumption
<1>4. order \in [1..total -> Large]
  BY <1>1, <1>2 DEF IsRanking
<1>5. components \in Seq(SUBSET Files)
  BY DEF SearchInv, SearchTypes
<1>6. ASSUME NEW k \in 1..n PROVE components[order[k]] \in SUBSET Files
  <2>1. k \in 1..total
    BY <1>3
  <2>2. order[k] \in DOMAIN components
    BY <1>4, <2>1 DEF Large
  <2> QED
    BY <1>5, <2>2
<1>7. [k \in 1..n |-> components[order[k]]] \in Seq(SUBSET Files)
  BY <1>3, <1>6
<1>8. groups' = [groups |-> [k \in 1..n |-> components[order[k]]], total |-> total, truncated |-> total > GroupCap]
  BY <1>1, <1>2 DEF GroupsBy
<1> QED
  BY <1>3, <1>7, <1>8 DEF Groupings

LEMMA SurplusTyped ==
    ASSUME NEW more, NEW less, IsFiniteSet(more), IsFiniteSet(less)
    PROVE  Surplus(more, less) \in Nat
<1> DEFINE over == [x \in Ends |-> IF CallsAt(more, x) > CallsAt(less, x)
                                   THEN CallsAt(more, x) - CallsAt(less, x) ELSE 0]
<1>1. \A x \in Ends : CallsAt(more, x) \in Nat /\ CallsAt(less, x) \in Nat
  BY CommonCallsCancel
<1>2. over \in [Ends -> Nat]
  BY <1>1
<1>3. Surplus(more, less) = SumFunction(over)
  BY DEF Surplus, CallsAt
<1> HIDE DEF over
<1> QED
  BY <1>2, <1>3, SumOfNats, DiffAssumption

LEMMA TypesStart == Init => TypesInv
<1> SUFFICES ASSUME Init PROVE TypesInv
  OBVIOUS
<1>1. TraversalInv /\ AffectedInv /\ CyclesInv
  BY TraversalStart, AffectedStart, CyclesStart
<1>2. <<>> \in FileRows /\ <<>> \in Seq([symbol : Symbols, hops : 0..MaxDepth]) /\ <<>> \in Seq(SUBSET Files)
  BY DEF FileRows
<1>3. /\ input.depth \in Nat /\ apc \in {"idle", "seed"} /\ pending = <<>>
      /\ reached = [s \in Symbols |-> Unreached] /\ report = NoReport
  BY QueriesAssumption DEF Init, Walking, Attributing, Grouping, Comparing, AffectedInit, AffectedIdle
<1>4. report \in Reports
  BY <1>2, <1>3 DEF NoReport, Reports
<1>5. AffectedTypeOK
  BY <1>2, <1>3, <1>4 DEF AffectedTypeOK, Reports, FileRows
<1>6. cpc \in {"idle", "search", "done"} /\ groups = NoGroups
  BY DEF Init, Walking, Attributing, Grouping, Comparing, CyclesInit, CyclesIdle
<1>7. groups \in Groupings
  BY <1>2, <1>6 DEF NoGroups, Groupings
<1>8. IsGraph(NoGraph)
  <2>1. <<>> \in Seq(SymbolRow) /\ {} \subseteq CanonEdge /\ IsFiniteSet({})
    BY FS_EmptySet
  <2>2. NoGraph.rows \in [Keys -> Seq(SymbolRow)] /\ NoGraph.edges = {} /\ \A k \in Keys : DOMAIN NoGraph.rows[k] = {}
    BY <2>1 DEF NoGraph
  <2> QED
    BY <2>1, <2>2 DEF IsGraph
<1>9. /\ dpc \in {"idle", "compare"} /\ diff = NoDiff
      /\ IsGraph(before) /\ IsGraph(after)
  BY <1>8, QueriesAssumption DEF Init, Walking, Attributing, Grouping, Comparing, DiffInit, DiffIdle
<1>10. DiffTypeOK
  BY <1>9 DEF DiffTypeOK, NoDiff
<1> QED
  BY <1>1, <1>4, <1>5, <1>6, <1>7, <1>10 DEF TypesInv

LEMMA TypesKept == TypesInv /\ [Next]_vars => TypesInv'
<1> SUFFICES ASSUME TypesInv, [Next]_vars PROVE TypesInv'
  OBVIOUS
<1>1. TraversalInv' /\ AffectedInv' /\ CyclesInv'
  BY TraversalStepKeeps, AffectedStepKeeps, CyclesStepKeeps DEF TypesInv
<1>2. report' \in Reports /\ (apc' # "walk" => AffectedTypeOK')
  <2>1. CASE Seed \/ Pop
    BY <2>1 DEF Seed, Pop, TypesInv
  <2>2. CASE Report
    <3>1. /\ apc = "walk" /\ apc' = "done"
          /\ input' = input /\ pending' = pending /\ reached' = reached
      BY <2>2 DEF Report
    <3>2. AffectedTypeOK
      BY <3>1, WalkTyped DEF TypesInv
    <3>3. PICK tests, impacted :
            /\ tests \subseteq Files /\ impacted \subseteq Files
            /\ \A f \in tests \union impacted : HopsIn(f) # {}
            /\ report' = [tests |-> Listed(tests), impacted |-> Listed(impacted),
                          truncated |-> Cardinality(tests) > FileCap \/ Cardinality(impacted) > FileCap]
      <4> DEFINE files == {f \in Files : HopsIn(f) # {}}
      <4>1. /\ files \intersect Tests \subseteq Files /\ files \ (Tests \union Changed) \subseteq Files
            /\ \A f \in (files \intersect Tests) \union (files \ (Tests \union Changed)) : HopsIn(f) # {}
        OBVIOUS
      <4> QED
        BY <2>2, <4>1 DEF Report
    <3>4. Listed(tests) \in FileRows /\ Listed(impacted) \in FileRows
      BY <3>2, <3>3, ListedTyped
    <3>5. report' \in Reports
      BY <3>3, <3>4 DEF Reports
    <3> QED
      BY <3>1, <3>2, <3>5 DEF AffectedTypeOK, Reports, FileRows
  <2>3. CASE UNCHANGED affecting
    BY <2>3 DEF affecting, TypesInv, AffectedTypeOK
  <2> QED
    BY <2>1, <2>2, <2>3 DEF Next, vars, AffectedStep
<1>3. cpc' \in {"idle", "search", "done"} /\ groups' \in Groupings
  <2>1. CASE ReportGroups
    BY <2>1, GroupsTyped DEF ReportGroups, TypesInv, CyclesInv
  <2>2. CASE UNCHANGED <<cpc, groups>>
    BY <2>2 DEF TypesInv
  <2>3. ReportGroups \/ UNCHANGED <<cpc, groups>>
    BY DEF Next, vars, cycling, CyclesStep, StartSearch, CloseFrame, Descend, Lower
  <2> QED
    BY <2>1, <2>2, <2>3
<1>4. DiffTypeOK'
  <2>1. CASE Compare
    <3>1. /\ IsGraph(before) /\ IsGraph(after) /\ before' = before /\ after' = after /\ dpc' = "done"
          /\ diff'.changed \subseteq KeysOf(before)
          /\ diff'.addedCalls = Surplus(after.edges \ before.edges, before.edges \ after.edges)
          /\ diff'.removedCalls = Surplus(before.edges \ after.edges, after.edges \ before.edges)
      BY <2>1 DEF Compare, TypesInv, DiffTypeOK
    <3>2. IsFiniteSet(after.edges \ before.edges) /\ IsFiniteSet(before.edges \ after.edges)
      BY <3>1, FS_Difference DEF IsGraph
    <3>3. diff'.addedCalls \in Nat /\ diff'.removedCalls \in Nat
      BY <3>1, <3>2, SurplusTyped
    <3> QED
      BY <3>1, <3>3 DEF DiffTypeOK, KeysOf
  <2>2. CASE UNCHANGED diffing
    BY <2>2 DEF diffing, TypesInv, DiffTypeOK
  <2> QED
    BY <2>1, <2>2 DEF Next, vars
<1> QED
  BY <1>1, <1>2, <1>3, <1>4 DEF TypesInv

\* Every variable of every query keeps its type: the rows of a walk are calls of the graph
\* or markers, hops stay within the depth bound, and the counts of a diff are numbers.
THEOREM QueriesTyped == Spec => []TypeOK
<1>1. TypesInv => TypeOK
  <2> SUFFICES ASSUME TypesInv PROVE TypeOK
    OBVIOUS
  <2>1. calls \subseteq Sites /\ TraversalTypeOK /\ DiffTypeOK
    BY DEF TypesInv, TraversalInv
  <2>2. AffectedTypeOK
    BY WalkTyped DEF TypesInv
  <2>3. CyclesTypeOK
    BY DEF TypesInv, CyclesInv, SearchInv, SearchTypes, CyclesTypeOK, Groupings
  <2> QED
    BY <2>1, <2>2, <2>3 DEF TypeOK
<1>2. Spec => []TypesInv
  BY TypesStart, TypesKept, PTL DEF Spec
<1> QED
  BY <1>1, <1>2, PTL
=============================================================================
