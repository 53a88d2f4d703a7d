------------------------- MODULE SchemaUpgradeProofs -------------------------
(***************************************************************************)
(* Migrations of any databases, of any number of files and twins, through  *)
(* any number of kills.  The argument: while ids tell the twins of a file  *)
(* apart they number them in a row (Ranking); the loop of the rewrite then *)
(* visits each twin once (LoopRuns) and leaves it the number of its place, *)
(* its calls with it (RewriteResult); and whatever a commit leaves undone  *)
(* keeps the recorded version behind (MigrationInv).                       *)
(*                                                                         *)
(* Loops are recursive functions over numbers.  What they do for every     *)
(* number follows by least counterexample (LeastNumber, Stepwise).         *)
(***************************************************************************)
EXTENDS SchemaUpgrade, FiniteSetTheorems, Induction, TLAPS

\* A sequence of steps, each on the outcome of the one before, can be run.
Steps(n, A) == [1..n -> [A -> A]]
IsRun(g, n, a, step) == g[0] = a /\ \A k \in 1..n : g[k] = step[k][g[k - 1]]

LEMMA Iteration ==
    ASSUME NEW n \in Nat, NEW A, NEW a \in A, NEW step \in Steps(n, A)
    PROVE  \E g \in [0..n -> A] : IsRun(g, n, a, step)
<1> USE DEF Steps, IsRun
<1> DEFINE Runs(k) == {g \in [0..k -> A] : g[0] = a /\ \A j \in 1..k : g[j] = step[j][g[j - 1]]}
           P == {k \in 0..n : Runs(k) # {}}
<1>1. 0 \in P
  <2>1. [j \in 0..0 |-> a] \in Runs(0)
    OBVIOUS
  <2> QED
    BY <2>1
<1>2. ASSUME NEW k \in 1..n, k - 1 \in P PROVE k \in P
  <2>1. PICK g : g \in Runs(k - 1)
    BY <1>2
  <2> DEFINE h == [j \in 0..k |-> IF j = k THEN step[k][g[k - 1]] ELSE g[j]]
  <2>2. g \in [0..(k - 1) -> A] /\ g[0] = a /\ \A j \in 1..(k - 1) : g[j] = step[j][g[j - 1]]
    BY <2>1
  <2>3. h \in [0..k -> A]
    BY <2>2
  <2>4. h[0] = a /\ \A j \in 1..k : h[j] = step[j][h[j - 1]]
    BY <2>2
  <2> HIDE DEF h
  <2>5. h \in Runs(k)
    BY <2>3, <2>4
  <2>6. Runs(k) # {}
    BY <2>5
  <2> HIDE DEF Runs
  <2> QED
    BY <2>6
<1> HIDE DEF P
<1>3. P = 0..n
  BY <1>1, <1>2, Stepwise DEF P
<1> QED
  BY <1>3 DEF P

-----------------------------------------------------------------------------
(* The twins of a file in a row.                                           *)

LEMMA TwinsCount == IsFiniteSet(Twins) /\ Cardinality(Twins) \in Nat
  BY UpgradeAssumption, FS_CardinalityType

\* An injection of the twins into the ordinals meets every ordinal.
LEMMA OrdinalsAreMet ==
    ASSUME NEW g \in [Twins -> Ordinals], \A s, t \in Twins : g[s] = g[t] => s = t
    PROVE  \A n \in Ordinals : \E s \in Twins : g[s] = n
<1>1. IsFiniteSet(Ordinals) /\ Cardinality(Ordinals) = Cardinality(Twins)
  <2>1. IsFiniteSet(0..(Cardinality(Twins) - 1))
        /\ Cardinality(0..(Cardinality(Twins) - 1)) =
              IF 0 > Cardinality(Twins) - 1 THEN 0 ELSE (Cardinality(Twins) - 1) - 0 + 1
    BY TwinsCount, FS_Interval
  <2> QED
    BY <2>1, TwinsCount DEF Ordinals
<1>2. g \in Injection(Twins, Ordinals)
  BY DEF Injection, IsInjective
<1>3. g \in Surjection(Twins, Ordinals)
  BY <1>1, <1>2, FS_Injection
<1> QED
  BY <1>3 DEF Surjection

\* Counting what comes before numbers a finite total order from 0 on.
LEMMA Counting ==
    ASSUME NEW below \in [Twins -> SUBSET Twins],
           \A s \in Twins : s \notin below[s],
           \A s, t \in Twins : s # t => s \in below[t] \/ t \in below[s],
           \A s, t \in Twins : s \in below[t] => below[s] \subseteq below[t]
    PROVE  /\ \A s \in Twins : Cardinality(below[s]) \in Ordinals
           /\ \A s, t \in Twins : Cardinality(below[s]) = Cardinality(below[t]) => s = t
<1>1. \A s \in Twins : IsFiniteSet(below[s]) /\ Cardinality(below[s]) \in Nat
  BY TwinsCount, FS_Subset, FS_CardinalityType
<1>2. ASSUME NEW s \in Twins PROVE Cardinality(below[s]) \in Ordinals
  <2>1. Cardinality(below[s]) <= Cardinality(Twins) /\ Cardinality(below[s]) # Cardinality(Twins)
    BY TwinsCount, FS_Subset
  <2> QED
    BY <1>1, <2>1, TwinsCount DEF Ordinals
<1>3. ASSUME NEW s \in Twins, NEW t \in Twins, s \in below[t]
      PROVE  Cardinality(below[s]) # Cardinality(below[t])
  <2>1. below[s] \in SUBSET below[t] /\ below[s] # below[t]
    BY <1>3
  <2> QED
    BY <1>1, <2>1, FS_Subset
<1> QED
  BY <1>2, <1>3

\* An order that goes by place counts up to the place.
LEMMA CountingIsPlace ==
    ASSUME NEW s \in Twins
    PROVE  Cardinality({t \in Twins : Place[t] < Place[s]}) = Place[s]
<1> DEFINE below == {t \in Twins : Place[t] < Place[s]}
           g == [t \in below |-> Place[t]]
<1>1. Place \in [Twins -> Ordinals] /\ \A t, u \in Twins : Place[t] = Place[u] => t = u
  BY UpgradeAssumption, DistinctAssumption
<1>2. \A n \in Ordinals : \E t \in Twins : Place[t] = n
  BY <1>1, OrdinalsAreMet
<1>3. Place[s] \in Nat /\ 0..(Place[s] - 1) \subseteq Ordinals
  BY <1>1, TwinsCount DEF Ordinals
<1>4. g \in [below -> 0..(Place[s] - 1)]
  BY <1>1, TwinsCount DEF Ordinals
<1>5. \A n \in 0..(Place[s] - 1) : \E t \in below : g[t] = n
  BY <1>1, <1>2, <1>3
<1>6. g \in Bijection(below, 0..(Place[s] - 1))
  BY <1>1, <1>4, <1>5 DEF Bijection, Injection, IsInjective, Surjection
<1>7. IsFiniteSet(below)
  BY TwinsCount, FS_Subset
<1>8. Cardinality(0..(Place[s] - 1)) = Cardinality(below)
  BY <1>6, <1>7, FS_Bijection DEF ExistsBijection
<1>9. Cardinality(0..(Place[s] - 1)) = IF 0 > Place[s] - 1 THEN 0 ELSE (Place[s] - 1) - 0 + 1
  BY <1>3, FS_Interval
<1> QED
  BY <1>3, <1>8, <1>9

\* Ids that differ number the twins of a file from 0 to the last ordinal; and with a line
\* for each twin, as extraction does.
LEMMA Ranking ==
    ASSUME line \in Layouts, NEW ids \in [Twins -> Ids],
           \A s, t \in Twins : ids[s] = ids[t] => s = t
    PROVE  /\ \A s \in Twins : Rank(ids, s) \in Ordinals
           /\ \A s, t \in Twins : Rank(ids, s) = Rank(ids, t) => s = t
           /\ \A n \in Ordinals : \E s \in Twins : Rank(ids, s) = n
           /\ DistinctLines => \A s \in Twins : Rank(ids, s) = Place[s]
<1> DEFINE Comes(t, s) == line[t] < line[s] \/ (line[t] = line[s] /\ ids[t] < ids[s])
           below == [s \in Twins |-> {t \in Twins : Comes(t, s)}]
<1>1. line \in [Twins -> Nat] /\ \A s \in Twins : ids[s] \in Nat
  BY UpgradeAssumption DEF Ids
<1>2. \A s \in Twins : ~Comes(s, s)
  BY <1>1
<1>3. \A s, t \in Twins : s # t => Comes(s, t) \/ Comes(t, s)
  BY <1>1
<1>4. \A r, s, t \in Twins : Comes(r, s) /\ Comes(s, t) => Comes(r, t)
  BY <1>1
<1>5. \A s \in Twins : Rank(ids, s) = Cardinality(below[s])
  BY DEF Rank
<1>6. /\ \A s \in Twins : Cardinality(below[s]) \in Ordinals
      /\ \A s, t \in Twins : Cardinality(below[s]) = Cardinality(below[t]) => s = t
  <2> HIDE DEF Comes
  <2>1. /\ below \in [Twins -> SUBSET Twins]
        /\ \A s \in Twins : s \notin below[s]
        /\ \A s, t \in Twins : s # t => s \in below[t] \/ t \in below[s]
        /\ \A s, t \in Twins : s \in below[t] => below[s] \subseteq below[t]
    BY <1>2, <1>3, <1>4
  <2> HIDE DEF below
  <2> QED
    BY <2>1, Counting
<1>7. \A n \in Ordinals : \E s \in Twins : Rank(ids, s) = n
  <2> DEFINE g == [s \in Twins |-> Rank(ids, s)]
  <2> HIDE DEF below, Comes
  <2>1. g \in [Twins -> Ordinals] /\ \A s, t \in Twins : g[s] = g[t] => s = t
    BY <1>5, <1>6
  <2>2. \A n \in Ordinals : \E s \in Twins : g[s] = n
    <3> HIDE DEF g
    <3> QED
      BY <2>1, OrdinalsAreMet
  <2> QED
    BY <2>2
<1>8. ASSUME DistinctLines, NEW s \in Twins PROVE Rank(ids, s) = Place[s]
  <2>1. \A t \in Twins : line[t] < line[s] <=> Place[t] < Place[s]
    <3>1. Place \in [Twins -> Nat]
      BY UpgradeAssumption, TwinsCount DEF Ordinals
    <3> QED
      BY <1>1, <1>8, <3>1, DistinctAssumption DEF DistinctLines
  <2>2. \A t \in Twins : Comes(t, s) <=> Place[t] < Place[s]
    BY <1>1, <1>8, <2>1 DEF DistinctLines
  <2>3. below[s] = {t \in Twins : Place[t] < Place[s]}
    BY <2>2
  <2> QED
    BY <1>5, <2>3, CountingIsPlace
<1> HIDE DEF below, Comes
<1>9. \A s, t \in Twins : Rank(ids, s) = Rank(ids, t) => s = t
  BY <1>5, <1>6
<1>10. \A s \in Twins : Rank(ids, s) \in Ordinals
  BY <1>5, <1>6
<1> QED
  BY <1>7, <1>8, <1>9, <1>10

-----------------------------------------------------------------------------
(* The loop of the rewrite.                                                *)

\* What the loop has of a file while it runs.
Renaming == [ok : BOOLEAN, ids : [Twins -> Ids], calls : [Twins -> Ids \union {NoCaller}]]

IdsDiffer(ids) == \A s, t \in Twins : ids[s] = ids[t] => s = t

LEMMA RenameTypes ==
    ASSUME NEW g \in Renaming, NEW s \in Twins, NEW id \in Ids
    PROVE  Rename(g, s, id) \in Renaming
<1>1. g.ids \in [Twins -> Ids] /\ g.calls \in [Twins -> Ids \union {NoCaller}] /\ g.ok \in BOOLEAN
  BY DEF Renaming
<1>2. (g.ok /\ \A t \in Twins \ {s} : g.ids[t] # id) \in BOOLEAN
  BY <1>1
<1>3. [g.ids EXCEPT ![s] = id] \in [Twins -> Ids]
  BY <1>1
<1>4. [t \in Twins |-> IF g.calls[t] = g.ids[s] THEN id ELSE g.calls[t]] \in [Twins -> Ids \union {NoCaller}]
  BY <1>1
<1> QED
  BY <1>2, <1>3, <1>4 DEF Rename, Renaming

\* The loop renames the twins one by one, from the first of the row to the last.
LEMMA LoopRuns ==
    ASSUME line \in Layouts, NEW f \in Files, files \in [Files -> FileFacts], IdsDiffer(files[f].ids)
    PROVE  \E g :
              /\ Rewritten(f) = g[Cardinality(Twins)]
              /\ g[0] = [ok |-> TRUE, ids |-> files[f].ids, calls |-> files[f].calls]
              /\ \A n \in 1..Cardinality(Twins) :
                    \E s \in Twins :
                       /\ Rank(files[f].ids, s) = n - 1
                       /\ g[n] = IF files[f].ids[s] = NewId[n - 1] THEN g[n - 1]
                                 ELSE Rename(g[n - 1], s, NewId[n - 1])
<1> DEFINE N == Cardinality(Twins)
           ids == files[f].ids
           start == [ok |-> TRUE, ids |-> files[f].ids, calls |-> files[f].calls]
           Nth(n) == CHOOSE t \in Twins : Rank(files[f].ids, t) = n - 1
           Turn(n, h) == LET s == CHOOSE t \in Twins : Rank(files[f].ids, t) = n - 1
                         IN  IF files[f].ids[s] = NewId[n - 1] THEN h ELSE Rename(h, s, NewId[n - 1])
           step == [n \in 1..N |-> [h \in Renaming |-> Turn(n, h)]]
           Body(g) == [n \in 0..N |-> IF n = 0 THEN start ELSE Turn(n, g[n - 1])]
<1>1. N \in Nat /\ start \in Renaming /\ ids \in [Twins -> Ids]
  BY TwinsCount DEF FileFacts, Renaming
<1>2. ASSUME NEW n \in 1..N PROVE Nth(n) \in Twins /\ Rank(ids, Nth(n)) = n - 1
  <2>1. n - 1 \in Ordinals
    BY <1>1 DEF Ordinals
  <2>2. \E t \in Twins : Rank(ids, t) = n - 1
    BY <1>1, <2>1, Ranking DEF IdsDiffer
  <2> QED
    BY <2>2
<1>3. ASSUME NEW n \in 1..N PROVE NewId[n - 1] \in Ids
  <2>1. n - 1 \in Ordinals
    BY <1>1 DEF Ordinals
  <2> QED
    BY <2>1, UpgradeAssumption
<1>4. step \in [1..N -> [Renaming -> Renaming]]
  <2> SUFFICES ASSUME NEW n \in 1..N, NEW h \in Renaming PROVE Turn(n, h) \in Renaming
    OBVIOUS
  <2> HIDE DEF N
  <2>1. Nth(n) \in Twins /\ NewId[n - 1] \in Ids
    BY <1>2, <1>3
  <2> HIDE DEF Nth
  <2>2. Rename(h, Nth(n), NewId[n - 1]) \in Renaming
    BY <2>1, RenameTypes
  <2> QED
    BY <2>2 DEF Nth
<1>5. PICK g \in [0..N -> Renaming] : g[0] = start /\ \A n \in 1..N : g[n] = step[n][g[n - 1]]
  <2> HIDE DEF N, start, step
  <2>1. N \in Nat /\ start \in Renaming
    BY <1>1
  <2>2. step \in Steps(N, Renaming)
    BY <1>4 DEF Steps
  <2>3. \E g \in [0..N -> Renaming] : IsRun(g, N, start, step)
    BY <2>1, <2>2, Iteration
  <2> QED
    BY <2>3 DEF IsRun
<1>6. \A n \in 1..N : g[n] = Turn(n, g[n - 1])
  <2> TAKE n \in 1..N
  <2>1. g[n - 1] \in Renaming
    <3>1. n - 1 \in 0..N
      BY <1>1
    <3> HIDE DEF N
    <3> QED
      BY <1>5, <3>1
  <2> HIDE DEF Turn
  <2> QED
    BY <1>5, <2>1
<1>7. g = Body(g)
  <2> HIDE DEF Turn, start
  <2> QED
    BY <1>1, <1>5, <1>6
<1> DEFINE after == CHOOSE a : a = Body(a)
<1>8. after = Body(after)
  <2> HIDE DEF Body
  <2> QED
    BY <1>7
<1>9. Rewritten(f) = after[N]
  BY DEF Rewritten
<1> HIDE DEF after
<1>10. after[0] = start /\ \A n \in 1..N : after[n] = Turn(n, after[n - 1])
  <2> HIDE DEF Turn, start
  <2> QED
    BY <1>1, <1>8
<1>11. ASSUME NEW n \in 1..N
       PROVE  \E s \in Twins :
                 /\ Rank(ids, s) = n - 1
                 /\ after[n] = IF ids[s] = NewId[n - 1] THEN after[n - 1]
                               ELSE Rename(after[n - 1], s, NewId[n - 1])
  <2>1. after[n] = IF ids[Nth(n)] = NewId[n - 1] THEN after[n - 1]
                   ELSE Rename(after[n - 1], Nth(n), NewId[n - 1])
    BY <1>10
  <2> HIDE DEF Nth
  <2> QED
    BY <1>2, <2>1
<1> QED
  BY <1>9, <1>10, <1>11

\* Each call is its twin's or nobody's, and nobody's only where it was before.
Paired(ids, calls, before) ==
    \A t \in Twins : calls[t] \in {ids[t], NoCaller} /\ (calls[t] = NoCaller <=> before[t] = NoCaller)

LEMMA RenameChecks ==
    ASSUME NEW g, NEW s \in Twins, NEW id, Rename(g, s, id).ok
    PROVE  g.ok /\ \A t \in Twins \ {s} : g.ids[t] # id
  BY DEF Rename

\* Where ids differ a renaming takes the calls along.
LEMMA RenamePairs ==
    ASSUME NEW g \in Renaming, NEW s \in Twins, NEW id \in Ids, NEW before, IdsDiffer(g.ids),
           Paired(g.ids, g.calls, before)
    PROVE  Paired(Rename(g, s, id).ids, Rename(g, s, id).calls, before)
<1>1. g.ids \in [Twins -> Ids] /\ g.calls \in [Twins -> Ids \union {NoCaller}] /\ NoCaller \notin Ids
  BY DEF Renaming, NoCaller, Ids
<1> DEFINE r == Rename(g, s, id)
<1>3. \A t \in Twins : r.ids[t] = IF t = s THEN id ELSE g.ids[t]
  BY <1>1 DEF Rename
<1>4. \A t \in Twins : r.calls[t] = IF g.calls[t] = g.ids[s] THEN id ELSE g.calls[t]
  BY DEF Rename
<1> HIDE DEF r
<1>5. Paired(r.ids, r.calls, before)
  BY <1>1, <1>3, <1>4 DEF IdsDiffer, Paired
<1> QED
  BY <1>5 DEF r

\* After the loop every twin has the id of its number in the row.
LEMMA RewriteResult ==
    ASSUME line \in Layouts, NEW f \in Files, files \in [Files -> FileFacts], IdsDiffer(files[f].ids)
    PROVE  /\ Rewritten(f) \in Renaming
           /\ \A s \in Twins : Rewritten(f).ids[s] = NewId[Rank(files[f].ids, s)]
           /\ IdsDiffer(Rewritten(f).ids)
           /\ Rewritten(f).ok /\ Paired(files[f].ids, files[f].calls, files[f].calls) =>
                 Paired(Rewritten(f).ids, Rewritten(f).calls, files[f].calls)
<1> DEFINE N == Cardinality(Twins)
           ids == files[f].ids
           calls == files[f].calls
<1>1. PICK g :
         /\ Rewritten(f) = g[N]
         /\ g[0] = [ok |-> TRUE, ids |-> ids, calls |-> calls]
         /\ \A n \in 1..N :
               \E s \in Twins :
                  /\ Rank(ids, s) = n - 1
                  /\ g[n] = IF ids[s] = NewId[n - 1] THEN g[n - 1] ELSE Rename(g[n - 1], s, NewId[n - 1])
  BY LoopRuns
<1>2. N \in Nat /\ ids \in [Twins -> Ids] /\ calls \in [Twins -> Ids \union {NoCaller}]
  BY TwinsCount DEF FileFacts
<1>3. /\ \A s \in Twins : Rank(ids, s) \in Ordinals
      /\ \A s, t \in Twins : Rank(ids, s) = Rank(ids, t) => s = t
  BY <1>2, Ranking DEF IdsDiffer
<1>4. \A s \in Twins : Rank(ids, s) \in 0..(N - 1)
  BY <1>3 DEF Ordinals
<1> DEFINE Begun(n) ==
      /\ g[n] \in Renaming
      /\ \A t \in Twins : g[n].ids[t] = IF Rank(ids, t) < n THEN NewId[Rank(ids, t)] ELSE ids[t]
      /\ g[n].ok => IdsDiffer(g[n].ids)
      /\ g[n].ok /\ Paired(ids, calls, calls) => Paired(g[n].ids, g[n].calls, calls)
<1> HIDE DEF N, ids, calls
<1>5. Begun(0)
  <2>1. g[0] \in Renaming
    BY <1>1, <1>2 DEF Renaming
  <2>2. \A t \in Twins : ~(Rank(ids, t) < 0)
    BY <1>2, <1>4
  <2>3. IdsDiffer(ids)
    BY DEF ids
  <2> QED
    BY <1>1, <2>1, <2>2, <2>3
<1>6. ASSUME NEW n \in 1..N, Begun(n - 1) PROVE Begun(n)
  <2>1. PICK s \in Twins :
           /\ Rank(ids, s) = n - 1
           /\ g[n] = IF ids[s] = NewId[n - 1] THEN g[n - 1] ELSE Rename(g[n - 1], s, NewId[n - 1])
    BY <1>1
  <2> DEFINE h == g[n - 1]
             id == NewId[n - 1]
  <2>2. id \in Ids
    BY <1>2, UpgradeAssumption, n - 1 \in Ordinals DEF N, Ordinals
  <2>3. \A t \in Twins : Rank(ids, t) < n <=> Rank(ids, t) < n - 1 \/ t = s
    BY <1>2, <1>3, <1>4, <2>1
  <2>4. h \in Renaming /\ h.ids \in [Twins -> Ids]
    BY <1>6 DEF Renaming
  <2>5. CASE ids[s] = id
    <3>1. g[n] = h
      BY <2>1, <2>5
    <3>2. \A t \in Twins : h.ids[t] = IF Rank(ids, t) < n THEN NewId[Rank(ids, t)] ELSE ids[t]
      BY <1>6, <2>1, <2>3, <2>5
    <3> QED
      BY <1>6, <3>1, <3>2
  <2>6. CASE ids[s] # id
    <3>1. g[n] = Rename(h, s, id)
      BY <2>1, <2>6
    <3>2. g[n] \in Renaming
      BY <2>2, <2>4, <3>1, RenameTypes
    <3>3. \A t \in Twins : g[n].ids[t] = IF t = s THEN id ELSE h.ids[t]
      BY <2>4, <3>1 DEF Rename
    <3>4. \A t \in Twins : g[n].ids[t] = IF Rank(ids, t) < n THEN NewId[Rank(ids, t)] ELSE ids[t]
      BY <1>6, <2>1, <2>3, <3>3
    <3>5. ASSUME g[n].ok PROVE IdsDiffer(g[n].ids)
      <4>1. h.ok /\ \A t \in Twins \ {s} : h.ids[t] # id
        <5>1. Rename(h, s, id).ok
          BY <3>1, <3>5
        <5> HIDE DEF h, id
        <5> QED
          BY <5>1, RenameChecks
      <4> QED
        BY <1>6, <3>3, <4>1 DEF IdsDiffer
    <3>6. ASSUME g[n].ok, Paired(ids, calls, calls) PROVE Paired(g[n].ids, g[n].calls, calls)
      <4>1. h.ok
        BY <3>1, <3>6, RenameChecks
      <4>2. IdsDiffer(h.ids) /\ Paired(h.ids, h.calls, calls)
        BY <1>6, <3>6, <4>1
      <4> HIDE DEF h, id
      <4> QED
        BY <2>2, <2>4, <3>1, <4>2, RenamePairs
    <3> QED
      BY <3>2, <3>4, <3>5, <3>6
  <2> QED
    BY <2>5, <2>6
<1>7. Begun(N)
  <2> DEFINE P == {n \in 0..N : Begun(n)}
  <2> HIDE DEF Begun
  <2>1. 0 \in P /\ \A n \in 1..N : n - 1 \in P => n \in P
    BY <1>2, <1>5, <1>6
  <2>2. P = 0..N
    <3> HIDE DEF P
    <3>1. P \subseteq 0..N
      BY DEF P
    <3> QED
      BY <1>2, <2>1, <3>1, Stepwise
  <2> QED
    BY <1>2, <2>2
<1>8. \A s \in Twins : g[N].ids[s] = NewId[Rank(ids, s)]
  BY <1>2, <1>4, <1>7
<1>9. IdsDiffer(g[N].ids)
  BY <1>3, <1>8, DistinctAssumption DEF IdsDiffer
<1>10. g[N] = Rewritten(f)
  BY <1>1
<1> QED
  BY <1>7, <1>8, <1>9, <1>10 DEF ids, calls

-----------------------------------------------------------------------------
(* Types.                                                                  *)

\* symbols.id is a primary key, which the loop needs to be told apart by.
IdsApart == \A f \in Files : IdsDiffer(files[f].ids)

LEMMA ExtractedTypes == Extracted \in FileFacts /\ IdsDiffer(Extracted.ids)
<1>1. Place \in [Twins -> Ordinals] /\ NewId \in [Ordinals -> Ids]
  BY UpgradeAssumption
<1>2. Extracted.ids = [s \in Twins |-> NewId[Place[s]]]
  BY DEF Extracted
<1>3. Extracted \in FileFacts
  BY <1>1 DEF Extracted, FileFacts
<1>4. IdsDiffer(Extracted.ids)
  BY <1>1, <1>2, DistinctAssumption DEF IdsDiffer
<1> QED
  BY <1>3, <1>4

LEMMA StoredTypes ==
    ASSUME NEW v \in 2..Current, NEW fresh \in BOOLEAN
    PROVE  Stored(v, fresh) \in FileFacts /\ IdsDiffer(Stored(v, fresh).ids)
<1> DEFINE ids == IF v = Current THEN Extracted.ids ELSE OldId
<1>1. ids \in [Twins -> Ids] /\ IdsDiffer(ids)
  BY ExtractedTypes, UpgradeAssumption, DistinctAssumption DEF FileFacts, IdsDiffer
<1>2. Stored(v, fresh).ids = ids
  BY DEF Stored
<1>3. Stored(v, fresh) \in FileFacts
  BY <1>1 DEF Stored, FileFacts
<1> QED
  BY <1>1, <1>2, <1>3

LEMMA TypesInit == Init => TypeOK /\ IdsApart
<1> SUFFICES ASSUME Init PROVE TypeOK /\ IdsApart
  OBVIOUS
<1>1. PICK v \in 2..Current, synced \in BOOLEAN, fresh \in [Files -> BOOLEAN] :
         /\ version = IF synced THEN v ELSE 0
         /\ columns \in {c \in SUBSET Columns : ColumnsOf(v) \subseteq c}
         /\ files = [f \in Files |-> Stored(v, synced /\ v >= 4 /\ fresh[f])]
         /\ edges = IF synced /\ v < 6 THEN "unscored" ELSE "resolved"
  BY DEF Init
<1>2. \A f \in Files : files[f] \in FileFacts /\ IdsDiffer(files[f].ids)
  <2> TAKE f \in Files
  <2>1. (synced /\ v >= 4 /\ fresh[f]) \in BOOLEAN
    OBVIOUS
  <2> QED
    BY <1>1, <2>1, StoredTypes
<1>3. files \in [Files -> FileFacts]
  BY <1>1, <1>2
<1>4. IdsApart
  BY <1>2 DEF IdsApart
<1>5. version \in {0} \union 2..Current /\ columns \in SUBSET Columns /\ edges \in {"resolved", "unscored", "none"}
  BY <1>1
<1>6. faults \in 0..MaxFaults
  BY UpgradeAssumption DEF Init
<1> QED
  BY <1>3, <1>4, <1>5, <1>6 DEF Init, TypeOK

\* What the rewrite leaves of a file.
LEMMA RewrittenFile ==
    ASSUME TypeOK, IdsApart, RewriteIds, NEW f \in Files
    PROVE  /\ files'[f] \in FileFacts /\ IdsDiffer(files'[f].ids)
           /\ files'[f].bodies = files[f].bodies
           /\ \A s \in Twins : files'[f].ids[s] = NewId[Rank(files[f].ids, s)]
           /\ Paired(files[f].ids, files[f].calls, files[f].calls) =>
                 Paired(files'[f].ids, files'[f].calls, files[f].calls)
<1>1. /\ Rewritten(f) \in Renaming /\ IdsDiffer(Rewritten(f).ids) /\ Rewritten(f).ok
      /\ \A s \in Twins : Rewritten(f).ids[s] = NewId[Rank(files[f].ids, s)]
      /\ Paired(files[f].ids, files[f].calls, files[f].calls) =>
            Paired(Rewritten(f).ids, Rewritten(f).calls, files[f].calls)
  BY RewriteResult DEF RewriteIds, TypeOK, IdsApart
<1>2. files'[f] = [files[f] EXCEPT !.ids = Rewritten(f).ids, !.calls = Rewritten(f).calls]
  BY DEF RewriteIds
<1>3. Rewritten(f).ids \in [Twins -> Ids] /\ Rewritten(f).calls \in [Twins -> Ids \union {NoCaller}]
  BY <1>1 DEF Renaming
<1>4. files[f] \in FileFacts
  BY DEF TypeOK
<1>5. /\ files'[f].ids = Rewritten(f).ids /\ files'[f].calls = Rewritten(f).calls
      /\ files'[f].bodies = files[f].bodies /\ files'[f] \in FileFacts
  BY <1>2, <1>3, <1>4 DEF FileFacts
<1> QED
  BY <1>1, <1>5

LEMMA TypesStep == TypeOK /\ IdsApart /\ [Next]_vars => TypeOK' /\ IdsApart'
<1> SUFFICES ASSUME TypeOK, IdsApart, [Next]_vars PROVE TypeOK' /\ IdsApart'
  OBVIOUS
<1> USE DEF Then, At
<1>1. CASE Start
  BY <1>1 DEF Start, TypeOK, IdsApart
<1>2. CASE AddBodyHash
  BY <1>2 DEF AddBodyHash, AtLeast, Columns, None, RebuildEdges, FullReindex, TypeOK, IdsApart
<1>3. CASE AddFingerprint
  <2>1. \A f \in Files : files'[f] \in FileFacts /\ files'[f].ids = files[f].ids
    BY <1>3 DEF AddFingerprint, TypeOK, FileFacts
  <2>2. files' \in [Files -> FileFacts]
    BY <1>3, <2>1 DEF AddFingerprint, TypeOK
  <2>3. IdsApart'
    BY <2>1 DEF IdsApart, IdsDiffer
  <2> QED
    BY <1>3, <2>2, <2>3 DEF AddFingerprint, Columns, TypeOK
<1>4. CASE CheckCalls
  BY <1>4 DEF CheckCalls, AtLeast, None, RebuildEdges, FullReindex, TypeOK, IdsApart
<1>5. CASE AddConfidence
  BY <1>5 DEF AddConfidence, AtLeast, Columns, None, RebuildEdges, FullReindex, TypeOK, IdsApart
<1>6. CASE RewriteIds
  <2>2. \A f \in Files : files'[f] \in FileFacts /\ IdsDiffer(files'[f].ids)
    BY <1>6, RewrittenFile
  <2>3. files' \in [Files -> FileFacts]
    BY <1>6, <2>2 DEF RewriteIds
  <2>4. IdsApart'
    BY <2>2 DEF IdsApart, IdsDiffer
  <2> QED
    BY <1>6, <2>3, <2>4 DEF RewriteIds, AtLeast, None, RebuildEdges, FullReindex, TypeOK
<1>7. CASE RewriteFails \/ SkipRewrite
  BY <1>7 DEF RewriteFails, SkipRewrite, TypeOK, IdsApart
<1>8. ASSUME NEW force \in BOOLEAN, Sync(force) PROVE TypeOK' /\ IdsApart'
  <2>1. \A f \in Files : files'[f] \in {Extracted, files[f]}
    BY <1>8 DEF Sync
  <2>2. files' \in [Files -> FileFacts]
    BY <1>8, <2>1, ExtractedTypes DEF Sync, TypeOK
  <2>3. IdsApart'
    BY <2>1, ExtractedTypes DEF IdsApart, IdsDiffer
  <2> QED
    BY <1>8, <2>2, <2>3 DEF Sync, Current, TypeOK
<1>9. CASE Interrupt
  BY <1>9, UpgradeAssumption DEF Interrupt, TypeOK, IdsApart
<1>10. ASSUME NEW f \in Files, Edit(f) PROVE TypeOK' /\ IdsApart'
  <2>1. \A g \in Files : files'[g] \in FileFacts /\ files'[g].ids = files[g].ids
    BY <1>10 DEF Edit, TypeOK, FileFacts
  <2>2. files' \in [Files -> FileFacts]
    BY <1>10, <2>1 DEF Edit, TypeOK
  <2>3. IdsApart'
    BY <2>1 DEF IdsApart, IdsDiffer
  <2> QED
    BY <1>10, <2>2, <2>3, UpgradeAssumption DEF Edit, TypeOK
<1>11. CASE UNCHANGED vars
  BY <1>11 DEF vars, TypeOK, IdsApart
<1> QED
  BY <1>1, <1>2, <1>3, <1>4, <1>5, <1>6, <1>7, <1>8, <1>9, <1>10, <1>11 DEF Next, Step

\* Every value is of its type: whatever is interrupted, ids stay ids and calls stay calls.
THEOREM TypeCorrect == Spec => []TypeOK
<1>1. Spec => [](TypeOK /\ IdsApart)
  BY TypesInit, TypesStep, PTL DEF Spec
<1> QED
  BY <1>1, PTL

-----------------------------------------------------------------------------
(* Calls follow their symbols.                                             *)

LEMMA CallsInit == Init => CallsFollowSymbols
<1> SUFFICES ASSUME Init, NEW f \in Files, NEW s \in Twins
             PROVE  files[f].calls[s] \in {files[f].ids[s], NoCaller}
  BY DEF CallsFollowSymbols
<1>1. PICK v \in 2..Current, fresh \in BOOLEAN : files[f] = Stored(v, fresh)
  BY DEF Init
<1> DEFINE ids == IF v = Current THEN Extracted.ids ELSE OldId
<1>2. files[f].ids = ids /\ files[f].calls = IF v >= 5 THEN ids ELSE [t \in Twins |-> NoCaller]
  BY <1>1 DEF Stored
<1> QED
  BY <1>2

LEMMA CallsStep == TypeOK /\ IdsApart /\ CallsFollowSymbols /\ [Next]_vars => CallsFollowSymbols'
<1> SUFFICES ASSUME TypeOK, IdsApart, CallsFollowSymbols, [Next]_vars PROVE CallsFollowSymbols'
  OBVIOUS
<1>1. CASE AddFingerprint
  <2>1. \A f \in Files : files'[f].ids = files[f].ids /\ files'[f].calls = files[f].calls
    BY <1>1 DEF AddFingerprint, TypeOK, FileFacts
  <2> QED
    BY <2>1 DEF CallsFollowSymbols
<1>2. CASE RewriteIds
  <2> SUFFICES ASSUME NEW f \in Files
               PROVE  \A s \in Twins : files'[f].calls[s] \in {files'[f].ids[s], NoCaller}
    BY DEF CallsFollowSymbols
  <2>1. Paired(files[f].ids, files[f].calls, files[f].calls)
    BY DEF CallsFollowSymbols, Paired
  <2>2. Paired(files'[f].ids, files'[f].calls, files[f].calls)
    BY <1>2, <2>1, RewrittenFile
  <2> QED
    BY <2>2 DEF Paired
<1>3. ASSUME NEW force \in BOOLEAN, Sync(force) PROVE CallsFollowSymbols'
  <2>1. \A f \in Files : files'[f] \in {Extracted, files[f]}
    BY <1>3 DEF Sync
  <2>2. \A s \in Twins : Extracted.calls[s] = Extracted.ids[s]
    BY DEF Extracted
  <2> QED
    BY <2>1, <2>2 DEF CallsFollowSymbols
<1>4. ASSUME NEW f \in Files, Edit(f) PROVE CallsFollowSymbols'
  <2>1. \A g \in Files : files'[g].ids = files[g].ids /\ files'[g].calls = files[g].calls
    BY <1>4 DEF Edit, TypeOK, FileFacts
  <2> QED
    BY <2>1 DEF CallsFollowSymbols
<1>5. ASSUME UNCHANGED files PROVE CallsFollowSymbols'
  BY <1>5 DEF CallsFollowSymbols
<1> QED
  BY <1>1, <1>2, <1>3, <1>4, <1>5 DEF Next, Step, Start, AddBodyHash, CheckCalls, AddConfidence,
     RewriteFails, SkipRewrite, Interrupt, vars

\* Where ids differ, the rewrite takes every call along with the symbol that makes it.
THEOREM CallsFollow == Spec => []CallsFollowSymbols
<1>1. Spec => [](TypeOK /\ IdsApart /\ CallsFollowSymbols)
  BY TypesInit, TypesStep, CallsInit, CallsStep, PTL DEF Spec
<1> QED
  BY <1>1, PTL

-----------------------------------------------------------------------------
(* The version never runs ahead.                                           *)

Whole(f) == files[f].bodies /\ \A s \in Twins : files[f].calls[s] # NoCaller

\* What the recorded version says of the data, whoever was killed while raising it.
VersionTells ==
    /\ version = 0 => \A f \in Files : ~files[f].fresh
    /\ version \in 5..Current => \A f \in Files : Whole(f)
    /\ version \notin 2..6 => edges = "resolved"
    /\ version = Current => columns = Columns

\* A sync has the columns behind it ...
ColumnsBehind ==
    /\ pc \in {"fingerprint", "calls", "confidence", "ids", "sync"} => "body_hash" \in columns
    /\ pc \in {"calls", "confidence", "ids", "sync"} => "extractor_fingerprint" \in columns
    /\ pc \in {"ids", "sync"} => "confidence" \in columns

\* ... and what the version asks for before it.
UpgradeAhead ==
    /\ pc \in {"confidence", "ids", "sync"} /\ version \in 1..4 => upgrade = FullReindex
    /\ pc = "sync" /\ version \in 5..6 => upgrade \in {RebuildEdges, FullReindex}

\* From the rewrite on the ids are those of extraction.
IdsBehind ==
    DistinctLines /\ (version = Current \/ (pc = "sync" /\ version \in 5..6)) =>
        \A f \in Files : files[f].ids = Extracted.ids

MigrationInv == VersionTells /\ ColumnsBehind /\ UpgradeAhead /\ IdsBehind

LEMMA MigrationInit == Init => MigrationInv
<1> SUFFICES ASSUME Init PROVE MigrationInv
  OBVIOUS
<1>1. PICK v \in 2..Current, synced \in BOOLEAN, fresh \in [Files -> BOOLEAN] :
         /\ version = IF synced THEN v ELSE 0
         /\ columns \in {c \in SUBSET Columns : ColumnsOf(v) \subseteq c}
         /\ files = [f \in Files |-> Stored(v, synced /\ v >= 4 /\ fresh[f])]
         /\ edges = IF synced /\ v < 6 THEN "unscored" ELSE "resolved"
  BY DEF Init
<1>2. pc = "idle"
  BY DEF Init
<1>3. ASSUME version = 0, NEW f \in Files PROVE ~files[f].fresh
  <2>1. ~synced
    BY <1>1, <1>3
  <2> QED
    BY <1>1, <2>1 DEF Stored
<1>4. ASSUME version \in 5..Current, NEW f \in Files PROVE Whole(f)
  <2>1. v >= 5 /\ v >= 3
    BY <1>1, <1>4
  <2> DEFINE ids == IF v = Current THEN Extracted.ids ELSE OldId
  <2>2. files[f].bodies /\ files[f].calls = ids
    BY <1>1, <2>1 DEF Stored
  <2>3. ids \in [Twins -> Ids]
    BY ExtractedTypes, UpgradeAssumption DEF FileFacts
  <2>4. \A s \in Twins : ids[s] # NoCaller
    BY <2>3 DEF Ids, NoCaller
  <2> QED
    BY <2>2, <2>4 DEF Whole
<1>5. version \notin 2..6 => edges = "resolved"
  BY <1>1 DEF Current
<1>6. version = Current => columns = Columns
  <2> SUFFICES ASSUME version = Current PROVE columns = Columns
    OBVIOUS
  <2>1. v >= 3 /\ v >= 4 /\ v >= 6
    BY <1>1 DEF Current
  <2>2. \A c \in Columns : c \in ColumnsOf(v)
    BY <2>1 DEF ColumnsOf, Columns
  <2> QED
    BY <1>1, <2>2
<1>7. ASSUME version = Current, NEW f \in Files PROVE files[f].ids = Extracted.ids
  BY <1>1, <1>7 DEF Stored, Current
<1> QED
  BY <1>2, <1>3, <1>4, <1>5, <1>6, <1>7
     DEF MigrationInv, VersionTells, ColumnsBehind, UpgradeAhead, IdsBehind

LEMMA MigrationStep ==
    TypeOK /\ IdsApart /\ CallsFollowSymbols /\ MigrationInv /\ [Next]_vars => MigrationInv'
<1> SUFFICES ASSUME TypeOK, IdsApart, CallsFollowSymbols, MigrationInv, [Next]_vars
             PROVE  MigrationInv'
  OBVIOUS
<1>a. VersionTells /\ ColumnsBehind /\ UpgradeAhead /\ IdsBehind
  BY DEF MigrationInv
<1> SUFFICES VersionTells' /\ ColumnsBehind' /\ UpgradeAhead' /\ IdsBehind'
  BY DEF MigrationInv
<1> USE DEF At, Then
<1>b. version \in {0} \union 2..7 /\ columns \subseteq Columns
  BY DEF TypeOK, Current
\* Steps that touch neither files nor edges nor the version.
<1>c. ASSUME UNCHANGED <<files, edges, version, line>>, columns \subseteq columns', columns' \subseteq Columns
      PROVE  VersionTells'
  BY <1>a, <1>c DEF VersionTells, Whole
<1>d. ASSUME UNCHANGED <<files, version, line>>, pc' # "sync" PROVE IdsBehind'
  BY <1>a, <1>d DEF IdsBehind, DistinctLines
<1>1. CASE Start
  <2>1. VersionTells' /\ IdsBehind'
    BY <1>1, <1>b, <1>c, <1>d DEF Start
  <2> QED
    BY <1>1, <2>1 DEF Start, ColumnsBehind, UpgradeAhead
<1>2. CASE AddBodyHash
  <2>1. VersionTells' /\ IdsBehind'
    BY <1>2, <1>b, <1>c, <1>d DEF AddBodyHash, Columns
  <2> QED
    BY <1>2, <2>1 DEF AddBodyHash, ColumnsBehind, UpgradeAhead
<1>3. CASE AddFingerprint
  <2>1. ASSUME NEW f \in Files
        PROVE  /\ files'[f].ids = files[f].ids /\ files'[f].calls = files[f].calls
               /\ files'[f].bodies = files[f].bodies /\ (files'[f].fresh => files[f].fresh)
    BY <1>3 DEF AddFingerprint, TypeOK, FileFacts
  <2>2. VersionTells'
    BY <1>3, <1>a, <1>b, <2>1 DEF AddFingerprint, VersionTells, Whole, Columns
  <2>3. IdsBehind'
    BY <1>3, <1>a, <2>1 DEF AddFingerprint, IdsBehind, DistinctLines
  <2> QED
    BY <1>3, <1>a, <2>2, <2>3 DEF AddFingerprint, ColumnsBehind, UpgradeAhead
<1>4. CASE CheckCalls
  <2>1. VersionTells' /\ IdsBehind'
    BY <1>4, <1>b, <1>c, <1>d DEF CheckCalls
  <2>2. UpgradeAhead'
    BY <1>4 DEF CheckCalls, AtLeast, FullReindex, UpgradeAhead, TypeOK, None, RebuildEdges
  <2> QED
    BY <1>4, <1>a, <2>1, <2>2 DEF CheckCalls, ColumnsBehind
<1>5. CASE AddConfidence
  <2>1. VersionTells' /\ IdsBehind'
    BY <1>5, <1>b, <1>c, <1>d DEF AddConfidence, Columns
  <2>2. UpgradeAhead'
    BY <1>5, <1>a DEF AddConfidence, AtLeast, FullReindex, RebuildEdges, UpgradeAhead
  <2> QED
    BY <1>5, <1>a, <2>1, <2>2 DEF AddConfidence, ColumnsBehind
<1>6. CASE RewriteIds
  <2>0. version \in 5..6 /\ version' = version
    BY <1>6 DEF RewriteIds
  <2>1. ASSUME NEW f \in Files
        PROVE  /\ files'[f].bodies = files[f].bodies
               /\ \A s \in Twins : files[f].calls[s] # NoCaller => files'[f].calls[s] # NoCaller
               /\ files'[f].ids \in [Twins -> Ids]
               /\ \A s \in Twins : files'[f].ids[s] = NewId[Rank(files[f].ids, s)]
    <3>1. Paired(files[f].ids, files[f].calls, files[f].calls)
      BY DEF CallsFollowSymbols, Paired
    <3> QED
      BY <1>6, <3>1, RewrittenFile DEF Paired, FileFacts
  <2>2. VersionTells'
    <3>1. \A f \in Files : Whole(f)'
      BY <1>a, <2>0, <2>1 DEF VersionTells, Whole, Current
    <3> QED
      BY <2>0, <3>1 DEF VersionTells, Current
  <2>3. ASSUME DistinctLines, NEW f \in Files PROVE files'[f].ids = Extracted.ids
    <3>1. files[f].ids \in [Twins -> Ids] /\ IdsDiffer(files[f].ids)
      BY DEF TypeOK, FileFacts, IdsApart
    <3>2. \A s \in Twins : Rank(files[f].ids, s) = Place[s]
      BY <2>3, <3>1, Ranking DEF TypeOK, IdsDiffer
    <3> QED
      BY <2>1, <3>2 DEF Extracted
  <2>4. IdsBehind'
    BY <1>6, <2>3 DEF RewriteIds, IdsBehind, DistinctLines
  <2>5. UpgradeAhead'
    <3>1. upgrade \in {0, 1, 2}
      BY DEF TypeOK, None, RebuildEdges, FullReindex
    <3>2. upgrade' = IF upgrade < 1 THEN 1 ELSE upgrade
      BY <1>6 DEF RewriteIds, AtLeast, RebuildEdges
    <3>3. upgrade' \in {RebuildEdges, FullReindex} /\ version' \in 5..6
      BY <1>6, <2>0, <3>1, <3>2 DEF RebuildEdges, FullReindex
    <3> QED
      BY <3>3 DEF UpgradeAhead
  <2> QED
    BY <1>6, <1>a, <2>2, <2>4, <2>5 DEF RewriteIds, ColumnsBehind
<1>7. CASE RewriteFails
  <2>1. VersionTells' /\ IdsBehind'
    BY <1>7, <1>b, <1>c, <1>d DEF RewriteFails
  <2> QED
    BY <1>7, <2>1 DEF RewriteFails, ColumnsBehind, UpgradeAhead
<1>8. CASE SkipRewrite
  <2>1. VersionTells'
    BY <1>8, <1>b, <1>c DEF SkipRewrite
  <2> QED
    BY <1>8, <1>a, <2>1 DEF SkipRewrite, ColumnsBehind, UpgradeAhead, IdsBehind, DistinctLines
<1>9. ASSUME NEW force \in BOOLEAN, Sync(force)
      PROVE  VersionTells' /\ ColumnsBehind' /\ UpgradeAhead' /\ IdsBehind'
  <2> DEFINE parsed == {f \in Files : force \/ upgrade = FullReindex \/ ~files[f].fresh}
  <2>1. /\ pc = "sync" /\ pc' = "idle" /\ version' = Current
        /\ UNCHANGED <<line, columns, upgrade>>
        /\ \A f \in Files : files'[f] = IF f \in parsed THEN Extracted ELSE files[f]
        /\ edges' = IF Rebuilds(parsed) THEN "resolved" ELSE edges
    BY <1>9 DEF Sync
  <2>2. ASSUME NEW f \in Files \ parsed PROVE version \in 5..7 /\ upgrade # FullReindex
    BY <1>a, <1>b, <2>1, <2>2 DEF VersionTells, UpgradeAhead
  <2>3. ASSUME NEW f \in Files PROVE Whole(f)'
    <3>1. CASE f \in parsed
      <4>1. files'[f].bodies /\ \A s \in Twins : files'[f].calls[s] = NewId[Place[s]]
        <5>1. files'[f] = Extracted
          BY <2>1, <3>1
        <5> QED
          BY <5>1 DEF Extracted
      <4>2. \A s \in Twins : NewId[Place[s]] # NoCaller
        BY UpgradeAssumption DEF Ids, NoCaller
      <4> QED
        BY <4>1, <4>2 DEF Whole
    <3>2. CASE f \notin parsed
      BY <1>a, <2>1, <2>2, <3>2 DEF VersionTells, Whole, Current
    <3> QED
      BY <3>1, <3>2
  <2>4. edges' = "resolved"
    <3> SUFFICES ASSUME ~Rebuilds(parsed) PROVE edges = "resolved"
      BY <2>1
    <3>1. PICK f \in Files : TRUE
      BY UpgradeAssumption
    <3>2. parsed = {} /\ upgrade # RebuildEdges
      BY DEF Rebuilds
    <3>3. version \in 5..7 /\ upgrade # FullReindex
      BY <2>2, <3>2
    <3>4. version \notin 5..6
      BY <1>a, <2>1, <3>2, <3>3 DEF UpgradeAhead
    <3> QED
      BY <1>a, <3>3, <3>4 DEF VersionTells
  <2>5. columns' = Columns
    BY <1>a, <1>b, <2>1 DEF ColumnsBehind, Columns
  <2>6. ASSUME DistinctLines, NEW f \in Files PROVE files'[f].ids = Extracted.ids
    BY <1>a, <2>1, <2>2, <2>6 DEF IdsBehind, Current
  <2>7. VersionTells'
    BY <2>1, <2>3, <2>4, <2>5 DEF VersionTells, Current
  <2>8. IdsBehind'
    BY <2>1, <2>6 DEF IdsBehind, DistinctLines
  <2> QED
    BY <2>1, <2>7, <2>8 DEF ColumnsBehind, UpgradeAhead
<1>10. CASE Interrupt
  <2>1. VersionTells' /\ IdsBehind'
    BY <1>10, <1>b, <1>c, <1>d DEF Interrupt
  <2> QED
    BY <1>10, <2>1 DEF Interrupt, ColumnsBehind, UpgradeAhead
<1>11. ASSUME NEW f \in Files, Edit(f)
       PROVE  VersionTells' /\ ColumnsBehind' /\ UpgradeAhead' /\ IdsBehind'
  <2>1. ASSUME NEW g \in Files
        PROVE  /\ files'[g].ids = files[g].ids /\ files'[g].calls = files[g].calls
               /\ files'[g].bodies = files[g].bodies /\ (files'[g].fresh => files[g].fresh)
    BY <1>11 DEF Edit, TypeOK, FileFacts
  <2>2. VersionTells'
    BY <1>11, <1>a, <2>1 DEF Edit, VersionTells, Whole
  <2>3. IdsBehind'
    BY <1>11, <1>a, <2>1 DEF Edit, IdsBehind, DistinctLines
  <2> QED
    BY <1>11, <1>a, <2>2, <2>3 DEF Edit, ColumnsBehind, UpgradeAhead
<1>12. CASE UNCHANGED vars
  BY <1>12, <1>a DEF vars, VersionTells, Whole, ColumnsBehind, UpgradeAhead, IdsBehind, DistinctLines
<1> QED
  BY <1>1, <1>2, <1>3, <1>4, <1>5, <1>6, <1>7, <1>8, <1>9, <1>10, <1>11, <1>12 DEF Next, Step

LEMMA MigrationHolds == Spec => [](TypeOK /\ MigrationInv)
<1>1. Init => TypeOK /\ IdsApart /\ CallsFollowSymbols /\ MigrationInv
  BY TypesInit, CallsInit, MigrationInit
<1>2. TypeOK /\ IdsApart /\ CallsFollowSymbols /\ MigrationInv /\ [Next]_vars
        => (TypeOK /\ IdsApart /\ CallsFollowSymbols /\ MigrationInv)'
  BY TypesStep, CallsStep, MigrationStep
<1> QED
  BY <1>1, <1>2, PTL DEF Spec

\* However many upgrades are killed wherever: under the current version nothing is missing.
THEOREM VersionIsHonest == Spec => []CurrentMeansMigrated
<1>1. MigrationInv => CurrentMeansMigrated
  BY DEF MigrationInv, VersionTells, CurrentMeansMigrated, Whole, Current
<1> QED
  BY <1>1, MigrationHolds, PTL

\* An upgraded index and a fresh one agree on ids where lines tell twins apart, because
\* numbering by line is then numbering by place.
THEOREM UpgradedIdsAreExtracted == Spec => []IdsMatchExtraction
<1>1. MigrationInv => IdsMatchExtraction
  BY DEF MigrationInv, IdsBehind, IdsMatchExtraction
<1> QED
  BY <1>1, MigrationHolds, PTL
=============================================================================
