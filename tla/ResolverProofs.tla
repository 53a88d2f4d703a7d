--------------------------- MODULE ResolverProofs ---------------------------
(***************************************************************************)
(* Extraction, resolution and explanation, for every tree in every         *)
(* language and every history of edits and syncs.                          *)
(*                                                                         *)
(* Within a file no two symbols share an id, and a symbol's is settled by  *)
(* what the walk met before it, lines aside.  After every sync the tables  *)
(* hold of each file the rows of its version, in order, and the edges are  *)
(* those derived from them (TablesFollowContent): what a call resolves to  *)
(* depends on that alone, not on how the parts lie among each other.  An   *)
(* explanation without a commit in between replays the sync.               *)
(*                                                                         *)
(* The walk, the filters and the loop over files are recursive functions   *)
(* over numbers; what holds of them follows step by step (Stepwise).       *)
(***************************************************************************)
EXTENDS Explain, FiniteSetTheorems, Induction, TLAPS

Start == [imports |-> <<>>, calls |-> <<>>, symbols |-> <<>>, stack |-> <<>>]

IsWalk(file, lang, tree, k, g) ==
    g = [i \in 0..k |-> IF i = 0 THEN Start ELSE Visit(file, lang, tree, i, g[i - 1])]

\* Every tree has a walk.
LEMMA WalkExists ==
    ASSUME NEW file, NEW lang, NEW tree, NEW n \in Nat
    PROVE  \E g : IsWalk(file, lang, tree, n, g)
<1> DEFINE P == {k \in 0..n : \E g : IsWalk(file, lang, tree, k, g)}
<1>1. 0 \in P
  <2>1. IsWalk(file, lang, tree, 0, [i \in 0..0 |-> Start])
    BY DEF IsWalk
  <2> QED
    BY <2>1
<1>2. ASSUME NEW k \in 1..n, k - 1 \in P PROVE k \in P
  <2>1. PICK g : IsWalk(file, lang, tree, k - 1, g)
    BY <1>2
  <2> DEFINE h == [i \in 0..k |-> IF i = k THEN Visit(file, lang, tree, k, g[k - 1]) ELSE g[i]]
  <2>2. \A i \in 0..(k - 1) : g[i] = IF i = 0 THEN Start ELSE Visit(file, lang, tree, i, g[i - 1])
    BY <2>1 DEF IsWalk
  <2>3. \A i \in 0..k : h[i] = IF i = 0 THEN Start ELSE Visit(file, lang, tree, i, h[i - 1])
    BY <2>2
  <2>4. h = [i \in 0..k |-> IF i = 0 THEN Start ELSE Visit(file, lang, tree, i, h[i - 1])]
    <3>1. h = [i \in 0..k |-> h[i]]
      OBVIOUS
    <3> HIDE DEF h
    <3> QED
      BY <2>3, <3>1
  <2>5. IsWalk(file, lang, tree, k, h)
    BY <2>4 DEF IsWalk
  <2> HIDE DEF h
  <2> QED
    BY <2>5
<1>3. P = 0..n
  BY <1>1, <1>2, Stepwise
<1> QED
  BY <1>3

\* Extract is where a walk ends.
LEMMA ExtractIsWalk ==
    ASSUME NEW file, NEW lang, NEW tree, Len(tree) \in Nat
    PROVE  \E g : IsWalk(file, lang, tree, Len(tree), g) /\ Extract(file, lang, tree) = g[Len(tree)]
<1> DEFINE g == CHOOSE g : IsWalk(file, lang, tree, Len(tree), g)
<1>1. IsWalk(file, lang, tree, Len(tree), g)
  BY WalkExists
<1>2. Extract(file, lang, tree) = g[Len(tree)]
  BY DEF Extract, IsWalk, Start
<1> QED
  BY <1>1, <1>2

-----------------------------------------------------------------------------
(* Within a file.                                                          *)

\* What the hash of a symbol is made of, besides its file.
IdInFile(s) == <<QualifiedName(s), s.kind, s.nth>>

Earlier(symbols, j) ==
    {k \in 1..(j - 1) : QualifiedName(symbols[k]) = QualifiedName(symbols[j]) /\ symbols[k].kind = symbols[j].kind}

\* Each symbol counts those of its name and kind before it.
Numbered(symbols) == \A j \in 1..Len(symbols) : symbols[j].nth = Cardinality(Earlier(symbols, j))

LEMMA SymbolAtCounts ==
    ASSUME NEW file, NEW lang, NEW tree, NEW i, NEW stack, NEW symbols
    PROVE  LET s == SymbolAt(file, lang, tree, i, stack, symbols)
           IN  s.nth = Cardinality({k \in DOMAIN symbols :
                         QualifiedName(symbols[k]) = QualifiedName(s) /\ symbols[k].kind = s.kind})
  BY DEF SymbolAt, Occurrence, QualifiedName

\* A visit adds the symbol of its node, or none,
LEMMA VisitAdds ==
    ASSUME NEW file, NEW lang, NEW tree, NEW i, NEW walk
    PROVE  Visit(file, lang, tree, i, walk).symbols =
              IF DefinesSymbol(lang, tree[i])
              THEN Append(walk.symbols, SymbolAt(file, lang, tree, i,
                                                 Enclosing(walk.stack, tree[i].depth), walk.symbols))
              ELSE walk.symbols
  BY DEF Visit

\* and it opens that symbol's frame, or none.
LEMMA VisitOpens ==
    ASSUME NEW file, NEW lang, NEW tree, NEW i, NEW walk
    PROVE  LET around == Enclosing(walk.stack, tree[i].depth)
           IN  Visit(file, lang, tree, i, walk).stack =
                 IF DefinesSymbol(lang, tree[i])
                 THEN Append(around, [depth |-> tree[i].depth,
                                      symbol |-> SymbolAt(file, lang, tree, i, around, walk.symbols)])
                 ELSE around
  BY DEF Visit

\* So along a walk the symbols are a sequence that only grows at its end.
LEMMA WalkTyped ==
    ASSUME NEW file, NEW lang, NEW tree, NEW n \in Nat, NEW g, IsWalk(file, lang, tree, n, g)
    PROVE  \E T : \A k \in 0..n : g[k].symbols \in Seq(T)
<1>1. g[0] = Start /\ \A i \in 1..n : g[i] = Visit(file, lang, tree, i, g[i - 1])
  BY DEF IsWalk
<1> DEFINE new(i) == SymbolAt(file, lang, tree, i, Enclosing(g[i - 1].stack, tree[i].depth), g[i - 1].symbols)
           T == {new(i) : i \in 1..n}
           P == {k \in 0..n : g[k].symbols \in Seq(T)}
<1>2. 0 \in P
  <2>1. g[0].symbols = <<>>
    BY <1>1 DEF Start
  <2> HIDE DEF T
  <2>2. g[0].symbols \in Seq(T) /\ 0 \in 0..n
    BY <2>1
  <2> QED
    BY <2>2
<1>3. ASSUME NEW k \in 1..n, k - 1 \in P PROVE k \in P
  <2>1. g[k - 1].symbols \in Seq(T) /\ new(k) \in T
    BY <1>3
  <2>2. g[k] = Visit(file, lang, tree, k, g[k - 1])
    BY <1>1
  <2>3. Visit(file, lang, tree, k, g[k - 1]).symbols =
           IF DefinesSymbol(lang, tree[k]) THEN Append(g[k - 1].symbols, new(k)) ELSE g[k - 1].symbols
    BY VisitAdds
  <2> HIDE DEF new, T
  <2>4. g[k].symbols \in Seq(T)
    BY <2>1, <2>2, <2>3
  <2> QED
    BY <2>4
<1>4. P = 0..n
  <2> HIDE DEF P
  <2>1. P \subseteq 0..n
    BY DEF P
  <2> QED
    BY <1>2, <1>3, <2>1, Stepwise
<1> QED
  BY <1>4

LEMMA AppendNumbered ==
    ASSUME NEW T, NEW symbols \in Seq(T), NEW s, Numbered(symbols),
           s.nth = Cardinality({k \in DOMAIN symbols :
                     QualifiedName(symbols[k]) = QualifiedName(s) /\ symbols[k].kind = s.kind})
    PROVE  Numbered(Append(symbols, s))
<1> DEFINE more == Append(symbols, s)
           n == Len(symbols)
<1>1. n \in Nat /\ Len(more) = n + 1 /\ more[n + 1] = s /\ \A k \in 1..n : more[k] = symbols[k]
  OBVIOUS
<1>2. DOMAIN symbols = 1..n
  OBVIOUS
<1> HIDE DEF more, n
<1>3. ASSUME NEW j \in 1..n PROVE more[j].nth = Cardinality(Earlier(more, j))
  <2>1. Earlier(more, j) = Earlier(symbols, j)
    BY <1>1 DEF Earlier
  <2> QED
    BY <1>1, <2>1 DEF Numbered, n
<1>4. more[n + 1].nth = Cardinality(Earlier(more, n + 1))
  <2>1. Earlier(more, n + 1) = {k \in 1..n : QualifiedName(symbols[k]) = QualifiedName(s) /\ symbols[k].kind = s.kind}
    BY <1>1 DEF Earlier
  <2> QED
    BY <1>1, <1>2, <2>1
<1>5. Numbered(more)
  BY <1>1, <1>3, <1>4 DEF Numbered
<1> QED
  BY <1>5 DEF more

LEMMA NumberedDiffer ==
    ASSUME NEW T, NEW symbols \in Seq(T), Numbered(symbols),
           NEW i \in 1..Len(symbols), NEW j \in 1..Len(symbols),
           IdInFile(symbols[i]) = IdInFile(symbols[j])
    PROVE  i = j
<1> DEFINE n == Len(symbols)
<1>1. n \in Nat
  OBVIOUS
<1> HIDE DEF n
<1>2. \A k \in 1..n : IsFiniteSet(Earlier(symbols, k))
  <2> TAKE k \in 1..n
  <2>1. 1 \in Int /\ k - 1 \in Int
    BY <1>1
  <2>2. IsFiniteSet(1..(k - 1))
    BY <2>1, FS_Interval
  <2>3. Earlier(symbols, k) \subseteq 1..(k - 1)
    BY DEF Earlier
  <2> QED
    BY <2>2, <2>3, FS_Subset
<1>3. ASSUME NEW k \in 1..n, NEW l \in 1..n, k < l,
             QualifiedName(symbols[k]) = QualifiedName(symbols[l]), symbols[k].kind = symbols[l].kind
      PROVE  Cardinality(Earlier(symbols, k)) # Cardinality(Earlier(symbols, l))
  <2>1. Earlier(symbols, k) \subseteq Earlier(symbols, l) /\ k \in Earlier(symbols, l) /\ k \notin Earlier(symbols, k)
    BY <1>1, <1>3 DEF Earlier
  <2> QED
    BY <1>2, <2>1, FS_Subset
<1>4. /\ QualifiedName(symbols[i]) = QualifiedName(symbols[j]) /\ symbols[i].kind = symbols[j].kind
      /\ symbols[i].nth = symbols[j].nth
  BY DEF IdInFile
<1> QED
  BY <1>1, <1>3, <1>4 DEF Numbered, n

\* symbols.id is a primary key: whatever the tree, no two symbols of a file collide on it,
\* so that the ordinals do what they are for.
THEOREM IdsOfAFileDiffer ==
    ASSUME NEW file, NEW lang, NEW N, NEW tree \in Seq(N)
    PROVE  LET symbols == Extract(file, lang, tree).symbols
           IN  \A i, j \in DOMAIN symbols : IdInFile(symbols[i]) = IdInFile(symbols[j]) => i = j
<1> DEFINE n == Len(tree)
<1>1. n \in Nat
  OBVIOUS
<1>2. PICK g : IsWalk(file, lang, tree, n, g) /\ Extract(file, lang, tree) = g[n]
  BY <1>1, ExtractIsWalk
<1> HIDE DEF n
<1>3. g[0] = Start /\ \A i \in 1..n : g[i] = Visit(file, lang, tree, i, g[i - 1])
  BY <1>1, <1>2 DEF IsWalk
<1>4. PICK T : \A k \in 0..n : g[k].symbols \in Seq(T)
  BY <1>1, <1>2, WalkTyped
<1> DEFINE P == {k \in 0..n : Numbered(g[k].symbols)}
<1>5. 0 \in P
  <2>1. g[0].symbols = <<>> /\ 0 \in 0..n
    BY <1>1, <1>3 DEF Start
  <2>2. Numbered(<<>>)
    BY DEF Numbered
  <2> QED
    BY <2>1, <2>2
<1>6. ASSUME NEW k \in 1..n, k - 1 \in P PROVE k \in P
  <2> DEFINE new == SymbolAt(file, lang, tree, k, Enclosing(g[k - 1].stack, tree[k].depth), g[k - 1].symbols)
  <2>1. g[k - 1].symbols \in Seq(T) /\ Numbered(g[k - 1].symbols)
    BY <1>1, <1>4, <1>6
  <2>2. g[k] = Visit(file, lang, tree, k, g[k - 1])
    BY <1>3
  <2>3. Visit(file, lang, tree, k, g[k - 1]).symbols =
           IF DefinesSymbol(lang, tree[k]) THEN Append(g[k - 1].symbols, new) ELSE g[k - 1].symbols
    BY VisitAdds
  <2>4. new.nth = Cardinality({m \in DOMAIN g[k - 1].symbols :
            QualifiedName(g[k - 1].symbols[m]) = QualifiedName(new) /\ g[k - 1].symbols[m].kind = new.kind})
    BY SymbolAtCounts
  <2> HIDE DEF new
  <2>5. Numbered(Append(g[k - 1].symbols, new))
    BY <2>1, <2>4, AppendNumbered
  <2>6. Numbered(g[k].symbols) /\ k \in 0..n
    BY <1>1, <2>1, <2>2, <2>3, <2>5
  <2> QED
    BY <2>6
<1>7. Numbered(g[n].symbols) /\ n \in 0..n
  <2> HIDE DEF P
  <2>1. P \subseteq 0..n /\ n \in 0..n
    BY <1>1 DEF P
  <2>2. P = 0..n
    BY <1>1, <1>5, <1>6, <2>1, Stepwise
  <2> QED
    BY <2>1, <2>2 DEF P
<1>8. Extract(file, lang, tree).symbols \in Seq(T) /\ Numbered(Extract(file, lang, tree).symbols)
  BY <1>2, <1>4, <1>7
<1>9. DOMAIN Extract(file, lang, tree).symbols = 1..Len(Extract(file, lang, tree).symbols)
  BY <1>8
<1> QED
  BY <1>8, <1>9, NumberedDiffer

-----------------------------------------------------------------------------
(* Across versions of a file.                                              *)

\* What the symbols ask of a node; not its line.
Alike(lang, m, n) ==
    /\ m.kind = n.kind /\ m.depth = n.depth
    /\ m.kind \in DOMAIN SymbolKinds[lang] => m.name = n.name
    /\ m.kind \in DOMAIN SymbolKinds[lang] /\ m.kind = "variable_declarator" => m.value = n.value
    /\ lang = "rust" /\ m.kind = "impl_item" => m.type = n.type
    /\ lang = "go" /\ m.kind = "method_declaration" => m.receiver = n.receiver

Begins(lang, t, u) == Len(t) <= Len(u) /\ \A i \in 1..Len(t) : Alike(lang, t[i], u[i])

LEMMA DefineAlike ==
    ASSUME NEW lang, NEW m, NEW n, Alike(lang, m, n)
    PROVE  DefinesSymbol(lang, m) <=> DefinesSymbol(lang, n)
  BY DEF Alike, DefinesSymbol

LEMMA AroundAlike ==
    ASSUME NEW lang, NEW N, NEW t \in Seq(N), NEW u \in Seq(N), Begins(lang, t, u), NEW i \in 1..Len(t)
    PROVE  Ancestors(t, i) = Ancestors(u, i)
<1>1. \A k \in 1..i : t[k].depth = u[k].depth
  BY DEF Begins, Alike
<1>2. \A j \in 1..(i - 1) : \A k \in (j + 1)..i :
         t[j].depth = u[j].depth /\ t[k].depth = u[k].depth
  BY <1>1
<1>3. \A j \in 1..(i - 1) : (\A k \in (j + 1)..i : t[k].depth > t[j].depth)
                               <=> (\A k \in (j + 1)..i : u[k].depth > u[j].depth)
  BY <1>2
<1> QED
  BY <1>3 DEF Ancestors

\* A set of numbers up to n has a greatest one.
LEMMA GreatestNumber ==
    ASSUME NEW n \in Nat, NEW S, S \subseteq 1..n, S # {}
    PROVE  Max(S) \in S
<1> DEFINE T == {n - j : j \in S}
<1>1. PICK m \in T : \A k \in T : m <= k
  BY LeastNumber, T \subseteq Nat, T # {}
<1>2. PICK j \in S : m = n - j
  BY <1>1
<1>3. \A k \in S : j >= k
  BY <1>1, <1>2
<1> QED
  BY <1>2, <1>3 DEF Max

LEMMA ImplAlike ==
    ASSUME NEW lang, lang = "rust", NEW N, NEW t \in Seq(N), NEW u \in Seq(N), Begins(lang, t, u), NEW i \in 1..Len(t)
    PROVE  ImplType(t, i) = ImplType(u, i)
<1> DEFINE impls(tree) == {j \in Ancestors(tree, i) : tree[j].kind = "impl_item"}
<1>1. \A j \in Ancestors(t, i) : j \in 1..(i - 1) /\ Alike(lang, t[j], u[j])
  BY DEF Ancestors, Begins
<1>2. impls(t) = impls(u)
  BY <1>1, AroundAlike DEF Alike
<1>3. CASE impls(t) = {}
  BY <1>2, <1>3 DEF ImplType
<1>4. CASE impls(t) # {}
  <2>1. i - 1 \in Nat /\ impls(t) \subseteq 1..(i - 1)
    BY <1>1
  <2>2. Max(impls(t)) \in impls(t)
    BY <1>4, <2>1, GreatestNumber
  <2>3. t[Max(impls(t))].type = u[Max(impls(t))].type
    BY <1>1, <2>2 DEF Alike
  <2> QED
    BY <1>2, <1>4, <2>3 DEF ImplType
<1> QED
  BY <1>3, <1>4

LEMMA SymbolAlike ==
    ASSUME NEW file, NEW lang, NEW N, NEW t \in Seq(N), NEW u \in Seq(N), Begins(lang, t, u),
           NEW i \in 1..Len(t), NEW stack, NEW symbols, DefinesSymbol(lang, t[i])
    PROVE  SymbolAt(file, lang, t, i, stack, symbols) = SymbolAt(file, lang, u, i, stack, symbols)
<1>1. Alike(lang, t[i], u[i])
  BY DEF Begins
<1>2. t[i].kind = u[i].kind /\ t[i].name = u[i].name
  BY <1>1 DEF Alike, DefinesSymbol
<1>3. ContainerElsewhere(lang, t, i) = ContainerElsewhere(lang, u, i)
  BY <1>1, ImplAlike DEF ContainerElsewhere, Alike
<1>4. Container(lang, t, i, stack) = Container(lang, u, i, stack)
  BY <1>3 DEF Container
<1> QED
  BY <1>2, <1>4 DEF SymbolAt

\* As long as the nodes are alike, so are the symbols and the frames.
LEMMA WalksAgree ==
    ASSUME NEW file, NEW lang, NEW N, NEW t \in Seq(N), NEW u \in Seq(N), Begins(lang, t, u)
    PROVE  \E g, h : /\ IsWalk(file, lang, t, Len(t), g) /\ Extract(file, lang, t) = g[Len(t)]
                     /\ IsWalk(file, lang, u, Len(u), h) /\ Extract(file, lang, u) = h[Len(u)]
                     /\ \A k \in 0..Len(t) : g[k].symbols = h[k].symbols /\ g[k].stack = h[k].stack
<1> DEFINE m == Len(t)
           n == Len(u)
<1>1. m \in Nat /\ n \in Nat /\ m <= n
  BY DEF Begins
<1>2. \A i \in 1..m : DefinesSymbol(lang, t[i]) <=> DefinesSymbol(lang, u[i])
  BY DefineAlike DEF Begins
<1>3. \A i \in 1..m : t[i].depth = u[i].depth
  BY DEF Begins, Alike
<1>4. \A i \in 1..m : \A stack, symbols : DefinesSymbol(lang, t[i]) =>
         SymbolAt(file, lang, t, i, stack, symbols) = SymbolAt(file, lang, u, i, stack, symbols)
  BY SymbolAlike
<1>5. PICK g : IsWalk(file, lang, t, m, g) /\ Extract(file, lang, t) = g[m]
  BY <1>1, ExtractIsWalk
<1>6. PICK h : IsWalk(file, lang, u, n, h) /\ Extract(file, lang, u) = h[n]
  BY <1>1, ExtractIsWalk
<1> HIDE DEF m, n
<1>7. /\ g[0] = Start /\ \A i \in 1..m : g[i] = Visit(file, lang, t, i, g[i - 1])
      /\ h[0] = Start /\ \A i \in 1..n : h[i] = Visit(file, lang, u, i, h[i - 1])
  <2>1. g[0] = Start /\ \A i \in 1..m : g[i] = Visit(file, lang, t, i, g[i - 1])
    BY <1>1, <1>5 DEF IsWalk
  <2>2. h[0] = Start /\ \A i \in 1..n : h[i] = Visit(file, lang, u, i, h[i - 1])
    BY <1>1, <1>6 DEF IsWalk
  <2> QED
    BY <2>1, <2>2
<1> DEFINE Same == {k \in 0..m : g[k].symbols = h[k].symbols /\ g[k].stack = h[k].stack}
<1>8. Same = 0..m
  <2>1. 0 \in Same
    BY <1>1, <1>7
  <2>2. ASSUME NEW k \in 1..m, k - 1 \in Same PROVE k \in Same
    <3>1. g[k - 1].symbols = h[k - 1].symbols /\ g[k - 1].stack = h[k - 1].stack
      BY <2>2
    <3>2. g[k] = Visit(file, lang, t, k, g[k - 1]) /\ h[k] = Visit(file, lang, u, k, h[k - 1])
      BY <1>1, <1>7
    <3> DEFINE around == Enclosing(g[k - 1].stack, t[k].depth)
               before == g[k - 1].symbols
               sym == SymbolAt(file, lang, t, k, around, before)
    <3>3. /\ around = Enclosing(h[k - 1].stack, u[k].depth) /\ before = h[k - 1].symbols
          /\ t[k].depth = u[k].depth
      BY <1>3, <3>1
    <3>4. DefinesSymbol(lang, t[k]) <=> DefinesSymbol(lang, u[k])
      BY <1>2
    <3>5. DefinesSymbol(lang, t[k]) => sym = SymbolAt(file, lang, u, k, around, before)
      BY <1>4
    <3>6. Visit(file, lang, t, k, g[k - 1]).symbols =
             IF DefinesSymbol(lang, t[k]) THEN Append(before, sym) ELSE before
      BY VisitAdds
    <3>7. Visit(file, lang, u, k, h[k - 1]).symbols =
             IF DefinesSymbol(lang, u[k]) THEN Append(before, SymbolAt(file, lang, u, k, around, before))
             ELSE before
      BY <3>3, VisitAdds
    <3>8. Visit(file, lang, t, k, g[k - 1]).stack =
             IF DefinesSymbol(lang, t[k]) THEN Append(around, [depth |-> t[k].depth, symbol |-> sym]) ELSE around
      BY VisitOpens
    <3>9. Visit(file, lang, u, k, h[k - 1]).stack =
             IF DefinesSymbol(lang, u[k])
             THEN Append(around, [depth |-> t[k].depth, symbol |-> SymbolAt(file, lang, u, k, around, before)])
             ELSE around
      BY <3>3, VisitOpens
    <3> HIDE DEF around, before, sym
    <3>10. g[k].symbols = h[k].symbols /\ g[k].stack = h[k].stack
      BY <3>2, <3>4, <3>5, <3>6, <3>7, <3>8, <3>9
    <3>11. k \in 0..m
      BY <1>1
    <3> QED
      BY <3>10, <3>11
  <2>3. Same \subseteq 0..m
    OBVIOUS
  <2> HIDE DEF Same
  <2> QED
    BY <1>1, <2>1, <2>2, <2>3, Stepwise
<1> HIDE DEF Same
<1> HIDE DEF Same
<1>9. \A k \in 0..m : k \in Same
  BY <1>8
<1> USE DEF m, n
<1>10. \A k \in 0..Len(t) : g[k].symbols = h[k].symbols /\ g[k].stack = h[k].stack
  BY <1>9 DEF Same
<1> QED
  BY <1>5, <1>6, <1>10

\* A symbol keeps its id, and its place among the symbols of its file, when its file gains
\* anything below it, and when lines move: the walk of the new tree starts as the old one did.
THEOREM EarlierIdsStay ==
    ASSUME NEW file, NEW lang, NEW N, NEW t \in Seq(N), NEW u \in Seq(N), Begins(lang, t, u)
    PROVE  LET old == Extract(file, lang, t).symbols
               new == Extract(file, lang, u).symbols
           IN  Len(old) <= Len(new) /\ \A j \in 1..Len(old) : new[j] = old[j]
<1> DEFINE m == Len(t)
           n == Len(u)
<1>1. m \in Nat /\ n \in Nat /\ m <= n
  BY DEF Begins
<1>2. PICK g, h : /\ IsWalk(file, lang, t, m, g) /\ Extract(file, lang, t) = g[m]
                  /\ IsWalk(file, lang, u, n, h) /\ Extract(file, lang, u) = h[n]
                  /\ \A k \in 0..m : g[k].symbols = h[k].symbols /\ g[k].stack = h[k].stack
  BY WalksAgree
<1>3. IsWalk(file, lang, u, n, h) /\ Extract(file, lang, u) = h[n]
  BY <1>2
<1>4. PICK T : \A k \in 0..n : h[k].symbols \in Seq(T)
  BY <1>1, <1>3, WalkTyped
<1>5. g[m].symbols = h[m].symbols
  BY <1>1, <1>2
<1> HIDE DEF m, n
<1>6. h[0] = Start /\ \A i \in 1..n : h[i] = Visit(file, lang, u, i, h[i - 1])
  BY <1>1, <1>3 DEF IsWalk
<1> DEFINE Kept(k) == /\ Len(h[m].symbols) <= Len(h[k].symbols)
                      /\ \A j \in 1..Len(h[m].symbols) : h[k].symbols[j] = h[m].symbols[j]
           Grown == {k \in 0..(n - m) : Kept(m + k)}
<1>7. Grown = 0..(n - m)
  <2>1. 0 \in Grown
    <3>1. Len(h[m].symbols) \in Nat /\ 0 \in 0..(n - m) /\ m + 0 = m
      BY <1>1, <1>4
    <3>2. Kept(m)
      BY <3>1
    <3> HIDE DEF Kept
    <3> QED
      BY <3>1, <3>2
  <2>2. ASSUME NEW k \in 1..(n - m), k - 1 \in Grown PROVE k \in Grown
    <3> DEFINE b == h[m + k - 1].symbols
               s == SymbolAt(file, lang, u, m + k,
                             Enclosing(h[m + k - 1].stack, u[m + k].depth), h[m + k - 1].symbols)
    <3>1. m + k \in 1..n /\ m + k - 1 \in 0..n /\ m + (k - 1) = m + k - 1 /\ m \in 0..n /\ k \in 0..(n - m)
      BY <1>1
    <3>2. Kept(m + k - 1)
      BY <2>2, <3>1
    <3>3. h[m + k] = Visit(file, lang, u, m + k, h[m + k - 1])
      BY <1>6, <3>1
    <3>4. Visit(file, lang, u, m + k, h[m + k - 1]).symbols =
             IF DefinesSymbol(lang, u[m + k]) THEN Append(b, s) ELSE b
      BY VisitAdds
    <3>5. b \in Seq(T) /\ h[m].symbols \in Seq(T)
      BY <1>4, <3>1
    <3>6. Len(h[m].symbols) <= Len(b) /\ \A j \in 1..Len(h[m].symbols) : b[j] = h[m].symbols[j]
      BY <3>2
    <3> HIDE DEF b, s
    <3>7. h[m + k].symbols \in {b, Append(b, s)}
      BY <3>3, <3>4
    <3>8. Kept(m + k)
      <4>1. CASE h[m + k].symbols = b
        BY <3>6, <4>1
      <4>2. CASE h[m + k].symbols = Append(b, s)
        <5>1. Len(Append(b, s)) = Len(b) + 1 /\ \A j \in 1..Len(b) : Append(b, s)[j] = b[j]
          BY <3>5
        <5>2. Len(b) \in Nat /\ Len(h[m].symbols) \in Nat
          BY <3>5
        <5> QED
          BY <3>6, <4>2, <5>1, <5>2
      <4> QED
        BY <3>7, <4>1, <4>2
    <3> HIDE DEF Kept
    <3> QED
      BY <3>1, <3>8
  <2>3. Grown \subseteq 0..(n - m) /\ n - m \in Nat
    BY <1>1
  <2> HIDE DEF Grown
  <2> QED
    BY <2>1, <2>2, <2>3, Stepwise
<1>8. Kept(n)
  <2>1. n - m \in 0..(n - m) /\ m + (n - m) = n
    BY <1>1
  <2> HIDE DEF Kept
  <2> QED
    BY <1>7, <2>1
<1> QED
  BY <1>2, <1>3, <1>5, <1>8
-----------------------------------------------------------------------------
(* Lists, that is, sequences of whatever they hold.                        *)

LEMMA SequenceIsList ==
    ASSUME NEW T, NEW s \in Seq(T)
    PROVE  /\ IsList(s) /\ ToSet(s) \subseteq T
           /\ DOMAIN s = 1..Len(s) /\ Len(s) \in Nat /\ ToSet(s) = {s[i] : i \in 1..Len(s)}
<1>1. /\ DOMAIN s = 1..Len(s) /\ Len(s) \in Nat /\ s \in [1..Len(s) -> T]
  OBVIOUS
<1>2. ToSet(s) = {s[i] : i \in 1..Len(s)}
  BY <1>1 DEF ToSet
<1>3. s \in [1..Len(s) -> ToSet(s)]
  BY <1>1, <1>2
<1>4. s \in Seq(ToSet(s))
  BY <1>1, <1>3
<1> QED
  BY <1>1, <1>2, <1>4 DEF IsList

LEMMA ListIsSequence ==
    ASSUME NEW s, IsList(s)
    PROVE  /\ s \in Seq(ToSet(s)) /\ Len(s) \in Nat /\ DOMAIN s = 1..Len(s)
           /\ ToSet(s) = {s[i] : i \in 1..Len(s)}
<1>1. s \in Seq(ToSet(s))
  BY DEF IsList
<1>2. PICK T : T = ToSet(s)
  OBVIOUS
<1>3. s \in Seq(T)
  BY <1>1, <1>2
<1> QED
  BY <1>1, <1>3, SequenceIsList

LEMMA EmptyList ==
    IsList(<<>>) /\ ToSet(<<>>) = {}
<1>1. ToSet(<<>>) = {}
  BY DEF ToSet
<1>2. ToSet(<<>>) = {} => IsList(<<>>)
  BY DEF IsList
<1> QED
  BY <1>1, <1>2

LEMMA AppendList ==
    ASSUME NEW s, IsList(s), NEW x
    PROVE  IsList(Append(s, x)) /\ ToSet(Append(s, x)) = ToSet(s) \union {x}
<1>1. PICK T : T = ToSet(s) \union {x}
  OBVIOUS
<1>2. s \in Seq(T) /\ x \in T /\ ToSet(s) = {s[i] : i \in 1..Len(s)} /\ Len(s) \in Nat
  <2>1. s \in Seq(ToSet(s)) /\ ToSet(s) = {s[i] : i \in 1..Len(s)}
    BY ListIsSequence
  <2> QED
    BY <1>1, <2>1
<1>3. PICK t : t = Append(s, x)
  OBVIOUS
<1>4. t \in Seq(T) /\ Len(t) = Len(s) + 1 /\ t[Len(s) + 1] = x /\ \A i \in 1..Len(s) : t[i] = s[i]
  BY <1>2, <1>3
<1>5. IsList(t) /\ ToSet(t) = {t[i] : i \in 1..Len(t)}
  BY <1>4, SequenceIsList
<1>6. ToSet(t) \subseteq ToSet(s) \union {x}
  BY <1>1, <1>4, SequenceIsList
<1>7. ToSet(s) \union {x} \subseteq ToSet(t)
  <2>1. Len(s) + 1 \in 1..Len(t) /\ \A i \in 1..Len(s) : i \in 1..Len(t)
    BY <1>2, <1>4
  <2>2. x \in ToSet(t)
    BY <1>4, <1>5, <2>1
  <2>3. \A i \in 1..Len(s) : s[i] \in ToSet(t)
    BY <1>4, <1>5, <2>1
  <2> QED
    BY <1>2, <2>2, <2>3
<1> QED
  BY <1>3, <1>5, <1>6, <1>7

LEMMA ConcatList ==
    ASSUME NEW s, NEW t, IsList(s), IsList(t)
    PROVE  IsList(s \o t) /\ ToSet(s \o t) = ToSet(s) \union ToSet(t)
<1>1. PICK T : T = ToSet(s) \union ToSet(t)
  OBVIOUS
<1>2. /\ s \in Seq(ToSet(s)) /\ Len(s) \in Nat /\ ToSet(s) = {s[i] : i \in 1..Len(s)}
      /\ t \in Seq(ToSet(t)) /\ Len(t) \in Nat /\ ToSet(t) = {t[i] : i \in 1..Len(t)}
  BY ListIsSequence
<1>3. s \in Seq(T) /\ t \in Seq(T)
  BY <1>1, <1>2
<1>4. PICK u : u = s \o t
  OBVIOUS
<1>5. PICK m \in Nat, n \in Nat : m = Len(s) /\ n = Len(t)
  BY <1>2
<1>6. /\ u \in Seq(T) /\ Len(u) = m + n
      /\ \A i \in 1..m : u[i] = s[i]
      /\ \A i \in 1..n : u[m + i] = t[i]
  BY <1>3, <1>4, <1>5
<1>7. IsList(u) /\ ToSet(u) = {u[i] : i \in 1..(m + n)} /\ ToSet(u) \subseteq T
  BY <1>6, SequenceIsList
<1>8. \A i \in 1..m : s[i] \in ToSet(u)
  <2>1. \A i \in 1..m : i \in 1..(m + n)
    OBVIOUS
  <2> QED
    BY <1>6, <1>7, <2>1
<1>9. \A i \in 1..n : t[i] \in ToSet(u)
  <2>1. \A i \in 1..n : m + i \in 1..(m + n)
    OBVIOUS
  <2> QED
    BY <1>6, <1>7, <2>1
<1>10. ToSet(s) \subseteq ToSet(u) /\ ToSet(t) \subseteq ToSet(u)
  BY <1>2, <1>5, <1>8, <1>9
<1> QED
  BY <1>1, <1>4, <1>7, <1>10

LEMMA EntriesList ==
    ASSUME NEW s, IsList(s), NEW P
    PROVE  IsList(EntriesAt(s, P)) /\ ToSet(EntriesAt(s, P)) \subseteq ToSet(s)
<1>1. PICK T : T = ToSet(s)
  OBVIOUS
<1>2. s \in Seq(T)
  BY <1>1, ListIsSequence
<1>3. EntriesAt(s, P) \in Seq(T)
  BY <1>2, EntriesAreChosen
<1> QED
  BY <1>1, <1>3, SequenceIsList

LEMMA FunctionIsList ==
    ASSUME NEW n \in Nat, NEW s, s = [k \in 1..n |-> s[k]]
    PROVE  IsList(s) /\ Len(s) = n /\ ToSet(s) = {s[k] : k \in 1..n}
<1>1. PICK T : T = {s[k] : k \in 1..n}
  OBVIOUS
<1>2. s \in [1..n -> T]
  BY <1>1
<1>3. s \in Seq(T)
  BY <1>2
<1>4. Len(s) = n
  BY <1>2, <1>3
<1> QED
  BY <1>3, <1>4, SequenceIsList

LEMMA SingleList ==
    ASSUME NEW x
    PROVE  IsList(<<x>>)
<1>1. <<x>> \in Seq({x})
  OBVIOUS
<1> PICK T : T = {x}
  OBVIOUS
<1> PICK s \in Seq(T) : s = <<x>>
  BY <1>1
<1> QED
  BY SequenceIsList

IsFlattening(flat, lists, n) ==
    flat = [i \in 1..n |-> IF i = 1 THEN lists[i] ELSE flat[i - 1] \o lists[i]]

LEMMA FlatList ==
    ASSUME NEW lists, IsList(lists), \A i \in DOMAIN lists : IsList(lists[i])
    PROVE  IsList(FlattenSeq(lists))
<1>1. PICK n \in Nat : n = Len(lists) /\ DOMAIN lists = 1..n
  BY ListIsSequence
<1>2. CASE n = 0
  BY <1>1, <1>2 DEF FlattenSeq
<1>3. CASE n # 0
  <2> DEFINE P == {k \in 0..n : \E g : IsFlattening(g, lists, k)}
  <2>1. 0 \in P
    <3>1. IsFlattening([i \in 1..0 |-> i], lists, 0)
      BY DEF IsFlattening
    <3> QED
      BY <3>1
  <2>2. ASSUME NEW k \in 1..n, k - 1 \in P PROVE k \in P
    <3>1. PICK f : IsFlattening(f, lists, k - 1)
      BY <2>2
    <3>2. \A i \in 1..(k - 1) : f[i] = IF i = 1 THEN lists[i] ELSE f[i - 1] \o lists[i]
      BY <3>1 DEF IsFlattening
    <3> DEFINE g == [i \in 1..k |-> IF i # k THEN f[i] ELSE IF k = 1 THEN lists[1] ELSE f[k - 1] \o lists[k]]
    <3>3. \A i \in 1..k : g[i] = IF i = 1 THEN lists[i] ELSE g[i - 1] \o lists[i]
      BY <3>2
    <3>4. g = [i \in 1..k |-> g[i]]
      OBVIOUS
    <3> HIDE DEF g
    <3>5. IsFlattening(g, lists, k)
      BY <3>3, <3>4 DEF IsFlattening
    <3> QED
      BY <3>5
  <2>3. P = 0..n
    <3>1. P \subseteq 0..n
      OBVIOUS
    <3> HIDE DEF P
    <3> QED
      BY <2>1, <2>2, <3>1, Stepwise
  <2>4. \E g : IsFlattening(g, lists, n)
    BY <2>3
  <2> DEFINE flat == CHOOSE g : IsFlattening(g, lists, n)
  <2>5. IsFlattening(flat, lists, n)
    BY <2>4
  <2>6. FlattenSeq(lists) = flat[n]
    BY <1>1, <1>3 DEF FlattenSeq, IsFlattening
  <2> HIDE DEF flat
  <2>7. \A i \in 1..n : flat[i] = IF i = 1 THEN lists[i] ELSE flat[i - 1] \o lists[i]
    BY <1>1, <2>5 DEF IsFlattening
  <2> DEFINE Q == {k \in 0..(n - 1) : IsList(flat[k + 1])}
  <2>8. 0 \in Q
    BY <1>1, <1>3, <2>7
  <2>9. ASSUME NEW k \in 1..(n - 1), k - 1 \in Q PROVE k \in Q
    <3>1. /\ k + 1 \in 1..n /\ k + 1 # 1 /\ (k + 1) - 1 = (k - 1) + 1 /\ k \in 0..(n - 1)
      BY <1>3
    <3>2. PICK s, t : s = flat[(k - 1) + 1] /\ t = lists[k + 1]
      OBVIOUS
    <3>3. IsList(s) /\ IsList(t)
      BY <1>1, <2>9, <3>1, <3>2
    <3>4. flat[k + 1] = s \o t
      BY <2>7, <3>1, <3>2
    <3> QED
      BY <3>1, <3>3, <3>4, ConcatList
  <2>10. Q = 0..(n - 1)
    <3>1. Q \subseteq 0..(n - 1) /\ n - 1 \in Nat
      BY <1>3
    <3> HIDE DEF Q
    <3> QED
      BY <2>8, <2>9, <3>1, Stepwise
  <2>11. n - 1 \in 0..(n - 1) /\ (n - 1) + 1 = n
    BY <1>3
  <2>12. IsList(flat[n])
    BY <2>10, <2>11
  <2> QED
    BY <2>6, <2>12
<1> QED
  BY <1>2, <1>3

-----------------------------------------------------------------------------
(* What a file contributes.                                                *)

LEMMA NamedIsList ==
    ASSUME NEW bindings, IsList(bindings)
    PROVE  IsList(Named(bindings))
  BY EntriesList DEF Named

\* What is made of each entry of a list is a list again.
LEMMA ListOfEach ==
    ASSUME NEW s, IsList(s), NEW f, f = [k \in DOMAIN s |-> f[k]]
    PROVE  IsList(f)
<1>1. DOMAIN s = 1..Len(s) /\ Len(s) \in Nat
  BY ListIsSequence
<1> QED
  BY <1>1, FunctionIsList

LEMMA PythonImportsAreList ==
    ASSUME NEW n, n.kind \in {"import_statement", "import_from_statement"} => IsList(n.names)
    PROVE  IsList(PythonImports(n))
<1>1. CASE n.kind = "import_statement"
  <2> DEFINE f == [k \in DOMAIN n.names |->
                     [Import(n.names[k].module, None, n.names[k].alias) EXCEPT
                        !.local = IF @ # None THEN @ ELSE Head(n.names[k].module.parts)]]
  <2>1. PythonImports(n) = f
    BY <1>1 DEF PythonImports
  <2>2. f = [k \in DOMAIN n.names |-> f[k]]
    OBVIOUS
  <2> HIDE DEF f
  <2> QED
    BY <1>1, <2>1, <2>2, ListOfEach
<1>2. CASE n.kind = "import_from_statement"
  <2>1. PICK names : names = Named(n.names)
    OBVIOUS
  <2> DEFINE f == [k \in DOMAIN names |-> Import(n.module, names[k].name, names[k].alias)]
  <2>2. PythonImports(n) = f
    BY <1>2, <2>1 DEF PythonImports
  <2>3. f = [k \in DOMAIN names |-> f[k]]
    OBVIOUS
  <2>4. IsList(names)
    BY <1>2, <2>1, NamedIsList
  <2> HIDE DEF f
  <2> QED
    BY <2>2, <2>3, <2>4, ListOfEach
<1>3. CASE n.kind \notin {"import_statement", "import_from_statement"}
  BY <1>3, EmptyList DEF PythonImports
<1> QED
  BY <1>1, <1>2, <1>3

LEMMA TypeScriptImportsAreList ==
    ASSUME NEW tree, NEW i,
           tree[i].kind = "import_statement" /\ tree[i].module # None => IsList(tree[i].bindings)
    PROVE  IsList(TypeScriptImports(tree, i))
<1>1. PICK n : n = tree[i]
  OBVIOUS
<1>2. CASE n.kind = "import_statement" /\ n.module # None
  <2>1. PICK bound : bound = Named(n.bindings)
    OBVIOUS
  <2>2. IsList(bound)
    BY <1>1, <1>2, <2>1, NamedIsList
  <2> DEFINE f == [k \in DOMAIN bound |-> Binding(n.module, bound[k])]
  <2>3. f = [k \in DOMAIN bound |-> f[k]]
    OBVIOUS
  <2>4. bound = <<>> => TypeScriptImports(tree, i) = <<Import(n.module, None, None)>>
    BY <1>1, <1>2, <2>1 DEF TypeScriptImports
  <2>5. bound # <<>> => TypeScriptImports(tree, i) = f
    BY <1>1, <1>2, <2>1 DEF TypeScriptImports
  <2> HIDE DEF f
  <2>6. IsList(f)
    BY <2>2, <2>3, ListOfEach
  <2> QED
    BY <2>4, <2>5, <2>6, SingleList
<1>3. CASE n.kind = "call_expression" /\ n.func.kind = "identifier" /\ n.func.name = "require" /\ n.argument # None
  <2>1. PICK local : local = IF Ancestors(tree, i) # {} /\ tree[Max(Ancestors(tree, i))].kind = "variable_declarator"
                             THEN tree[Max(Ancestors(tree, i))].name ELSE None
    OBVIOUS
  <2>2. TypeScriptImports(tree, i) = <<[Import(n.argument, None, None) EXCEPT !.local = local]>>
    BY <1>1, <1>3, <2>1 DEF TypeScriptImports
  <2> QED
    BY <2>2, SingleList
<1>4. CASE /\ ~(n.kind = "import_statement" /\ n.module # None)
           /\ ~(n.kind = "call_expression" /\ n.func.kind = "identifier" /\ n.func.name = "require" /\ n.argument # None)
  <2>1. TypeScriptImports(tree, i) = <<>>
    BY <1>1, <1>4 DEF TypeScriptImports
  <2> QED
    BY <2>1, EmptyList
<1> QED
  BY <1>2, <1>3, <1>4

LEMMA PiecesAreList ==
    ASSUME NEW item, item.group # None => IsList(item.group)
    PROVE  IsList(Pieces(item))
<1>1. CASE item.group = None
  BY <1>1, SingleList DEF Pieces
<1>2. CASE item.group # None
  <2>1. PICK last \in Nat : last = Len(item.group)
    BY <1>2, ListIsSequence
  <2>2. PICK f : f = Pieces(item)
    OBVIOUS
  <2>3. f = [k \in 1..last |-> f[k]]
    BY <1>2, <2>1, <2>2 DEF Pieces
  <2> QED
    BY <2>1, <2>2, <2>3, FunctionIsList
<1> QED
  BY <1>1, <1>2

LEMMA RustImportsAreList ==
    ASSUME NEW n, n.kind = "use_declaration" /\ n.group # None =>
                    /\ IsList(n.group)
                    /\ \A k \in DOMAIN n.group : n.group[k].group # None => IsList(n.group[k].group)
    PROVE  IsList(RustImports(n))
<1>1. CASE n.kind # "use_declaration"
  BY <1>1, EmptyList DEF RustImports
<1>2. CASE n.kind = "use_declaration"
  <2>1. PICK items : items = UseItems(n)
    OBVIOUS
  <2>2. IsList(items)
    <3>1. CASE n.group = None
      BY <2>1, <3>1, SingleList DEF UseItems
    <3>2. CASE n.group # None /\ n.path.rel = 0 /\ n.path.parts = <<>>
      BY <2>1, <3>2, SingleList DEF UseItems
    <3>3. CASE n.group # None /\ ~(n.path.rel = 0 /\ n.path.parts = <<>>)
      <4>1. PICK pieces : pieces = [k \in DOMAIN n.group |-> Pieces(n.group[k])]
        OBVIOUS
      <4>2. IsList(pieces) /\ \A k \in DOMAIN pieces : IsList(pieces[k])
        <5>1. DOMAIN pieces = DOMAIN n.group /\ pieces = [k \in DOMAIN n.group |-> pieces[k]]
          BY <4>1
        <5>2. \A k \in DOMAIN pieces : IsList(pieces[k])
          BY <1>2, <3>3, <4>1, <5>1, PiecesAreList
        <5> QED
          BY <1>2, <3>3, <5>1, <5>2, ListOfEach
      <4>3. PICK flat : flat = FlattenSeq(pieces)
        OBVIOUS
      <4>4. IsList(flat)
        BY <4>2, <4>3, FlatList
      <4>5. items = [k \in DOMAIN flat |-> [path |-> n.path.parts \o flat[k].path, alias |-> flat[k].alias]]
        BY <2>1, <3>3, <4>1, <4>3 DEF UseItems
      <4>6. items = [k \in DOMAIN flat |-> items[k]]
        BY <4>5
      <4> QED
        BY <4>4, <4>6, ListOfEach
    <3> QED
      BY <3>1, <3>2, <3>3
  <2>3. PICK uses : uses = EntriesAt(items, {k \in DOMAIN items : n.path.rel + Len(items[k].path) >= 2})
    OBVIOUS
  <2>4. IsList(uses)
    BY <2>2, <2>3, EntriesList
  <2>5. PICK f : f = RustImports(n)
    OBVIOUS
  <2>6. f = [k \in DOMAIN uses |-> f[k]]
    BY <1>2, <2>1, <2>3, <2>5 DEF RustImports
  <2> QED
    BY <2>4, <2>5, <2>6, ListOfEach
<1> QED
  BY <1>1, <1>2

LEMMA GoImportsAreList ==
    ASSUME NEW n
    PROVE  IsList(GoImports(n))
<1>1. CASE n.kind # "import_spec" \/ n.module = None
  BY <1>1, EmptyList DEF GoImports
<1>2. CASE ~(n.kind # "import_spec" \/ n.module = None)
  BY <1>2, SingleList DEF GoImports
<1> QED
  BY <1>1, <1>2

LEMMA ImportsAreList ==
    ASSUME NEW lang \in DOMAIN SymbolKinds, NEW tree, IsTree(lang, tree), NEW i \in 1..Len(tree)
    PROVE  IsList(Imports(lang, tree, i))
<1>1. i \in DOMAIN tree
  BY ListIsSequence DEF IsTree
<1>2. lang \in {"python", "typescript", "rust", "go"}
  BY DEF SymbolKinds
<1>3. CASE lang = "python"
  BY <1>1, <1>3, PythonImportsAreList DEF Imports, IsTree
<1>4. CASE lang = "typescript"
  BY <1>1, <1>4, TypeScriptImportsAreList DEF Imports, IsTree
<1>5. CASE lang = "rust"
  BY <1>1, <1>5, RustImportsAreList DEF Imports, IsTree
<1>6. CASE lang = "go"
  BY <1>6, GoImportsAreList DEF Imports
<1> QED
  BY <1>2, <1>3, <1>4, <1>5, <1>6

\* What a walk has gathered: lists of rows of its file, whose calls are made by its symbols,
\* as are those of the symbols that are still open.
IsWalkOf(file, walk) ==
    /\ IsList(walk.symbols) /\ \A s \in ToSet(walk.symbols) : s.file = file
    /\ IsList(walk.imports) /\ \A s \in ToSet(walk.imports) : s.file = file
    /\ IsList(walk.calls) /\ \A s \in ToSet(walk.calls) : s.source \in ToSet(walk.symbols)
    /\ IsList(walk.stack) /\ \A s \in ToSet(walk.stack) : s.symbol \in ToSet(walk.symbols)

LEMMA EnclosingIsList ==
    ASSUME NEW stack, IsList(stack), NEW depth
    PROVE  IsList(Enclosing(stack, depth)) /\ ToSet(Enclosing(stack, depth)) \subseteq ToSet(stack)
  BY EntriesList DEF Enclosing

LEMMA VisitSymbols ==
    ASSUME NEW file, NEW lang, NEW tree, NEW i, NEW walk, IsWalkOf(file, walk)
    PROVE  LET after == Visit(file, lang, tree, i, walk)
           IN  /\ IsList(after.symbols) /\ \A s \in ToSet(after.symbols) : s.file = file
               /\ ToSet(walk.symbols) \subseteq ToSet(after.symbols)
               /\ IsList(after.stack) /\ \A s \in ToSet(after.stack) : s.symbol \in ToSet(after.symbols)
<1>1. PICK around : around = Enclosing(walk.stack, tree[i].depth)
  OBVIOUS
<1>2. PICK symbol : symbol = SymbolAt(file, lang, tree, i, around, walk.symbols)
  OBVIOUS
<1>3. symbol.file = file
  BY <1>2 DEF SymbolAt
<1>4. /\ IsList(walk.symbols) /\ \A s \in ToSet(walk.symbols) : s.file = file
      /\ IsList(walk.stack) /\ \A s \in ToSet(walk.stack) : s.symbol \in ToSet(walk.symbols)
  BY DEF IsWalkOf
<1>5. IsList(around) /\ ToSet(around) \subseteq ToSet(walk.stack)
  BY <1>1, <1>4, EnclosingIsList
<1>6. PICK after : after = Visit(file, lang, tree, i, walk)
  OBVIOUS
<1>7. CASE DefinesSymbol(lang, tree[i])
  <2>1. after.symbols = Append(walk.symbols, symbol)
    BY <1>1, <1>2, <1>6, <1>7 DEF Visit
  <2>2. PICK frame : frame = [depth |-> tree[i].depth, symbol |-> symbol]
    OBVIOUS
  <2>3. after.stack = Append(around, frame) /\ frame.symbol = symbol
    BY <1>1, <1>2, <1>6, <1>7, <2>2, VisitOpens
  <2>4. IsList(after.symbols) /\ ToSet(after.symbols) = ToSet(walk.symbols) \union {symbol}
    BY <1>4, <2>1, AppendList
  <2>5. IsList(after.stack) /\ ToSet(after.stack) = ToSet(around) \union {frame}
    BY <1>5, <2>3, AppendList
  <2> QED
    BY <1>3, <1>4, <1>5, <1>6, <2>3, <2>4, <2>5
<1>8. CASE ~DefinesSymbol(lang, tree[i])
  <2>1. after.symbols = walk.symbols
    BY <1>6, <1>8, VisitAdds
  <2>2. after.stack = around
    BY <1>1, <1>6, <1>8 DEF Visit
  <2> QED
    BY <1>4, <1>5, <1>6, <2>1, <2>2
<1> QED
  BY <1>7, <1>8

LEMMA VisitCalls ==
    ASSUME NEW file, NEW lang, NEW tree, NEW i, NEW walk, IsWalkOf(file, walk)
    PROVE  LET after == Visit(file, lang, tree, i, walk)
           IN  IsList(after.calls) /\ \A s \in ToSet(after.calls) : s.source \in ToSet(walk.symbols)
<1>1. PICK around : around = Enclosing(walk.stack, tree[i].depth)
  OBVIOUS
<1>2. /\ IsList(walk.calls) /\ \A s \in ToSet(walk.calls) : s.source \in ToSet(walk.symbols)
      /\ IsList(walk.stack) /\ \A s \in ToSet(walk.stack) : s.symbol \in ToSet(walk.symbols)
  BY DEF IsWalkOf
<1>3. IsList(around) /\ ToSet(around) \subseteq ToSet(walk.stack)
  BY <1>1, <1>2, EnclosingIsList
<1>4. PICK after : after = Visit(file, lang, tree, i, walk)
  OBVIOUS
<1>5. CASE CallsSomething(lang, tree[i]) /\ around # <<>>
  <2>1. PICK call : call = CallRow(Last(around).symbol, tree[i].line, CallTarget(lang, tree[i]))
    OBVIOUS
  <2>2. after.calls = Append(walk.calls, call)
    BY <1>1, <1>4, <1>5, <2>1 DEF Visit
  <2>3. Last(around) \in ToSet(around)
    <3>1. around \in Seq(ToSet(around)) /\ Len(around) \in Nat /\ ToSet(around) = {around[k] : k \in 1..Len(around)}
      BY <1>3, ListIsSequence
    <3>2. Len(around) # 0
      BY <1>5, <3>1
    <3> QED
      BY <3>1, <3>2 DEF Last
  <2>4. call.source \in ToSet(walk.symbols)
    BY <1>2, <1>3, <2>1, <2>3 DEF CallRow
  <2>5. IsList(after.calls) /\ ToSet(after.calls) = ToSet(walk.calls) \union {call}
    BY <1>2, <2>2, AppendList
  <2> QED
    BY <1>2, <1>4, <2>4, <2>5
<1>6. CASE ~(CallsSomething(lang, tree[i]) /\ around # <<>>)
  <2>1. after.calls = walk.calls
    BY <1>1, <1>4, <1>6 DEF Visit
  <2> QED
    BY <1>2, <1>4, <2>1
<1> QED
  BY <1>5, <1>6

LEMMA VisitImports ==
    ASSUME NEW lang \in DOMAIN SymbolKinds, NEW tree, IsTree(lang, tree), NEW i \in 1..Len(tree),
           NEW file, NEW walk, IsWalkOf(file, walk)
    PROVE  LET after == Visit(file, lang, tree, i, walk)
           IN  IsList(after.imports) /\ \A s \in ToSet(after.imports) : s.file = file
<1>1. PICK imports : imports = Imports(lang, tree, i)
  OBVIOUS
<1>2. IsList(imports)
  BY <1>1, ImportsAreList
<1>3. PICK rows : rows = [k \in DOMAIN imports |-> ImportRow(file, tree[i].line, imports[k])]
  OBVIOUS
<1>4. IsList(rows) /\ ToSet(rows) = {rows[k] : k \in DOMAIN imports}
  <2>1. DOMAIN imports = 1..Len(imports) /\ Len(imports) \in Nat
    BY <1>2, ListIsSequence
  <2>2. rows = [k \in 1..Len(imports) |-> rows[k]]
    BY <1>3, <2>1
  <2> QED
    BY <2>1, <2>2, FunctionIsList
<1>5. \A s \in ToSet(rows) : s.file = file
  BY <1>3, <1>4 DEF ImportRow
<1>6. IsList(walk.imports) /\ \A s \in ToSet(walk.imports) : s.file = file
  BY DEF IsWalkOf
<1>7. Visit(file, lang, tree, i, walk).imports = walk.imports \o rows
  BY <1>1, <1>3 DEF Visit
<1>8. IsList(walk.imports \o rows) /\ ToSet(walk.imports \o rows) = ToSet(walk.imports) \union ToSet(rows)
  BY <1>4, <1>6, ConcatList
<1> QED
  BY <1>5, <1>6, <1>7, <1>8

\* What the extraction of a file returns: lists of rows of that file, whose calls are made by
\* its symbols.
LEMMA ExtractedRows ==
    ASSUME NEW lang \in DOMAIN SymbolKinds, NEW tree, IsTree(lang, tree), NEW file
    PROVE  IsWalkOf(file, Extract(file, lang, tree))
<1>1. PICK n \in Nat : n = Len(tree)
  BY ListIsSequence DEF IsTree
<1>2. PICK g : IsWalk(file, lang, tree, n, g) /\ Extract(file, lang, tree) = g[n]
  BY <1>1, ExtractIsWalk
<1>3. g[0] = Start /\ \A i \in 1..n : g[i] = Visit(file, lang, tree, i, g[i - 1])
  BY <1>2 DEF IsWalk
<1> DEFINE P == {k \in 0..n : IsWalkOf(file, g[k])}
<1>4. 0 \in P
  BY <1>3, EmptyList DEF Start, IsWalkOf
<1>5. ASSUME NEW k \in 1..n, k - 1 \in P PROVE k \in P
  <2>1. IsWalkOf(file, g[k - 1])
    BY <1>5
  <2>2. PICK walk, after : walk = g[k - 1] /\ after = Visit(file, lang, tree, k, walk)
    OBVIOUS
  <2>3. g[k] = after /\ IsWalkOf(file, walk) /\ k \in 1..Len(tree)
    BY <1>1, <1>3, <2>1, <2>2
  <2>4. /\ IsList(after.symbols) /\ \A s \in ToSet(after.symbols) : s.file = file
        /\ ToSet(walk.symbols) \subseteq ToSet(after.symbols)
        /\ IsList(after.stack) /\ \A s \in ToSet(after.stack) : s.symbol \in ToSet(after.symbols)
    BY <2>2, <2>3, VisitSymbols
  <2>5. IsList(after.calls) /\ \A s \in ToSet(after.calls) : s.source \in ToSet(walk.symbols)
    BY <2>2, <2>3, VisitCalls
  <2>6. IsList(after.imports) /\ \A s \in ToSet(after.imports) : s.file = file
    BY <2>2, <2>3, VisitImports
  <2>7. IsWalkOf(file, after)
    BY <2>4, <2>5, <2>6 DEF IsWalkOf
  <2> QED
    BY <2>3, <2>7
<1>6. P = 0..n
  <2>1. P \subseteq 0..n
    OBVIOUS
  <2> HIDE DEF P
  <2> QED
    BY <1>4, <1>5, <2>1, Stepwise
<1> QED
  BY <1>2, <1>6

-----------------------------------------------------------------------------
(* What the tables hold.                                                   *)

AllSymbols == UNION {SymbolsIn(f) : f \in Files}
AllImports == UNION {UNION {ToSet(Extracted[f][tree].imports) : tree \in Versions[f]} : f \in Files}
AllCalls == UNION {UNION {ToSet(Extracted[f][tree].calls) : tree \in Versions[f]} : f \in Files}

\* The rows that a file ought to have, in each table.
SymbolsPart(c) == [f \in Files |-> IF c[f] = None THEN <<>> ELSE Extracted[f][c[f]].symbols]
ImportsPart(c) == [f \in Files |-> IF c[f] = None THEN <<>> ELSE Extracted[f][c[f]].imports]
CallsPart(c) == [f \in Files |-> IF c[f] = None THEN <<>> ELSE Extracted[f][c[f]].calls]

FileOf(T) == [r \in T |-> r.file]
CallerFile == [r \in AllCalls |-> r.source.file]

\* A table whose rows each belong to a file has of each file its part, in order; how the
\* parts lie among each other is left open.
Table(rows, T, owner, part) ==
    /\ rows \in Seq(T)
    /\ \A f \in Files : EntriesIn(rows, {r \in T : owner[r] = f}) = part[f]

Holds(t, c) ==
    /\ t.files = {f \in Files : c[f] # None}
    /\ Table(t.symbols, AllSymbols, FileOf(AllSymbols), SymbolsPart(c))
    /\ Table(t.imports, AllImports, FileOf(AllImports), ImportsPart(c))
    /\ Table(t.pending, AllCalls, CallerFile, CallsPart(c))

Without(part, gone) == [f \in Files |-> IF f \in gone THEN <<>> ELSE part[f]]

LEMMA TablePurge ==
    ASSUME NEW rows, NEW T, NEW owner, NEW part, Table(rows, T, owner, part),
           NEW gone, NEW P, \A k \in 1..Len(rows) : k \in P <=> owner[rows[k]] \notin gone,
           NEW rest, rest = Without(part, gone)
    PROVE  Table(EntriesAt(rows, P), T, owner, rest)
<1> PICK A : A = {r \in T : owner[r] \notin gone}
  OBVIOUS
<1>1. rows \in Seq(T) /\ \A f \in Files : EntriesIn(rows, {r \in T : owner[r] = f}) = part[f]
  BY DEF Table
<1>2. PICK kept : kept = EntriesAt(rows, P)
  OBVIOUS
<1>3. kept = EntriesIn(rows, A) /\ kept \in Seq(T)
  <2>1. \A k \in 1..Len(rows) : k \in P <=> rows[k] \in A
    BY <1>1
  <2>2. kept = EntriesIn(rows, A)
    BY <1>1, <1>2, <2>1, EntriesInSame
  <2> QED
    BY <1>1, <2>2, EntriesInType
<1>4. ASSUME NEW f \in Files
      PROVE  EntriesIn(kept, {r \in T : owner[r] = f}) = rest[f]
  <2> PICK B : B = {r \in T : owner[r] = f}
    OBVIOUS
  <2> PICK C : C = A \cap B
    OBVIOUS
  <2>0. (f \in gone => rest[f] = <<>>) /\ (f \notin gone => rest[f] = part[f])
    BY DEF Without
  <2>1. EntriesIn(kept, B) = EntriesIn(rows, C)
    BY <1>1, <1>3, EntriesInTwice
  <2>2. CASE f \in gone
    <3>1. \A i \in 1..Len(rows) : rows[i] \notin C
      BY <2>2
    <3> QED
      BY <1>1, <2>0, <2>1, <2>2, <3>1, EntriesInNone
  <2>3. CASE f \notin gone
    <3>1. C = B
      BY <2>3
    <3> QED
      BY <1>1, <2>0, <2>1, <2>3, <3>1
  <2> QED
    BY <2>2, <2>3
<1> QED
  BY <1>2, <1>3, <1>4 DEF Table

LEMMA TableAdd ==
    ASSUME NEW rows, NEW T, NEW owner, NEW part, Table(rows, T, owner, part),
           NEW g \in Files, part[g] = <<>>, NEW new \in Seq(T), \A k \in 1..Len(new) : owner[new[k]] = g,
           NEW more, \A f \in Files : (f = g => more[f] = new) /\ (f # g => more[f] = part[f])
    PROVE  Table(rows \o new, T, owner, more)
<1>1. rows \in Seq(T) /\ \A f \in Files : EntriesIn(rows, {r \in T : owner[r] = f}) = part[f]
  BY DEF Table
<1>2. PICK both : both = rows \o new
  OBVIOUS
<1>3. both \in Seq(T)
  BY <1>1, <1>2
<1>4. ASSUME NEW f \in Files
      PROVE  EntriesIn(both, {r \in T : owner[r] = f}) = more[f]
  <2> PICK B : B = {r \in T : owner[r] = f}
    OBVIOUS
  <2>1. EntriesIn(both, B) = EntriesIn(rows, B) \o EntriesIn(new, B)
    BY <1>1, <1>2, EntriesInConcat
  <2>2. EntriesIn(rows, B) = part[f]
    BY <1>1
  <2>3. EntriesIn(rows, B) \in Seq(T)
    BY <1>1, EntriesInType
  <2>4. CASE f = g
    <3>1. \A i \in 1..Len(new) : new[i] \in B
      BY <2>4
    <3>2. EntriesIn(new, B) = new
      BY <3>1, EntriesInAll
    <3>3. <<>> \o new = new
      OBVIOUS
    <3> QED
      BY <2>1, <2>2, <2>4, <3>2, <3>3
  <2>5. CASE f # g
    <3>1. \A i \in 1..Len(new) : new[i] \notin B
      BY <2>5
    <3>2. EntriesIn(new, B) = <<>>
      BY <3>1, EntriesInNone
    <3>3. PICK old \in Seq(T) : old = EntriesIn(rows, B)
      BY <2>3
    <3>4. old \o <<>> = old
      OBVIOUS
    <3> QED
      BY <2>1, <2>2, <2>5, <3>2, <3>3, <3>4
  <2> QED
    BY <2>4, <2>5
<1> QED
  BY <1>2, <1>3, <1>4 DEF Table

LEMMA ExtractedTyped ==
    ASSUME NEW f \in Files, NEW tree \in Versions[f]
    PROVE  /\ Extracted[f][tree].symbols \in Seq(AllSymbols)
           /\ Extracted[f][tree].imports \in Seq(AllImports)
           /\ Extracted[f][tree].calls \in Seq(AllCalls)
           /\ \A k \in 1..Len(Extracted[f][tree].symbols) :
                 Extracted[f][tree].symbols[k].file = f /\ Extracted[f][tree].symbols[k] \in SymbolsIn(f)
           /\ \A k \in 1..Len(Extracted[f][tree].imports) : Extracted[f][tree].imports[k].file = f
           /\ \A k \in 1..Len(Extracted[f][tree].calls) :
                 /\ Extracted[f][tree].calls[k].source \in ToSet(Extracted[f][tree].symbols)
                 /\ Extracted[f][tree].calls[k].source.file = f
<1>1. PICK walk : walk = Extracted[f][tree]
  OBVIOUS
<1>2. walk = Extract(f, LanguageOf[f], tree)
  BY <1>1 DEF Extracted
<1>3. LanguageOf[f] \in DOMAIN SymbolKinds /\ IsTree(LanguageOf[f], tree)
  BY ResolverAssumption
<1>4. IsWalkOf(f, walk)
  BY <1>2, <1>3, ExtractedRows
<1>5. /\ ToSet(walk.symbols) \subseteq SymbolsIn(f) /\ SymbolsIn(f) \subseteq AllSymbols
      /\ ToSet(walk.imports) \subseteq AllImports /\ ToSet(walk.calls) \subseteq AllCalls
  BY <1>1 DEF SymbolsIn, AllSymbols, AllImports, AllCalls
<1>6. /\ walk.symbols \in Seq(ToSet(walk.symbols)) /\ walk.imports \in Seq(ToSet(walk.imports))
      /\ walk.calls \in Seq(ToSet(walk.calls))
  BY <1>4, ListIsSequence DEF IsWalkOf
<1>7. \A A, B, s : A \subseteq B /\ s \in Seq(A) => s \in Seq(B) /\ \A k \in 1..Len(s) : s[k] \in A
  OBVIOUS
<1>8. /\ walk.symbols \in Seq(AllSymbols) /\ walk.imports \in Seq(AllImports) /\ walk.calls \in Seq(AllCalls)
  BY <1>5, <1>6, <1>7
<1>9. /\ \A k \in 1..Len(walk.symbols) : walk.symbols[k] \in ToSet(walk.symbols)
      /\ \A k \in 1..Len(walk.imports) : walk.imports[k] \in ToSet(walk.imports)
      /\ \A k \in 1..Len(walk.calls) : walk.calls[k] \in ToSet(walk.calls)
  BY <1>5, <1>6, <1>7
<1>10. \A k \in 1..Len(walk.calls) : walk.calls[k].source \in ToSet(walk.symbols) /\ walk.calls[k].source.file = f
  BY <1>4, <1>9 DEF IsWalkOf
<1> QED
  BY <1>1, <1>4, <1>5, <1>8, <1>9, <1>10 DEF IsWalkOf

LEMMA HoldsNoRows ==
    ASSUME NEW c, \A f \in Files : c[f] = None
    PROVE  Holds(NoRows, c)
<1>1. ASSUME NEW T, NEW owner, NEW part, \A f \in Files : part[f] = <<>>
      PROVE  Table(<<>>, T, owner, part)
  BY <1>1, EntriesInEmpty DEF Table
<1>2. \A f \in Files : SymbolsPart(c)[f] = <<>> /\ ImportsPart(c)[f] = <<>> /\ CallsPart(c)[f] = <<>>
  BY DEF SymbolsPart, ImportsPart, CallsPart
<1> QED
  BY <1>1, <1>2 DEF Holds, NoRows

LEMMA HoldsPurge ==
    ASSUME NEW t, NEW c, Holds(t, c), NEW gone
    PROVE  Holds(PurgeRows(t, gone), [f \in Files |-> IF f \in gone THEN None ELSE c[f]])
<1>1. PICK d : d = [f \in Files |-> IF f \in gone THEN None ELSE c[f]]
  OBVIOUS
<1>2. /\ Table(t.symbols, AllSymbols, FileOf(AllSymbols), SymbolsPart(c))
      /\ Table(t.imports, AllImports, FileOf(AllImports), ImportsPart(c))
      /\ Table(t.pending, AllCalls, CallerFile, CallsPart(c))
  BY DEF Holds
<1>3. /\ SymbolsPart(d) = Without(SymbolsPart(c), gone)
      /\ ImportsPart(d) = Without(ImportsPart(c), gone)
      /\ CallsPart(d) = Without(CallsPart(c), gone)
  BY <1>1 DEF SymbolsPart, ImportsPart, CallsPart, Without
<1>4. PICK u : u = PurgeRows(t, gone)
  OBVIOUS
<1>5. Table(u.symbols, AllSymbols, FileOf(AllSymbols), SymbolsPart(d))
  <2>1. PICK P : P = {k \in DOMAIN t.symbols : t.symbols[k].file \notin gone}
    OBVIOUS
  <2>2. u.symbols = EntriesAt(t.symbols, P)
    BY <1>4, <2>1 DEF PurgeRows
  <2>3. \A k \in 1..Len(t.symbols) : k \in P <=> FileOf(AllSymbols)[t.symbols[k]] \notin gone
    BY <1>2, <2>1 DEF Table, FileOf
  <2> PICK rows, owner, part, rest : rows = t.symbols /\ owner = FileOf(AllSymbols) /\ part = SymbolsPart(c) /\ rest = SymbolsPart(d)
    OBVIOUS
  <2>4. Table(rows, AllSymbols, owner, part) /\ \A k \in 1..Len(rows) : k \in P <=> owner[rows[k]] \notin gone
    BY <1>2, <2>3
  <2>5. rest = Without(part, gone)
    BY <1>3
  <2>6. Table(EntriesAt(rows, P), AllSymbols, owner, rest)
    BY <2>4, <2>5, TablePurge
  <2> QED
    BY <2>2, <2>6
<1>6. Table(u.imports, AllImports, FileOf(AllImports), ImportsPart(d))
  <2>1. PICK P : P = {k \in DOMAIN t.imports : t.imports[k].file \notin gone}
    OBVIOUS
  <2>2. u.imports = EntriesAt(t.imports, P)
    BY <1>4, <2>1 DEF PurgeRows
  <2>3. \A k \in 1..Len(t.imports) : k \in P <=> FileOf(AllImports)[t.imports[k]] \notin gone
    BY <1>2, <2>1 DEF Table, FileOf
  <2> PICK rows, owner, part, rest : rows = t.imports /\ owner = FileOf(AllImports) /\ part = ImportsPart(c) /\ rest = ImportsPart(d)
    OBVIOUS
  <2>4. Table(rows, AllImports, owner, part) /\ \A k \in 1..Len(rows) : k \in P <=> owner[rows[k]] \notin gone
    BY <1>2, <2>3
  <2>5. rest = Without(part, gone)
    BY <1>3
  <2>6. Table(EntriesAt(rows, P), AllImports, owner, rest)
    BY <2>4, <2>5, TablePurge
  <2> QED
    BY <2>2, <2>6
<1>7. Table(u.pending, AllCalls, CallerFile, CallsPart(d))
  <2>1. PICK P : P = {k \in DOMAIN t.pending : t.pending[k].source.file \notin gone}
    OBVIOUS
  <2>2. u.pending = EntriesAt(t.pending, P)
    BY <1>4, <2>1 DEF PurgeRows
  <2>3. \A k \in 1..Len(t.pending) : k \in P <=> CallerFile[t.pending[k]] \notin gone
    BY <1>2, <2>1 DEF Table, CallerFile
  <2> PICK rows, owner, part, rest : rows = t.pending /\ owner = CallerFile /\ part = CallsPart(c) /\ rest = CallsPart(d)
    OBVIOUS
  <2>4. Table(rows, AllCalls, owner, part) /\ \A k \in 1..Len(rows) : k \in P <=> owner[rows[k]] \notin gone
    BY <1>2, <2>3
  <2>5. rest = Without(part, gone)
    BY <1>3
  <2>6. Table(EntriesAt(rows, P), AllCalls, owner, rest)
    BY <2>4, <2>5, TablePurge
  <2> QED
    BY <2>2, <2>6
<1>8. u.files = {f \in Files : d[f] # None}
  BY <1>1, <1>4 DEF Holds, PurgeRows
<1> QED
  BY <1>1, <1>4, <1>5, <1>6, <1>7, <1>8 DEF Holds

LEMMA HoldsAdd ==
    ASSUME NEW t, NEW c, Holds(t, c), NEW g \in Files, c[g] = None, NEW tree \in Versions[g]
    PROVE  Holds(IndexFile(t, g, tree), [f \in Files |-> IF f = g THEN tree ELSE c[f]])
<1>1. PICK d : d = [f \in Files |-> IF f = g THEN tree ELSE c[f]]
  OBVIOUS
<1>2. /\ Table(t.symbols, AllSymbols, FileOf(AllSymbols), SymbolsPart(c))
      /\ Table(t.imports, AllImports, FileOf(AllImports), ImportsPart(c))
      /\ Table(t.pending, AllCalls, CallerFile, CallsPart(c))
  BY DEF Holds
<1>3. tree # None
  BY ResolverAssumption
<1>4. PICK w : w = Extracted[g][tree]
  OBVIOUS
<1>5. ASSUME NEW f \in Files
      PROVE  /\ f = g => SymbolsPart(d)[f] = w.symbols /\ ImportsPart(d)[f] = w.imports /\ CallsPart(d)[f] = w.calls
             /\ f # g => /\ SymbolsPart(d)[f] = SymbolsPart(c)[f]
                         /\ ImportsPart(d)[f] = ImportsPart(c)[f]
                         /\ CallsPart(d)[f] = CallsPart(c)[f]
  <2>1. (f = g => d[f] = tree) /\ (f # g => d[f] = c[f])
    BY <1>1
  <2> QED
    BY <1>3, <1>4, <2>1 DEF SymbolsPart, ImportsPart, CallsPart
<1>6. SymbolsPart(c)[g] = <<>> /\ ImportsPart(c)[g] = <<>> /\ CallsPart(c)[g] = <<>>
  BY DEF SymbolsPart, ImportsPart, CallsPart
<1>7. PICK u : u = IndexFile(t, g, tree)
  OBVIOUS
<1>8. /\ w.symbols \in Seq(AllSymbols) /\ \A k \in 1..Len(w.symbols) : w.symbols[k].file = g
      /\ w.imports \in Seq(AllImports) /\ \A k \in 1..Len(w.imports) : w.imports[k].file = g
      /\ w.calls \in Seq(AllCalls) /\ \A k \in 1..Len(w.calls) : w.calls[k].source.file = g
  BY <1>4, ExtractedTyped
<1>9. Table(u.symbols, AllSymbols, FileOf(AllSymbols), SymbolsPart(d))
  <2>1. u.symbols = t.symbols \o w.symbols
    BY <1>4, <1>7 DEF IndexFile
  <2>2. \A k \in 1..Len(w.symbols) : FileOf(AllSymbols)[w.symbols[k]] = g
    BY <1>8 DEF FileOf
  <2> PICK rows, owner, part, more, new :
          rows = t.symbols /\ owner = FileOf(AllSymbols) /\ part = SymbolsPart(c) /\ more = SymbolsPart(d) /\ new = w.symbols
    OBVIOUS
  <2>3. Table(rows, AllSymbols, owner, part) /\ part[g] = <<>>
    BY <1>2, <1>6
  <2>4. new \in Seq(AllSymbols) /\ \A k \in 1..Len(new) : owner[new[k]] = g
    BY <1>8, <2>2
  <2>5. \A f \in Files : (f = g => more[f] = new) /\ (f # g => more[f] = part[f])
    BY <1>5
  <2>6. Table(rows \o new, AllSymbols, owner, more)
    BY <2>3, <2>4, <2>5, TableAdd
  <2> QED
    BY <2>1, <2>6
<1>10. Table(u.imports, AllImports, FileOf(AllImports), ImportsPart(d))
  <2>1. u.imports = t.imports \o w.imports
    BY <1>4, <1>7 DEF IndexFile
  <2>2. \A k \in 1..Len(w.imports) : FileOf(AllImports)[w.imports[k]] = g
    BY <1>8 DEF FileOf
  <2> PICK rows, owner, part, more, new :
          rows = t.imports /\ owner = FileOf(AllImports) /\ part = ImportsPart(c) /\ more = ImportsPart(d) /\ new = w.imports
    OBVIOUS
  <2>3. Table(rows, AllImports, owner, part) /\ part[g] = <<>>
    BY <1>2, <1>6
  <2>4. new \in Seq(AllImports) /\ \A k \in 1..Len(new) : owner[new[k]] = g
    BY <1>8, <2>2
  <2>5. \A f \in Files : (f = g => more[f] = new) /\ (f # g => more[f] = part[f])
    BY <1>5
  <2>6. Table(rows \o new, AllImports, owner, more)
    BY <2>3, <2>4, <2>5, TableAdd
  <2> QED
    BY <2>1, <2>6
<1>11. Table(u.pending, AllCalls, CallerFile, CallsPart(d))
  <2>1. u.pending = t.pending \o w.calls
    BY <1>4, <1>7 DEF IndexFile
  <2>2. \A k \in 1..Len(w.calls) : CallerFile[w.calls[k]] = g
    BY <1>8 DEF CallerFile
  <2> PICK rows, owner, part, more, new :
          rows = t.pending /\ owner = CallerFile /\ part = CallsPart(c) /\ more = CallsPart(d) /\ new = w.calls
    OBVIOUS
  <2>3. Table(rows, AllCalls, owner, part) /\ part[g] = <<>>
    BY <1>2, <1>6
  <2>4. new \in Seq(AllCalls) /\ \A k \in 1..Len(new) : owner[new[k]] = g
    BY <1>8, <2>2
  <2>5. \A f \in Files : (f = g => more[f] = new) /\ (f # g => more[f] = part[f])
    BY <1>5
  <2>6. Table(rows \o new, AllCalls, owner, more)
    BY <2>3, <2>4, <2>5, TableAdd
  <2> QED
    BY <2>1, <2>6
<1>12. u.files = {f \in Files : d[f] # None}
  BY <1>1, <1>3, <1>7 DEF Holds, IndexFile
<1> QED
  BY <1>1, <1>7, <1>9, <1>10, <1>11, <1>12 DEF Holds

\* The loop of IndexAll over the files up to the k-th.
IsIndexing(g, t, todo, now, n) ==
    g = [f \in 0..n |-> IF f = 0 THEN t
                        ELSE IF f \in todo THEN IndexFile(g[f - 1], f, now[f]) ELSE g[f - 1]]

LEMMA IndexingExists ==
    ASSUME NEW t, NEW todo, NEW now, NEW n \in Nat
    PROVE  \E g : IsIndexing(g, t, todo, now, n)
<1> DEFINE next(f, u) == IF f \in todo THEN IndexFile(u, f, now[f]) ELSE u
           P == {k \in 0..n : \E g : IsIndexing(g, t, todo, now, k)}
<1>1. 0 \in P
  <2>1. IsIndexing([f \in 0..0 |-> t], t, todo, now, 0)
    BY DEF IsIndexing
  <2> QED
    BY <2>1
<1>2. ASSUME NEW k \in 1..n, k - 1 \in P PROVE k \in P
  <2>1. PICK h : IsIndexing(h, t, todo, now, k - 1)
    BY <1>2
  <2>2. \A f \in 0..(k - 1) : h[f] = IF f = 0 THEN t ELSE next(f, h[f - 1])
    BY <2>1 DEF IsIndexing
  <2> DEFINE g == [f \in 0..k |-> IF f = k THEN next(k, h[k - 1]) ELSE h[f]]
  <2> HIDE DEF next
  <2>3. \A f \in 0..k : g[f] = IF f = 0 THEN t ELSE next(f, g[f - 1])
    BY <2>2
  <2>4. g = [f \in 0..k |-> g[f]]
    OBVIOUS
  <2> HIDE DEF g
  <2>5. g = [f \in 0..k |-> IF f = 0 THEN t ELSE next(f, g[f - 1])]
    BY <2>3, <2>4
  <2>6. IsIndexing(g, t, todo, now, k)
    BY <2>5 DEF IsIndexing, next
  <2> QED
    BY <2>6
<1>3. P = 0..n
  <2>1. P \subseteq 0..n
    OBVIOUS
  <2> HIDE DEF P
  <2> QED
    BY <1>1, <1>2, <2>1, Stepwise
<1> QED
  BY <1>3

LEMMA IndexAllIsIndexing ==
    ASSUME NEW t, NEW fs, NEW now
    PROVE  \E g : /\ IsIndexing(g, t, {f \in fs : now[f] # None}, now, Cardinality(Files))
                  /\ IndexAll(t, fs, now) = g[Cardinality(Files)]
<1>1. PICK n \in Nat : n = Cardinality(Files)
  BY ResolverAssumption, FS_CardinalityType
<1> DEFINE todo == {f \in fs : now[f] # None}
           g == CHOOSE g : IsIndexing(g, t, todo, now, n)
<1>2. IsIndexing(g, t, todo, now, n)
  BY IndexingExists
<1>3. IndexAll(t, fs, now) = g[n]
  BY <1>1 DEF IndexAll, IsIndexing
<1> QED
  BY <1>1, <1>2, <1>3

LEMMA HoldsIndexAll ==
    ASSUME NEW t, NEW c, Holds(t, c), NEW fs, fs \subseteq Files, NEW now,
           \A f \in fs : c[f] = None /\ now[f] \in Versions[f] \union {None}
    PROVE  Holds(IndexAll(t, fs, now), [f \in Files |-> IF f \in fs THEN now[f] ELSE c[f]])
<1>1. PICK n \in Nat : n = Cardinality(Files)
  BY ResolverAssumption, FS_CardinalityType
<1>2. Files = 1..n
  BY <1>1, ResolverAssumption
<1>3. PICK todo : todo = {f \in fs : now[f] # None}
  OBVIOUS
<1>4. PICK g : IsIndexing(g, t, todo, now, n) /\ IndexAll(t, fs, now) = g[n]
  BY <1>1, <1>3, IndexAllIsIndexing
<1>5. g[0] = t /\ \A k \in 1..n : /\ k \in todo => g[k] = IndexFile(g[k - 1], k, now[k])
                                  /\ k \notin todo => g[k] = g[k - 1]
  <2>1. g[0] = t /\ \A k \in 1..n : g[k] = IF k \in todo THEN IndexFile(g[k - 1], k, now[k]) ELSE g[k - 1]
    BY <1>4 DEF IsIndexing
  <2> QED
    BY <2>1
<1> DEFINE upTo(k) == [f \in Files |-> IF f \in todo /\ f <= k THEN now[f] ELSE c[f]]
           P == {k \in 0..n : Holds(g[k], upTo(k))}
<1>6. ASSUME NEW u, NEW a, NEW b, Holds(u, a), \A f \in Files : a[f] = b[f]
      PROVE  Holds(u, b)
  <2>1. /\ SymbolsPart(a) = SymbolsPart(b) /\ ImportsPart(a) = ImportsPart(b) /\ CallsPart(a) = CallsPart(b)
        /\ {f \in Files : a[f] # None} = {f \in Files : b[f] # None}
    BY <1>6 DEF SymbolsPart, ImportsPart, CallsPart
  <2> QED
    BY <1>6, <2>1 DEF Holds
<1>7. 0 \in P
  <2>1. \A f \in Files : c[f] = upTo(0)[f]
    BY <1>2
  <2> HIDE DEF upTo
  <2>2. Holds(g[0], upTo(0))
    BY <1>5, <1>6, <2>1
  <2> QED
    BY <2>2
<1>8. ASSUME NEW k \in 1..n, k - 1 \in P PROVE k \in P
  <2>1. Holds(g[k - 1], upTo(k - 1)) /\ k \in Files
    BY <1>2, <1>8
  <2>2. CASE k \in todo
    <3>1. now[k] \in Versions[k]
      BY <1>3, <2>2
    <3>2. upTo(k - 1)[k] = None
      BY <1>2, <1>3, <2>1, <2>2
    <3>3. PICK d : d = [f \in Files |-> IF f = k THEN now[k] ELSE upTo(k - 1)[f]]
      OBVIOUS
    <3>4. \A f \in Files : d[f] = upTo(k)[f]
      BY <1>2, <2>2, <3>3
    <3> HIDE DEF upTo
    <3>5. Holds(IndexFile(g[k - 1], k, now[k]), d)
      BY <2>1, <3>1, <3>2, <3>3, HoldsAdd
    <3>6. Holds(g[k], upTo(k))
      BY <1>5, <1>6, <2>2, <3>4, <3>5
    <3> QED
      BY <3>6
  <2>3. CASE k \notin todo
    <3>1. \A f \in Files : upTo(k - 1)[f] = upTo(k)[f]
      <4> TAKE f \in Files
      <4>1. f \in 1..n /\ (f \in todo => f # k)
        BY <1>2, <2>3
      <4> QED
        BY <4>1
    <3> HIDE DEF upTo
    <3>2. Holds(g[k], upTo(k))
      BY <1>5, <1>6, <2>1, <2>3, <3>1
    <3> QED
      BY <3>2
  <2> QED
    BY <2>2, <2>3
<1>9. P = 0..n
  <2>1. P \subseteq 0..n
    OBVIOUS
  <2> HIDE DEF P
  <2> QED
    BY <1>7, <1>8, <2>1, Stepwise
<1>10. Holds(g[n], upTo(n))
  <2>1. n \in 0..n
    OBVIOUS
  <2> HIDE DEF upTo
  <2> QED
    BY <1>9, <2>1
<1>11. PICK d : d = [f \in Files |-> IF f \in fs THEN now[f] ELSE c[f]]
  OBVIOUS
<1>12. \A f \in Files : upTo(n)[f] = d[f]
  <2> TAKE f \in Files
  <2>1. f <= n /\ (f \in todo <=> f \in fs /\ now[f] # None) /\ (f \in fs => c[f] = None)
    BY <1>2, <1>3
  <2>2. upTo(n)[f] = IF f \in todo THEN now[f] ELSE c[f]
    BY <2>1
  <2> HIDE DEF upTo
  <2> QED
    BY <1>11, <2>1, <2>2
<1> HIDE DEF upTo
<1> QED
  BY <1>4, <1>6, <1>10, <1>11, <1>12

-----------------------------------------------------------------------------
(* What is in a table, whatever the order its files came in.               *)

LEMMA RowsHaveFiles ==
    /\ \A x \in AllSymbols : x.file \in Files /\ x \in SymbolsIn(x.file)
    /\ \A x \in AllImports : x.file \in Files
    /\ \A x \in AllCalls : x.source.file \in Files
<1>1. ASSUME NEW x \in AllSymbols PROVE x.file \in Files /\ x \in SymbolsIn(x.file)
  <2>1. PICK f \in Files : \E tree \in Versions[f] : x \in ToSet(Extracted[f][tree].symbols)
    BY DEF AllSymbols, SymbolsIn
  <2> PICK tree \in Versions[f] : x \in ToSet(Extracted[f][tree].symbols)
    BY <2>1
  <2>2. PICK row \in Seq(AllSymbols) : row = Extracted[f][tree].symbols
    BY ExtractedTyped
  <2>3. PICK k \in 1..Len(row) : x = row[k]
    BY <2>2 DEF ToSet
  <2> QED
    BY <2>2, <2>3, ExtractedTyped
<1>2. ASSUME NEW x \in AllImports PROVE x.file \in Files
  <2>1. PICK f \in Files : \E tree \in Versions[f] : x \in ToSet(Extracted[f][tree].imports)
    BY DEF AllImports
  <2> PICK tree \in Versions[f] : x \in ToSet(Extracted[f][tree].imports)
    BY <2>1
  <2>2. PICK row \in Seq(AllImports) : row = Extracted[f][tree].imports
    BY ExtractedTyped
  <2>3. PICK k \in 1..Len(row) : x = row[k]
    BY <2>2 DEF ToSet
  <2> QED
    BY <2>2, <2>3, ExtractedTyped
<1>3. ASSUME NEW x \in AllCalls PROVE x.source.file \in Files
  <2>1. PICK f \in Files : \E tree \in Versions[f] : x \in ToSet(Extracted[f][tree].calls)
    BY DEF AllCalls
  <2> PICK tree \in Versions[f] : x \in ToSet(Extracted[f][tree].calls)
    BY <2>1
  <2>2. PICK row \in Seq(AllCalls) : row = Extracted[f][tree].calls
    BY ExtractedTyped
  <2>3. PICK k \in 1..Len(row) : x = row[k]
    BY <2>2 DEF ToSet
  <2> QED
    BY <2>2, <2>3, ExtractedTyped
<1> QED
  BY <1>1, <1>2, <1>3

LEMMA TableSet ==
    ASSUME NEW rows, NEW T, NEW owner, NEW part, Table(rows, T, owner, part),
           \A r \in T : owner[r] \in Files
    PROVE  \A x : x \in ToSet(rows) <=> \E f \in Files : x \in T /\ owner[x] = f /\ x \in ToSet(part[f])
<1>1. rows \in Seq(T) /\ \A f \in Files : EntriesIn(rows, {r \in T : owner[r] = f}) = part[f]
  BY DEF Table
<1>2. ToSet(rows) = {rows[i] : i \in 1..Len(rows)} /\ ToSet(rows) \subseteq T
  BY <1>1, SequenceIsList
<1>3. ASSUME NEW f \in Files
      PROVE  ToSet(part[f]) = {x \in ToSet(rows) : owner[x] = f}
  <2>a. PICK B : B = {r \in T : owner[r] = f}
    OBVIOUS
  <2>b. PICK r : r = EntriesIn(rows, B)
    OBVIOUS
  <2>1. /\ r \in Seq(T) /\ (\A k \in 1..Len(r) : r[k] \in B)
        /\ \E g : IsChoice(g, r, rows, {i \in 1..Len(rows) : rows[i] \in B}, Len(rows))
    BY <1>1, <2>b, EntriesInType
  <2>2. r = part[f]
    BY <1>1, <2>a, <2>b
  <2>3. PICK g : IsChoice(g, r, rows, {i \in 1..Len(rows) : rows[i] \in B}, Len(rows))
    BY <2>1
  <2>4. /\ \A k \in 1..Len(r) : g[k] \in 1..Len(rows) /\ r[k] = rows[g[k]]
        /\ \A i \in 1..Len(rows) : rows[i] \in B => \E k \in 1..Len(r) : g[k] = i
    BY <2>3 DEF IsChoice
  <2>5. ToSet(r) = {r[k] : k \in 1..Len(r)}
    BY <2>1, SequenceIsList
  <2>6. \A k \in 1..Len(r) : r[k] \in ToSet(rows) /\ owner[r[k]] = f
    BY <1>2, <2>a, <2>1, <2>4
  <2>7. \A i \in 1..Len(rows) : owner[rows[i]] = f => rows[i] \in ToSet(r)
    BY <1>1, <1>2, <2>a, <2>4, <2>5
  <2> QED
    BY <1>2, <2>2, <2>5, <2>6, <2>7
<1> QED
  BY <1>2, <1>3

\* What is known of tables in which every file's rows are those of a version of it.
LEMMA RowsAre ==
    ASSUME NEW t, NEW c, Holds(t, c)
    PROVE  /\ IsList(t.symbols) /\ ToSet(t.symbols) \subseteq AllSymbols
           /\ IsList(t.imports) /\ ToSet(t.imports) \subseteq AllImports
           /\ IsList(t.pending) /\ ToSet(t.pending) \subseteq AllCalls
           /\ \A x : x \in ToSet(t.symbols) <=> \E f \in Files : x \in AllSymbols /\ x.file = f /\ x \in ToSet(SymbolsPart(c)[f])
           /\ \A x : x \in ToSet(t.imports) <=> \E f \in Files : x \in AllImports /\ x.file = f /\ x \in ToSet(ImportsPart(c)[f])
           /\ \A x : x \in ToSet(t.pending) <=>
                        \E f \in Files : x \in AllCalls /\ x.source.file = f /\ x \in ToSet(CallsPart(c)[f])
<1>1. /\ Table(t.symbols, AllSymbols, FileOf(AllSymbols), SymbolsPart(c))
      /\ Table(t.imports, AllImports, FileOf(AllImports), ImportsPart(c))
      /\ Table(t.pending, AllCalls, CallerFile, CallsPart(c))
  BY DEF Holds
<1>2. t.symbols \in Seq(AllSymbols) /\ t.imports \in Seq(AllImports) /\ t.pending \in Seq(AllCalls)
  BY <1>1 DEF Table
<1>3. /\ \A x \in AllSymbols : FileOf(AllSymbols)[x] = x.file /\ x.file \in Files
      /\ \A x \in AllImports : FileOf(AllImports)[x] = x.file /\ x.file \in Files
      /\ \A x \in AllCalls : CallerFile[x] = x.source.file /\ x.source.file \in Files
  BY RowsHaveFiles DEF FileOf, CallerFile
<1>4. \A x : x \in ToSet(t.symbols) <=> \E f \in Files : x \in AllSymbols /\ x.file = f /\ x \in ToSet(SymbolsPart(c)[f])
  <2>1. \A x : x \in ToSet(t.symbols) <=> \E f \in Files : x \in AllSymbols /\ FileOf(AllSymbols)[x] = f /\ x \in ToSet(SymbolsPart(c)[f])
    BY <1>1, <1>3, TableSet
  <2> QED
    BY <1>3, <2>1
<1>5. \A x : x \in ToSet(t.imports) <=> \E f \in Files : x \in AllImports /\ x.file = f /\ x \in ToSet(ImportsPart(c)[f])
  <2>1. \A x : x \in ToSet(t.imports) <=> \E f \in Files : x \in AllImports /\ FileOf(AllImports)[x] = f /\ x \in ToSet(ImportsPart(c)[f])
    BY <1>1, <1>3, TableSet
  <2> QED
    BY <1>3, <2>1
<1>6. \A x : x \in ToSet(t.pending) <=> \E f \in Files : x \in AllCalls /\ x.source.file = f /\ x \in ToSet(CallsPart(c)[f])
  <2>1. \A x : x \in ToSet(t.pending) <=> \E f \in Files : x \in AllCalls /\ CallerFile[x] = f /\ x \in ToSet(CallsPart(c)[f])
    BY <1>1, <1>3, TableSet
  <2> QED
    BY <1>3, <2>1
<1> QED
  BY <1>2, <1>4, <1>5, <1>6, SequenceIsList

\* The rows of a file in the order of the table are the rows it was extracted to.
LEMMA FileRows ==
    ASSUME NEW t, NEW c, Holds(t, c), NEW f \in Files
    PROVE  /\ SymbolsOf(f, t) = SymbolsPart(c)[f]
           /\ ImportsOf(Indexes(t), f) = ImportsPart(c)[f]
           /\ EntriesIn(t.pending, {r \in AllCalls : r.source.file = f}) = CallsPart(c)[f]
<1>1. /\ Table(t.symbols, AllSymbols, FileOf(AllSymbols), SymbolsPart(c))
      /\ Table(t.imports, AllImports, FileOf(AllImports), ImportsPart(c))
      /\ Table(t.pending, AllCalls, CallerFile, CallsPart(c))
  BY DEF Holds
<1>2. t.symbols \in Seq(AllSymbols) /\ t.imports \in Seq(AllImports) /\ t.pending \in Seq(AllCalls)
  BY <1>1 DEF Table
<1>3. SymbolsOf(f, t) = SymbolsPart(c)[f]
  <2> PICK S, P : /\ S = {r \in AllSymbols : FileOf(AllSymbols)[r] = f}
                  /\ P = {k \in DOMAIN t.symbols : t.symbols[k].file = f}
    OBVIOUS
  <2>1. \A k \in 1..Len(t.symbols) : k \in P <=> t.symbols[k] \in S
    BY <1>2 DEF FileOf
  <2>2. EntriesAt(t.symbols, P) = EntriesIn(t.symbols, S)
    BY <1>2, <2>1, EntriesInSame
  <2> QED
    BY <1>1, <2>2 DEF Table, SymbolsOf
<1>4. ImportsOf(Indexes(t), f) = ImportsPart(c)[f]
  <2> PICK S, P : /\ S = {r \in AllImports : FileOf(AllImports)[r] = f}
                  /\ P = {k \in DOMAIN t.imports : t.imports[k].file = f}
    OBVIOUS
  <2>1. \A k \in 1..Len(t.imports) : k \in P <=> t.imports[k] \in S
    BY <1>2 DEF FileOf
  <2>2. EntriesAt(t.imports, P) = EntriesIn(t.imports, S)
    BY <1>2, <2>1, EntriesInSame
  <2> QED
    BY <1>1, <2>2 DEF Table, ImportsOf, Indexes
<1>5. EntriesIn(t.pending, {r \in AllCalls : r.source.file = f}) = CallsPart(c)[f]
  <2>1. {r \in AllCalls : r.source.file = f} = {r \in AllCalls : CallerFile[r] = f}
    BY DEF CallerFile
  <2> QED
    BY <1>1, <2>1 DEF Table
<1> QED
  BY <1>3, <1>4, <1>5

-----------------------------------------------------------------------------
(* Candidates.                                                             *)

LEMMA BeforeIsOrder ==
    ASSUME NEW S, S \subseteq AllSymbols
    PROVE  IsOrder([x \in S |-> {y \in S : Before(y, x)}], S)
<1>1. \A x \in S : x.file \in Nat /\ x.file \in Files /\ x \in SymbolsIn(x.file)
  <2>1. PICK n : Files = 1..n
    BY ResolverAssumption
  <2> QED
    BY <2>1, RowsHaveFiles
<1>2. \A x \in S : ~Before(x, x)
  BY <1>1, IdAssumption DEF Before
<1>3. \A x, y \in S : x # y => Before(x, y) \/ Before(y, x)
  <2> SUFFICES ASSUME NEW x \in S, NEW y \in S, x # y PROVE Before(x, y) \/ Before(y, x)
    OBVIOUS
  <2>1. CASE x.file = y.file
    <3>1. IdBefore(x, y) \/ IdBefore(y, x)
      BY <1>1, <2>1, IdAssumption
    <3> QED
      BY <2>1, <3>1 DEF Before
  <2>2. CASE x.file # y.file
    <3>1. x.file < y.file \/ y.file < x.file
      BY <1>1, <2>2
    <3> QED
      BY <3>1 DEF Before
  <2> QED
    BY <2>1, <2>2
<1>4. \A x, y, z \in S : Before(z, x) /\ Before(x, y) => Before(z, y)
  <2> SUFFICES ASSUME NEW x \in S, NEW y \in S, NEW z \in S, Before(z, x), Before(x, y) PROVE Before(z, y)
    OBVIOUS
  <2>1. CASE z.file = x.file /\ x.file = y.file
    <3>1. IdBefore(z, x) /\ IdBefore(x, y)
      BY <1>1, <2>1 DEF Before
    <3>2. IdBefore(z, y)
      BY <1>1, <2>1, <3>1, IdAssumption
    <3> QED
      BY <2>1, <3>2 DEF Before
  <2>2. CASE ~(z.file = x.file /\ x.file = y.file)
    <3>1. z.file < y.file
      BY <1>1, <2>2 DEF Before
    <3> QED
      BY <3>1 DEF Before
  <2> QED
    BY <2>1, <2>2
<1>5. PICK below : below = [x \in S |-> {y \in S : Before(y, x)}]
  OBVIOUS
<1>6. below \in [S -> SUBSET S] /\ \A x, y \in S : y \in below[x] <=> Before(y, x)
  BY <1>5
<1>7. IsOrder(below, S)
  BY <1>2, <1>3, <1>4, <1>6 DEF IsOrder
<1> QED
  BY <1>5, <1>7

LEMMA InOrderMeetsAll ==
    ASSUME NEW S, IsFiniteSet(S), S \subseteq AllSymbols
    PROVE  /\ InOrder(S, Before) \in Seq(S) /\ Len(InOrder(S, Before)) = Cardinality(S)
           /\ Cardinality(S) \in Nat /\ ToSet(InOrder(S, Before)) = S
<1>1. PICK below : below = [x \in S |-> {y \in S : Before(y, x)}]
  OBVIOUS
<1>2. IsOrder(below, S)
  BY <1>1, BeforeIsOrder
<1>3. PICK n : n = Cardinality(S)
  OBVIOUS
<1>4. n \in Nat /\ \A k \in 1..n : \E s \in S : Cardinality(below[s]) = k - 1
  BY <1>2, <1>3, Ranks
<1>5. PICK order : order = InOrder(S, Before)
  OBVIOUS
<1>6. order = [k \in 1..n |-> CHOOSE x \in S : Cardinality({y \in S : Before(y, x)}) = k - 1]
  BY <1>3, <1>5 DEF InOrder
<1>7. ASSUME NEW k \in 1..n PROVE order[k] \in S /\ Cardinality(below[order[k]]) = k - 1
  <2>1. order[k] = CHOOSE x \in S : Cardinality({y \in S : Before(y, x)}) = k - 1
    BY <1>6
  <2>2. \A x \in S : below[x] = {y \in S : Before(y, x)}
    BY <1>1
  <2>3. \E x \in S : Cardinality({y \in S : Before(y, x)}) = k - 1
    BY <1>4, <2>2
  <2>4. order[k] \in S /\ Cardinality({y \in S : Before(y, order[k])}) = k - 1
    BY <2>1, <2>3
  <2> QED
    BY <2>2, <2>4
<1>8. order \in [1..n -> S]
  BY <1>6, <1>7
<1>9. IsRanking(order, below, S)
  BY <1>3, <1>7, <1>8 DEF IsRanking
<1>10. \A x \in S : \E k \in 1..n : order[k] = x
  BY <1>2, <1>3, <1>9, RankedInOrder
<1>11. order \in Seq(S) /\ Len(order) = n
  BY <1>4, <1>8
<1>12. ToSet(order) = {order[k] : k \in 1..n}
  BY <1>11, SequenceIsList
<1> QED
  BY <1>3, <1>4, <1>5, <1>7, <1>10, <1>11, <1>12

\* A lookup by name finds each symbol of the name once.
LEMMA CandidatesAreNamed ==
    ASSUME NEW ix, IsList(ix.names), ToSet(ix.names) \subseteq AllSymbols, NEW name
    PROVE  /\ Candidates(ix, name) \in Seq(AllSymbols)
           /\ ToSet(Candidates(ix, name)) = {s \in ToSet(ix.names) : s.name = name}
           /\ Len(Candidates(ix, name)) = Cardinality({s \in ToSet(ix.names) : s.name = name})
           /\ Len(Candidates(ix, name)) \in Nat
<1>1. PICK S : S = {s \in ToSet(ix.names) : s.name = name}
  OBVIOUS
<1>2. IsFiniteSet(S)
  <2>1. PICK n \in Nat : n = Len(ix.names)
    BY ListIsSequence
  <2>2. ToSet(ix.names) = {ix.names[i] : i \in 1..n}
    BY <2>1, ListIsSequence
  <2>3. IsFiniteSet(1..n)
    BY CountTo
  <2>4. PICK f \in [1..n -> ToSet(ix.names)] : \A i \in 1..n : f[i] = ix.names[i]
    <3>1. [i \in 1..n |-> ix.names[i]] \in [1..n -> ToSet(ix.names)]
      BY <2>2
    <3> QED
      BY <3>1
  <2>5. f \in Surjection(1..n, ToSet(ix.names))
    BY <2>2, <2>4 DEF Surjection
  <2>6. IsFiniteSet(ToSet(ix.names))
    BY <2>3, <2>5, FS_Surjection
  <2> QED
    BY <1>1, <2>6, FS_Subset
<1>3. S \subseteq AllSymbols
  BY <1>1
<1>4. Candidates(ix, name) = InOrder(S, Before)
  BY <1>1 DEF Candidates
<1>5. PICK order : order = InOrder(S, Before)
  OBVIOUS
<1>6. order \in Seq(S) /\ Len(order) = Cardinality(S) /\ Cardinality(S) \in Nat /\ ToSet(order) = S
  BY <1>2, <1>3, <1>5, InOrderMeetsAll
<1>7. order \in Seq(AllSymbols)
  BY <1>3, <1>6
<1> QED
  BY <1>1, <1>4, <1>5, <1>6, <1>7

-----------------------------------------------------------------------------
(* How a call resolves depends on the symbols there are, the files there    *)
(* are and the imports of its own file.                                    *)

AgreeOn(a, b, f) ==
    /\ ToSet(a.names) = ToSet(b.names) /\ a.sources = b.sources /\ a.files = b.files
    /\ ImportsOf(a, f) = ImportsOf(b, f)

LEMMA ResolveCallAgrees ==
    ASSUME NEW a, NEW b, NEW call, AgreeOn(a, b, call.source.file)
    PROVE  ResolveCall(a, call) = ResolveCall(b, call)
<1>1. \A name : Candidates(a, name) = Candidates(b, name)
  BY DEF AgreeOn, Candidates
<1>2. MatchedImports(a, call) = MatchedImports(b, call)
  BY DEF AgreeOn, MatchedImports
<1>3. FirstImport(a, call) = FirstImport(b, call)
  BY <1>2 DEF AgreeOn, FirstImport
<1>4. \A f, import, kind : IsExternal(a, f, import, kind) <=> IsExternal(b, f, import, kind)
  BY DEF AgreeOn, IsExternal
<1>5. \A path : ByName(a, call, path) = ByName(b, call, path)
  BY <1>1 DEF ByName
<1>6. ASSUME NEW import PROVE ThroughImport(a, call, import) = ThroughImport(b, call, import)
  <2>1. PICK named : named = Candidates(a, NameSought(import, call)) /\ named = Candidates(b, NameSought(import, call))
    BY <1>1
  <2>2. PICK found : found = EntriesAt(named, {k \in DOMAIN named : InModule(named[k].file, call.source.file, import, call.kind)})
    OBVIOUS
  <2>3. CASE found # <<>>
    BY <2>1, <2>2, <2>3 DEF ThroughImport
  <2>4. CASE found = <<>> /\ (call.kind = "bare" \/ IsExternal(a, call.source.file, import, call.kind))
    BY <1>4, <2>1, <2>2, <2>4 DEF ThroughImport
  <2>5. CASE found = <<>> /\ ~(call.kind = "bare" \/ IsExternal(a, call.source.file, import, call.kind))
    BY <1>4, <1>5, <2>1, <2>2, <2>5 DEF ThroughImport
  <2> QED
    BY <2>3, <2>4, <2>5
<1>7. \A c : FitsInFile(a, c, call) <=> FitsInFile(b, c, call)
  BY DEF AgreeOn, FitsInFile
<1>8. SameFile(a, call) = SameFile(b, call)
  BY <1>1, <1>7 DEF SameFile
<1>9. WithoutImport(a, call) = WithoutImport(b, call)
  BY <1>1, <1>5, <1>8 DEF WithoutImport
<1> QED
  BY <1>2, <1>3, <1>6, <1>9 DEF ResolveCall

LEMMA EdgesAgree ==
    ASSUME NEW a, NEW b, NEW call, AgreeOn(a, b, call.source.file)
    PROVE  EdgesOf(a, call) = EdgesOf(b, call)
  BY ResolveCallAgrees DEF EdgesOf

LEMMA EdgeOfCall ==
    ASSUME NEW ix, NEW call, NEW e \in EdgesOf(ix, call)
    PROVE  /\ e.source = call.source /\ e.line = call.line
           /\ e.target \in ResolveCall(ix, call).targets /\ e.target # e.source
           /\ e.confidence = Confidence[ResolveCall(ix, call).path]
  BY DEF EdgesOf

LEMMA EdgeToTarget ==
    ASSUME NEW ix, NEW call, NEW s \in ResolveCall(ix, call).targets, s # call.source
    PROVE  \E e \in EdgesOf(ix, call) : e.target = s
<1> DEFINE edge == [source |-> call.source, target |-> s, line |-> call.line,
                    confidence |-> Confidence[ResolveCall(ix, call).path]]
<1>1. edge \in EdgesOf(ix, call)
  BY DEF EdgesOf
<1>2. edge.target = s
  OBVIOUS
<1> QED
  BY <1>1, <1>2

\* An edge of a call that no earlier call of its line has drawn.
Hit(ix, calls, e) ==
    \E i \in 1..Len(calls) :
        /\ e \in EdgesOf(ix, calls[i])
        /\ \A j \in 1..(i - 1) : SameSite(calls[j], e) => \A d \in EdgesOf(ix, calls[j]) : d.target # e.target

LEMMA DerivedIsHits ==
    ASSUME NEW t, IsList(t.pending)
    PROVE  \A e : e \in Derived(t) <=> Hit(Indexes(t), t.pending, e)
<1>1. PICK n \in Nat : n = Len(t.pending) /\ DOMAIN t.pending = 1..n
  BY ListIsSequence
<1>2. PICK ix : ix = Indexes(t)
  OBVIOUS
<1>3. PICK of : of = [i \in 1..n |-> EdgesOf(ix, t.pending[i])]
  OBVIOUS
<1>4. Derived(t) = UNION {{e \in of[i] : \A j \in 1..(i - 1) :
                              SameSite(t.pending[j], e) => \A d \in of[j] : d.target # e.target} : i \in 1..n}
  BY <1>1, <1>2, <1>3 DEF Derived
<1>5. \A e : e \in Derived(t) <=> \E i \in 1..n : e \in of[i] /\ \A j \in 1..(i - 1) :
                              SameSite(t.pending[j], e) => \A d \in of[j] : d.target # e.target
  BY <1>4
<1>6. \A i \in 1..n : of[i] = EdgesOf(ix, t.pending[i]) /\ \A j \in 1..(i - 1) : of[j] = EdgesOf(ix, t.pending[j])
  BY <1>3
<1> QED
  BY <1>1, <1>2, <1>5, <1>6 DEF Hit

\* A target of a call gets its edge, from this call or from an earlier one of its line.
LEMMA TargetIsHit ==
    ASSUME NEW ix, NEW calls, IsList(calls), NEW i \in 1..Len(calls), NEW e \in EdgesOf(ix, calls[i])
    PROVE  \E d : Hit(ix, calls, d) /\ SameSite(d, e) /\ d.target = e.target
<1>1. PICK n \in Nat : n = Len(calls)
  BY ListIsSequence
<1> DEFINE M == {k \in 1..n : \E d \in EdgesOf(ix, calls[k]) : SameSite(d, e) /\ d.target = e.target}
<1>2. i \in M
  BY <1>1 DEF SameSite
<1>3. M \subseteq Nat /\ M # {}
  BY <1>2
<1>4. PICK m \in M : \A k \in M : m <= k
  BY <1>3, LeastNumber
<1>5. PICK d \in EdgesOf(ix, calls[m]) : SameSite(d, e) /\ d.target = e.target
  BY <1>4
<1>6. ASSUME NEW j \in 1..(m - 1), SameSite(calls[j], d), NEW b \in EdgesOf(ix, calls[j]) PROVE b.target # d.target
  <2> SUFFICES ASSUME b.target = d.target PROVE FALSE
    OBVIOUS
  <2>1. b.source = calls[j].source /\ b.line = calls[j].line
    BY EdgeOfCall
  <2>2. SameSite(b, e) /\ b.target = e.target
    BY <1>5, <1>6, <2>1 DEF SameSite
  <2>3. j \in M /\ m \in 1..n
    BY <1>4, <2>2
  <2> HIDE DEF M
  <2> QED
    BY <1>4, <2>3
<1>7. m \in 1..Len(calls)
  BY <1>1, <1>4
<1>8. Hit(ix, calls, d)
  BY <1>6, <1>7 DEF Hit
<1> QED
  BY <1>5, <1>8

\* Only the calls of its own file decide on an edge.
LEMMA HitInFile ==
    ASSUME NEW ix, NEW calls \in Seq(AllCalls), NEW e, NEW S,
           \A r \in AllCalls : r \in S <=> r.source.file = e.source.file
    PROVE  Hit(ix, calls, e) <=> Hit(ix, EntriesIn(calls, S), e)
<1>1. PICK own : own = EntriesIn(calls, S)
  OBVIOUS
<1>2. PICK P : P = {i \in 1..Len(calls) : calls[i] \in S}
  OBVIOUS
<1>3. PICK g : own \in Seq(AllCalls) /\ IsChoice(g, own, calls, P, Len(calls))
  BY <1>1, <1>2, EntriesInType
<1>4. PICK m \in Nat, n \in Nat : m = Len(own) /\ n = Len(calls)
  BY <1>3
<1>5. /\ \A k \in 1..m : g[k] \in 1..n /\ g[k] \in P /\ own[k] = calls[g[k]]
      /\ \A j, k \in 1..m : j < k => g[j] < g[k]
      /\ \A i \in 1..n : i \in P => \E k \in 1..m : g[k] = i
  BY <1>3, <1>4 DEF IsChoice
<1>6. \A i \in 1..n : calls[i] \in AllCalls
  BY <1>4
<1>7. \A i \in 1..n : i \in P <=> calls[i].source.file = e.source.file
  BY <1>2, <1>4, <1>6
<1>8. ASSUME Hit(ix, calls, e) PROVE Hit(ix, own, e)
  <2>1. PICK i \in 1..n :
           /\ e \in EdgesOf(ix, calls[i])
           /\ \A j \in 1..(i - 1) : SameSite(calls[j], e) => \A d \in EdgesOf(ix, calls[j]) : d.target # e.target
    BY <1>4, <1>8 DEF Hit
  <2>2. i \in P
    BY <1>7, <2>1, EdgeOfCall
  <2>3. PICK k \in 1..m : g[k] = i
    BY <1>5, <2>2
  <2>4. ASSUME NEW j \in 1..(k - 1) PROVE own[j] = calls[g[j]] /\ g[j] \in 1..(i - 1)
    <3>1. j \in 1..m /\ j < k
      BY <2>4
    <3>2. g[j] < i /\ g[j] \in 1..n
      BY <1>5, <2>3, <3>1
    <3> QED
      BY <1>5, <3>1, <3>2
  <2>5. own[k] = calls[i] /\ k \in 1..Len(own)
    BY <1>4, <1>5, <2>3
  <2>6. ASSUME NEW j \in 1..(k - 1), SameSite(own[j], e), NEW d \in EdgesOf(ix, own[j]) PROVE d.target # e.target
    BY <2>1, <2>4, <2>6
  <2> QED
    BY <2>1, <2>5, <2>6 DEF Hit
<1>9. ASSUME Hit(ix, own, e) PROVE Hit(ix, calls, e)
  <2>1. PICK k \in 1..m :
           /\ e \in EdgesOf(ix, own[k])
           /\ \A j \in 1..(k - 1) : SameSite(own[j], e) => \A d \in EdgesOf(ix, own[j]) : d.target # e.target
    BY <1>4, <1>9 DEF Hit
  <2>2. own[k] = calls[g[k]] /\ g[k] \in 1..n
    BY <1>5
  <2>3. ASSUME NEW j \in 1..(g[k] - 1), SameSite(calls[j], e), NEW d \in EdgesOf(ix, calls[j]) PROVE d.target # e.target
    <3>1. j \in 1..n /\ j < g[k]
      BY <2>2, <2>3
    <3>2. j \in P
      BY <1>7, <2>3, <3>1 DEF SameSite
    <3>3. PICK l \in 1..m : g[l] = j
      BY <1>5, <3>1, <3>2
    <3>4. own[l] = calls[j]
      BY <1>5, <3>3
    <3>5. l \in 1..(k - 1)
      <4>1. l < k
        <5> SUFFICES ASSUME ~(l < k) PROVE FALSE
          OBVIOUS
        <5>1. k = l \/ k < l
          OBVIOUS
        <5> QED
          BY <1>5, <2>2, <3>1, <3>3, <5>1
      <4> QED
        BY <4>1
    <3> QED
      BY <2>1, <2>3, <3>4, <3>5
  <2> QED
    BY <1>4, <2>1, <2>2, <2>3 DEF Hit
<1> QED
  BY <1>1, <1>8, <1>9

LEMMA HitAgrees ==
    ASSUME NEW a, NEW b, NEW calls, IsList(calls), NEW e,
           \A call \in ToSet(calls) : EdgesOf(a, call) = EdgesOf(b, call), Hit(a, calls, e)
    PROVE  Hit(b, calls, e)
<1>1. PICK n \in Nat : n = Len(calls) /\ \A k \in 1..n : calls[k] \in ToSet(calls)
  BY ListIsSequence
<1>2. \A k \in 1..n : EdgesOf(a, calls[k]) = EdgesOf(b, calls[k])
  BY <1>1
<1>3. PICK i \in 1..n :
         /\ e \in EdgesOf(a, calls[i])
         /\ \A j \in 1..(i - 1) : SameSite(calls[j], e) => \A d \in EdgesOf(a, calls[j]) : d.target # e.target
  BY <1>1 DEF Hit
<1>4. \A j \in 1..(i - 1) : j \in 1..n
  OBVIOUS
<1> QED
  BY <1>1, <1>2, <1>3, <1>4 DEF Hit

LEMMA IndexesAgree ==
    ASSUME NEW t, NEW u, NEW c, Holds(t, c), Holds(u, c), NEW f \in Files
    PROVE  AgreeOn(Indexes(t), Indexes(u), f)
<1>1. t.files = u.files
  BY DEF Holds
<1>2. ToSet(t.symbols) = ToSet(u.symbols)
  <2>1. \A x : x \in ToSet(t.symbols) <=> x \in ToSet(u.symbols)
    BY RowsAre
  <2> QED
    BY <2>1
<1>3. ImportsOf(Indexes(t), f) = ImportsPart(c)[f] /\ ImportsOf(Indexes(u), f) = ImportsPart(c)[f]
  BY FileRows
<1> QED
  BY <1>1, <1>2, <1>3 DEF AgreeOn, Indexes

\* The edges are those of the versions of the files, however their rows came to be.
LEMMA DerivedAgrees ==
    ASSUME NEW t, NEW u, NEW c, Holds(t, c), Holds(u, c), NEW e \in Derived(t)
    PROVE  e \in Derived(u)
<1>1. PICK a, b : a = Indexes(t) /\ b = Indexes(u)
  OBVIOUS
<1>2. IsList(t.pending) /\ ToSet(t.pending) \subseteq AllCalls /\ IsList(u.pending) /\ ToSet(u.pending) \subseteq AllCalls
  BY RowsAre
<1>3. t.pending \in Seq(AllCalls) /\ u.pending \in Seq(AllCalls)
  BY DEF Holds, Table
<1>4. Hit(a, t.pending, e)
  BY <1>1, <1>2, DerivedIsHits
<1>5. PICK i \in 1..Len(t.pending) : e \in EdgesOf(a, t.pending[i])
  BY <1>4 DEF Hit
<1>6. PICK f \in Files : f = e.source.file
  <2>1. t.pending[i] \in AllCalls /\ e.source = t.pending[i].source
    BY <1>3, <1>5, EdgeOfCall
  <2> QED
    BY <2>1, RowsHaveFiles
<1>7. PICK S : S = {r \in AllCalls : r.source.file = f}
  OBVIOUS
<1>8. PICK own : own = CallsPart(c)[f]
  OBVIOUS
<1>9. EntriesIn(t.pending, S) = own /\ EntriesIn(u.pending, S) = own
  BY <1>7, <1>8, FileRows
<1>10. Hit(a, own, e)
  BY <1>3, <1>4, <1>6, <1>7, <1>9, HitInFile
<1>11. /\ own \in Seq(AllCalls) /\ \A k \in 1..Len(own) : own[k] \in S
  BY <1>3, <1>9, EntriesInType
<1>12. IsList(own) /\ \A call \in ToSet(own) : call.source.file = f
  <2>1. IsList(own) /\ ToSet(own) = {own[k] : k \in 1..Len(own)}
    BY <1>11, SequenceIsList
  <2> QED
    BY <1>7, <1>11, <2>1
<1>13. \A call \in ToSet(own) : EdgesOf(a, call) = EdgesOf(b, call)
  BY <1>1, <1>12, IndexesAgree, EdgesAgree
<1>14. Hit(b, own, e)
  BY <1>10, <1>12, <1>13, HitAgrees
<1>15. Hit(b, u.pending, e)
  BY <1>3, <1>6, <1>7, <1>9, <1>14, HitInFile
<1> QED
  BY <1>1, <1>2, <1>15, DerivedIsHits

-----------------------------------------------------------------------------
(* What a call may resolve to.                                             *)

LEMMA FirstOfPart ==
    ASSUME NEW T, NEW s \in Seq(T)
    PROVE  /\ ToSet(FirstOf(s)) \subseteq ToSet(s)
           /\ Len(s) <= Cap => FirstOf(s) = s
<1>1. Cap \in Nat /\ Len(s) \in Nat
  BY ResolverAssumption
<1>2. PICK m : m = Min({Cap, Len(s)})
  OBVIOUS
<1>3. /\ m \in Nat /\ m <= Len(s) /\ (Len(s) <= Cap => m = Len(s))
  <2>1. \E x \in {Cap, Len(s)} : \A y \in {Cap, Len(s)} : x <= y
    BY <1>1
  <2>2. m \in {Cap, Len(s)} /\ \A y \in {Cap, Len(s)} : m <= y
    BY <1>2, <2>1 DEF Min
  <2> QED
    BY <1>1, <2>2
<1>4. PICK r : r = SubSeq(s, 1, m)
  OBVIOUS
<1>5. r \in Seq(T) /\ Len(r) = m /\ \A k \in 1..m : r[k] = s[k] /\ k \in 1..Len(s)
  BY <1>1, <1>3, <1>4
<1>6. ToSet(r) = {r[k] : k \in 1..m} /\ ToSet(s) = {s[k] : k \in 1..Len(s)}
  BY <1>5, SequenceIsList
<1>7. ToSet(r) \subseteq ToSet(s)
  BY <1>5, <1>6
<1>8. Len(s) <= Cap => r = s
  BY <1>1, <1>3, <1>4
<1> QED
  BY <1>2, <1>4, <1>7, <1>8 DEF FirstOf

\* The symbols a module offers under a name.
Offered(ix, call, import) ==
    LET named == Candidates(ix, NameSought(import, call))
    IN  EntriesAt(named, {k \in DOMAIN named : InModule(named[k].file, call.source.file, import, call.kind)})

InFile == {"SameFileBare", "SameFileQualified"}

LEMMA WaysToResolve ==
    ASSUME NEW ix, NEW call
    PROVE  LET to == ResolveCall(ix, call)
               import == FirstImport(ix, call)
           IN  \/ to.targets = {}
               \/ /\ MatchedImports(ix, call) = {} /\ SameFile(ix, call) # {}
                  /\ to.targets = SameFile(ix, call) /\ to.path \in InFile
               \/ /\ to.path \in {"NameUnique", "NameAmbiguous", "ImportFallback"}
                  /\ to.targets = ToSet(FirstOf(Candidates(ix, call.name)))
               \/ /\ MatchedImports(ix, call) # {} /\ to.path = "ImportStrict"
                  /\ to.targets = ToSet(FirstOf(Offered(ix, call, import)))
<1>1. PICK to, import : to = ResolveCall(ix, call) /\ import = FirstImport(ix, call)
  OBVIOUS
<1>2. CASE MatchedImports(ix, call) = {}
  <2>1. to = WithoutImport(ix, call)
    BY <1>1, <1>2 DEF ResolveCall
  <2>2. CASE SameFile(ix, call) # {}
    <3>1. to.targets = SameFile(ix, call) /\ to.path \in InFile
      BY <2>1, <2>2 DEF WithoutImport, Resolved, InFile
    <3> QED
      BY <1>1, <1>2, <2>2, <3>1
  <2>3. CASE SameFile(ix, call) = {} /\ call.kind # "bare"
    BY <1>1, <2>1, <2>3 DEF WithoutImport, Unresolved, Resolved
  <2>4. CASE SameFile(ix, call) = {} /\ call.kind = "bare"
    <3>1. \E path \in {"NameUnique", "NameAmbiguous"} : to = ByName(ix, call, path)
      BY <2>1, <2>4 DEF WithoutImport
    <3> QED
      BY <1>1, <3>1 DEF ByName, Resolved
  <2> QED
    BY <2>2, <2>3, <2>4
<1>3. CASE MatchedImports(ix, call) # {}
  <2>1. to = ThroughImport(ix, call, import)
    BY <1>1, <1>3 DEF ResolveCall
  <2>2. PICK found : found = Offered(ix, call, import)
    OBVIOUS
  <2>3. CASE found # <<>>
    <3>1. to = Resolved("ImportStrict", ToSet(FirstOf(found)))
      BY <2>1, <2>2, <2>3 DEF ThroughImport, Offered
    <3> QED
      BY <1>1, <1>3, <2>2, <3>1 DEF Resolved
  <2>4. CASE found = <<>> /\ (call.kind = "bare" \/ IsExternal(ix, call.source.file, import, call.kind))
    <3>1. to = Unresolved
      BY <2>1, <2>2, <2>4 DEF ThroughImport, Offered
    <3> QED
      BY <1>1, <3>1 DEF Unresolved, Resolved
  <2>5. CASE found = <<>> /\ ~(call.kind = "bare" \/ IsExternal(ix, call.source.file, import, call.kind))
    <3>1. to = ByName(ix, call, "ImportFallback")
      BY <2>1, <2>2, <2>5 DEF ThroughImport, Offered
    <3> QED
      BY <1>1, <3>1 DEF ByName, Resolved
  <2> QED
    BY <2>3, <2>4, <2>5
<1> QED
  BY <1>2, <1>3

\* What the load functions give resolution to look at.
IsIndex(ix) == IsList(ix.names) /\ ToSet(ix.names) \subseteq AllSymbols

LEMMA OfferedArePart ==
    ASSUME NEW ix, IsIndex(ix), NEW call, NEW import
    PROVE  /\ Offered(ix, call, import) \in Seq(AllSymbols)
           /\ Len(Offered(ix, call, import)) <= Len(Candidates(ix, NameSought(import, call)))
           /\ \A s : s \in ToSet(Offered(ix, call, import)) <=>
                        /\ s \in ToSet(ix.names) /\ s.name = NameSought(import, call)
                        /\ InModule(s.file, call.source.file, import, call.kind)
<1>1. PICK named : named = Candidates(ix, NameSought(import, call))
  OBVIOUS
<1>2. named \in Seq(AllSymbols) /\ ToSet(named) = {s \in ToSet(ix.names) : s.name = NameSought(import, call)}
  BY <1>1, CandidatesAreNamed DEF IsIndex
<1>3. PICK n \in Nat : n = Len(named) /\ DOMAIN named = 1..n /\ ToSet(named) = {named[k] : k \in 1..n}
  BY <1>2, SequenceIsList
<1>4. PICK P : P = {k \in DOMAIN named : InModule(named[k].file, call.source.file, import, call.kind)}
  OBVIOUS
<1>5. PICK found : found = EntriesAt(named, P)
  OBVIOUS
<1>6. PICK g : found \in Seq(AllSymbols) /\ IsChoice(g, found, named, P, Len(named))
  BY <1>2, <1>5, EntriesAreChosen
<1>7. /\ \A k \in 1..Len(found) : g[k] \in 1..n /\ g[k] \in P /\ found[k] = named[g[k]]
      /\ \A i \in 1..n : i \in P => \E k \in 1..Len(found) : g[k] = i
      /\ Len(found) <= n
  BY <1>3, <1>6 DEF IsChoice
<1>8. ToSet(found) = {found[k] : k \in 1..Len(found)}
  BY <1>6, SequenceIsList
<1>9. \A k \in 1..n : k \in P <=> InModule(named[k].file, call.source.file, import, call.kind)
  BY <1>3, <1>4
<1>10. ASSUME NEW s \in ToSet(found)
       PROVE  s \in ToSet(named) /\ InModule(s.file, call.source.file, import, call.kind)
  <2>1. PICK k \in 1..Len(found) : s = found[k]
    BY <1>8
  <2> QED
    BY <1>3, <1>7, <1>9, <2>1
<1>11. ASSUME NEW s \in ToSet(named), InModule(s.file, call.source.file, import, call.kind)
       PROVE  s \in ToSet(found)
  <2>1. PICK i \in 1..n : s = named[i]
    BY <1>3
  <2>2. PICK k \in 1..Len(found) : g[k] = i
    BY <1>7, <1>9, <1>11, <2>1
  <2> QED
    BY <1>7, <1>8, <2>1, <2>2
<1>12. found = Offered(ix, call, import)
  BY <1>1, <1>4, <1>5 DEF Offered
<1> QED
  BY <1>1, <1>2, <1>3, <1>6, <1>7, <1>10, <1>11, <1>12

\* A call resolves to symbols there are, by one of the paths that have a confidence.
LEMMA TargetsAreSymbols ==
    ASSUME NEW ix, IsIndex(ix), NEW call, NEW s \in ResolveCall(ix, call).targets
    PROVE  s \in ToSet(ix.names) /\ ResolveCall(ix, call).path \in DOMAIN Confidence
<1>1. PICK to, import : to = ResolveCall(ix, call) /\ import = FirstImport(ix, call)
  OBVIOUS
<1>2. /\ Candidates(ix, call.name) \in Seq(AllSymbols)
      /\ ToSet(Candidates(ix, call.name)) = {c \in ToSet(ix.names) : c.name = call.name}
  BY CandidatesAreNamed DEF IsIndex
<1>3. /\ Offered(ix, call, import) \in Seq(AllSymbols)
      /\ ToSet(Offered(ix, call, import)) \subseteq ToSet(ix.names)
  BY OfferedArePart
<1>4. SameFile(ix, call) \subseteq ToSet(ix.names)
  BY <1>2 DEF SameFile
<1>5. ToSet(FirstOf(Candidates(ix, call.name))) \subseteq ToSet(ix.names)
  BY <1>2, FirstOfPart
<1>6. ToSet(FirstOf(Offered(ix, call, import))) \subseteq ToSet(ix.names)
  BY <1>3, FirstOfPart
<1>7. s \in ToSet(ix.names)
  BY <1>1, <1>4, <1>5, <1>6, WaysToResolve
<1>8. to.path \in {"SameFileBare", "SameFileQualified", "NameUnique", "NameAmbiguous", "ImportFallback", "ImportStrict"}
  BY <1>1, WaysToResolve DEF InFile
<1> QED
  BY <1>1, <1>7, <1>8 DEF Confidence

-----------------------------------------------------------------------------
(* The invariant.                                                          *)

\* What the database holds of every file there may be.
Whole == [f \in Files |-> IF f \in repo THEN content[f] ELSE None]

\* After every sync the tables hold of each file the rows of its version, in order, and the
\* edges are those derived from them.
TablesFollowContent ==
    /\ repo \in Repos /\ content \in Contents
    /\ Holds(tables, Whole)
    /\ edges = Derived(tables)

LEMMA NoCallsNoEdges ==
    Derived(NoRows) = {}
<1>1. PICK t : t = NoRows
  OBVIOUS
<1>2. t.pending = <<>>
  BY <1>1 DEF NoRows
<1>3. \A e : e \in Derived(t) <=> Hit(Indexes(t), t.pending, e)
  BY <1>2, DerivedIsHits, EmptyList
<1>4. \A e : ~Hit(Indexes(t), t.pending, e)
  BY <1>2 DEF Hit
<1> QED
  BY <1>1, <1>3, <1>4

LEMMA InitFollows ==
    ResolverInit => TablesFollowContent
<1> SUFFICES ASSUME ResolverInit PROVE TablesFollowContent
  OBVIOUS
<1>1. repo \in Repos /\ content = [f \in repo |-> None] /\ tables = NoRows /\ edges = {}
  BY DEF ResolverInit
<1>2. content \in Contents
  <2>1. PICK V : V = {None} \union UNION {Versions[f] : f \in repo}
    OBVIOUS
  <2>2. None \in V
    BY <2>1
  <2>3. content \in [repo -> V] /\ \A f \in repo : content[f] = None
    BY <1>1, <2>2
  <2>4. Contents = {now \in [repo -> V] : \A f \in repo : now[f] \in Versions[f] \union {None}}
    BY <2>1 DEF Contents
  <2> QED
    BY <2>3, <2>4
<1>3. \A f \in Files : Whole[f] = None
  BY <1>1 DEF Whole
<1>4. Holds(NoRows, Whole)
  BY <1>3, HoldsNoRows
<1> QED
  BY <1>1, <1>2, <1>4, NoCallsNoEdges DEF TablesFollowContent

LEMMA SameContentHolds ==
    ASSUME NEW t, NEW a, NEW b, Holds(t, a), \A f \in Files : a[f] = b[f]
    PROVE  Holds(t, b)
<1>1. /\ SymbolsPart(a) = SymbolsPart(b) /\ ImportsPart(a) = ImportsPart(b) /\ CallsPart(a) = CallsPart(b)
      /\ {f \in Files : a[f] # None} = {f \in Files : b[f] # None}
  BY DEF SymbolsPart, ImportsPart, CallsPart
<1> QED
  BY <1>1 DEF Holds

\* What a sync of the stale files makes of the tables.
LEMMA SyncHolds ==
    ASSUME NEW t, NEW c, Holds(t, c), NEW stale, stale \subseteq Files, NEW now,
           \A f \in stale : now[f] \in Versions[f] \union {None},
           NEW d, \A f \in Files : (f \in stale => d[f] = now[f]) /\ (f \notin stale => d[f] = c[f])
    PROVE  Holds(IndexAll(PurgeRows(t, stale), stale, now), d)
<1>1. PICK b : b = [f \in Files |-> IF f \in stale THEN None ELSE c[f]]
  OBVIOUS
<1>2. PICK u : u = PurgeRows(t, stale)
  OBVIOUS
<1>3. Holds(u, b)
  BY <1>1, <1>2, HoldsPurge
<1>4. \A f \in stale : b[f] = None
  BY <1>1
<1>5. PICK a : a = [f \in Files |-> IF f \in stale THEN now[f] ELSE b[f]]
  OBVIOUS
<1>6. Holds(IndexAll(u, stale, now), a)
  BY <1>3, <1>4, <1>5, HoldsIndexAll
<1>7. \A f \in Files : a[f] = d[f]
  BY <1>1, <1>5
<1> QED
  BY <1>2, <1>6, <1>7, SameContentHolds

LEMMA SyncFollows ==
    ASSUME TablesFollowContent, NEW now \in Contents, NEW full \in BOOLEAN, Sync(now, full)
    PROVE  TablesFollowContent'
<1>1. PICK stale : stale = IF full THEN repo ELSE {f \in repo : now[f] # content[f]}
  OBVIOUS
<1>2. /\ tables' = IndexAll(PurgeRows(tables, stale), stale, now)
      /\ edges' = Derived(tables')
      /\ content' = now /\ repo' = repo
  BY <1>1 DEF Sync, Rebuild
<1>3. repo \in Repos /\ Holds(tables, Whole) /\ repo \subseteq Files
  BY ResolverAssumption DEF TablesFollowContent
<1>4. stale \subseteq repo /\ \A f \in repo : f \notin stale => now[f] = content[f]
  BY <1>1
<1>5. \A f \in repo : now[f] \in Versions[f] \union {None}
  BY DEF Contents
<1>6. Contents' = Contents
  BY <1>2 DEF Contents
<1>7. \A f \in Files : /\ f \in stale => Whole'[f] = now[f]
                       /\ f \notin stale => Whole'[f] = Whole[f]
  BY <1>2, <1>3, <1>4 DEF Whole
<1>8. Holds(tables', Whole')
  BY <1>2, <1>3, <1>4, <1>5, <1>7, SyncHolds
<1> QED
  BY <1>2, <1>3, <1>6, <1>8 DEF TablesFollowContent

\* Reading changes nothing, and a commit is a sync.
LEMMA EveryStep ==
    ASSUME [ExplainNext]_explainVars
    PROVE  \/ UNCHANGED vars
           \/ \E now \in Contents, full \in BOOLEAN : Sync(now, full)
<1> USE DEF Load
<1>1. CASE LoadNames
  BY <1>1 DEF LoadNames
<1>2. CASE LoadImports
  BY <1>2 DEF LoadImports
<1>3. CASE LoadSources
  BY <1>3 DEF LoadSources
<1>4. CASE LoadFiles
  BY <1>4 DEF LoadFiles
<1>5. CASE ExplainCalls
  BY <1>5 DEF ExplainCalls
<1>6. CASE Commit
  BY <1>6 DEF Commit
<1>7. CASE UNCHANGED explainVars
  BY <1>7 DEF explainVars
<1> QED
  BY <1>1, <1>2, <1>3, <1>4, <1>5, <1>6, <1>7 DEF ExplainNext

LEMMA NothingFollows ==
    ASSUME TablesFollowContent, UNCHANGED vars
    PROVE  TablesFollowContent'
<1>1. repo' = repo /\ content' = content /\ tables' = tables /\ edges' = edges
  BY DEF vars
<1>2. Contents' = Contents
  BY <1>1 DEF Contents
<1>3. Whole' = Whole
  BY <1>1 DEF Whole
<1> QED
  BY <1>1, <1>2, <1>3 DEF TablesFollowContent

LEMMA StepFollows ==
    TablesFollowContent /\ [ExplainNext]_explainVars => TablesFollowContent'
<1> SUFFICES ASSUME TablesFollowContent, [ExplainNext]_explainVars
             PROVE  TablesFollowContent'
  OBVIOUS
<1>1. CASE UNCHANGED vars
  BY <1>1, NothingFollows
<1>2. CASE \E now \in Contents, full \in BOOLEAN : Sync(now, full)
  <2>1. PICK now \in Contents : \E full \in BOOLEAN : Sync(now, full)
    BY <1>2
  <2>2. PICK full \in BOOLEAN : Sync(now, full)
    BY <2>1
  <2> QED
    BY <2>2, SyncFollows
<1> QED
  BY <1>1, <1>2, EveryStep

\* The invariant holds, whatever is edited, synced and explained in between.
THEOREM TablesAlwaysFollow ==
    ExplainSpec => []TablesFollowContent
<1>1. ExplainInit => TablesFollowContent
  BY InitFollows DEF ExplainInit
<1> QED
  BY <1>1, StepFollows, PTL DEF ExplainSpec

-----------------------------------------------------------------------------
(* What follows for the tables and the edges.                              *)

LEMMA WholeTyped ==
    ASSUME TablesFollowContent
    PROVE  \A f \in Files : Whole[f] \in Versions[f] \union {None} /\ (f \in repo => Whole[f] = content[f])
<1>1. \A f \in repo : content[f] \in Versions[f] \union {None}
  BY DEF TablesFollowContent, Contents
<1> QED
  BY <1>1 DEF Whole

LEMMA TablesAreIndexes ==
    ASSUME TablesFollowContent
    PROVE  /\ IsIndex(Indexes(tables)) /\ Indexes(tables).names = tables.symbols
           /\ IsList(tables.pending) /\ ToSet(tables.pending) \subseteq AllCalls
           /\ ToSet(tables.symbols) \subseteq AllSymbols /\ IsList(tables.symbols)
<1>1. Holds(tables, Whole)
  BY DEF TablesFollowContent
<1>2. /\ IsList(tables.symbols) /\ ToSet(tables.symbols) \subseteq AllSymbols
      /\ IsList(tables.pending) /\ ToSet(tables.pending) \subseteq AllCalls
  BY <1>1, RowsAre
<1> QED
  BY <1>2 DEF Indexes, IsIndex

\* Who calls is a symbol itself.
LEMMA CallersAreSymbols ==
    ASSUME TablesFollowContent, NEW p \in ToSet(tables.pending)
    PROVE  p.source \in ToSet(tables.symbols)
<1>1. Holds(tables, Whole)
  BY DEF TablesFollowContent
<1>2. PICK f \in Files : p \in AllCalls /\ p.source.file = f /\ p \in ToSet(CallsPart(Whole)[f])
  BY <1>1, RowsAre
<1>3. Whole[f] # None
  <2>1. Whole[f] = None => CallsPart(Whole)[f] = <<>>
    BY DEF CallsPart
  <2> QED
    BY <1>2, <2>1, EmptyList
<1>4. PICK tree \in Versions[f] : tree = Whole[f]
  BY <1>3, WholeTyped
<1>5. CallsPart(Whole)[f] = Extracted[f][tree].calls /\ SymbolsPart(Whole)[f] = Extracted[f][tree].symbols
  BY <1>3, <1>4 DEF CallsPart, SymbolsPart
<1>6. PICK calls \in Seq(AllCalls) : calls = Extracted[f][tree].calls
  BY ExtractedTyped
<1>7. PICK k \in 1..Len(calls) : p = calls[k]
  <2>1. ToSet(calls) = {calls[k] : k \in 1..Len(calls)}
    BY SequenceIsList
  <2> QED
    BY <1>2, <1>5, <1>6, <2>1
<1>8. p.source \in ToSet(Extracted[f][tree].symbols)
  BY <1>6, <1>7, ExtractedTyped
<1>9. Extracted[f][tree].symbols \in Seq(AllSymbols)
  BY ExtractedTyped
<1>10. p.source \in AllSymbols
  BY <1>8, <1>9, SequenceIsList
<1> QED
  BY <1>1, <1>2, <1>5, <1>8, <1>10, RowsAre

LEMMA EdgesAreHits ==
    ASSUME TablesFollowContent
    PROVE  \A e : e \in edges <=> Hit(Indexes(tables), tables.pending, e)
<1>1. edges = Derived(tables)
  BY DEF TablesFollowContent
<1> QED
  BY <1>1, TablesAreIndexes, DerivedIsHits

\* Every edge stands for a call.
LEMMA EdgesHaveCalls ==
    ASSUME TablesFollowContent, NEW e \in edges
    PROVE  \E p \in ToSet(tables.pending) : e \in EdgesOf(Indexes(tables), p)
<1>1. PICK i \in 1..Len(tables.pending) : e \in EdgesOf(Indexes(tables), tables.pending[i])
  BY EdgesAreHits DEF Hit
<1>2. tables.pending[i] \in ToSet(tables.pending)
  BY TablesAreIndexes, ListIsSequence
<1> QED
  BY <1>1, <1>2

LEMMA FollowingIsTyped ==
    TablesFollowContent => TypeOK
<1> SUFFICES ASSUME TablesFollowContent PROVE TypeOK
  OBVIOUS
<1>1. repo \in Repos /\ content \in Contents /\ Holds(tables, Whole)
  BY DEF TablesFollowContent
<1>2. ASSUME NEW f \in repo PROVE content[f] # None <=> f \in tables.files
  <2>1. f \in Files
    BY <1>1, ResolverAssumption
  <2> QED
    BY <1>1, <2>1, WholeTyped DEF Holds
<1>3. ASSUME NEW e \in edges
      PROVE  /\ e.source # e.target /\ {e.source, e.target} \subseteq ToSet(tables.symbols)
             /\ e.confidence \in {Confidence[path] : path \in DOMAIN Confidence}
  <2>1. PICK p \in ToSet(tables.pending) : e \in EdgesOf(Indexes(tables), p)
    BY EdgesHaveCalls
  <2>2. PICK to : to = ResolveCall(Indexes(tables), p)
    OBVIOUS
  <2>3. e.source = p.source /\ e.target \in to.targets /\ e.target # e.source /\ e.confidence = Confidence[to.path]
    BY <2>1, <2>2, EdgeOfCall
  <2>4. e.target \in ToSet(tables.symbols) /\ to.path \in DOMAIN Confidence
    BY <2>2, <2>3, TablesAreIndexes, TargetsAreSymbols
  <2>5. e.source \in ToSet(tables.symbols)
    BY <2>3, CallersAreSymbols
  <2> QED
    BY <2>3, <2>4, <2>5
<1> QED
  BY <1>1, <1>2, <1>3 DEF TypeOK

\* The edges lead from one symbol that is in the tables to another, with a confidence that
\* some path of resolution has; and the files in the tables are those with a content
\* (TypeOK of Resolver).
THEOREM ResolverTyped ==
    ExplainSpec => []TypeOK
  BY TablesAlwaysFollow, FollowingIsTyped, PTL

LEMMA FollowingForgets ==
    TablesFollowContent => EdgesIndependentOfHistory
<1> SUFFICES ASSUME TablesFollowContent PROVE EdgesIndependentOfHistory
  OBVIOUS
<1>1. repo \in Repos /\ content \in Contents /\ Holds(tables, Whole) /\ edges = Derived(tables)
  BY DEF TablesFollowContent
<1>2. repo \subseteq Files
  BY <1>1, ResolverAssumption
<1>3. PICK fresh : fresh = IndexAll(NoRows, repo, content)
  OBVIOUS
<1>4. PICK c : c = [f \in Files |-> None]
  OBVIOUS
<1>5. Holds(NoRows, c)
  BY <1>4, HoldsNoRows
<1>6. PICK t : t = NoRows
  OBVIOUS
<1>7. \A f \in repo : c[f] = None /\ content[f] \in Versions[f] \union {None}
  BY <1>2, <1>4, WholeTyped
<1>8. PICK d : d = [f \in Files |-> IF f \in repo THEN content[f] ELSE c[f]]
  OBVIOUS
<1>9. Holds(fresh, d)
  BY <1>2, <1>3, <1>5, <1>6, <1>7, <1>8, HoldsIndexAll
<1>10. \A f \in Files : d[f] = Whole[f]
  BY <1>4, <1>8 DEF Whole
<1>11. Holds(fresh, Whole)
  BY <1>9, <1>10, SameContentHolds
<1>12. PICK whole : whole = Whole
  OBVIOUS
<1>13. ASSUME NEW e PROVE e \in Derived(tables) <=> e \in Derived(fresh)
  BY <1>1, <1>11, <1>12, DerivedAgrees
<1> QED
  BY <1>1, <1>3, <1>13 DEF EdgesIndependentOfHistory

\* After any history of edits and syncs the edges are those that indexing the same versions
\* into a new database yields, though the rows stand in another order
\* (EdgesIndependentOfHistory of Resolver).
THEOREM EdgesForgetHistory ==
    ExplainSpec => []EdgesIndependentOfHistory
  BY TablesAlwaysFollow, FollowingForgets, PTL

\* The rows of a file, at their places in the table.
LEMMA PlacesOfFile ==
    ASSUME NEW t, NEW c, Holds(t, c), NEW f \in Files
    PROVE  \E g : /\ \A k \in 1..Len(SymbolsPart(c)[f]) :
                        g[k] \in 1..Len(t.symbols) /\ SymbolsPart(c)[f][k] = t.symbols[g[k]]
                  /\ \A i \in 1..Len(t.symbols) : t.symbols[i].file = f =>
                        \E k \in 1..Len(SymbolsPart(c)[f]) : g[k] = i
<1>1. /\ t.symbols \in Seq(AllSymbols)
      /\ EntriesIn(t.symbols, {r \in AllSymbols : FileOf(AllSymbols)[r] = f}) = SymbolsPart(c)[f]
  BY DEF Holds, Table
<1>2. PICK rows \in Seq(AllSymbols) : rows = t.symbols
  BY <1>1
<1>3. PICK S : S = {r \in AllSymbols : FileOf(AllSymbols)[r] = f}
  OBVIOUS
<1>4. PICK part : part = SymbolsPart(c)[f]
  OBVIOUS
<1>5. part = EntriesIn(rows, S)
  BY <1>1, <1>2, <1>3, <1>4
<1>6. PICK g : IsChoice(g, part, rows, {i \in 1..Len(rows) : rows[i] \in S}, Len(rows))
  BY <1>5, EntriesInType
<1>7. \A i \in 1..Len(rows) : rows[i].file = f => i \in {j \in 1..Len(rows) : rows[j] \in S}
  BY <1>3 DEF FileOf
<1>8. /\ \A k \in 1..Len(part) : g[k] \in 1..Len(rows) /\ part[k] = rows[g[k]]
      /\ \A i \in 1..Len(rows) : rows[i].file = f => \E k \in 1..Len(part) : g[k] = i
  BY <1>6, <1>7 DEF IsChoice
<1> QED
  BY <1>2, <1>4, <1>8

LEMMA FollowingHasKeys ==
    TablesFollowContent => IdsAreKeys
<1> SUFFICES ASSUME TablesFollowContent,
                    NEW i \in DOMAIN tables.symbols, NEW j \in DOMAIN tables.symbols,
                    Id(tables.symbols[i]) = Id(tables.symbols[j])
             PROVE  i = j
  BY DEF IdsAreKeys
<1>1. Holds(tables, Whole)
  BY DEF TablesFollowContent
<1>2. PICK rows \in Seq(AllSymbols) : rows = tables.symbols
  BY <1>1 DEF Holds, Table
<1>3. i \in 1..Len(rows) /\ j \in 1..Len(rows)
  BY <1>2
<1>4. rows[i].file = rows[j].file /\ IdInFile(rows[i]) = IdInFile(rows[j])
  BY <1>2 DEF Id, IdInFile
<1>5. PICK f \in Files : f = rows[i].file
  BY <1>3, RowsHaveFiles
<1>6. PICK part : part = SymbolsPart(Whole)[f]
  OBVIOUS
<1>7. PICK g : /\ \A k \in 1..Len(part) : g[k] \in 1..Len(rows) /\ part[k] = rows[g[k]]
               /\ \A m \in 1..Len(rows) : rows[m].file = f => \E k \in 1..Len(part) : g[k] = m
  BY <1>1, <1>2, <1>6, PlacesOfFile
<1>8. PICK k \in 1..Len(part) : g[k] = i
  BY <1>3, <1>5, <1>7
<1>9. PICK l \in 1..Len(part) : g[l] = j
  BY <1>3, <1>4, <1>5, <1>7
<1>10. IdInFile(part[k]) = IdInFile(part[l])
  BY <1>4, <1>7, <1>8, <1>9
<1>11. Whole[f] # None
  <2>1. Whole[f] = None => part = <<>>
    BY <1>6 DEF SymbolsPart
  <2> QED
    BY <2>1
<1>12. PICK tree \in Versions[f] : tree = Whole[f]
  BY <1>11, WholeTyped
<1>13. part = Extract(f, LanguageOf[f], tree).symbols
  BY <1>6, <1>11, <1>12 DEF SymbolsPart, Extracted
<1>14. tree \in Seq(ToSet(tree))
  BY ResolverAssumption DEF IsTree, IsList
<1>15. part \in Seq(AllSymbols)
  <2>1. part = Extracted[f][tree].symbols
    BY <1>6, <1>11, <1>12 DEF SymbolsPart
  <2> QED
    BY <2>1, ExtractedTyped
<1>16. \A m, n \in DOMAIN part : IdInFile(part[m]) = IdInFile(part[n]) => m = n
  BY <1>13, <1>14, IdsOfAFileDiffer
<1>17. k = l
  BY <1>10, <1>15, <1>16
<1> QED
  BY <1>8, <1>9, <1>17

\* No two rows of the symbols have one id: no sync fails for the primary key
\* (IdsAreKeys of Resolver).
THEOREM IdsAlwaysKeys ==
    ExplainSpec => []IdsAreKeys
  BY TablesAlwaysFollow, FollowingHasKeys, PTL

\* What a call resolves to gets an edge from its site, if not from this very call.
LEMMA TargetsAreReached ==
    ASSUME NEW t, IsList(t.pending), NEW p \in ToSet(t.pending),
           NEW s \in ResolveCall(Indexes(t), p).targets, s # p.source
    PROVE  \E e \in Derived(t) : SameSite(e, p) /\ e.target = s
<1>1. PICK ix : ix = Indexes(t)
  OBVIOUS
<1>2. PICK e \in EdgesOf(ix, p) : e.target = s
  BY <1>1, EdgeToTarget
<1>3. PICK calls : calls = t.pending /\ IsList(calls)
  OBVIOUS
<1>4. PICK i \in 1..Len(calls) : p = calls[i]
  BY <1>3, ListIsSequence
<1>5. PICK d : Hit(ix, calls, d) /\ SameSite(d, e) /\ d.target = e.target
  <2>1. e \in EdgesOf(ix, calls[i])
    BY <1>4
  <2>2. IsList(calls)
    BY <1>3
  <2> QED
    BY ONLY <2>1, <2>2, TargetIsHit, Zenon
<1>6. SameSite(d, p)
  BY <1>2, <1>5, EdgeOfCall DEF SameSite
<1>7. d \in Derived(t)
  BY <1>1, <1>3, <1>5, DerivedIsHits
<1> QED
  BY <1>2, <1>5, <1>6, <1>7

LEMMA CallsReachTargets ==
    ASSUME TablesFollowContent, NEW p \in ToSet(tables.pending),
           NEW s \in ResolveCall(Indexes(tables), p).targets, s # p.source
    PROVE  \E e \in edges : SameSite(e, p) /\ e.target = s
<1>1. PICK t : t = tables
  OBVIOUS
<1>2. IsList(t.pending) /\ edges = Derived(t)
  BY <1>1, TablesAreIndexes DEF TablesFollowContent
<1> QED
  BY <1>1, <1>2, TargetsAreReached

LEMMA FollowingArrives ==
    TablesFollowContent => SelfCallsArrive
<1> SUFFICES ASSUME TablesFollowContent,
                    NEW p \in ToSet(tables.pending), NEW s \in ToSet(tables.symbols),
                    p.kind = "member", OnItself(p.qualifier),
                    s.file = p.source.file, s.name = p.name, s # p.source,
                    s.container # None, s.container = p.source.container,
                    MatchedImports(Indexes(tables), p) = {}
             PROVE  \E e \in edges : SameSite(e, p) /\ e.target = s
  BY DEF SelfCallsArrive
<1>1. PICK ix : ix = Indexes(tables)
  OBVIOUS
<1>2. IsIndex(ix) /\ ix.names = tables.symbols /\ ix.sources = ToSet(tables.symbols)
  BY <1>1, TablesAreIndexes DEF Indexes
<1>3. p.source \in ix.sources
  BY <1>2, CallersAreSymbols
<1>4. s \in ToSet(Candidates(ix, p.name))
  BY <1>2, CandidatesAreNamed DEF IsIndex
<1>5. FitsInFile(ix, s, p)
  BY <1>3 DEF FitsInFile, OnItself
<1>6. s \in SameFile(ix, p)
  BY <1>4, <1>5 DEF SameFile
<1>7. ResolveCall(ix, p) = WithoutImport(ix, p)
  BY <1>1 DEF ResolveCall
<1>8. s \in ResolveCall(ix, p).targets
  BY <1>6, <1>7 DEF WithoutImport, Resolved
<1> QED
  BY <1>1, <1>8, CallsReachTargets

\* A method that calls another of its container on itself reaches it, however many symbols
\* of any file bear the name and whatever the cap (SelfCallsArrive of Resolver).
THEOREM SelfCallsAlwaysArrive ==
    ExplainSpec => []SelfCallsArrive
  BY TablesAlwaysFollow, FollowingArrives, PTL

-----------------------------------------------------------------------------
(* Explanations.                                                           *)

\* As long as nothing is committed, what is loaded is what is in the tables.
ReaderFollows ==
    /\ DOMAIN reader = {"pc", "commits", "names", "imports", "sources", "files"}
    /\ reader.commits \in Nat /\ reader.pc \in {"idle", "imports", "sources", "files", "calls"}
    /\ reader.commits = 0 =>
          /\ reader.pc \in {"imports", "sources", "files", "calls"} => reader.names = tables.symbols
          /\ reader.pc \in {"sources", "files", "calls"} => reader.imports = tables.imports
          /\ reader.pc \in {"files", "calls"} => reader.sources = ToSet(tables.symbols)
          /\ reader.pc = "calls" => reader.files = tables.files

LEMMA ReaderStep ==
    ReaderFollows /\ [ExplainNext]_explainVars => ReaderFollows'
<1> SUFFICES ASSUME ReaderFollows, [ExplainNext]_explainVars PROVE ReaderFollows'
  OBVIOUS
<1> USE DEF ReaderFollows, Load, vars
<1>1. CASE LoadNames
  BY <1>1 DEF LoadNames
<1>2. CASE LoadImports
  BY <1>2 DEF LoadImports
<1>3. CASE LoadSources
  BY <1>3 DEF LoadSources
<1>4. CASE LoadFiles
  BY <1>4 DEF LoadFiles
<1>5. CASE ExplainCalls
  BY <1>5 DEF ExplainCalls, Idle
<1>6. CASE Commit
  <2>1. reader' = IF reader.pc = "idle" THEN reader ELSE [reader EXCEPT !.commits = @ + 1]
    BY <1>6 DEF Commit
  <2>2. CASE reader.pc = "idle"
    BY <2>1, <2>2
  <2>3. CASE reader.pc # "idle"
    BY <2>1, <2>3
  <2> QED
    BY <2>2, <2>3
<1>7. CASE UNCHANGED explainVars
  BY <1>7 DEF explainVars
<1> QED
  BY <1>1, <1>2, <1>3, <1>4, <1>5, <1>6, <1>7 DEF ExplainNext

LEMMA ReaderAlwaysFollows ==
    ExplainSpec => []ReaderFollows
<1>1. ExplainInit => ReaderFollows
  BY DEF ExplainInit, Idle, ReaderFollows
<1> QED
  BY <1>1, ReaderStep, PTL DEF ExplainSpec

\* A call that nothing was committed before is resolved as the last sync resolved it.
LEMMA ReplaysTheSync ==
    ASSUME TablesFollowContent, ReaderFollows, reader.pc = "calls", reader.commits = 0, NEW p
    PROVE  ResolveCall(reader, p) = ResolveCall(Indexes(tables), p)
<1>1. /\ reader.names = tables.symbols /\ reader.imports = tables.imports
      /\ reader.sources = ToSet(tables.symbols) /\ reader.files = tables.files
  BY DEF ReaderFollows
<1>2. PICK ix : ix = Indexes(tables)
  OBVIOUS
<1>3. /\ ix.names = tables.symbols /\ ix.imports = tables.imports
      /\ ix.sources = ToSet(tables.symbols) /\ ix.files = tables.files
  BY <1>2 DEF Indexes
<1>4. AgreeOn(reader, ix, p.source.file)
  BY <1>1, <1>3 DEF AgreeOn, ImportsOf
<1> QED
  BY <1>2, <1>4, ResolveCallAgrees

LEMMA FollowingExplains ==
    TablesFollowContent /\ ReaderFollows => ExplanationsHold
<1> SUFFICES ASSUME TablesFollowContent, ReaderFollows, reader.pc = "calls",
                    NEW source, NEW target, NEW row \in Explanation(source, target)
             PROVE  /\ row.targets \subseteq ToSet(tables.symbols)
                    /\ reader.commits = 0 => AgreesWithEdges(row)
  BY DEF ExplanationsHold
<1>1. PICK p \in ToSet(tables.pending) : row = RowOf(p)
  BY DEF Explanation
<1>2. PICK to : to = ResolveCall(reader, p)
  OBVIOUS
<1>3. row.call = p /\ row.resolution = to.path /\ row.targets = to.targets \intersect ToSet(tables.symbols)
  BY <1>1, <1>2 DEF RowOf
<1>4. ASSUME reader.commits = 0
      PROVE  AgreesWithEdges(row)
  <2>1. PICK ix : ix = Indexes(tables)
    OBVIOUS
  <2>2. to = ResolveCall(ix, p)
    BY <1>2, <1>4, <2>1, ReplaysTheSync
  <2>3. ASSUME NEW s \in row.targets, s # p.source
        PROVE  \E e \in edges : SameSite(e, p) /\ e.target = s
    BY <1>3, <2>1, <2>2, <2>3, CallsReachTargets
  <2>4. ASSUME Alone(p), NEW e \in edges, SameSite(e, p)
        PROVE  e.target \in row.targets /\ e.confidence = Confidence[row.resolution]
    <3>1. PICK q \in ToSet(tables.pending) : e \in EdgesOf(ix, q)
      BY <2>1, EdgesHaveCalls
    <3>2. SameSite(q, p)
      BY <2>4, <3>1, EdgeOfCall DEF SameSite
    <3>3. q = p
      BY <2>4, <3>2 DEF Alone
    <3>4. e.target \in to.targets /\ e.confidence = Confidence[to.path]
      BY <2>2, <3>1, <3>3, EdgeOfCall
    <3>5. e.target \in ToSet(tables.symbols)
      BY <2>1, <2>2, <3>4, TablesAreIndexes, TargetsAreSymbols
    <3> QED
      BY <1>3, <3>4, <3>5
  <2>5. PICK drawn : drawn = {e \in edges : SameSite(e, p)}
    OBVIOUS
  <2>6. row.targets \ {p.source} \subseteq {e.target : e \in drawn}
    BY <2>3, <2>5
  <2>7. Alone(p) => \A e \in drawn : e.target \in row.targets /\ e.confidence = Confidence[row.resolution]
    BY <2>4, <2>5
  <2> QED
    BY <1>3, <2>5, <2>6, <2>7 DEF AgreesWithEdges
<1> QED
  BY <1>3, <1>4

\* An explanation that no sync overtook accounts for the edges of its call and for all of
\* them, and one that was overtaken names no symbol that is gone (ExplanationsHold of
\* Explain).
THEOREM ExplanationsAlwaysHold ==
    ExplainSpec => []ExplanationsHold
  BY TablesAlwaysFollow, ReaderAlwaysFollows, FollowingExplains, PTL

-----------------------------------------------------------------------------
(* What a step may never do.                                               *)

LEMMA PrefixEntries ==
    ASSUME NEW T, NEW s \in Seq(T), NEW U, NEW t \in Seq(U)
    PROVE  /\ IsPrefix(s, t) => Len(s) <= Len(t) /\ \A k \in 1..Len(s) : s[k] = t[k]
           /\ Len(s) <= Len(t) /\ (\A k \in 1..Len(s) : s[k] = t[k]) => IsPrefix(s, t)
<1>1. PICK a : a = SubSeq(s, 1, Len(s))
  OBVIOUS
<1>2. PICK m \in Nat : m = Len(s)
  OBVIOUS
<1>3. a = [k \in 1..m |-> s[k]]
  BY <1>1, <1>2
<1>4. ASSUME m <= Len(t) PROVE SubSeq(t, 1, m) = [k \in 1..m |-> t[k]]
  BY <1>2, <1>4
<1>5. IsPrefix(s, t) <=> m <= Len(t) /\ a = SubSeq(t, 1, m)
  BY <1>1, <1>2 DEF IsPrefix
<1>6. CASE m <= Len(t)
  <2>1. SubSeq(t, 1, m) = [k \in 1..m |-> t[k]]
    BY <1>4, <1>6
  <2>2. a = SubSeq(t, 1, m) => \A k \in 1..m : s[k] = t[k]
    BY <1>3, <2>1
  <2>3. (\A k \in 1..m : s[k] = t[k]) => a = SubSeq(t, 1, m)
    BY <1>3, <2>1
  <2> QED
    BY <1>2, <1>5, <1>6, <2>2, <2>3
<1> QED
  BY <1>2, <1>5, <1>6

LEMMA SkeletonEntries ==
    ASSUME NEW T, NEW tree \in Seq(T)
    PROVE  /\ IsList(Skeleton(tree)) /\ Len(Skeleton(tree)) = Len(tree)
           /\ \A i \in 1..Len(tree) : Skeleton(tree)[i] = [tree[i] EXCEPT !.line = 0]
<1>1. Skeleton(tree) = [i \in 1..Len(tree) |-> [tree[i] EXCEPT !.line = 0]]
  BY DEF Skeleton
<1>2. PICK r : r = Skeleton(tree)
  OBVIOUS
<1>3. r = [i \in 1..Len(tree) |-> r[i]] /\ \A i \in 1..Len(tree) : r[i] = [tree[i] EXCEPT !.line = 0]
  BY <1>1, <1>2
<1>4. IsList(r) /\ Len(r) = Len(tree)
  BY <1>3, FunctionIsList
<1> QED
  BY <1>2, <1>3, <1>4

LEMMA ChildrenOfSkeleton ==
    ASSUME NEW m, NEW n, [m EXCEPT !.line = 0] = [n EXCEPT !.line = 0],
           NEW child, child \in DOMAIN m, child # "line"
    PROVE  m[child] = n[child]
<1>1. PICK a : a = [x \in DOMAIN m |-> IF x = "line" THEN 0 ELSE m[x]]
  OBVIOUS
<1>2. PICK b : b = [x \in DOMAIN n |-> IF x = "line" THEN 0 ELSE n[x]]
  OBVIOUS
<1>3. a = [m EXCEPT !.line = 0] /\ b = [n EXCEPT !.line = 0]
  BY <1>1, <1>2
<1>4. a = b
  BY <1>3
<1>5. DOMAIN m = DOMAIN n
  BY <1>1, <1>2, <1>4
<1> QED
  BY <1>1, <1>2, <1>4, <1>5

\* Nodes that differ in their lines at most make the same symbols.
LEMMA AlikeButLines ==
    ASSUME NEW lang \in DOMAIN SymbolKinds, NEW m, NEW n, HasChildren(lang, m),
           [m EXCEPT !.line = 0] = [n EXCEPT !.line = 0]
    PROVE  Alike(lang, m, n)
<1>1. m.kind = n.kind /\ m.depth = n.depth
  BY ChildrenOfSkeleton DEF HasChildren
<1>2. m.kind \in DOMAIN SymbolKinds[lang] => m.name = n.name
  BY ChildrenOfSkeleton DEF HasChildren
<1>3. ASSUME NEW child, child # "line", m.kind \in DOMAIN OtherChildren[lang], child \in OtherChildren[lang][m.kind]
      PROVE  m[child] = n[child]
  BY <1>3, ChildrenOfSkeleton DEF HasChildren
<1>4. ASSUME m.kind \in DOMAIN SymbolKinds[lang], m.kind = "variable_declarator" PROVE m.value = n.value
  <2>1. lang = "typescript"
    BY <1>4 DEF SymbolKinds
  <2> QED
    BY <1>3, <1>4, <2>1 DEF OtherChildren
<1>5. lang = "rust" /\ m.kind = "impl_item" => m.type = n.type
  BY <1>3 DEF OtherChildren
<1>6. lang = "go" /\ m.kind = "method_declaration" => m.receiver = n.receiver
  BY <1>3 DEF OtherChildren
<1> QED
  BY <1>1, <1>2, <1>4, <1>5, <1>6 DEF Alike

LEMMA SymbolsBegin ==
    ASSUME NEW f \in Files, NEW t \in Versions[f], NEW u \in Versions[f], IsPrefix(Skeleton(t), Skeleton(u))
    PROVE  IsPrefix(Extracted[f][t].symbols, Extracted[f][u].symbols)
<1>1. PICK lang \in DOMAIN SymbolKinds : lang = LanguageOf[f]
  BY ResolverAssumption
<1>2. IsTree(lang, t) /\ IsTree(lang, u)
  BY <1>1, ResolverAssumption
<1>3. PICK N : N = ToSet(t) \union ToSet(u)
  OBVIOUS
<1>4. t \in Seq(N) /\ u \in Seq(N)
  <2>1. t \in Seq(ToSet(t)) /\ u \in Seq(ToSet(u))
    BY <1>2 DEF IsTree, IsList
  <2> QED
    BY <1>3, <2>1
<1>5. Len(t) <= Len(u) /\ \A i \in 1..Len(t) : [t[i] EXCEPT !.line = 0] = [u[i] EXCEPT !.line = 0]
  <2>1. PICK a : a = Skeleton(t) /\ a \in Seq(ToSet(a))
    BY <1>4, SkeletonEntries DEF IsList
  <2>2. PICK b : b = Skeleton(u) /\ b \in Seq(ToSet(b))
    BY <1>4, SkeletonEntries DEF IsList
  <2>3. Len(a) <= Len(b) /\ \A k \in 1..Len(a) : a[k] = b[k]
    BY <2>1, <2>2, PrefixEntries
  <2>4. /\ Len(a) = Len(t) /\ \A i \in 1..Len(t) : a[i] = [t[i] EXCEPT !.line = 0]
        /\ Len(b) = Len(u) /\ \A i \in 1..Len(u) : b[i] = [u[i] EXCEPT !.line = 0]
    BY <1>4, <2>1, <2>2, SkeletonEntries
  <2>5. \A i \in 1..Len(t) : i \in 1..Len(u)
    BY <1>4, <2>3, <2>4
  <2> QED
    BY <2>3, <2>4, <2>5
<1>6. \A i \in 1..Len(t) : HasChildren(lang, t[i])
  BY <1>2, <1>4 DEF IsTree
<1>7. Begins(lang, t, u)
  BY <1>5, <1>6, AlikeButLines DEF Begins
<1>8. PICK old, new : old = Extracted[f][t].symbols /\ new = Extracted[f][u].symbols
  OBVIOUS
<1>9. old = Extract(f, lang, t).symbols /\ new = Extract(f, lang, u).symbols
  BY <1>1, <1>8 DEF Extracted
<1>10. Len(old) <= Len(new) /\ \A j \in 1..Len(old) : new[j] = old[j]
  BY <1>4, <1>7, <1>9, EarlierIdsStay
<1>11. old \in Seq(AllSymbols) /\ new \in Seq(AllSymbols)
  BY <1>8, ExtractedTyped
<1> QED
  BY <1>8, <1>10, <1>11, PrefixEntries

\* Between two states that satisfy the invariant.
IdsStay ==
    \A f \in repo :
        (None \notin {content[f], content'[f]} /\ IsPrefix(Skeleton(content[f]), Skeleton(content'[f]))) =>
            IsPrefix(SymbolsOf(f, tables), SymbolsOf(f, tables'))

LEMMA StepKeepsIds ==
    ASSUME TablesFollowContent, TablesFollowContent', repo' = repo
    PROVE  IdsStay
<1> SUFFICES ASSUME NEW f \in repo, None \notin {content[f], content'[f]},
                    IsPrefix(Skeleton(content[f]), Skeleton(content'[f]))
             PROVE  IsPrefix(SymbolsOf(f, tables), SymbolsOf(f, tables'))
  BY DEF IdsStay
<1>1. f \in Files
  BY ResolverAssumption DEF TablesFollowContent
<1>2. PICK c, d, u : c = Whole /\ d = Whole' /\ u = tables'
  OBVIOUS
<1>3. Holds(tables, c) /\ Holds(u, d)
  BY <1>2 DEF TablesFollowContent
<1>4. content[f] \in Versions[f] /\ content'[f] \in Versions[f]
  BY DEF TablesFollowContent, Contents
<1>5. c[f] = content[f] /\ d[f] = content'[f]
  BY <1>1, <1>2 DEF Whole
<1>6. SymbolsOf(f, tables) = SymbolsPart(c)[f] /\ SymbolsOf(f, u) = SymbolsPart(d)[f]
  BY <1>1, <1>3, FileRows
<1>7. SymbolsPart(c)[f] = Extracted[f][content[f]].symbols /\ SymbolsPart(d)[f] = Extracted[f][content'[f]].symbols
  BY <1>1, <1>5 DEF SymbolsPart
<1> QED
  BY <1>1, <1>2, <1>4, <1>6, <1>7, SymbolsBegin

LEMMA StepKeepsRepo ==
    ASSUME [ExplainNext]_explainVars
    PROVE  repo' = repo
  BY EveryStep DEF vars, Sync

\* What is added below a file's symbols, in whatever language, leaves them their ids and
\* their order (IdsSurvive of Resolver).
THEOREM IdsAlwaysSurvive ==
    ExplainSpec => IdsSurvive
<1>1. TablesFollowContent /\ TablesFollowContent' /\ [ExplainNext]_explainVars => [IdsStay]_vars
  BY StepKeepsIds, StepKeepsRepo
<1>2. ExplainSpec => [][IdsStay]_vars
  BY <1>1, TablesAlwaysFollow, PTL DEF ExplainSpec
<1> QED
  BY <1>2, PTL DEF IdsSurvive, IdsStay

\* Rows of a file whose version is the same in both tables are in both.
LEMMA SameVersionSameRows ==
    ASSUME NEW t, NEW c, Holds(t, c), NEW u, NEW d, Holds(u, d)
    PROVE  /\ \A s \in ToSet(t.symbols) : c[s.file] = d[s.file] => s \in ToSet(u.symbols)
           /\ \A p \in ToSet(t.pending) : c[p.source.file] = d[p.source.file] =>
                 /\ p \in ToSet(u.pending)
                 /\ ImportsOf(Indexes(u), p.source.file) = ImportsOf(Indexes(t), p.source.file)
<1>1. ASSUME NEW f \in Files, c[f] = d[f]
      PROVE  /\ SymbolsPart(c)[f] = SymbolsPart(d)[f] /\ ImportsPart(c)[f] = ImportsPart(d)[f]
             /\ CallsPart(c)[f] = CallsPart(d)[f]
  BY <1>1 DEF SymbolsPart, ImportsPart, CallsPart
<1>2. ASSUME NEW s \in ToSet(t.symbols), c[s.file] = d[s.file] PROVE s \in ToSet(u.symbols)
  <2>1. PICK f \in Files : s \in AllSymbols /\ s.file = f /\ s \in ToSet(SymbolsPart(c)[f])
    BY RowsAre
  <2>2. s \in ToSet(SymbolsPart(d)[f])
    BY <1>1, <1>2, <2>1
  <2> QED
    BY <2>1, <2>2, RowsAre
<1>3. ASSUME NEW p \in ToSet(t.pending), c[p.source.file] = d[p.source.file]
      PROVE  /\ p \in ToSet(u.pending)
             /\ ImportsOf(Indexes(u), p.source.file) = ImportsOf(Indexes(t), p.source.file)
  <2>1. PICK f \in Files : p \in AllCalls /\ p.source.file = f /\ p \in ToSet(CallsPart(c)[f])
    BY RowsAre
  <2>2. p \in ToSet(CallsPart(d)[f]) /\ ImportsPart(c)[f] = ImportsPart(d)[f]
    BY <1>1, <1>3, <2>1
  <2>3. ImportsOf(Indexes(t), f) = ImportsPart(c)[f] /\ ImportsOf(Indexes(u), f) = ImportsPart(d)[f]
    BY FileRows
  <2>4. p \in ToSet(u.pending)
    BY <2>1, <2>2, RowsAre
  <2> QED
    BY <2>1, <2>2, <2>3, <2>4
<1> QED
  BY <1>2, <1>3

Sure == {"SameFileBare", "SameFileQualified", "ImportStrict"}

\* A target found in the file or offered by the import is found again, in the same file or
\* through the same import, if both rows are still there and the lookup is not cut.
LEMMA SureTargetAgain ==
    ASSUME NEW a, NEW b, IsIndex(a), IsIndex(b), NEW p, NEW s \in ResolveCall(a, p).targets,
           ResolveCall(a, p).path \in Sure, s \in ToSet(b.names), p.source \in b.sources,
           ImportsOf(a, p.source.file) = ImportsOf(b, p.source.file),
           ResolveCall(a, p).path = "ImportStrict" => Cardinality({c \in ToSet(b.names) : c.name = s.name}) <= Cap
    PROVE  s \in ResolveCall(b, p).targets
<1>1. PICK to, import : to = ResolveCall(a, p) /\ import = FirstImport(a, p)
  OBVIOUS
<1>2. MatchedImports(b, p) = MatchedImports(a, p) /\ FirstImport(b, p) = import
  BY <1>1 DEF MatchedImports, FirstImport
<1>3. CASE MatchedImports(a, p) = {} /\ s \in SameFile(a, p)
  <2>1. s.file = p.source.file /\ FitsInFile(a, s, p) /\ s.name = p.name
    <3>1. s \in ToSet(Candidates(a, p.name)) /\ s.file = p.source.file /\ FitsInFile(a, s, p)
      BY <1>3 DEF SameFile
    <3>2. ToSet(Candidates(a, p.name)) = {c \in ToSet(a.names) : c.name = p.name}
      BY CandidatesAreNamed DEF IsIndex
    <3> QED
      BY <3>1, <3>2
  <2>2. FitsInFile(b, s, p)
    BY <2>1 DEF FitsInFile
  <2>3. s \in ToSet(Candidates(b, p.name))
    <3>1. ToSet(Candidates(b, p.name)) = {c \in ToSet(b.names) : c.name = p.name}
      BY CandidatesAreNamed DEF IsIndex
    <3> QED
      BY <2>1, <3>1
  <2>4. s \in SameFile(b, p)
    BY <2>1, <2>2, <2>3 DEF SameFile
  <2>5. ResolveCall(b, p) = WithoutImport(b, p)
    BY <1>2, <1>3 DEF ResolveCall
  <2> QED
    BY <2>4, <2>5 DEF WithoutImport, Resolved
<1>4. CASE /\ MatchedImports(a, p) # {} /\ to.path = "ImportStrict"
           /\ to.targets = ToSet(FirstOf(Offered(a, p, import)))
  <2>1. s \in ToSet(Offered(a, p, import))
    <3>1. Offered(a, p, import) \in Seq(AllSymbols)
      BY OfferedArePart
    <3> QED
      BY <1>1, <1>4, <3>1, FirstOfPart
  <2>2. s.name = NameSought(import, p) /\ InModule(s.file, p.source.file, import, p.kind)
    BY <2>1, OfferedArePart
  <2>3. PICK found \in Seq(AllSymbols) : found = Offered(b, p, import)
    BY OfferedArePart
  <2>4. s \in ToSet(found)
    BY <2>2, <2>3, OfferedArePart
  <2>5. Len(found) <= Cap
    <3>1. PICK n : n = Len(Candidates(b, NameSought(import, p)))
      OBVIOUS
    <3>2. n = Cardinality({c \in ToSet(b.names) : c.name = s.name}) /\ n \in Nat
      BY <2>2, <3>1, CandidatesAreNamed DEF IsIndex
    <3>3. n <= Cap
      BY <1>1, <1>4, <3>2
    <3>4. Len(found) <= n
      BY <2>3, <3>1, OfferedArePart
    <3> QED
      BY <3>2, <3>3, <3>4, ResolverAssumption
  <2>6. FirstOf(found) = found
    BY <2>5, FirstOfPart
  <2>7. found # <<>>
    BY <2>4, EmptyList
  <2>8. ResolveCall(b, p) = ThroughImport(b, p, import)
    BY <1>2, <1>4 DEF ResolveCall
  <2>9. ResolveCall(b, p) = Resolved("ImportStrict", ToSet(FirstOf(found)))
    BY <2>3, <2>7, <2>8 DEF ThroughImport, Offered
  <2> QED
    BY <2>4, <2>6, <2>9 DEF Resolved
<1>5. to.path \notin {"NameUnique", "NameAmbiguous", "ImportFallback"}
  BY <1>1 DEF Sure
<1>6. \/ MatchedImports(a, p) = {} /\ s \in SameFile(a, p)
      \/ /\ MatchedImports(a, p) # {} /\ to.path = "ImportStrict"
         /\ to.targets = ToSet(FirstOf(Offered(a, p, import)))
  BY <1>1, <1>5, WaysToResolve
<1> QED
  BY <1>3, <1>4, <1>6

TargetsStay ==
    \A e \in edges :
        (/\ \A f \in {e.source.file, e.target.file} : content'[f] = content[f]
         /\ e.confidence >= Confidence.SameFileBare
         /\ e.confidence # Confidence.ImportStrict \/ Cardinality(SymbolsNamed(tables', e.target.name)) <= Cap) =>
            \E d \in edges' : SameSite(d, e) /\ d.target = e.target

LEMMA StepKeepsTargets ==
    ASSUME TablesFollowContent, TablesFollowContent', repo' = repo
    PROVE  TargetsStay
<1> SUFFICES ASSUME NEW e \in edges,
                    \A f \in {e.source.file, e.target.file} : content'[f] = content[f],
                    e.confidence >= Confidence.SameFileBare,
                    e.confidence # Confidence.ImportStrict \/ Cardinality(SymbolsNamed(tables', e.target.name)) <= Cap
             PROVE  \E d \in edges' : SameSite(d, e) /\ d.target = e.target
  BY DEF TargetsStay
<1>1. PICK c, d, t, u : c = Whole /\ d = Whole' /\ t = tables /\ u = tables'
  OBVIOUS
<1>2. Holds(t, c) /\ Holds(u, d) /\ edges' = Derived(u)
  BY <1>1 DEF TablesFollowContent
<1>3. PICK a, b : a = Indexes(t) /\ b = Indexes(u)
  OBVIOUS
<1>4. IsIndex(a) /\ IsIndex(b) /\ b.names = u.symbols /\ b.sources = ToSet(u.symbols) /\ a.names = t.symbols
  <2>1. /\ IsList(t.symbols) /\ ToSet(t.symbols) \subseteq AllSymbols
        /\ IsList(u.symbols) /\ ToSet(u.symbols) \subseteq AllSymbols
    BY <1>2, RowsAre
  <2> QED
    BY <1>3, <2>1 DEF Indexes, IsIndex
<1>5. PICK p \in ToSet(t.pending) : e \in EdgesOf(a, p)
  BY <1>1, <1>3, EdgesHaveCalls
<1>6. PICK s, to : s = e.target /\ to = ResolveCall(a, p)
  OBVIOUS
<1>7. e.source = p.source /\ e.line = p.line /\ s \in to.targets /\ s # p.source /\ e.confidence = Confidence[to.path]
  BY <1>5, <1>6, EdgeOfCall
<1>8. s \in ToSet(t.symbols) /\ to.path \in DOMAIN Confidence
  BY <1>4, <1>6, <1>7, TargetsAreSymbols
<1>9. to.path \in Sure /\ (to.path = "ImportStrict" => e.confidence = Confidence.ImportStrict)
  BY <1>7, <1>8 DEF Confidence, Sure
<1>10. p.source \in ToSet(t.symbols)
  BY <1>1, <1>5, CallersAreSymbols
<1>11. s.file \in Files /\ p.source.file \in Files
  <2>1. s \in AllSymbols /\ p.source \in AllSymbols
    BY <1>4, <1>8, <1>10 DEF IsIndex
  <2> QED
    BY <2>1, RowsHaveFiles
<1>12. c[s.file] = d[s.file] /\ c[p.source.file] = d[p.source.file]
  BY <1>1, <1>6, <1>7, <1>11 DEF Whole
<1>13. /\ s \in ToSet(u.symbols) /\ p.source \in ToSet(u.symbols) /\ p \in ToSet(u.pending)
       /\ ImportsOf(a, p.source.file) = ImportsOf(b, p.source.file)
  BY <1>2, <1>3, <1>5, <1>8, <1>10, <1>12, SameVersionSameRows
<1>14. to.path = "ImportStrict" => Cardinality({x \in ToSet(b.names) : x.name = s.name}) <= Cap
  BY <1>1, <1>4, <1>6, <1>9 DEF SymbolsNamed
<1>15. s \in ResolveCall(b, p).targets
  BY <1>4, <1>6, <1>7, <1>9, <1>13, <1>14, SureTargetAgain
<1>16. IsList(u.pending)
  BY <1>2, RowsAre
<1>17. PICK h \in Derived(u) : SameSite(h, p) /\ h.target = s
  BY <1>3, <1>7, <1>13, <1>15, <1>16, TargetsAreReached
<1> QED
  BY <1>2, <1>6, <1>7, <1>17 DEF SameSite

\* Two untouched files keep a call between them that was found in the file itself, or through
\* an import whose lookup is not cut, whatever else comes and goes (SureTargetsStay of
\* Resolver).
THEOREM SureTargetsAlwaysStay ==
    ExplainSpec => SureTargetsStay
<1>1. TablesFollowContent /\ TablesFollowContent' /\ [ExplainNext]_explainVars => [TargetsStay]_vars
  BY StepKeepsTargets, StepKeepsRepo
<1>2. ExplainSpec => [][TargetsStay]_vars
  BY <1>1, TablesAlwaysFollow, PTL DEF ExplainSpec
<1> QED
  BY <1>2, PTL DEF SureTargetsStay, TargetsStay

-----------------------------------------------------------------------------
(* The same nodes on other lines.                                          *)

Apart(m, n) == [m EXCEPT !.line = 0] = [n EXCEPT !.line = 0]

LinesApart(t, u) == Len(t) = Len(u) /\ \A i \in 1..Len(t) : Apart(t[i], u[i])

LEMMA ApartIsAlike ==
    ASSUME NEW lang \in DOMAIN SymbolKinds, NEW N, NEW t \in Seq(N), NEW u \in Seq(N),
           IsTree(lang, t), LinesApart(t, u)
    PROVE  Begins(lang, t, u)
<1>1. Len(t) \in Nat /\ DOMAIN t = 1..Len(t)
  OBVIOUS
<1>2. \A i \in 1..Len(t) : HasChildren(lang, t[i]) /\ Apart(t[i], u[i])
  BY <1>1 DEF IsTree, LinesApart
<1>3. \A i \in 1..Len(t) : Alike(lang, t[i], u[i])
  BY <1>2, AlikeButLines DEF Apart
<1> QED
  BY <1>1, <1>3 DEF Begins, LinesApart

\* The fields that the rules for calls and imports read.
LEMMA ChildrenApart ==
    ASSUME NEW lang \in DOMAIN SymbolKinds, NEW m, NEW n, HasChildren(lang, m),
           Apart(m, n)
    PROVE  /\ m.kind = n.kind
           /\ m.kind \in DOMAIN SymbolKinds[lang] => m.name = n.name
           /\ m.kind = CallNode[lang] => m.func = n.func /\ m.argument = n.argument
           /\ lang = "python" /\ m.kind = "import_statement" => m.names = n.names
           /\ lang = "python" /\ m.kind = "import_from_statement" => m.names = n.names /\ m.module = n.module
           /\ lang = "typescript" /\ m.kind = "import_statement" => m.module = n.module /\ m.bindings = n.bindings
           /\ lang = "rust" /\ m.kind = "use_declaration" =>
                 m.path = n.path /\ m.group = n.group /\ m.alias = n.alias
           /\ lang = "go" /\ m.kind = "import_spec" => m.module = n.module /\ m.alias = n.alias
<1>1. \A child : child \in DOMAIN m /\ child # "line" => m[child] = n[child]
  BY ChildrenOfSkeleton DEF Apart
<1>2. m.kind = n.kind /\ (m.kind \in DOMAIN SymbolKinds[lang] => m.name = n.name)
  BY <1>1 DEF HasChildren
<1>3. m.kind = CallNode[lang] => m.func = n.func /\ m.argument = n.argument
  BY <1>1 DEF HasChildren
<1>4. \A child : child # "line" /\ m.kind \in DOMAIN OtherChildren[lang] /\ child \in OtherChildren[lang][m.kind]
                    => m[child] = n[child]
  BY <1>1 DEF HasChildren
<1>5. lang = "python" /\ m.kind = "import_statement" => m.names = n.names
  BY <1>4 DEF OtherChildren
<1>6. lang = "python" /\ m.kind = "import_from_statement" => m.names = n.names /\ m.module = n.module
  BY <1>4 DEF OtherChildren
<1>7. lang = "typescript" /\ m.kind = "import_statement" => m.module = n.module /\ m.bindings = n.bindings
  BY <1>4 DEF OtherChildren
<1>8. lang = "rust" /\ m.kind = "use_declaration" => m.path = n.path /\ m.group = n.group /\ m.alias = n.alias
  BY <1>4 DEF OtherChildren
<1>9. lang = "go" /\ m.kind = "import_spec" => m.module = n.module /\ m.alias = n.alias
  BY <1>4 DEF OtherChildren
<1> QED
  BY <1>2, <1>3, <1>5, <1>6, <1>7, <1>8, <1>9

LEMMA CallsApart ==
    ASSUME NEW lang \in DOMAIN SymbolKinds, NEW m, NEW n, HasChildren(lang, m),
           Apart(m, n)
    PROVE  /\ CallsSomething(lang, m) <=> CallsSomething(lang, n)
           /\ CallsSomething(lang, m) => CallTarget(lang, m) = CallTarget(lang, n)
  BY ChildrenApart DEF CallsSomething, CallTarget

LEMMA ImportsApart ==
    ASSUME NEW lang \in DOMAIN SymbolKinds, NEW N, NEW t \in Seq(N), NEW u \in Seq(N),
           IsTree(lang, t), LinesApart(t, u), NEW i \in 1..Len(t)
    PROVE  Imports(lang, t, i) = Imports(lang, u, i)
<1>1. \A k \in 1..Len(t) : HasChildren(lang, t[k]) /\ Apart(t[k], u[k])
  BY DEF IsTree, LinesApart
<1>2. Begins(lang, t, u)
  BY ApartIsAlike
<1>3. PICK m, n : m = t[i] /\ n = u[i]
  OBVIOUS
<1>4. m.kind = n.kind /\ (m.kind = CallNode[lang] => m.func = n.func /\ m.argument = n.argument)
  BY <1>1, <1>3, ChildrenApart
<1>5. CASE lang = "python"
  <2>1. /\ m.kind = "import_statement" => m.names = n.names
        /\ m.kind = "import_from_statement" => m.names = n.names /\ m.module = n.module
    BY <1>1, <1>3, <1>5, ChildrenApart
  <2>2. PythonImports(m) = PythonImports(n)
    <3>1. CASE m.kind = "import_statement"
      BY <1>4, <2>1, <3>1 DEF PythonImports
    <3>2. CASE m.kind = "import_from_statement"
      BY <1>4, <2>1, <3>2 DEF PythonImports
    <3>3. CASE m.kind \notin {"import_statement", "import_from_statement"}
      BY <1>4, <3>3 DEF PythonImports
    <3> QED
      BY <3>1, <3>2, <3>3
  <2> QED
    BY <1>3, <1>5, <2>2 DEF Imports
<1>6. CASE lang = "typescript"
  <2>1. m.kind = "import_statement" => m.module = n.module /\ m.bindings = n.bindings
    BY <1>1, <1>3, <1>6, ChildrenApart
  <2>2. m.kind = "call_expression" => m.func = n.func /\ m.argument = n.argument
    BY <1>4, <1>6 DEF CallNode
  <2>3. PICK around : around = Ancestors(t, i)
    OBVIOUS
  <2>4. around = Ancestors(u, i)
    BY <1>2, <2>3, AroundAlike
  <2>5. PICK declared : declared = (around # {} /\ t[Max(around)].kind = "variable_declarator")
    OBVIOUS
  <2>6. /\ declared = (around # {} /\ u[Max(around)].kind = "variable_declarator")
        /\ declared => t[Max(around)].name = u[Max(around)].name
    <3>1. CASE around = {}
      BY <2>5, <3>1
    <3>2. CASE around # {}
      <4>1. Max(around) \in 1..Len(t)
        <5>1. around \subseteq 1..(i - 1) /\ i - 1 \in Nat
          BY <2>3 DEF Ancestors
        <5>2. Max(around) \in around
          BY <3>2, <5>1, GreatestNumber
        <5>3. \A k \in 1..(i - 1) : k \in 1..Len(t)
          OBVIOUS
        <5> QED
          BY <5>1, <5>2, <5>3
      <4>2. PICK a, b : a = t[Max(around)] /\ b = u[Max(around)]
        OBVIOUS
      <4>3. a.kind = b.kind /\ (a.kind \in DOMAIN SymbolKinds[lang] => a.name = b.name)
        BY <1>1, <4>1, <4>2, ChildrenApart
      <4>4. "variable_declarator" \in DOMAIN SymbolKinds[lang]
        BY <1>6 DEF SymbolKinds
      <4> QED
        BY <2>5, <3>2, <4>2, <4>3, <4>4
    <3> QED
      BY <3>1, <3>2
  <2>7. TypeScriptImports(t, i) = TypeScriptImports(u, i)
    <3>1. CASE m.kind = "import_statement" /\ m.module # None
      BY <1>3, <1>4, <2>1, <3>1 DEF TypeScriptImports
    <3>2. CASE /\ m.kind = "call_expression" /\ m.func.kind = "identifier"
               /\ m.func.name = "require" /\ m.argument # None
      <4>1. PICK bound : bound = IF declared THEN t[Max(around)].name ELSE None
        OBVIOUS
      <4>2. bound = IF declared THEN u[Max(around)].name ELSE None
        BY <2>6, <4>1
      <4>3. TypeScriptImports(t, i) = <<[Import(m.argument, None, None) EXCEPT !.local = bound]>>
        BY <1>3, <2>3, <2>5, <3>2, <4>1 DEF TypeScriptImports
      <4>4. TypeScriptImports(u, i) = <<[Import(n.argument, None, None) EXCEPT !.local = bound]>>
        BY <1>3, <1>4, <2>2, <2>4, <2>6, <3>2, <4>2 DEF TypeScriptImports
      <4> QED
        BY <2>2, <3>2, <4>3, <4>4
    <3>3. CASE /\ ~(m.kind = "import_statement" /\ m.module # None)
               /\ ~(/\ m.kind = "call_expression" /\ m.func.kind = "identifier"
                    /\ m.func.name = "require" /\ m.argument # None)
      BY <1>3, <1>4, <2>1, <2>2, <3>3 DEF TypeScriptImports
    <3> QED
      BY <3>1, <3>2, <3>3
  <2> QED
    BY <1>6, <2>7 DEF Imports
<1>7. CASE lang = "rust"
  <2>1. m.kind = "use_declaration" => m.path = n.path /\ m.group = n.group /\ m.alias = n.alias
    BY <1>1, <1>3, <1>7, ChildrenApart
  <2>2. RustImports(m) = RustImports(n)
    <3>1. CASE m.kind = "use_declaration"
      <4>1. UseItems(m) = UseItems(n)
        BY <2>1, <3>1 DEF UseItems
      <4> QED
        BY <1>4, <2>1, <3>1, <4>1 DEF RustImports
    <3>2. CASE m.kind # "use_declaration"
      BY <1>4, <3>2 DEF RustImports
    <3> QED
      BY <3>1, <3>2
  <2> QED
    BY <1>3, <1>7, <2>2 DEF Imports
<1>8. CASE lang = "go"
  <2>1. m.kind = "import_spec" => m.module = n.module /\ m.alias = n.alias
    BY <1>1, <1>3, <1>8, ChildrenApart
  <2>2. GoImports(m) = GoImports(n)
    BY <1>4, <2>1 DEF GoImports
  <2> QED
    BY <1>3, <1>8, <2>2 DEF Imports
<1> QED
  BY <1>5, <1>6, <1>7, <1>8 DEF SymbolKinds

\* Rows for the same nodes, on the lines these have in either tree.
FromNode(t, u, x, y) == \E i \in 1..Len(t) : x.line = t[i].line /\ y.line = u[i].line

SameCall(p, q) == p.source = q.source /\ p.name = q.name /\ p.kind = q.kind /\ p.qualifier = q.qualifier

SameImport(x, y) ==
    x.file = y.file /\ x.module = y.module /\ x.imported = y.imported /\ x.alias = y.alias /\ x.local = y.local

MovedCalls(t, u, a, b) ==
    /\ IsList(a) /\ IsList(b) /\ Len(a) = Len(b)
    /\ \A k \in 1..Len(a) : SameCall(a[k], b[k]) /\ FromNode(t, u, a[k], b[k])

MovedImports(t, u, a, b) ==
    /\ IsList(a) /\ IsList(b) /\ Len(a) = Len(b)
    /\ \A k \in 1..Len(a) : SameImport(a[k], b[k]) /\ FromNode(t, u, a[k], b[k])

LEMMA AppendMoved ==
    ASSUME NEW t, NEW u, NEW a, NEW b, MovedCalls(t, u, a, b),
           NEW x, NEW y, SameCall(x, y), FromNode(t, u, x, y)
    PROVE  MovedCalls(t, u, Append(a, x), Append(b, y))
<1>1. /\ IsList(a) /\ IsList(b) /\ Len(a) = Len(b)
      /\ \A k \in 1..Len(a) : SameCall(a[k], b[k]) /\ FromNode(t, u, a[k], b[k])
  BY DEF MovedCalls
<1>2. PICK T : T = ToSet(a) \union ToSet(b) \union {x, y}
  OBVIOUS
<1>3. a \in Seq(T) /\ b \in Seq(T) /\ x \in T /\ y \in T
  <2>1. a \in Seq(ToSet(a)) /\ b \in Seq(ToSet(b))
    BY <1>1 DEF IsList
  <2> QED
    BY <1>2, <2>1
<1>4. PICK c, d : c = Append(a, x) /\ d = Append(b, y)
  OBVIOUS
<1>5. PICK n \in Nat : n = Len(a)
  BY <1>3
<1>6. /\ Len(c) = n + 1 /\ c[n + 1] = x /\ \A k \in 1..n : c[k] = a[k]
      /\ Len(d) = n + 1 /\ d[n + 1] = y /\ \A k \in 1..n : d[k] = b[k]
  BY <1>1, <1>3, <1>4, <1>5
<1>7. \A k \in 1..Len(c) : SameCall(c[k], d[k]) /\ FromNode(t, u, c[k], d[k])
  <2> SUFFICES ASSUME NEW k \in 1..(n + 1) PROVE SameCall(c[k], d[k]) /\ FromNode(t, u, c[k], d[k])
    BY <1>6
  <2>1. k = n + 1 \/ k \in 1..n
    OBVIOUS
  <2> QED
    BY <1>1, <1>5, <1>6, <2>1
<1>8. IsList(c) /\ IsList(d)
  BY <1>1, <1>4, AppendList
<1> QED
  BY <1>4, <1>6, <1>7, <1>8 DEF MovedCalls

LEMMA ConcatMoved ==
    ASSUME NEW t, NEW u, NEW a, NEW b, MovedImports(t, u, a, b),
           NEW v, NEW w, MovedImports(t, u, v, w)
    PROVE  MovedImports(t, u, a \o v, b \o w)
<1>1. /\ IsList(a) /\ IsList(b) /\ Len(a) = Len(b) /\ IsList(v) /\ IsList(w) /\ Len(v) = Len(w)
      /\ \A k \in 1..Len(a) : SameImport(a[k], b[k]) /\ FromNode(t, u, a[k], b[k])
      /\ \A k \in 1..Len(v) : SameImport(v[k], w[k]) /\ FromNode(t, u, v[k], w[k])
  BY DEF MovedImports
<1>2. PICK T : T = (ToSet(a) \union ToSet(b)) \union (ToSet(v) \union ToSet(w))
  OBVIOUS
<1>3. a \in Seq(T) /\ b \in Seq(T) /\ v \in Seq(T) /\ w \in Seq(T)
  <2>1. a \in Seq(ToSet(a)) /\ b \in Seq(ToSet(b)) /\ v \in Seq(ToSet(v)) /\ w \in Seq(ToSet(w))
    BY <1>1 DEF IsList
  <2> QED
    BY <1>2, <2>1
<1>4. PICK c, d : c = a \o v /\ d = b \o w
  OBVIOUS
<1>5. PICK m \in Nat, n \in Nat : m = Len(a) /\ n = Len(v)
  BY <1>3
<1>6. /\ Len(c) = m + n /\ (\A k \in 1..m : c[k] = a[k]) /\ \A k \in (m + 1)..(m + n) : c[k] = v[k - m]
      /\ Len(d) = m + n /\ (\A k \in 1..m : d[k] = b[k]) /\ \A k \in (m + 1)..(m + n) : d[k] = w[k - m]
  <2>1. Len(b) = m /\ Len(w) = n
    BY <1>1, <1>5
  <2>2. Len(c) = m + n
    BY <1>3, <1>4, <1>5
  <2>7. Len(d) = m + n
    <3>1. Len(d) = Len(b) + Len(w)
      BY <1>3, <1>4
    <3> QED
      BY <2>1, <3>1
  <2>3. \A k \in 1..m : c[k] = a[k]
    BY <1>3, <1>4, <1>5
  <2>4. \A k \in 1..m : d[k] = b[k]
    BY <1>3, <1>4, <2>1
  <2>5. \A k \in (m + 1)..(m + n) : c[k] = v[k - m]
    BY <1>3, <1>4, <1>5
  <2>6. \A k \in (m + 1)..(m + n) : d[k] = w[k - m]
    BY <1>3, <1>4, <2>1
  <2> QED
    BY <2>2, <2>3, <2>4, <2>5, <2>6, <2>7
<1>7. \A k \in 1..Len(c) : SameImport(c[k], d[k]) /\ FromNode(t, u, c[k], d[k])
  <2> SUFFICES ASSUME NEW k \in 1..(m + n) PROVE SameImport(c[k], d[k]) /\ FromNode(t, u, c[k], d[k])
    BY <1>6
  <2>1. CASE k \in 1..m
    BY <1>1, <1>5, <1>6, <2>1
  <2>2. CASE k \notin 1..m
    <3>1. k - m \in 1..n /\ k \in (m + 1)..(m + n)
      BY <2>2
    <3> QED
      BY <1>1, <1>5, <1>6, <3>1
  <2> QED
    BY <2>1, <2>2
<1>8. IsList(c) /\ IsList(d)
  BY <1>1, <1>4, ConcatList
<1> QED
  BY <1>4, <1>6, <1>7, <1>8 DEF MovedImports

LEMMA NodesApart ==
    ASSUME NEW lang \in DOMAIN SymbolKinds, NEW N, NEW t \in Seq(N), NEW u \in Seq(N),
           IsTree(lang, t), LinesApart(t, u), NEW i \in 1..Len(t)
    PROVE  /\ t[i].depth = u[i].depth
           /\ CallsSomething(lang, t[i]) <=> CallsSomething(lang, u[i])
           /\ CallsSomething(lang, t[i]) => CallTarget(lang, t[i]) = CallTarget(lang, u[i])
           /\ IsList(Imports(lang, t, i)) /\ Imports(lang, t, i) = Imports(lang, u, i)
<1>1. HasChildren(lang, t[i]) /\ Apart(t[i], u[i])
  BY DEF IsTree, LinesApart
<1>2. t[i].depth = u[i].depth
  BY ApartIsAlike DEF Begins, Alike
<1> QED
  BY <1>1, <1>2, CallsApart, ImportsApart, ImportsAreList

LEMMA VisitMovesCalls ==
    ASSUME NEW lang, NEW file, NEW t, NEW u, NEW i \in 1..Len(t), t[i].depth = u[i].depth,
           CallsSomething(lang, t[i]) <=> CallsSomething(lang, u[i]),
           CallsSomething(lang, t[i]) => CallTarget(lang, t[i]) = CallTarget(lang, u[i]),
           NEW v, NEW w, v.stack = w.stack, MovedCalls(t, u, v.calls, w.calls)
    PROVE  MovedCalls(t, u, Visit(file, lang, t, i, v).calls, Visit(file, lang, u, i, w).calls)
<1>1. PICK stack : stack = Enclosing(v.stack, t[i].depth) /\ stack = Enclosing(w.stack, u[i].depth)
  OBVIOUS
<1>2. CASE CallsSomething(lang, t[i]) /\ stack # <<>>
  <2>1. PICK target : target = CallTarget(lang, t[i]) /\ target = CallTarget(lang, u[i])
    BY <1>2
  <2>2. PICK x, y : x = CallRow(Last(stack).symbol, t[i].line, target) /\ y = CallRow(Last(stack).symbol, u[i].line, target)
    OBVIOUS
  <2>3. Visit(file, lang, t, i, v).calls = Append(v.calls, x)
    BY <1>1, <1>2, <2>1, <2>2 DEF Visit
  <2>4. Visit(file, lang, u, i, w).calls = Append(w.calls, y)
    BY <1>1, <1>2, <2>1, <2>2 DEF Visit
  <2>5. SameCall(x, y) /\ FromNode(t, u, x, y)
    BY <2>2 DEF CallRow, SameCall, FromNode
  <2> QED
    BY <2>3, <2>4, <2>5, AppendMoved
<1>3. CASE ~(CallsSomething(lang, t[i]) /\ stack # <<>>)
  <2>1. Visit(file, lang, t, i, v).calls = v.calls
    BY <1>1, <1>3 DEF Visit
  <2>2. Visit(file, lang, u, i, w).calls = w.calls
    BY <1>1, <1>3 DEF Visit
  <2> QED
    BY <2>1, <2>2
<1> QED
  BY <1>2, <1>3

LEMMA VisitMovesImports ==
    ASSUME NEW lang, NEW file, NEW t, NEW u, NEW i \in 1..Len(t),
           IsList(Imports(lang, t, i)), Imports(lang, t, i) = Imports(lang, u, i),
           NEW v, NEW w, MovedImports(t, u, v.imports, w.imports)
    PROVE  MovedImports(t, u, Visit(file, lang, t, i, v).imports, Visit(file, lang, u, i, w).imports)
<1>1. PICK imports : imports = Imports(lang, t, i) /\ imports = Imports(lang, u, i)
  OBVIOUS
<1>2. PICK n \in Nat : n = Len(imports) /\ DOMAIN imports = 1..n
  BY <1>1, ListIsSequence
<1>3. PICK a : a = [k \in 1..n |-> ImportRow(file, t[i].line, imports[k])]
  OBVIOUS
<1>4. PICK b : b = [k \in 1..n |-> ImportRow(file, u[i].line, imports[k])]
  OBVIOUS
<1>5. Visit(file, lang, t, i, v).imports = v.imports \o a
  BY <1>1, <1>2, <1>3 DEF Visit
<1>6. Visit(file, lang, u, i, w).imports = w.imports \o b
  BY <1>1, <1>2, <1>4 DEF Visit
<1>7. a = [k \in 1..n |-> a[k]] /\ b = [k \in 1..n |-> b[k]]
  BY <1>3, <1>4
<1>8. IsList(a) /\ Len(a) = n /\ IsList(b) /\ Len(b) = n
  BY <1>7, FunctionIsList
<1>9. \A k \in 1..n : SameImport(a[k], b[k]) /\ FromNode(t, u, a[k], b[k])
  BY <1>3, <1>4 DEF ImportRow, SameImport, FromNode
<1>10. MovedImports(t, u, a, b)
  BY <1>8, <1>9 DEF MovedImports
<1> QED
  BY <1>5, <1>6, <1>10, ConcatMoved

\* The walks of two such trees meet the same calls and imports.
LEMMA ExtractMoved ==
    ASSUME NEW lang \in DOMAIN SymbolKinds, NEW file, NEW N, NEW t \in Seq(N), NEW u \in Seq(N),
           IsTree(lang, t), LinesApart(t, u)
    PROVE  /\ Extract(file, lang, t).symbols = Extract(file, lang, u).symbols
           /\ MovedCalls(t, u, Extract(file, lang, t).calls, Extract(file, lang, u).calls)
           /\ MovedImports(t, u, Extract(file, lang, t).imports, Extract(file, lang, u).imports)
<1>1. PICK n \in Nat : n = Len(t) /\ n = Len(u)
  BY DEF LinesApart
<1>2. Begins(lang, t, u)
  BY ApartIsAlike
<1>3. PICK g, h : /\ IsWalk(file, lang, t, n, g) /\ Extract(file, lang, t) = g[n]
                  /\ IsWalk(file, lang, u, n, h) /\ Extract(file, lang, u) = h[n]
                  /\ \A k \in 0..n : g[k].symbols = h[k].symbols /\ g[k].stack = h[k].stack
  <2>1. PICK g, h : /\ IsWalk(file, lang, t, Len(t), g) /\ Extract(file, lang, t) = g[Len(t)]
                    /\ IsWalk(file, lang, u, Len(u), h) /\ Extract(file, lang, u) = h[Len(u)]
                    /\ \A k \in 0..Len(t) : g[k].symbols = h[k].symbols /\ g[k].stack = h[k].stack
    BY <1>2, WalksAgree
  <2>2. IsWalk(file, lang, t, n, g) /\ Extract(file, lang, t) = g[n]
    BY <1>1, <2>1
  <2>3. IsWalk(file, lang, u, n, h) /\ Extract(file, lang, u) = h[n]
    BY <1>1, <2>1
  <2>4. \A k \in 0..n : g[k].symbols = h[k].symbols /\ g[k].stack = h[k].stack
    BY <1>1, <2>1
  <2> QED
    BY <2>2, <2>3, <2>4
<1>4. /\ g[0] = Start /\ \A i \in 1..n : g[i] = Visit(file, lang, t, i, g[i - 1])
      /\ h[0] = Start /\ \A i \in 1..n : h[i] = Visit(file, lang, u, i, h[i - 1])
  <2>1. IsWalk(file, lang, t, n, g) /\ IsWalk(file, lang, u, n, h)
    BY <1>3
  <2>2. g[0] = Start /\ \A i \in 1..n : g[i] = Visit(file, lang, t, i, g[i - 1])
    BY <2>1 DEF IsWalk
  <2>3. h[0] = Start /\ \A i \in 1..n : h[i] = Visit(file, lang, u, i, h[i - 1])
    BY <2>1 DEF IsWalk
  <2> QED
    BY <2>2, <2>3
<1> DEFINE P == {k \in 0..n : MovedCalls(t, u, g[k].calls, h[k].calls) /\ MovedImports(t, u, g[k].imports, h[k].imports)}
<1>5. 0 \in P
  <2>1. g[0].calls = <<>> /\ h[0].calls = <<>> /\ g[0].imports = <<>> /\ h[0].imports = <<>>
    BY <1>4 DEF Start
  <2>2. MovedCalls(t, u, <<>>, <<>>) /\ MovedImports(t, u, <<>>, <<>>)
    BY EmptyList DEF MovedCalls, MovedImports
  <2> QED
    BY <2>1, <2>2
<1>6. ASSUME NEW k \in 1..n, k - 1 \in P PROVE k \in P
  <2>1. PICK v, w : v = g[k - 1] /\ w = h[k - 1]
    OBVIOUS
  <2>2. MovedCalls(t, u, v.calls, w.calls) /\ MovedImports(t, u, v.imports, w.imports) /\ v.stack = w.stack
    BY <1>3, <1>6, <2>1
  <2>3. g[k] = Visit(file, lang, t, k, v) /\ h[k] = Visit(file, lang, u, k, w)
    BY <1>4, <2>1
  <2>4. k \in 1..Len(t)
    BY <1>1
  <2>5. /\ t[k].depth = u[k].depth
        /\ CallsSomething(lang, t[k]) <=> CallsSomething(lang, u[k])
        /\ CallsSomething(lang, t[k]) => CallTarget(lang, t[k]) = CallTarget(lang, u[k])
        /\ IsList(Imports(lang, t, k)) /\ Imports(lang, t, k) = Imports(lang, u, k)
    BY <2>4, NodesApart
  <2>6. MovedCalls(t, u, g[k].calls, h[k].calls)
    BY <2>2, <2>3, <2>4, <2>5, VisitMovesCalls
  <2>7. MovedImports(t, u, g[k].imports, h[k].imports)
    BY <2>2, <2>3, <2>4, <2>5, VisitMovesImports
  <2> QED
    BY <2>6, <2>7
<1>7. P = 0..n
  <2>1. P \subseteq 0..n
    OBVIOUS
  <2> HIDE DEF P
  <2> QED
    BY <1>5, <1>6, <2>1, Stepwise
<1> HIDE DEF P
<1>8. n \in P
  BY <1>7
<1> USE DEF P
<1>9. MovedCalls(t, u, g[n].calls, h[n].calls) /\ MovedImports(t, u, g[n].imports, h[n].imports)
  BY <1>8
<1>10. g[n].symbols = h[n].symbols
  BY <1>3
<1> QED
  BY <1>3, <1>9, <1>10

\* Rows of two versions whose lines are in the same order.
CallsAgree(a, b) ==
    /\ IsList(a) /\ IsList(b) /\ Len(a) = Len(b)
    /\ \A k \in 1..Len(a) : SameCall(a[k], b[k])
    /\ \A j, k \in 1..Len(a) : a[j].line = a[k].line <=> b[j].line = b[k].line

ImportsAgree(a, b) ==
    /\ IsList(a) /\ IsList(b) /\ Len(a) = Len(b)
    /\ \A k \in 1..Len(a) : SameImport(a[k], b[k]) /\ a[k].line \in Nat /\ b[k].line \in Nat
    /\ \A j, k \in 1..Len(a) : a[j].line < a[k].line <=> b[j].line < b[k].line

SameOrder(t, u) ==
    /\ \A i \in 1..Len(t) : t[i].line \in Nat /\ u[i].line \in Nat
    /\ \A i, j \in 1..Len(t) : t[i].line < t[j].line <=> u[i].line < u[j].line

LEMMA OrderOfNodes ==
    ASSUME NEW t, NEW u, SameOrder(t, u), NEW a, NEW b, NEW c, NEW d,
           FromNode(t, u, a, b), FromNode(t, u, c, d)
    PROVE  /\ a.line \in Nat /\ b.line \in Nat
           /\ a.line < c.line <=> b.line < d.line
           /\ a.line = c.line <=> b.line = d.line
<1>1. PICK i \in 1..Len(t) : a.line = t[i].line /\ b.line = u[i].line
  BY DEF FromNode
<1>2. PICK j \in 1..Len(t) : c.line = t[j].line /\ d.line = u[j].line
  BY DEF FromNode
<1>3. /\ t[i].line \in Nat /\ u[i].line \in Nat /\ t[j].line \in Nat /\ u[j].line \in Nat
      /\ t[i].line < t[j].line <=> u[i].line < u[j].line
      /\ t[j].line < t[i].line <=> u[j].line < u[i].line
  BY DEF SameOrder
<1> QED
  BY <1>1, <1>2, <1>3

LEMMA MovedAgree ==
    ASSUME NEW t, NEW u, SameOrder(t, u), NEW a, NEW b
    PROVE  /\ MovedCalls(t, u, a, b) => CallsAgree(a, b)
           /\ MovedImports(t, u, a, b) => ImportsAgree(a, b)
<1>1. ASSUME MovedCalls(t, u, a, b) PROVE CallsAgree(a, b)
  <2>1. \A k \in 1..Len(a) : FromNode(t, u, a[k], b[k])
    BY <1>1 DEF MovedCalls
  <2>2. \A j, k \in 1..Len(a) : a[j].line = a[k].line <=> b[j].line = b[k].line
    BY <2>1, OrderOfNodes
  <2> QED
    BY <1>1, <2>2 DEF MovedCalls, CallsAgree
<1>2. ASSUME MovedImports(t, u, a, b) PROVE ImportsAgree(a, b)
  <2>1. \A k \in 1..Len(a) : FromNode(t, u, a[k], b[k])
    BY <1>2 DEF MovedImports
  <2>2. \A j, k \in 1..Len(a) : a[j].line < a[k].line <=> b[j].line < b[k].line
    BY <2>1, OrderOfNodes
  <2>3. \A k \in 1..Len(a) : a[k].line \in Nat /\ b[k].line \in Nat
    BY <2>1, OrderOfNodes
  <2> QED
    BY <1>2, <2>2, <2>3 DEF MovedImports, ImportsAgree
<1> QED
  BY <1>1, <1>2

LEMMA VersionMoved ==
    ASSUME NEW f \in Files, NEW t \in Versions[f], NEW u \in Versions[f],
           Skeleton(t) = Skeleton(u),
           \A i, j \in DOMAIN t : t[i].line < t[j].line <=> u[i].line < u[j].line
    PROVE  /\ Extracted[f][t].symbols = Extracted[f][u].symbols
           /\ CallsAgree(Extracted[f][t].calls, Extracted[f][u].calls)
           /\ ImportsAgree(Extracted[f][t].imports, Extracted[f][u].imports)
<1>1. PICK lang \in DOMAIN SymbolKinds : lang = LanguageOf[f]
  BY ResolverAssumption
<1>2. IsTree(lang, t) /\ IsTree(lang, u)
  BY <1>1, ResolverAssumption
<1>3. PICK N : N = ToSet(t) \union ToSet(u)
  OBVIOUS
<1>4. t \in Seq(N) /\ u \in Seq(N)
  <2>1. t \in Seq(ToSet(t)) /\ u \in Seq(ToSet(u))
    BY <1>2 DEF IsTree, IsList
  <2> QED
    BY <1>3, <2>1
<1>5. /\ Len(Skeleton(t)) = Len(t) /\ \A i \in 1..Len(t) : Skeleton(t)[i] = [t[i] EXCEPT !.line = 0]
      /\ Len(Skeleton(u)) = Len(u) /\ \A i \in 1..Len(u) : Skeleton(u)[i] = [u[i] EXCEPT !.line = 0]
  BY <1>4, SkeletonEntries
<1>6. LinesApart(t, u)
  BY <1>5 DEF LinesApart, Apart
<1>7. SameOrder(t, u)
  <2>1. DOMAIN t = 1..Len(t) /\ DOMAIN u = 1..Len(u) /\ Len(t) = Len(u)
    BY <1>4, <1>6 DEF LinesApart
  <2>2. \A i \in 1..Len(t) : t[i].line \in Nat /\ u[i].line \in Nat
    BY <1>2, <2>1 DEF IsTree
  <2> QED
    BY <2>1, <2>2 DEF SameOrder
<1>8. PICK a, b : a = Extracted[f][t] /\ b = Extracted[f][u]
  OBVIOUS
<1>9. a = Extract(f, lang, t) /\ b = Extract(f, lang, u)
  BY <1>1, <1>8 DEF Extracted
<1>10. a.symbols = b.symbols /\ MovedCalls(t, u, a.calls, b.calls) /\ MovedImports(t, u, a.imports, b.imports)
  BY <1>2, <1>4, <1>6, <1>9, ExtractMoved
<1> QED
  BY <1>7, <1>8, <1>10, MovedAgree

LEMMA VersionItself ==
    ASSUME NEW f \in Files, NEW t \in Versions[f]
    PROVE  /\ CallsAgree(Extracted[f][t].calls, Extracted[f][t].calls)
           /\ ImportsAgree(Extracted[f][t].imports, Extracted[f][t].imports)
  BY VersionMoved

\* What the tables hold of a file before and after it moved.
PartsAgree(c, d, f) ==
    /\ SymbolsPart(c)[f] = SymbolsPart(d)[f] /\ (c[f] = None <=> d[f] = None)
    /\ CallsAgree(CallsPart(c)[f], CallsPart(d)[f])
    /\ ImportsAgree(ImportsPart(c)[f], ImportsPart(d)[f])

LEMMA PartsMoved ==
    ASSUME NEW f \in Files, NEW c, NEW d, c[f] \in Versions[f] \union {None}, d[f] \in Versions[f] \union {None},
           OnlyMoved(c[f], d[f])
    PROVE  PartsAgree(c, d, f) /\ PartsAgree(d, c, f)
<1>1. CASE c[f] = None
  <2>1. d[f] = None
    BY <1>1 DEF OnlyMoved
  <2>2. PICK e : e = <<>>
    OBVIOUS
  <2>3. /\ SymbolsPart(c)[f] = e /\ CallsPart(c)[f] = e /\ ImportsPart(c)[f] = e
        /\ SymbolsPart(d)[f] = e /\ CallsPart(d)[f] = e /\ ImportsPart(d)[f] = e
    BY <1>1, <2>1, <2>2 DEF SymbolsPart, CallsPart, ImportsPart
  <2>4. IsList(e) /\ Len(e) = 0
    BY <2>2, EmptyList
  <2>5. CallsAgree(e, e) /\ ImportsAgree(e, e)
    BY <2>4 DEF CallsAgree, ImportsAgree
  <2> QED
    BY <1>1, <2>1, <2>3, <2>5 DEF PartsAgree
<1>2. CASE c[f] # None
  <2>1. d[f] # None
    BY <1>2 DEF OnlyMoved
  <2>2. PICK t \in Versions[f], u \in Versions[f] : t = c[f] /\ u = d[f]
    BY <1>2, <2>1
  <2>3. /\ SymbolsPart(c)[f] = Extracted[f][t].symbols /\ SymbolsPart(d)[f] = Extracted[f][u].symbols
        /\ CallsPart(c)[f] = Extracted[f][t].calls /\ CallsPart(d)[f] = Extracted[f][u].calls
        /\ ImportsPart(c)[f] = Extracted[f][t].imports /\ ImportsPart(d)[f] = Extracted[f][u].imports
    BY <1>2, <2>1, <2>2 DEF SymbolsPart, CallsPart, ImportsPart
  <2>4. /\ Extracted[f][t].symbols = Extracted[f][u].symbols
        /\ CallsAgree(Extracted[f][t].calls, Extracted[f][u].calls)
        /\ ImportsAgree(Extracted[f][t].imports, Extracted[f][u].imports)
    <3>1. CASE t = u
      BY <3>1, VersionItself
    <3>2. CASE t # u
      <4>1. Skeleton(t) = Skeleton(u) /\ \A i, j \in DOMAIN t : t[i].line < t[j].line <=> u[i].line < u[j].line
        BY <2>2, <3>2 DEF OnlyMoved
      <4> QED
        BY <4>1, VersionMoved
    <3> QED
      BY <3>1, <3>2
  <2>5. PartsAgree(c, d, f)
    BY <1>2, <2>1, <2>3, <2>4 DEF PartsAgree
  <2>6. \A a, b : CallsAgree(a, b) => CallsAgree(b, a)
    BY DEF CallsAgree, SameCall
  <2>7. \A a, b : ImportsAgree(a, b) => ImportsAgree(b, a)
    BY DEF ImportsAgree, SameImport
  <2>8. PartsAgree(d, c, f)
    BY <2>5, <2>6, <2>7 DEF PartsAgree
  <2> QED
    BY <2>5, <2>8
<1> QED
  BY <1>1, <1>2

\* ImportBefore orders the imports of a file, some of them alike.
LEMMA ImportsOrdered ==
    ASSUME NEW f \in Files, NEW S, S \subseteq ImportsIn(f), \A i \in S : i.line \in Nat
    PROVE  \A i, j, k \in S :
              /\ ~(ImportBefore(i, j) /\ ImportBefore(j, i))
              /\ ImportBefore(i, j) => ImportBefore(i, k) \/ ImportBefore(k, j)
<1> SUFFICES ASSUME NEW i \in S, NEW j \in S, NEW k \in S
             PROVE  /\ ~(ImportBefore(i, j) /\ ImportBefore(j, i))
                    /\ ImportBefore(i, j) => ImportBefore(i, k) \/ ImportBefore(k, j)
  OBVIOUS
<1>1. i.line \in Nat /\ j.line \in Nat /\ k.line \in Nat
  OBVIOUS
<1>2. /\ ~(TextBefore(Text(i), Text(j)) /\ TextBefore(Text(j), Text(i)))
      /\ TextBefore(Text(i), Text(j)) => TextBefore(Text(i), Text(k)) \/ TextBefore(Text(k), Text(j))
  BY TextAssumption
<1> QED
  BY <1>1, <1>2 DEF ImportBefore

\* The k-th import comes before the j-th.
Ahead(own, k, j) == ImportBefore(own[k], own[j]) \/ (k < j /\ ~ImportBefore(own[j], own[k]))

FirstAmong(own, M, k) == k \in M /\ \A j \in M \ {k} : Ahead(own, k, j)

LEMMA FirstOfMore ==
    ASSUME NEW f \in Files, NEW own, NEW n \in Nat, NEW m \in Nat, m < n,
           \A k \in 1..n : own[k] \in ImportsIn(f) /\ own[k].line \in Nat,
           NEW M, M \subseteq 1..m, NEW k, FirstAmong(own, M, k)
    PROVE  \E l : FirstAmong(own, M \union {m + 1}, l)
<1>1. k \in 1..m /\ m + 1 \in 1..n /\ m + 1 \notin M /\ \A j \in M : j \in 1..n
  BY DEF FirstAmong
<1>2. PICK S : S = {own[j] : j \in 1..n}
  OBVIOUS
<1>3. \A j \in 1..n : own[j] \in S
  BY <1>2
<1>4. S \subseteq ImportsIn(f) /\ \A i \in S : i.line \in Nat
  BY <1>2
<1>5. \A x, y, z \in S : /\ ~(ImportBefore(x, y) /\ ImportBefore(y, x))
                         /\ ImportBefore(x, y) => ImportBefore(x, z) \/ ImportBefore(z, y)
  BY <1>4, ImportsOrdered
<1>6. PICK new : new = m + 1 /\ new \in 1..n /\ k < new
  BY <1>1
<1>7. own[k] \in S /\ own[new] \in S /\ \A j \in M : own[j] \in S
  BY <1>1, <1>3, <1>6
<1>8. CASE ImportBefore(own[new], own[k])
  <2>1. ASSUME NEW j \in M, j # k PROVE ImportBefore(own[new], own[j])
    <3>1. ImportBefore(own[k], own[j]) \/ ~ImportBefore(own[j], own[k])
      BY <2>1 DEF FirstAmong, Ahead
    <3>2. ImportBefore(own[new], own[j]) \/ ImportBefore(own[j], own[k])
      BY <1>5, <1>7, <1>8, <2>1
    <3>3. ImportBefore(own[k], own[j]) => ImportBefore(own[k], own[new]) \/ ImportBefore(own[new], own[j])
      BY <1>5, <1>7, <2>1
    <3>4. ~ImportBefore(own[k], own[new])
      BY <1>5, <1>7, <1>8
    <3> QED
      BY <3>1, <3>2, <3>3, <3>4
  <2>2. FirstAmong(own, M \union {new}, new)
    BY <1>8, <2>1 DEF FirstAmong, Ahead
  <2> QED
    BY <1>6, <2>2
<1>9. CASE ~ImportBefore(own[new], own[k])
  <2>1. Ahead(own, k, new)
    BY <1>6, <1>9 DEF Ahead
  <2>2. FirstAmong(own, M \union {new}, k)
    BY <2>1 DEF FirstAmong
  <2> QED
    BY <1>6, <2>2
<1> QED
  BY <1>8, <1>9

\* So one of them is the first.
LEMMA FirstExists ==
    ASSUME NEW f \in Files, NEW own, NEW n \in Nat,
           \A k \in 1..n : own[k] \in ImportsIn(f) /\ own[k].line \in Nat,
           NEW M, M \subseteq 1..n, M # {}
    PROVE  \E k : FirstAmong(own, M, k)
<1> DEFINE Among(m) == {k \in M : k <= m}
           P == {m \in 0..n : Among(m) # {} => \E k : FirstAmong(own, Among(m), k)}
<1>1. \A k \in M : k \in Nat /\ k >= 1 /\ k <= n
  OBVIOUS
<1>2. 0 \in P
  <2>1. Among(0) = {}
    <3>1. \A k \in M : ~(k <= 0)
      BY <1>1
    <3> QED
      BY <3>1
  <2> HIDE DEF Among
  <2> QED
    BY <2>1
<1>3. ASSUME NEW m \in 1..n, NEW old, old = Among(m - 1), old # {} => \E k : FirstAmong(own, old, k),
             NEW new, new = Among(m), new # {}
      PROVE  \E k : FirstAmong(own, new, k)
  <2>1. PICK p \in Nat : p = m - 1 /\ p < n /\ p + 1 = m
    OBVIOUS
  <2>2. old \subseteq 1..p
    <3>1. \A k \in old : k \in Nat /\ k >= 1 /\ k <= m - 1
      BY <1>1, <1>3
    <3>2. \A k \in Nat : k >= 1 /\ k <= m - 1 => k \in 1..p
      BY <2>1
    <3> QED
      BY <3>1, <3>2
  <2>3. CASE m \notin M
    <3>1. \A k \in M : k <= m <=> k <= m - 1
      BY <1>1, <2>3
    <3>2. new = old
      BY <1>3, <3>1
    <3> QED
      BY <1>3, <3>2
  <2>4. CASE m \in M
    <3>1. \A k \in M : k <= m <=> k <= m - 1 \/ k = m
      BY <1>1
    <3>2. new = old \union {m}
      BY <1>3, <2>4, <3>1
    <3>3. CASE old = {}
      <4>1. FirstAmong(own, {m}, m)
        BY DEF FirstAmong
      <4> QED
        BY <3>2, <3>3, <4>1
    <3>4. CASE old # {}
      <4>1. PICK k : FirstAmong(own, old, k)
        BY <1>3, <3>4
      <4>2. \E l : FirstAmong(own, old \union {p + 1}, l)
        BY <2>1, <2>2, <4>1, FirstOfMore
      <4> QED
        BY <2>1, <3>2, <4>2
    <3> QED
      BY <3>3, <3>4
  <2> QED
    BY <2>3, <2>4
<1>4. P = 0..n
  <2> HIDE DEF Among
  <2>1. ASSUME NEW m \in 1..n, m - 1 \in P PROVE m \in P
    <3>1. Among(m - 1) # {} => \E k : FirstAmong(own, Among(m - 1), k)
      BY <2>1
    <3>2. Among(m) # {} => \E k : FirstAmong(own, Among(m), k)
      BY <1>3, <3>1
    <3> QED
      BY <3>2
  <2>2. P \subseteq 0..n
    OBVIOUS
  <2> HIDE DEF P
  <2> QED
    BY <1>2, <2>1, <2>2, Stepwise
<1>5. n \in P
  BY <1>4
<1>6. Among(n) = M
  BY <1>1
<1> QED
  BY <1>5, <1>6

LEMMA OneFirst ==
    ASSUME NEW f \in Files, NEW own, NEW n \in Nat,
           \A k \in 1..n : own[k] \in ImportsIn(f) /\ own[k].line \in Nat,
           NEW M, M \subseteq 1..n, NEW k, NEW l, FirstAmong(own, M, k), FirstAmong(own, M, l)
    PROVE  k = l
<1> SUFFICES ASSUME k # l PROVE FALSE
  OBVIOUS
<1>1. k \in 1..n /\ l \in 1..n /\ Ahead(own, k, l) /\ Ahead(own, l, k)
  BY DEF FirstAmong
<1>2. PICK S : S = {own[k], own[l]}
  OBVIOUS
<1>3. S \subseteq ImportsIn(f) /\ (\A i \in S : i.line \in Nat) /\ own[k] \in S /\ own[l] \in S
  BY <1>1, <1>2
<1>4. ~(ImportBefore(own[k], own[l]) /\ ImportBefore(own[l], own[k]))
  BY <1>3, ImportsOrdered
<1> QED
  BY <1>1, <1>4 DEF Ahead

\* The import that a call goes through is the first of those that match it.
LEMMA FirstImportIsFirst ==
    ASSUME NEW ix, NEW call, NEW own, own = ImportsOf(ix, call.source.file),
           NEW k, FirstAmong(own, MatchedImports(ix, call), k)
    PROVE  \E l : FirstAmong(own, MatchedImports(ix, call), l) /\ FirstImport(ix, call) = own[l]
<1>1. PICK M : M = MatchedImports(ix, call)
  OBVIOUS
<1> DEFINE P(i) == \A j \in M \ {i} : \/ ImportBefore(own[i], own[j])
                                      \/ i < j /\ ~ImportBefore(own[j], own[i])
<1>2. \A i : FirstAmong(own, M, i) <=> i \in M /\ P(i)
  BY DEF FirstAmong, Ahead
<1>3. FirstImport(ix, call) = own[CHOOSE i \in M : P(i)]
  BY <1>1 DEF FirstImport
<1>4. \E i \in M : P(i)
  BY <1>1, <1>2
<1> HIDE DEF P
<1>5. PICK l : l = CHOOSE i \in M : P(i)
  OBVIOUS
<1>6. l \in M /\ P(l)
  BY <1>4, <1>5
<1> QED
  BY <1>1, <1>2, <1>3, <1>5, <1>6

\* Indexes that offer a call of the file the same, but for the lines of imports.
SameLookup(a, b, f) ==
    /\ ToSet(a.names) = ToSet(b.names) /\ a.sources = b.sources /\ a.files = b.files
    /\ ImportsAgree(ImportsOf(a, f), ImportsOf(b, f))
    /\ \A k \in 1..Len(ImportsOf(a, f)) : ImportsOf(a, f)[k] \in ImportsIn(f)
    /\ \A k \in 1..Len(ImportsOf(b, f)) : ImportsOf(b, f)[k] \in ImportsIn(f)

LEMMA SameFirstImport ==
    ASSUME NEW a, NEW b, NEW f \in Files, SameLookup(a, b, f), NEW p, NEW q, SameCall(p, q), p.source.file = f
    PROVE  /\ MatchedImports(a, p) = MatchedImports(b, q)
           /\ MatchedImports(a, p) # {} => SameImport(FirstImport(a, p), FirstImport(b, q))
<1>1. PICK own, new : own = ImportsOf(a, f) /\ new = ImportsOf(b, f)
  OBVIOUS
<1>2. /\ IsList(own) /\ IsList(new) /\ Len(own) = Len(new)
      /\ \A k \in 1..Len(own) : SameImport(own[k], new[k]) /\ own[k].line \in Nat /\ new[k].line \in Nat
      /\ \A j, k \in 1..Len(own) : own[j].line < own[k].line <=> new[j].line < new[k].line
  BY <1>1 DEF SameLookup, ImportsAgree
<1>3. PICK n \in Nat : n = Len(own) /\ DOMAIN own = 1..n /\ DOMAIN new = 1..n
  <2>1. DOMAIN own = 1..Len(own) /\ DOMAIN new = 1..Len(new) /\ Len(own) \in Nat
    BY <1>2, ListIsSequence
  <2> QED
    BY <1>2, <2>1
<1>4. \A k \in 1..n : own[k] \in ImportsIn(f) /\ new[k] \in ImportsIn(f)
  BY <1>1, <1>2, <1>3 DEF SameLookup
<1>5. p.source = q.source /\ p.name = q.name /\ p.kind = q.kind /\ p.qualifier = q.qualifier
  BY DEF SameCall
<1>6. \A x, y : SameImport(x, y) => (Matches(x, p) <=> Matches(y, q)) /\ Text(x) = Text(y)
  BY <1>5 DEF SameImport, Matches, Text
<1>7. PICK M : M = MatchedImports(a, p)
  OBVIOUS
<1>8. M = {k \in 1..n : Matches(own[k], p)}
  BY <1>1, <1>3, <1>7 DEF MatchedImports
<1>9. MatchedImports(b, q) = {k \in 1..n : Matches(new[k], q)}
  BY <1>1, <1>3, <1>5 DEF MatchedImports
<1>10. \A k \in 1..n : Matches(own[k], p) <=> Matches(new[k], q)
  BY <1>2, <1>3, <1>6
<1>11. M = MatchedImports(b, q) /\ M \subseteq 1..n
  BY <1>8, <1>9, <1>10
<1>12. ASSUME NEW j \in 1..n, NEW k \in 1..n PROVE ImportBefore(own[j], own[k]) <=> ImportBefore(new[j], new[k])
  <2>1. Text(own[j]) = Text(new[j]) /\ Text(own[k]) = Text(new[k])
    BY <1>2, <1>3, <1>6
  <2>2. /\ own[j].line < own[k].line <=> new[j].line < new[k].line
        /\ own[k].line < own[j].line <=> new[k].line < new[j].line
        /\ own[j].line \in Nat /\ own[k].line \in Nat /\ new[j].line \in Nat /\ new[k].line \in Nat
    BY <1>2, <1>3
  <2>3. own[j].line = own[k].line <=> new[j].line = new[k].line
    BY <2>2
  <2> QED
    BY <2>1, <2>2, <2>3 DEF ImportBefore
<1>13. \A k : FirstAmong(own, M, k) <=> FirstAmong(new, M, k)
  BY <1>11, <1>12 DEF FirstAmong, Ahead
<1>14. ASSUME M # {} PROVE SameImport(FirstImport(a, p), FirstImport(b, q))
  <2>1. \A k \in 1..n : own[k] \in ImportsIn(f) /\ own[k].line \in Nat
    BY <1>2, <1>3, <1>4
  <2>2. PICK k : FirstAmong(own, M, k)
    BY <1>11, <1>14, <2>1, FirstExists
  <2>3. FirstAmong(own, MatchedImports(a, p), k) /\ own = ImportsOf(a, p.source.file)
    BY <1>1, <1>7, <2>2
  <2>4. \E l : FirstAmong(own, M, l) /\ FirstImport(a, p) = own[l]
    BY <1>7, <2>3, FirstImportIsFirst
  <2>5. FirstAmong(new, MatchedImports(b, q), k) /\ new = ImportsOf(b, q.source.file)
    BY <1>1, <1>5, <1>11, <1>13, <2>2
  <2>6. \E l : FirstAmong(new, MatchedImports(b, q), l) /\ FirstImport(b, q) = new[l]
    BY <2>5, FirstImportIsFirst
  <2>7. \A l : FirstAmong(own, M, l) => l = k
    BY <1>11, <2>1, <2>2, OneFirst
  <2>8. FirstImport(a, p) = own[k] /\ FirstImport(b, q) = new[k]
    BY <1>11, <1>13, <2>4, <2>6, <2>7
  <2>9. k \in 1..n
    BY <1>11, <2>2 DEF FirstAmong
  <2> QED
    BY <1>2, <1>3, <2>8, <2>9
<1> QED
  BY <1>7, <1>11, <1>14

LEMMA SameModule ==
    ASSUME NEW x, NEW y, SameImport(x, y)
    PROVE  /\ \A g, f, kind : InModule(g, f, x, kind) <=> InModule(g, f, y, kind)
           /\ \A call : NameSought(x, call) = NameSought(y, call)
           /\ x.module = y.module
<1>1. x.module = y.module /\ x.imported = y.imported
  BY DEF SameImport
<1>2. \A f, kind : ModulePrefixes(f, x, kind) = ModulePrefixes(f, y, kind)
  BY <1>1 DEF ModulePrefixes
<1>3. \A f, kind : Dirs(f, x, kind) = Dirs(f, y, kind)
  BY <1>1, <1>2 DEF Dirs
<1>4. \A g, f, kind : InModule(g, f, x, kind) <=> InModule(g, f, y, kind)
  BY <1>2, <1>3 DEF InModule
<1> QED
  BY <1>1, <1>4 DEF NameSought

LEMMA SameResolution ==
    ASSUME NEW a, NEW b, NEW f \in Files, SameLookup(a, b, f), NEW p, NEW q, SameCall(p, q), p.source.file = f
    PROVE  ResolveCall(a, p) = ResolveCall(b, q)
<1>1. p.source = q.source /\ p.name = q.name /\ p.kind = q.kind /\ p.qualifier = q.qualifier
  BY DEF SameCall
<1>2. ToSet(a.names) = ToSet(b.names) /\ a.sources = b.sources /\ a.files = b.files
  BY DEF SameLookup
<1>3. \A name : Candidates(a, name) = Candidates(b, name)
  BY <1>2 DEF Candidates
<1>4. \A path : ByName(a, p, path) = ByName(b, q, path)
  BY <1>1, <1>3 DEF ByName
<1>5. ASSUME NEW x, NEW y, SameImport(x, y) PROVE ThroughImport(a, p, x) = ThroughImport(b, q, y)
  <2>1. /\ \A g, kind : InModule(g, f, x, kind) <=> InModule(g, f, y, kind)
        /\ \A call : NameSought(x, call) = NameSought(y, call)
        /\ x.module = y.module
    BY <1>5, SameModule
  <2>2. IsExternal(a, f, x, p.kind) <=> IsExternal(b, f, y, p.kind)
    BY <1>2, <2>1 DEF IsExternal
  <2>3. NameSought(x, p) = NameSought(y, q)
    BY <1>1, <2>1 DEF NameSought
  <2>4. PICK named : named = Candidates(a, NameSought(x, p)) /\ named = Candidates(b, NameSought(y, q))
    BY <1>3, <2>3
  <2>5. PICK P : P = {k \in DOMAIN named : InModule(named[k].file, f, x, p.kind)}
    OBVIOUS
  <2>6. P = {k \in DOMAIN named : InModule(named[k].file, f, y, p.kind)}
    BY <2>1, <2>5
  <2>7. PICK found : found = EntriesAt(named, P)
    OBVIOUS
  <2>8. CASE found # <<>>
    BY <1>1, <2>4, <2>5, <2>6, <2>7, <2>8 DEF ThroughImport
  <2>9. CASE found = <<>> /\ (p.kind = "bare" \/ IsExternal(a, f, x, p.kind))
    BY <1>1, <2>2, <2>4, <2>5, <2>6, <2>7, <2>9 DEF ThroughImport
  <2>10. CASE found = <<>> /\ ~(p.kind = "bare" \/ IsExternal(a, f, x, p.kind))
    BY <1>1, <1>4, <2>2, <2>4, <2>5, <2>6, <2>7, <2>10 DEF ThroughImport
  <2> QED
    BY <2>8, <2>9, <2>10
<1>6. \A c : FitsInFile(a, c, p) <=> FitsInFile(b, c, q)
  BY <1>1, <1>2 DEF FitsInFile
<1>7. SameFile(a, p) = SameFile(b, q)
  BY <1>1, <1>3, <1>6 DEF SameFile
<1>8. WithoutImport(a, p) = WithoutImport(b, q)
  BY <1>1, <1>3, <1>4, <1>7 DEF WithoutImport
<1>9. /\ MatchedImports(a, p) = MatchedImports(b, q)
      /\ MatchedImports(a, p) # {} => SameImport(FirstImport(a, p), FirstImport(b, q))
  BY SameFirstImport
<1> QED
  BY <1>5, <1>8, <1>9 DEF ResolveCall

-----------------------------------------------------------------------------
(* Edges and moves.                                                        *)

SameArrow(d, e) == d.source = e.source /\ d.target = e.target /\ d.confidence = e.confidence

LEMMA HitMoved ==
    ASSUME NEW a, NEW b, NEW f \in Files, SameLookup(a, b, f),
           NEW p, NEW q, CallsAgree(p, q), \A k \in 1..Len(p) : p[k].source.file = f,
           NEW e, Hit(a, p, e)
    PROVE  \E d : Hit(b, q, d) /\ SameArrow(d, e)
<1>1. PICK n \in Nat : n = Len(p) /\ n = Len(q)
  BY ListIsSequence DEF CallsAgree
<1>2. /\ \A k \in 1..n : SameCall(p[k], q[k])
      /\ \A j, k \in 1..n : p[j].line = p[k].line <=> q[j].line = q[k].line
  BY <1>1 DEF CallsAgree
<1>3. \A k \in 1..n : p[k].source = q[k].source /\ ResolveCall(a, p[k]) = ResolveCall(b, q[k])
  <2> SUFFICES ASSUME NEW k \in 1..n PROVE p[k].source = q[k].source /\ ResolveCall(a, p[k]) = ResolveCall(b, q[k])
    OBVIOUS
  <2>1. PICK x, y : x = p[k] /\ y = q[k]
    OBVIOUS
  <2>2. SameCall(x, y) /\ x.source.file = f
    BY <1>1, <1>2, <2>1
  <2>3. ResolveCall(a, x) = ResolveCall(b, y)
    BY <2>2, SameResolution
  <2> QED
    BY <2>1, <2>2, <2>3 DEF SameCall
<1>4. PICK i \in 1..n :
         /\ e \in EdgesOf(a, p[i])
         /\ \A j \in 1..(i - 1) : SameSite(p[j], e) => \A d \in EdgesOf(a, p[j]) : d.target # e.target
  BY <1>1 DEF Hit
<1>5. PICK s : s = e.target
  OBVIOUS
<1>6. /\ e.source = p[i].source /\ e.line = p[i].line /\ s \in ResolveCall(a, p[i]).targets /\ s # p[i].source
      /\ e.confidence = Confidence[ResolveCall(a, p[i]).path]
  BY <1>4, <1>5, EdgeOfCall
<1>7. PICK d \in EdgesOf(b, q[i]) : d.target = s
  <2>1. s \in ResolveCall(b, q[i]).targets /\ s # q[i].source
    BY <1>3, <1>6
  <2> QED
    BY <2>1, EdgeToTarget
<1>8. d.source = q[i].source /\ d.line = q[i].line /\ d.confidence = Confidence[ResolveCall(b, q[i]).path]
  BY <1>7, EdgeOfCall
<1>9. ASSUME NEW j \in 1..(i - 1), SameSite(q[j], d), NEW h \in EdgesOf(b, q[j]) PROVE h.target # d.target
  <2> SUFFICES ASSUME h.target = s PROVE FALSE
    BY <1>7
  <2>1. j \in 1..n
    OBVIOUS
  <2>2. s \in ResolveCall(b, q[j]).targets /\ s # q[j].source
    BY EdgeOfCall
  <2>3. s \in ResolveCall(a, p[j]).targets /\ s # p[j].source
    BY <1>3, <2>1, <2>2
  <2>4. PICK g \in EdgesOf(a, p[j]) : g.target = s
    BY <2>3, EdgeToTarget
  <2>5. q[j].source = q[i].source /\ q[j].line = q[i].line
    BY <1>8, <1>9 DEF SameSite
  <2>6. p[j].line = p[i].line
    BY <1>2, <2>1, <2>5
  <2>7. p[j].source = p[i].source
    BY <1>3, <2>1, <2>5
  <2>8. SameSite(p[j], e)
    BY <1>6, <2>6, <2>7 DEF SameSite
  <2> QED
    BY <1>4, <1>5, <2>4, <2>8
<1>10. Hit(b, q, d)
  BY <1>1, <1>7, <1>9 DEF Hit
<1>11. SameArrow(d, e)
  BY <1>3, <1>5, <1>6, <1>7, <1>8 DEF SameArrow
<1> QED
  BY <1>10, <1>11

LEMMA ImportRowsAreImports ==
    ASSUME NEW f \in Files, NEW c, c[f] \in Versions[f] \union {None}
    PROVE  \A k \in 1..Len(ImportsPart(c)[f]) : ImportsPart(c)[f][k] \in ImportsIn(f)
<1>1. CASE c[f] = None
  <2>1. ImportsPart(c)[f] = <<>>
    BY <1>1 DEF ImportsPart
  <2> QED
    BY <2>1
<1>2. CASE c[f] # None
  <2>1. PICK t \in Versions[f] : t = c[f]
    BY <1>2
  <2>2. PICK rows : rows = Extracted[f][t].imports
    OBVIOUS
  <2>3. ImportsPart(c)[f] = rows
    BY <1>2, <2>1, <2>2 DEF ImportsPart
  <2>4. rows \in Seq(AllImports)
    BY <2>2, ExtractedTyped
  <2>5. ToSet(rows) = {rows[k] : k \in 1..Len(rows)}
    BY <2>4, SequenceIsList
  <2>6. ToSet(rows) \subseteq ImportsIn(f)
    BY <2>1, <2>2 DEF ImportsIn
  <2> QED
    BY <2>3, <2>5, <2>6
<1> QED
  BY <1>1, <1>2

LEMMA LookupMoved ==
    ASSUME NEW t, NEW u, NEW c, NEW d, Holds(t, c), Holds(u, d), NEW f \in Files,
           \A g \in Files : PartsAgree(c, d, g),
           c[f] \in Versions[f] \union {None}, d[f] \in Versions[f] \union {None}
    PROVE  SameLookup(Indexes(t), Indexes(u), f)
<1>1. t.files = u.files
  BY DEF Holds, PartsAgree
<1>2. ToSet(t.symbols) = ToSet(u.symbols)
  <2>1. \A g \in Files : SymbolsPart(c)[g] = SymbolsPart(d)[g]
    BY DEF PartsAgree
  <2>2. \A x : x \in ToSet(t.symbols) <=> \E g \in Files : x \in AllSymbols /\ x.file = g /\ x \in ToSet(SymbolsPart(c)[g])
    BY RowsAre
  <2>3. \A x : x \in ToSet(u.symbols) <=> \E g \in Files : x \in AllSymbols /\ x.file = g /\ x \in ToSet(SymbolsPart(d)[g])
    BY RowsAre
  <2>4. \A x : x \in ToSet(t.symbols) <=> x \in ToSet(u.symbols)
    BY <2>1, <2>2, <2>3
  <2> QED
    BY <2>4
<1>3. ImportsOf(Indexes(t), f) = ImportsPart(c)[f] /\ ImportsOf(Indexes(u), f) = ImportsPart(d)[f]
  BY FileRows
<1>4. ImportsAgree(ImportsPart(c)[f], ImportsPart(d)[f])
  BY DEF PartsAgree
<1>5. /\ \A k \in 1..Len(ImportsPart(c)[f]) : ImportsPart(c)[f][k] \in ImportsIn(f)
      /\ \A k \in 1..Len(ImportsPart(d)[f]) : ImportsPart(d)[f][k] \in ImportsIn(f)
  BY ImportRowsAreImports
<1>6. /\ Indexes(t).names = t.symbols /\ Indexes(t).sources = ToSet(t.symbols) /\ Indexes(t).files = t.files
      /\ Indexes(u).names = u.symbols /\ Indexes(u).sources = ToSet(u.symbols) /\ Indexes(u).files = u.files
  BY DEF Indexes
<1> QED
  BY <1>1, <1>2, <1>3, <1>4, <1>5, <1>6 DEF SameLookup

\* Every edge is drawn again, on the line the call now has.
LEMMA DerivedMoved ==
    ASSUME NEW t, NEW u, NEW c, NEW d, Holds(t, c), Holds(u, d),
           \A g \in Files : /\ PartsAgree(c, d, g)
                            /\ c[g] \in Versions[g] \union {None} /\ d[g] \in Versions[g] \union {None},
           NEW e \in Derived(t)
    PROVE  \E h \in Derived(u) : SameArrow(h, e)
<1>1. PICK a, b : a = Indexes(t) /\ b = Indexes(u)
  OBVIOUS
<1>2. IsList(t.pending) /\ ToSet(t.pending) \subseteq AllCalls /\ IsList(u.pending) /\ ToSet(u.pending) \subseteq AllCalls
  BY RowsAre
<1>3. t.pending \in Seq(AllCalls) /\ u.pending \in Seq(AllCalls)
  BY DEF Holds, Table
<1>4. Hit(a, t.pending, e)
  BY <1>1, <1>2, DerivedIsHits
<1>5. PICK i \in 1..Len(t.pending) : e \in EdgesOf(a, t.pending[i])
  BY <1>4 DEF Hit
<1>6. PICK f \in Files : f = e.source.file
  <2>1. t.pending[i] \in AllCalls /\ e.source = t.pending[i].source
    BY <1>3, <1>5, EdgeOfCall
  <2> QED
    BY <2>1, RowsHaveFiles
<1>7. PICK S : S = {r \in AllCalls : r.source.file = f}
  OBVIOUS
<1>8. PICK own, new : own = CallsPart(c)[f] /\ new = CallsPart(d)[f]
  OBVIOUS
<1>9. EntriesIn(t.pending, S) = own /\ EntriesIn(u.pending, S) = new
  BY <1>7, <1>8, FileRows
<1>10. Hit(a, own, e)
  BY <1>3, <1>4, <1>6, <1>7, <1>9, HitInFile
<1>11. own \in Seq(AllCalls) /\ \A k \in 1..Len(own) : own[k] \in S
  BY <1>3, <1>9, EntriesInType
<1>12. \A k \in 1..Len(own) : own[k].source.file = f
  BY <1>7, <1>11
<1>13. SameLookup(a, b, f)
  BY <1>1, LookupMoved
<1>14. CallsAgree(own, new)
  BY <1>8 DEF PartsAgree
<1>15. PICK h : Hit(b, new, h) /\ SameArrow(h, e)
  BY <1>10, <1>12, <1>13, <1>14, HitMoved
<1>16. h.source.file = f
  BY <1>6, <1>15 DEF SameArrow
<1>17. Hit(b, u.pending, h)
  BY <1>3, <1>7, <1>9, <1>15, <1>16, HitInFile
<1> QED
  BY <1>1, <1>2, <1>15, <1>17, DerivedIsHits

LEMMA DrawnMoved ==
    ASSUME NEW es, NEW fs, \A e \in es : \E h \in fs : SameArrow(h, e)
    PROVE  Drawn(es) \subseteq Drawn(fs)
<1> SUFFICES ASSUME NEW e \in es
             PROVE  [source |-> e.source, target |-> e.target, confidence |-> e.confidence] \in Drawn(fs)
  BY DEF Drawn
<1>1. PICK h \in fs : SameArrow(h, e)
  OBVIOUS
<1>2. [source |-> h.source, target |-> h.target, confidence |-> h.confidence] \in Drawn(fs)
  BY DEF Drawn
<1> QED
  BY <1>1, <1>2 DEF SameArrow

\* Between two states that satisfy the invariant.
MovesKeep ==
    (\A f \in repo : OnlyMoved(content[f], content'[f])) =>
        ToSet(tables'.symbols) = ToSet(tables.symbols) /\ Drawn(edges') = Drawn(edges)

LEMMA StepMoves ==
    ASSUME TablesFollowContent, TablesFollowContent', repo' = repo
    PROVE  MovesKeep
<1> SUFFICES ASSUME \A f \in repo : OnlyMoved(content[f], content'[f])
             PROVE  ToSet(tables'.symbols) = ToSet(tables.symbols) /\ Drawn(edges') = Drawn(edges)
  BY DEF MovesKeep
<1>1. PICK c, d, t, u : c = Whole /\ d = Whole' /\ t = tables /\ u = tables'
  OBVIOUS
<1>2. Holds(t, c) /\ Holds(u, d) /\ edges = Derived(t) /\ edges' = Derived(u)
  BY <1>1 DEF TablesFollowContent
<1>3. ASSUME NEW f \in Files
      PROVE  /\ c[f] \in Versions[f] \union {None} /\ d[f] \in Versions[f] \union {None}
             /\ OnlyMoved(c[f], d[f])
  <2>1. CASE f \in repo
    <3>1. c[f] = content[f] /\ d[f] = content'[f]
      BY <1>1, <2>1 DEF Whole
    <3>2. content[f] \in Versions[f] \union {None} /\ content'[f] \in Versions[f] \union {None}
      BY <2>1 DEF TablesFollowContent, Contents
    <3> QED
      BY <2>1, <3>1, <3>2
  <2>2. CASE f \notin repo
    <3>1. c[f] = None /\ d[f] = None
      BY <1>1, <2>2 DEF Whole
    <3> QED
      BY <3>1 DEF OnlyMoved
  <2> QED
    BY <2>1, <2>2
<1>4. \A f \in Files : PartsAgree(c, d, f) /\ PartsAgree(d, c, f)
  BY <1>3, PartsMoved
<1>5. ToSet(t.symbols) = ToSet(u.symbols)
  <2>1. \A x : x \in ToSet(t.symbols) <=> \E f \in Files : x \in AllSymbols /\ x.file = f /\ x \in ToSet(SymbolsPart(c)[f])
    BY <1>2, RowsAre
  <2>2. \A x : x \in ToSet(u.symbols) <=> \E f \in Files : x \in AllSymbols /\ x.file = f /\ x \in ToSet(SymbolsPart(d)[f])
    BY <1>2, RowsAre
  <2>3. \A f \in Files : SymbolsPart(c)[f] = SymbolsPart(d)[f]
    BY <1>4 DEF PartsAgree
  <2>4. \A x : x \in ToSet(t.symbols) <=> x \in ToSet(u.symbols)
    BY <2>1, <2>2, <2>3
  <2> QED
    BY <2>4
<1>6. \A e \in Derived(t) : \E h \in Derived(u) : SameArrow(h, e)
  BY <1>2, <1>3, <1>4, DerivedMoved
<1>7. \A e \in Derived(u) : \E h \in Derived(t) : SameArrow(h, e)
  BY <1>2, <1>3, <1>4, DerivedMoved
<1>8. Drawn(edges) = Drawn(edges')
  <2>1. PICK es, fs : es = Derived(t) /\ fs = Derived(u)
    OBVIOUS
  <2>2. Drawn(es) \subseteq Drawn(fs) /\ Drawn(fs) \subseteq Drawn(es)
    BY <1>6, <1>7, <2>1, DrawnMoved
  <2> QED
    BY <1>2, <2>1, <2>2
<1> QED
  BY <1>1, <1>5, <1>8

\* Edits that only move what files hold to other lines change no symbol, and each edge still
\* joins the same symbols with the same confidence (MovesChangeNothing of Resolver).
THEOREM MovesAlwaysChangeNothing ==
    ExplainSpec => MovesChangeNothing
<1>1. TablesFollowContent /\ TablesFollowContent' /\ [ExplainNext]_explainVars => [MovesKeep]_vars
  BY StepMoves, StepKeepsRepo
<1>2. ExplainSpec => [][MovesKeep]_vars
  BY <1>1, TablesAlwaysFollow, PTL DEF ExplainSpec
<1> QED
  BY <1>2, PTL DEF MovesChangeNothing, MovesKeep
=============================================================================
