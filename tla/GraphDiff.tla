------------------------------ MODULE GraphDiff ------------------------------
(***************************************************************************)
(* diff (query/diff.rs): what changed between two graphs.  Symbols are     *)
(* matched by (file, qualified name, kind) and then row by row; calls are  *)
(* compared with their lines and counted once more without them.           *)
(***************************************************************************)
EXTENDS Naturals, FiniteSets, SequencesExt

CONSTANTS
    Keys,       \* (file_path, qualified_name, kind)
    Bodies,     \* body hashes
    NoBody,     \* a row of an index older than body hashes: the rows of a key come from
                \* one file, indexed at once, and all have a body hash or none has
    Signatures, \* signature and span length of a symbol
    Ends        \* the two ends of a call, by file and qualified name

ASSUME DiffAssumption == NoBody \notin Bodies /\ IsFiniteSet(Ends)

\* One graph: for each key its rows in insertion order, and the canonical calls.
SymbolRow == [signature : Signatures, body : Bodies \union {NoBody}]
CanonEdge == [ends : Ends, line : Nat]

VARIABLES
    dpc,
    before,     \* [rows, edges] of the first graph
    after,      \* of the second
    diff        \* the diff, in counts and keys

diffing == <<dpc, before, after, diff>>

\* Rows are of one version of the tool for each key.
IsGraph(g) ==
    /\ g.rows \in [Keys -> Seq(SymbolRow)]
    /\ \A k \in Keys : \A i, j \in DOMAIN g.rows[k] : g.rows[k][i].body = NoBody => g.rows[k][j].body = NoBody
    /\ g.edges \subseteq CanonEdge /\ IsFiniteSet(g.edges)

NoDiff == [added |-> {}, removed |-> {}, changed |-> {}, addedEdges |-> {}, removedEdges |-> {},
           addedCalls |-> 0, removedCalls |-> 0]

DiffInit(graphs) ==
    /\ dpc = "compare"
    /\ before \in graphs /\ after \in graphs
    /\ diff = NoDiff

NoGraph == [rows |-> [k \in Keys |-> <<>>], edges |-> {}]

DiffIdle == dpc = "idle" /\ before = NoGraph /\ after = NoGraph /\ diff = NoDiff

KeysOf(g) == {k \in Keys : g.rows[k] # <<>>}

\* rows_equivalent: a missing body hash matches any.
RowsEquivalent(b, a) ==
    /\ b.signature = a.signature
    /\ b.body = NoBody \/ a.body = NoBody \/ b.body = a.body

RowsUnchangedByOverlap(bs, as) ==
    /\ Len(bs) = Len(as)
    /\ \A i \in DOMAIN as : \E j \in DOMAIN bs : RowsEquivalent(bs[j], as[i])

\* rows_unchanged: each row after takes the first unused row before that fits.
RowsUnchanged(bs, as) ==
    LET used[i \in 0..Len(as)] ==       \* the rows taken by the first i, or {0} if one failed
          IF i = 0 THEN {}
          ELSE LET fits == {j \in DOMAIN bs \ used[i - 1] : RowsEquivalent(bs[j], as[i])}
               IN  IF used[i - 1] = {0} \/ fits = {} THEN {0} ELSE used[i - 1] \union {Min(fits)}
    IN  Len(bs) = Len(as) /\ used[Len(as)] # {0}

SurplusByEnds(more, less) == Cardinality({e.ends : e \in more} \ {e.ends : e \in less})

\* line_insensitive_edge_counts: per pair of ends, what does not cancel.
Surplus(more, less) ==
    LET count(S, x) == Cardinality({e \in S : e.ends = x})
        over(x) == IF count(more, x) > count(less, x) THEN count(more, x) - count(less, x) ELSE 0
    IN  SumFunction([x \in Ends |-> over(x)])

\* diff_graphs.
Compare ==
    /\ dpc = "compare"
    /\ LET added == after.edges \ before.edges
           removed == before.edges \ after.edges
       IN  diff' = [added |-> KeysOf(after) \ KeysOf(before),
                    removed |-> KeysOf(before) \ KeysOf(after),
                    changed |-> {k \in KeysOf(before) \intersect KeysOf(after) :
                                    ~RowsUnchanged(before.rows[k], after.rows[k])},
                    addedEdges |-> added, removedEdges |-> removed,
                    addedCalls |-> Surplus(added, removed),
                    removedCalls |-> Surplus(removed, added)]
    /\ dpc' = "done"
    /\ UNCHANGED <<before, after>>

-----------------------------------------------------------------------------
DiffTypeOK ==
    /\ dpc \in {"idle", "compare", "done"}
    /\ IsGraph(before) /\ IsGraph(after)
    /\ diff.changed \subseteq Keys /\ diff.addedCalls \in Nat /\ diff.removedCalls \in Nat

\* Reference: the rows of a key can be paired off, in some order.
Pairing(bs, as) ==
    \E p \in SetToSeqs(DOMAIN bs) :
        Len(as) = Len(bs) /\ \A i \in DOMAIN as : RowsEquivalent(bs[p[i]], as[i])

\* A key is called changed only if no pairing of its rows shows it unchanged: the greedy
\* matching never misses one, whatever order overloads were inserted in.
ChangedMeansChanged ==
    dpc = "done" =>
        \A k \in KeysOf(before) \intersect KeysOf(after) :
            k \in diff.changed <=> ~Pairing(before.rows[k], after.rows[k])

CallsBetween(g, x) == Cardinality({e \in g.edges : e.ends = x})

\* "after canceling pairs that only moved lines": the counts are those of the two graphs
\* with the lines erased, as if unchanged calls had never been taken out first.
MovedCallsCancel ==
    dpc = "done" =>
        LET gain(g, h) == SumFunction([x \in Ends |-> IF CallsBetween(h, x) > CallsBetween(g, x)
                                                THEN CallsBetween(h, x) - CallsBetween(g, x) ELSE 0])
        IN  diff.addedCalls = gain(before, after) /\ diff.removedCalls = gain(after, before)
=============================================================================
