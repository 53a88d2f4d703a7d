----------------------------- MODULE CallGraph -----------------------------
(***************************************************************************)
(* The committed call graph as a query reads it: the edges table joined    *)
(* with symbols, and what "within so many hops" means on it.               *)
(***************************************************************************)
EXTENDS Naturals, FiniteSets, Sequences, Ordering

CONSTANTS
    Symbols,    \* symbol ids
    Files,      \* paths of the indexed files, numbered in their order
    FileOf,     \* the file of each symbol
    Rank,       \* the place of each symbol by file_path, start_line
    Sites,      \* the call edges this graph may have: [source, target, line]
    MaxDepth    \* MAX_IMPACT_DEPTH

ASSUME GraphAssumption ==
    /\ Files \subseteq Nat /\ IsFiniteSet(Files) /\ IsFiniteSet(Symbols) /\ IsFiniteSet(Sites)
    /\ FileOf \in [Symbols -> Files]
    /\ Rank \in [Symbols -> Nat]
    /\ Sites \subseteq [source : Symbols, target : Symbols, line : Nat]
    /\ MaxDepth \in Nat \ {0}

VARIABLE calls      \* the edges table

\* rebuild_edges inserts no edge from a symbol to itself.
AnyGraph == calls \in SUBSET {e \in Sites : e.source # e.target}

Directions == {"incoming", "outgoing"}

\* The end of an edge that a walk starts from, and the one it comes to.
Near(e, direction) == IF direction = "incoming" THEN e.target ELSE e.source
Far(e, direction) == IF direction = "incoming" THEN e.source ELSE e.target

DirectEdges(s, direction) == {e \in calls : Near(e, direction) = s}

NormalizeDepth(depth) == IF depth < 1 THEN 1 ELSE IF depth > MaxDepth THEN MaxDepth ELSE depth

\* Reference: the symbols at most n hops from one of `from`.
Ball(from, direction, n) ==
    LET ball[k \in 0..n] ==
          IF k = 0 THEN from
          ELSE LET nearer == ball[k - 1]
               IN  nearer \union {Far(e, direction) : e \in {e \in calls : Near(e, direction) \in nearer}}
    IN  ball[n]
=============================================================================
