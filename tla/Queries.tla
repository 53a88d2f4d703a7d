------------------------------ MODULE Queries ------------------------------
(***************************************************************************)
(* One query at a time over one committed graph, as a connection serves    *)
(* them: a walk from some symbols, the tests affected by some files, the   *)
(* cycles between files, or the diff of two graphs.                        *)
(***************************************************************************)
EXTENDS Traversal, Affected, Cycles, GraphDiff

CONSTANTS
    Asks,       \* walks that may be asked for
    Inputs,     \* changed files that may be given
    Graphs      \* graphs that may be compared

ASSUME QueriesAssumption ==
    /\ \A a \in Asks : IsAsk(a) /\ a.left = a.starts
    /\ \A i \in Inputs : i.depth \in Nat
    /\ \A g \in Graphs : IsGraph(g)

vars == <<calls, traversal, affecting, cycling, diffing>>

Walking == TraversalInit(Asks) /\ AffectedIdle /\ CyclesIdle /\ DiffIdle
Attributing == TraversalIdle /\ AffectedInit(Inputs) /\ CyclesIdle /\ DiffIdle
Grouping == TraversalIdle /\ AffectedIdle /\ CyclesInit /\ DiffIdle
Comparing == TraversalIdle /\ AffectedIdle /\ CyclesIdle /\ DiffInit(Graphs)

Init ==
    \/ AnyGraph /\ (Walking \/ Attributing \/ Grouping)
    \/ calls = {} /\ Comparing

Next ==
    \/ TraversalStep /\ UNCHANGED <<calls, affecting, cycling, diffing>>
    \/ AffectedStep /\ UNCHANGED <<calls, traversal, cycling, diffing>>
    \/ CyclesStep /\ UNCHANGED <<calls, traversal, affecting, diffing>>
    \/ Compare /\ UNCHANGED <<calls, traversal, affecting, cycling>>

Spec == Init /\ [][Next]_vars

\* A query runs to its end.
FairSpec == Spec /\ WF_vars(Next)

TypeOK ==
    /\ calls \subseteq Sites
    /\ TraversalTypeOK /\ AffectedTypeOK /\ CyclesTypeOK /\ DiffTypeOK

\* On every graph, cycles of calls included, each query comes to its answer.
EveryQueryAnswers ==
    <>(\/ walk.pc = "done" \/ apc = "done" \/ cpc = "done" \/ dpc = "done")
=============================================================================
