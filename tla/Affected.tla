------------------------------ MODULE Affected ------------------------------
(***************************************************************************)
(* affected (query/affected.rs): from the symbols of the changed files,    *)
(* one breadth-first walk along incoming call edges, then a report by      *)
(* file: test files that are reached, and other files that are.            *)
(***************************************************************************)
EXTENDS CallGraph, SequencesExt

CONSTANTS
    Tests,          \* the files is_test_file accepts
    Unreached,      \* no entry in `reached`
    FileCap         \* AFFECTED_FILE_CAP

ASSUME AffectedAssumption ==
    Tests \subseteq Files /\ Unreached \notin Nat /\ FileCap \in Nat \ {0}

VARIABLES
    input,      \* files, and the depth asked for
    apc,
    pending,    \* the queue: symbols, each with its hops
    reached,    \* hops of each symbol reached
    report      \* affected_tests, impacted_files and truncated

affecting == <<input, apc, pending, reached, report>>

NoReport == [tests |-> <<>>, impacted |-> <<>>, truncated |-> FALSE]

AffectedInit(inputs) ==
    /\ input \in inputs
    /\ apc = "seed" /\ pending = <<>>
    /\ reached = [s \in Symbols |-> Unreached]
    /\ report = NoReport

AffectedIdle ==
    /\ input = [files |-> {}, depth |-> 1]
    /\ apc = "idle" /\ pending = <<>>
    /\ reached = [s \in Symbols |-> Unreached]
    /\ report = NoReport

AffectedDepth == NormalizeDepth(input.depth)

\* Files the index does not know drop out here.
Changed == input.files \intersect Files

\* The symbols come out of a hash map, in any order.
Seed ==
    /\ apc = "seed"
    /\ LET seeds == {s \in Symbols : FileOf[s] \in Changed}
       IN  /\ reached' = [s \in Symbols |-> IF s \in seeds THEN 0 ELSE Unreached]
           /\ \E order \in SetToSeqs(seeds) :
                 pending' = [i \in DOMAIN order |-> [symbol |-> order[i], hops |-> 0]]
    /\ apc' = "walk"
    /\ UNCHANGED <<input, report>>

Callers(s) == {e.source : e \in DirectEdges(s, "incoming")}

\* The callers that a symbol taken from the queue adds to it.
ReachFrom(at, rest) ==
    LET new == IF at.hops >= AffectedDepth THEN {}
               ELSE {s \in Callers(at.symbol) : reached[s] = Unreached}
    IN  /\ reached' = [s \in Symbols |-> IF s \in new THEN at.hops + 1 ELSE reached[s]]
        /\ \E order \in SetToSeqs(new) :
              pending' = rest \o [i \in DOMAIN order |-> [symbol |-> order[i], hops |-> at.hops + 1]]

PopBack ==
    /\ apc = "walk" /\ pending # <<>>
    /\ ReachFrom(Last(pending), Front(pending))
    /\ UNCHANGED <<input, apc, report>>

Pop ==
    /\ apc = "walk" /\ pending # <<>>
    /\ ReachFrom(Head(pending), Tail(pending))
    /\ UNCHANGED <<input, apc, report>>

HopsIn(f) == {reached[s] : s \in {s \in Symbols : FileOf[s] = f}} \ {Unreached}

\* Nearest file first, and not more of them than the cap; paths break ties.
Listed(files) ==
    LET order == InOrder(files, LAMBDA f, g :
                    Min(HopsIn(f)) < Min(HopsIn(g)) \/ (Min(HopsIn(f)) = Min(HopsIn(g)) /\ f < g))
    IN  [i \in 1..Min({FileCap, Len(order)}) |->
            [file |-> order[i], min_hops |-> Min(HopsIn(order[i]))]]

\* A changed file that is not a test is the input, not a finding.
Report ==
    /\ apc = "walk" /\ pending = <<>>
    /\ LET files == {f \in Files : HopsIn(f) # {}}
           tests == files \intersect Tests
           impacted == files \ (Tests \union Changed)
       IN  report' = [tests |-> Listed(tests), impacted |-> Listed(impacted),
                      truncated |-> Cardinality(tests) > FileCap \/ Cardinality(impacted) > FileCap]
    /\ apc' = "done"
    /\ UNCHANGED <<input, pending, reached>>

AffectedStep == Seed \/ Pop \/ Report

-----------------------------------------------------------------------------
AffectedTypeOK ==
    /\ input.depth \in Nat
    /\ apc \in {"idle", "seed", "walk", "done"}
    /\ pending \in Seq([symbol : Symbols, hops : 0..MaxDepth])
    /\ reached \in [Symbols -> (0..MaxDepth) \union {Unreached}]
    /\ report \in [tests : Seq([file : Files, min_hops : 0..MaxDepth]),
                   impacted : Seq([file : Files, min_hops : 0..MaxDepth]), truncated : BOOLEAN]

\* The files with a symbol at most n hops above a changed one.
Above(n) ==
    {FileOf[s] : s \in Ball({s \in Symbols : FileOf[s] \in Changed}, "incoming", n)}

DistanceOf(f) == Min({n \in 0..AffectedDepth : f \in Above(n)})

\* A list of the report has the files due, nearest first, as many as it may hold.
ListIsExact(rows, due) ==
    LET listed == {rows[i].file : i \in DOMAIN rows}
    IN  /\ listed \subseteq due
        /\ Cardinality(listed) = Len(rows) /\ Len(rows) = Min({FileCap, Cardinality(due)})
        /\ \A i \in DOMAIN rows :
              /\ rows[i].min_hops = DistanceOf(rows[i].file)
              /\ \A f \in due \ listed : DistanceOf(f) >= rows[i].min_hops

\* min_hops is the "shortest caller-path length from this file to a changed symbol", the
\* lists have exactly the files within the depth, and what a cut list has lost is no
\* nearer than what it kept, in whatever order the maps are read.
AffectedIsExact ==
    apc = "done" =>
        LET tests == Above(AffectedDepth) \intersect Tests
            impacted == Above(AffectedDepth) \ (Tests \union Changed)
        IN  /\ ListIsExact(report.tests, tests)
            /\ ListIsExact(report.impacted, impacted)
            /\ report.truncated <=> Cardinality(tests) > FileCap \/ Cardinality(impacted) > FileCap
=============================================================================
