----------------------------- MODULE MCQueries -----------------------------
(* Five symbols in four files, eleven possible calls: every graph of them. *)
EXTENDS Queries

CONSTANTS k1, b1, b2, NoHash, g1, g2, x1, x2, NoEnd, Unset

MCSymbols == 1..5
MCFiles == 1..4
MCFileOf == <<1, 1, 2, 3, 4>>
MCRank == <<1, 2, 3, 4, 5>>

Site(s, t, n) == [source |-> s, target |-> t, line |-> n]
MCSites ==
    {Site(1, 3, 1), Site(1, 3, 2), Site(3, 4, 1), Site(4, 1, 1), Site(4, 3, 1), Site(2, 3, 1),
     Site(3, 5, 1), Site(5, 4, 1), Site(1, 5, 1), Site(1, 2, 1), Site(4, 5, 1)}

Asking(direction, depth, limit, starts) ==
    [direction |-> direction, depth |-> depth, limit |-> limit, starts |-> starts, left |-> starts]

\* Depths below 1 and beyond the bound; limits above and below the cap; one matched
\* symbol, several, and none.
MCAsks ==
    {Asking("outgoing", 3, 9, <<1>>), Asking("outgoing", 2, 9, <<1, 3>>), Asking("incoming", 9, 2, <<4>>),
     Asking("incoming", 0, 2, <<3, 5>>), Asking("outgoing", 1, 9, <<>>)}

\* A file, a test file with another, and one that the index does not know.
MCInputs ==
    {[files |-> {3}, depth |-> 2], [files |-> {2, 4}, depth |-> 9], [files |-> {1, 7}, depth |-> 1]}

RowSeqs(rows) == UNION {[1..n -> rows] : n \in 0..2}
SomeRows == RowSeqs([signature : {g1, g2}, body : {b1, b2}]) \union RowSeqs([signature : {g1, g2}, body : {NoHash}])

MCGraphs ==
    {[rows |-> (k1 :> r), edges |-> {}] : r \in SomeRows}
    \union {[rows |-> (k1 :> <<>>), edges |-> e] : e \in SUBSET [ends : {x1, x2}, line : 1..3]}
=============================================================================
