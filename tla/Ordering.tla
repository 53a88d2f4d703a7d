------------------------------ MODULE Ordering ------------------------------
(***************************************************************************)
(* Sorting and filtering as functions of positions.                        *)
(***************************************************************************)
EXTENDS Naturals, Sequences, FiniteSets

\* The elements of a set in a total order of them: at each place stands the one with as
\* many before it.
InOrder(S, Before(_, _)) ==
    [k \in 1..Cardinality(S) |-> CHOOSE x \in S : Cardinality({y \in S : Before(y, x)}) = k - 1]

\* The entries of a sequence at some positions, in their order.
EntriesAt(s, positions) ==
    LET among[n \in 0..Len(s)] ==
          IF n = 0 THEN <<>>
          ELSE IF n \in positions THEN Append(among[n - 1], s[n]) ELSE among[n - 1]
    IN  among[Len(s)]
=============================================================================
