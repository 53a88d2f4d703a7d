----------------------------- MODULE Traversal -----------------------------
(***************************************************************************)
(* callers, callees and each half of impact (query/graph.rs): one          *)
(* breadth-first walk per symbol that the query matched, at most Cap edges *)
(* each, then the walks' edges together, without repetition, capped again, *)
(* and cut to the limit of the request.  An answer that leaves an edge out *)
(* ends with a marker row.                                                 *)
(***************************************************************************)
EXTENDS CallGraph, SequencesExt

CONSTANTS
    Cap,        \* EDGE_CAP_PER_DIRECTION
    Truncated   \* what a marker row has in the place of an edge's end

ASSUME TraversalAssumption == Cap \in Nat \ {0} /\ Truncated \notin Symbols

VARIABLES
    ask,        \* direction, depth and limit, the matched symbols in the order of the search
                \* (starts), and those still to walk from (left)
    walk,       \* the walk of one of them
    answer      \* the rows so far; once `done`, the answer

traversal == <<ask, walk, answer>>

\* at: the symbol that is being expanded, with its hops; fan: its edges not read yet;
\* queue: those to expand after it.
Nowhere == [symbol |-> Truncated, hops |-> 0]
NoWalk == [pc |-> "next", at |-> Nowhere, fan |-> {}, queue |-> <<>>, visited |-> {}, rows |-> <<>>]

TraversalInit(asks) ==
    /\ ask \in asks
    /\ walk = NoWalk
    /\ answer = <<>>

TraversalIdle ==
    /\ ask = [direction |-> "incoming", depth |-> 1, limit |-> 0, starts |-> <<>>, left |-> <<>>]
    /\ walk = [NoWalk EXCEPT !.pc = "idle"]
    /\ answer = <<>>

Depth == NormalizeDepth(ask.depth)

\* edges_for_symbol_id_with_depth is called for the next symbol.
StartWalk ==
    /\ walk.pc = "next" /\ ask.left # <<>>
    /\ LET s == Head(ask.left)
       IN  walk' = [NoWalk EXCEPT !.pc = "walk", !.visited = {s},
                                  !.queue = <<[symbol |-> s, hops |-> 0]>>]
    /\ ask' = [ask EXCEPT !.left = Tail(@)]
    /\ UNCHANGED answer

ExpandTooFar ==
    /\ walk.pc = "walk" /\ walk.fan = {} /\ walk.queue # <<>>
    /\ LET next == Head(walk.queue)
       IN  walk' = [walk EXCEPT !.queue = Tail(@), !.at = next,
                                !.fan = IF next.hops > Depth THEN {}
                                        ELSE DirectEdges(next.symbol, ask.direction)]
    /\ UNCHANGED <<ask, answer>>

\* The next symbol of the queue; those at the full depth are not expanded.
Expand ==
    /\ walk.pc = "walk" /\ walk.fan = {} /\ walk.queue # <<>>
    /\ LET next == Head(walk.queue)
       IN  walk' = [walk EXCEPT !.queue = Tail(@), !.at = next,
                                !.fan = IF next.hops >= Depth THEN {}
                                        ELSE DirectEdges(next.symbol, ask.direction)]
    /\ UNCHANGED <<ask, answer>>

\* truncated_edge: a row that stands for the edges left out, by the hops where they begin.
Marker(symbol, hops) ==
    [edge |-> [source |-> Truncated, target |-> symbol, line |-> 0], hops |-> hops]
IsMarker(row) == row.edge.source = Truncated

\* ORDER BY the far end's place; parallel calls come in any order.
NextEdges ==
    {e \in walk.fan : \A f \in walk.fan :
        Rank[Far(e, ask.direction)] <= Rank[Far(f, ask.direction)]}

FollowDepthFirst(e) ==
    LET next == Far(e, ask.direction)
        new == next \notin walk.visited
    IN  /\ Len(walk.rows) < Cap
        /\ walk' = [walk EXCEPT
              !.fan = @ \ {e},
              !.rows = Append(@, [edge |-> e, hops |-> walk.at.hops + 1]),
              !.visited = @ \union {next},
              !.queue = IF new THEN <<[symbol |-> next, hops |-> walk.at.hops + 1]>> \o @ ELSE @]
        /\ UNCHANGED <<ask, answer>>

Follow(e) ==
    LET next == Far(e, ask.direction)
        new == next \notin walk.visited
    IN  /\ Len(walk.rows) < Cap
        /\ walk' = [walk EXCEPT
              !.fan = @ \ {e},
              !.rows = Append(@, [edge |-> e, hops |-> walk.at.hops + 1]),
              !.visited = @ \union {next},
              !.queue = IF new THEN Append(@, [symbol |-> next, hops |-> walk.at.hops + 1]) ELSE @]
        /\ UNCHANGED <<ask, answer>>

OverflowUnmarked(e) ==
    /\ Len(walk.rows) = Cap
    /\ walk' = [walk EXCEPT !.fan = {}, !.queue = <<>>]
    /\ UNCHANGED <<ask, answer>>

\* One edge more than the cap: the walk ends with a marker.
Overflow(e) ==
    /\ Len(walk.rows) = Cap
    /\ walk' = [walk EXCEPT !.fan = {}, !.queue = <<>>,
                            !.rows = Append(@, Marker(walk.at.symbol, walk.at.hops + 1))]
    /\ UNCHANGED <<ask, answer>>

FinishWalk ==
    /\ walk.pc = "walk" /\ walk.fan = {} /\ walk.queue = <<>>
    /\ answer' = answer \o walk.rows
    /\ walk' = NoWalk
    /\ UNCHANGED ask

\* dedupe_edges: the first row of each edge stays.
DedupeEdges(rows) ==
    EntriesAt(rows, {i \in DOMAIN rows : \A j \in 1..(i - 1) : rows[j].edge # rows[i].edge})

MaxHops(rows) ==
    IF rows = <<>> THEN 1 ELSE Max({rows[i].hops : i \in DOMAIN rows})

RealRows(rows) == EntriesAt(rows, {i \in DOMAIN rows : ~IsMarker(rows[i])})

\* cap_direction_edges: at most Cap real rows, and one marker for all that was cut.
CapDirectionEdges(rows) ==
    LET real == RealRows(rows)
    IN  IF Len(real) > Cap \/ Len(real) < Len(rows)
        THEN Append(SubSeq(real, 1, Min({Cap, Len(real)})), Marker(Truncated, MaxHops(rows)))
        ELSE real

\* limit_edges: an answer within the limit keeps the marker it has.
LimitEdges(rows, limit) ==
    IF Len(RealRows(rows)) <= limit THEN rows
    ELSE Append(SubSeq(RealRows(rows), 1, limit), Marker(Truncated, MaxHops(rows)))

Combine ==
    /\ walk.pc = "next" /\ ask.left = <<>>
    /\ \E rows \in {DedupeEdges(answer)} : \E capped \in {CapDirectionEdges(rows)} :
          answer' = LimitEdges(capped, ask.limit)
    /\ walk' = [walk EXCEPT !.pc = "done"]
    /\ UNCHANGED ask

TraversalStep ==
    \/ StartWalk \/ Expand \/ FinishWalk \/ Combine
    \/ \E e \in NextEdges : Follow(e) \/ Overflow(e)

-----------------------------------------------------------------------------
IsAsk(a) == a \in [direction : Directions, depth : Nat, limit : Nat,
                   starts : Seq(Symbols), left : Seq(Symbols)]

Place == [symbol : Symbols, hops : 0..MaxDepth]
Rows == [edge : Sites \union [source : {Truncated}, target : Symbols \union {Truncated}, line : {0}],
         hops : 1..MaxDepth]

TraversalTypeOK ==
    /\ IsAsk(ask)
    /\ walk \in [pc : {"idle", "next", "walk", "done"}, at : Place \union {Nowhere}, fan : SUBSET calls,
                 queue : Seq(Place), visited : SUBSET Symbols, rows : Seq(Rows)]
    /\ answer \in Seq(Rows)

Answered == walk.pc = "done"
RealEdges == {r.edge : r \in ToSet(RealRows(answer))}
Marked == \E i \in DOMAIN answer : IsMarker(answer[i])
Bound == Min({Cap, ask.limit})

\* The edges at most Depth hops from one of the symbols asked for.
InReach ==
    LET near == Ball(ToSet(ask.starts), ask.direction, Depth - 1)
    IN  {e \in calls : Near(e, ask.direction) \in near}

\* "a self-describing marker row instead of silent loss": an answer has every edge in
\* reach, once, or it has as many as it may and a marker; and it has a marker for no other
\* reason, also when the walks of several symbols overlap or one of them was cut.
AnswerIsExact ==
    Answered =>
        /\ RealEdges \subseteq InReach
        /\ Marked <=> Cardinality(InReach) > Bound
        /\ Cardinality(RealEdges) = Min({Bound, Cardinality(InReach)})
        /\ Len(answer) = Cardinality(RealEdges) + (IF Marked THEN 1 ELSE 0)

Distance(e) == Min({n \in 1..Depth :
                    Near(e, ask.direction) \in Ball(ToSet(ask.starts), ask.direction, n - 1)})

\* From one symbol, hops are shortest distances, and what a cap cuts off is never nearer
\* than what it leaves.
NearestFirst ==
    Answered /\ Len(ask.starts) = 1 =>
        \A i \in DOMAIN answer :
            ~IsMarker(answer[i]) =>
                /\ answer[i].hops = Distance(answer[i].edge)
                /\ \A e \in InReach \ RealEdges : answer[i].hops <= Distance(e)
=============================================================================
