------------------------------- MODULE Cycles -------------------------------
(***************************************************************************)
(* cycles (query/health.rs): groups of files that reach each other through *)
(* call edges, found by Tarjan's algorithm with its own stack of frames in *)
(* place of recursion.                                                     *)
(***************************************************************************)
EXTENDS CallGraph, SequencesExt

CONSTANTS
    NoIndex,    \* the index of a file that has not been entered
    GroupCap    \* CYCLE_GROUP_CAP

ASSUME CyclesAssumption == NoIndex \notin Nat /\ GroupCap \in Nat \ {0}

VARIABLES
    cpc,
    index,      \* the order in which files are entered
    lowLink,    \* the smallest index known to be reachable within the stack
    stack,      \* files whose component is not complete
    work,       \* frames: a file and its neighbours still to visit
    components, \* complete components, in the order they were found
    groups      \* the report: groups, total_groups and truncated

cycling == <<cpc, index, lowLink, stack, work, components, groups>>

\* The distinct pairs of files with a call between them, by their first.
Neighbors(f) == {FileOf[e.target] : e \in {e \in calls : FileOf[e.source] = f}} \ {f}

\* The keys of the adjacency map.
Nodes == {f \in Files : Neighbors(f) # {} \/ \E g \in Files : f \in Neighbors(g)}

NoGroups == [groups |-> <<>>, total |-> 0, truncated |-> FALSE]

CyclesInit ==
    /\ cpc = "search"
    /\ index = [f \in Files |-> NoIndex] /\ lowLink = [f \in Files |-> 0]
    /\ stack = <<>> /\ work = <<>> /\ components = <<>>
    /\ groups = NoGroups

CyclesIdle ==
    /\ cpc = "idle"
    /\ index = [f \in Files |-> NoIndex] /\ lowLink = [f \in Files |-> 0]
    /\ stack = <<>> /\ work = <<>> /\ components = <<>>
    /\ groups = NoGroups

Entered(f) == index[f] # NoIndex
OnStack(f) == \E i \in DOMAIN stack : stack[i] = f
NextIndex == Cardinality({f \in Files : Entered(f)})

Frame == Last(work)
Searching == cpc = "search" /\ work # <<>>

\* A frame that has visited none of its neighbours yet gives its file an index.
Enter(f, frames) ==
    /\ index' = [index EXCEPT ![f] = NextIndex]
    /\ lowLink' = [lowLink EXCEPT ![f] = NextIndex]
    /\ stack' = Append(stack, f)
    /\ work' = Append(frames, [node |-> f, left |-> Neighbors(f)])

\* The next file, in path order, that no search has entered.
StartSearch ==
    /\ cpc = "search" /\ work = <<>>
    /\ \E f \in Nodes :
          /\ ~Entered(f) /\ \A g \in Nodes : g < f => Entered(g)
          /\ Enter(f, <<>>)
    /\ UNCHANGED <<cpc, components, groups>>

VisitedNever(g) == work

\* The frame with one neighbour less to visit.
Visited(g) == [work EXCEPT ![Len(work)].left = @ \ {g}]

Descend(g) ==
    /\ Searching /\ g \in Frame.left /\ ~Entered(g)
    /\ Enter(g, Visited(g))
    /\ UNCHANGED <<cpc, components, groups>>

LowerAlways(g) ==
    /\ Searching /\ g \in Frame.left /\ Entered(g)
    /\ lowLink' = [lowLink EXCEPT ![Frame.node] = Min({@, index[g]})]
    /\ work' = Visited(g)
    /\ UNCHANGED <<cpc, index, stack, components, groups>>

\* A neighbour that was entered counts only while it is on the stack.
Lower(g) ==
    /\ Searching /\ g \in Frame.left /\ Entered(g)
    /\ lowLink' = IF OnStack(g)
                  THEN [lowLink EXCEPT ![Frame.node] = Min({@, index[g]})] ELSE lowLink
    /\ work' = Visited(g)
    /\ UNCHANGED <<cpc, index, stack, components, groups>>

CloseQuietly ==
    /\ Searching /\ Frame.left = {}
    /\ LET f == Frame.node
           at == CHOOSE i \in DOMAIN stack : stack[i] = f
       IN  /\ work' = Front(work)
           /\ IF index[f] = lowLink[f]
              THEN /\ components' = Append(components, ToSet(SubSeq(stack, at, Len(stack))))
                   /\ stack' = SubSeq(stack, 1, at - 1)
              ELSE UNCHANGED <<components, stack>>
    /\ UNCHANGED <<cpc, index, lowLink, groups>>

\* All neighbours done: the parent learns, and a root takes its component off the stack.
CloseFrame ==
    /\ Searching /\ Frame.left = {}
    /\ LET f == Frame.node
           frames == Front(work)
           at == CHOOSE i \in DOMAIN stack : stack[i] = f
       IN  /\ work' = frames
           /\ lowLink' = IF frames = <<>> THEN lowLink
                         ELSE [lowLink EXCEPT ![Last(frames).node] = Min({@, lowLink[f]})]
           /\ IF index[f] = lowLink[f]
              THEN /\ components' = Append(components, ToSet(SubSeq(stack, at, Len(stack))))
                   /\ stack' = SubSeq(stack, 1, at - 1)
              ELSE UNCHANGED <<components, stack>>
    /\ UNCHANGED <<cpc, index, groups>>

\* Groups of more than one file, largest first, ties by their first file.
ReportGroups ==
    /\ cpc = "search" /\ work = <<>> /\ \A f \in Nodes : Entered(f)
    /\ LET size(i) == Cardinality(components[i])
           large == {i \in DOMAIN components : size(i) > 1}
           order == InOrder(large, LAMBDA i, j :
                       \/ size(i) > size(j)
                       \/ size(i) = size(j) /\ Min(components[i]) < Min(components[j]))
           total == Cardinality(large)
       IN  groups' = [groups |-> [k \in 1..Min({GroupCap, total}) |-> components[order[k]]],
                      total |-> total, truncated |-> total > GroupCap]
    /\ cpc' = "done"
    /\ UNCHANGED <<index, lowLink, stack, work, components>>

CyclesStep ==
    \/ StartSearch \/ CloseFrame \/ ReportGroups
    \/ \E g \in Files : Descend(g) \/ Lower(g)

-----------------------------------------------------------------------------
CyclesTypeOK ==
    /\ cpc \in {"idle", "search", "done"}
    /\ index \in [Files -> Nat \union {NoIndex}] /\ lowLink \in [Files -> Nat]
    /\ stack \in Seq(Files)
    /\ work \in Seq([node : Files, left : SUBSET Files])
    /\ components \in Seq(SUBSET Files)
    /\ groups \in [groups : Seq(SUBSET Files), total : Nat, truncated : BOOLEAN]

\* Reference: files that reach each other.
ReachedFrom(f) ==
    LET reach[n \in 0..Cardinality(Files)] ==
          IF n = 0 THEN {f}
          ELSE LET nearer == reach[n - 1] IN nearer \union UNION {Neighbors(g) : g \in nearer}
    IN  reach[Cardinality(Files)]

Together(f) == LET down == ReachedFrom(f) IN {g \in down : f \in ReachedFrom(g)}

\* At every moment of the search, a component that was taken off the stack is complete:
\* it has all the files that reach it and are reached by it, and no other.
ComponentsAreClosed ==
    \A i \in DOMAIN components : \A f \in components[i] : Together(f) = components[i]

\* "every file reaches every other through call edges": the groups are exactly the
\* classes of mutual reachability with two files or more, or the first GroupCap of them.
GroupsAreCycles ==
    cpc = "done" =>
        LET due == {c \in {Together(f) : f \in Nodes} : Cardinality(c) > 1}
        IN  /\ groups.total = Cardinality(due)
            /\ ToSet(groups.groups) \subseteq due
            /\ Len(groups.groups) = Min({GroupCap, Cardinality(due)})
            /\ Cardinality(ToSet(groups.groups)) = Len(groups.groups)
            /\ \A c \in due \ ToSet(groups.groups), i \in DOMAIN groups.groups :
                  Cardinality(c) <= Cardinality(groups.groups[i])
=============================================================================
