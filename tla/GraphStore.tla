----------------------------- MODULE GraphStore -----------------------------
(***************************************************************************)
(* What the graph database promises to its readers, whatever sync does     *)
(* inside: every published graph is made of contents the files really had, *)
(* its edges are those the published facts resolve to, and one graph       *)
(* replaces another in a single step.                                      *)
(***************************************************************************)
CONSTANTS
    Files,          \* repository-relative paths
    Missing,        \* no file, and no facts about one
    Sources,        \* what a file may hold
    ResolveEdges(_) \* the edges a map from files to contents gives rise to

VARIABLES
    held,      \* every content each file has had, Missing included
    published, \* for each file, the content the graph describes, or Missing
    edges      \* the call graph over what is published

storeVars == <<held, published, edges>>

Init ==
    /\ held \in [Files -> SUBSET (Sources \union {Missing})]
    /\ published = [f \in Files |-> Missing]
    /\ edges = ResolveEdges(published)

\* A file is written or removed; the graph knows nothing of it.
Touch ==
    /\ \E f \in Files, c \in Sources \union {Missing} :
          held' = [held EXCEPT ![f] = @ \union {c}]
    /\ UNCHANGED <<published, edges>>

\* A sync publishes a new graph: each file keeps its facts or takes those of a
\* content it has had, and the edges are resolved over all of them.
Publish ==
    /\ published' \in [Files -> Sources \union {Missing}]
    /\ \A f \in Files : published'[f] \in held[f] \union {published[f]}
    /\ edges' = ResolveEdges(published')
    /\ UNCHANGED held

Next == Touch \/ Publish

Spec == Init /\ [][Next]_storeVars
=============================================================================
