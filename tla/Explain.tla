------------------------------- MODULE Explain -------------------------------
(***************************************************************************)
(* graphtrail explain (store/explain.rs): how each stored call between two *)
(* names resolved, replayed on a read-only connection.  The four indexes   *)
(* and the calls are read by statements of their own, with no transaction  *)
(* around them: a sync that commits in between is seen by those that       *)
(* follow.  The symbols of the answer are looked up while the statement of *)
(* the calls is open, and so in the state that it sees.                    *)
(***************************************************************************)
EXTENDS Resolver

CONSTANT MaxCommits     \* bound on commits during one explanation

ASSUME ExplainAssumption == MaxCommits \in Nat

VARIABLE reader     \* the indexes loaded so far, where explain_calls stands, commits since

explainVars == <<vars, reader>>

Idle == [pc |-> "idle", commits |-> 0, names |-> <<>>, imports |-> <<>>, sources |-> {}, files |-> {}]

ExplainInit == ResolverInit /\ reader = Idle

Load(pc, next, loaded) ==
    /\ reader.pc = pc
    /\ reader' = [loaded EXCEPT !.pc = next]
    /\ UNCHANGED vars

LoadNames == Load("idle", "imports", [reader EXCEPT !.names = tables.symbols])
LoadImports == Load("imports", "sources", [reader EXCEPT !.imports = tables.imports])
LoadSources == Load("sources", "files", [reader EXCEPT !.sources = ToSet(tables.symbols)])
LoadFiles == Load("files", "calls", [reader EXCEPT !.files = tables.files])

UncheckedRowOf(p) ==
    LET to == ResolveCall(reader, p)
    IN  [call |-> p, resolution |-> to.path, targets |-> to.targets]

\* An explanation of a call; symbol_row drops the targets that are gone.
RowOf(p) ==
    LET to == ResolveCall(reader, p)
    IN  [call |-> p, resolution |-> to.path, targets |-> to.targets \intersect ToSet(tables.symbols)]

\* explain_calls, once its indexes are loaded: the calls of a name by symbols of a name or
\* of a qualified name.
Explanation(source, target) ==
    {RowOf(p) : p \in {p \in ToSet(tables.pending) :
        p.name = target /\ (<<p.source.name>> = source \/ QualifiedName(p.source) = source)}}

ExplainCalls == reader.pc = "calls" /\ reader' = Idle /\ UNCHANGED vars

\* A sync commits.
Commit ==
    /\ reader.commits < MaxCommits
    /\ \E now \in Contents, full \in BOOLEAN : Sync(now, full)
    /\ reader' = IF reader.pc = "idle" THEN reader ELSE [reader EXCEPT !.commits = @ + 1]

ExplainNext == LoadNames \/ LoadImports \/ LoadSources \/ LoadFiles \/ ExplainCalls \/ Commit

ExplainSpec == ExplainInit /\ [][ExplainNext]_explainVars

-----------------------------------------------------------------------------
Alone(p) == \A q \in ToSet(tables.pending) : SameSite(q, p) => q = p

AgreesWithEdges(row) ==
    LET drawn == {e \in edges : SameSite(e, row.call)}
    IN  /\ row.targets \ {row.call.source} \subseteq {e.target : e \in drawn}
        /\ Alone(row.call) => \A e \in drawn : e.target \in row.targets /\ e.confidence = Confidence[row.resolution]

\* "An explanation replays exactly one call's resolution against the live indexes and reports
\* the path it took": without a commit in between it accounts for the edges of the call, and
\* for all of them.  With one, it still names no symbol that the graph no longer has.
ExplanationsHold ==
    reader.pc = "calls" =>
        \A p \in ToSet(tables.pending) :
            \A row \in Explanation(QualifiedName(p.source), p.name) :
                /\ row.targets \subseteq ToSet(tables.symbols)
                /\ reader.commits = 0 => AgreesWithEdges(row)
=============================================================================
