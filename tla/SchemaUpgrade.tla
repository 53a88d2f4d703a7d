---------------------------- MODULE SchemaUpgrade ----------------------------
(***************************************************************************)
(* The schema migrations a sync runs before it syncs (store/schema.rs).    *)
(* Each ALTER commits by itself, the rewrite of symbol ids commits a       *)
(* transaction of its own, and only the sync at the end records the new    *)
(* schema version.  A sync may be killed, or give up on an error, between  *)
(* any two of them, and the next one finds what is left.                   *)
(*                                                                         *)
(* Every file holds the same few symbols that share one identity key       *)
(* (path, qualified name, kind); symbols of other keys never meet them.    *)
(* Ids are numbers, compared as SQLite compares the hashes they stand for. *)
(***************************************************************************)
EXTENDS Naturals, FiniteSets

CONSTANTS
    Files,      \* indexed files
    Twins,      \* the symbols of a file that share an identity key
    Layouts,    \* the start lines the twins of a file may have
    Place,      \* the place of each in extraction's traversal, from 0
    OldId,      \* its id before schema 7, which has the line in it
    NewId,      \* the id of each ordinal from schema 7 on
    MaxFaults   \* bound on kills, failures and edits

Ordinals == 0..(Cardinality(Twins) - 1)
Ids == Nat \ {0}
NoCaller == 0

ASSUME UpgradeAssumption ==
    /\ Files # {} /\ IsFiniteSet(Twins) /\ MaxFaults \in Nat
    /\ Layouts \subseteq [Twins -> Nat] /\ Place \in [Twins -> Ordinals]
    /\ OldId \in [Twins -> Ids] /\ NewId \in [Ordinals -> Ids]

ASSUME DistinctAssumption ==
    /\ \A s, t \in Twins : s # t => Place[s] # Place[t] /\ OldId[s] # OldId[t]
    /\ \A m, n \in Ordinals : m # n => NewId[m] # NewId[n]
    /\ \A s \in Twins, n \in Ordinals : OldId[s] # NewId[n]
    /\ \A lines \in Layouts, s, t \in Twins : lines[s] < lines[t] => Place[s] < Place[t]

Current == 7
Columns == {"body_hash", "extractor_fingerprint", "confidence"}
ColumnsOf(version) ==
    {c \in Columns : \/ c = "body_hash" /\ version >= 3
                     \/ c = "extractor_fingerprint" /\ version >= 4
                     \/ c = "confidence" /\ version >= 6}

VARIABLES
    version,    \* meta's schema_version; 0 when a first sync never finished
    columns,    \* the columns that later schemas added
    files,      \* for each file its ids, the callers of its pending calls, ...
    line,       \* the start line of each twin, in every file
    edges,      \* "resolved", "unscored" (before schema 6) or "none"
    pc,         \* where the running sync stands
    upgrade,    \* what it has found it must redo: 0, 1 or 2
    faults

vars == <<version, columns, files, line, edges, pc, upgrade, faults>>

\* SchemaUpgrade, in the order derived for it.
None == 0
RebuildEdges == 1
FullReindex == 2
AtLeastBySum(level) == upgrade' = upgrade + level
AtLeast(level) == upgrade' = IF upgrade < level THEN level ELSE upgrade

-----------------------------------------------------------------------------
(* What the files table and its dependents hold of one file.               *)

\* What extraction produces.  `fresh`: content and fingerprint are as on disk.
Extracted ==
    [ids |-> [s \in Twins |-> NewId[Place[s]]], calls |-> [s \in Twins |-> NewId[Place[s]]],
     bodies |-> TRUE, fresh |-> TRUE]

\* What a tool of an earlier schema left.
Stored(v, fresh) ==
    LET ids == IF v = Current THEN Extracted.ids ELSE OldId
    IN  [ids |-> ids, calls |-> IF v >= 5 THEN ids ELSE [s \in Twins |-> NoCaller],
         bodies |-> v >= 3, fresh |-> fresh]

RankById(ids, s) == Cardinality({t \in Twins : ids[t] < ids[s]})

\* ORDER BY start_line, id.
Rank(ids, s) ==
    Cardinality({t \in Twins : line[t] < line[s] \/ (line[t] = line[s] /\ ids[t] < ids[s])})

RenameUnchecked(g, s, id) ==
    [ok |-> TRUE, ids |-> [g.ids EXCEPT ![s] = id],
     calls |-> [t \in Twins |-> IF g.calls[t] = g.ids[s] THEN id ELSE g.calls[t]]]

\* The UPDATEs for one symbol: its row, whose id is the primary key, and its calls.
Rename(g, s, id) ==
    [ok |-> g.ok /\ \A t \in Twins \ {s} : g.ids[t] # id,
     ids |-> [g.ids EXCEPT ![s] = id],
     calls |-> [t \in Twins |-> IF g.calls[t] = g.ids[s] THEN id ELSE g.calls[t]]]

\* The loop over the mapping, which skips the ids that stay.
Rewritten(f) ==
    LET start == [ok |-> TRUE, ids |-> files[f].ids, calls |-> files[f].calls]
        after[n \in 0..Cardinality(Twins)] ==
            IF n = 0 THEN start
            ELSE LET s == CHOOSE t \in Twins : Rank(files[f].ids, t) = n - 1
                 IN  IF files[f].ids[s] = NewId[n - 1] THEN after[n - 1]
                     ELSE Rename(after[n - 1], s, NewId[n - 1])
    IN  after[Cardinality(Twins)]

-----------------------------------------------------------------------------
(* A sync.                                                                 *)

At(step) == pc = step
Then(step) == pc' = step

Start ==
    /\ At("idle") /\ Then("body_hash")
    /\ upgrade' = None
    /\ UNCHANGED <<line, version, columns, files, edges, faults>>

\* ALTER TABLE symbols; the bodies are NULL until files are parsed again.
AddBodyHash ==
    /\ At("body_hash") /\ Then("fingerprint")
    /\ IF "body_hash" \in columns THEN UNCHANGED upgrade ELSE AtLeast(FullReindex)
    /\ columns' = columns \union {"body_hash"}
    /\ UNCHANGED <<line, version, files, edges, faults>>

\* ALTER TABLE files; a NULL fingerprint makes every file stale by itself.
AddFingerprint ==
    /\ At("fingerprint") /\ Then("calls")
    /\ columns' = columns \union {"extractor_fingerprint"}
    /\ files' = IF "extractor_fingerprint" \in columns THEN files
                ELSE [f \in Files |-> [files[f] EXCEPT !.fresh = FALSE]]
    /\ UNCHANGED <<line, version, edges, upgrade, faults>>

\* Before schema 5 no calls were stored.  The recorded version is the signal.
CheckCalls ==
    /\ At("calls") /\ Then("confidence")
    /\ IF version \in 1..4 THEN AtLeast(FullReindex) ELSE UNCHANGED upgrade
    /\ UNCHANGED <<line, version, columns, files, edges, faults>>

\* ALTER TABLE edges.
AddConfidence ==
    /\ At("confidence") /\ Then("ids")
    /\ IF "confidence" \in columns THEN UNCHANGED upgrade ELSE AtLeast(RebuildEdges)
    /\ columns' = columns \union {"confidence"}
    /\ UNCHANGED <<line, version, files, edges, faults>>

\* rewrite_symbol_ids_v7, one transaction: edges go, ids and callers are renamed.
RewriteIds ==
    /\ At("ids") /\ version \in 5..6
    /\ \A f \in Files : Rewritten(f).ok
    /\ edges' = "none"
    /\ files' = [f \in Files |-> [files[f] EXCEPT !.ids = Rewritten(f).ids,
                                                  !.calls = Rewritten(f).calls]]
    /\ AtLeast(RebuildEdges)
    /\ Then("sync")
    /\ UNCHANGED <<line, version, columns, faults>>

\* UNIQUE constraint failed: symbols.id.  The rewrite rolls back and sync gives up.
RewriteFails ==
    /\ At("ids") /\ version \in 5..6
    /\ \E f \in Files : ~Rewritten(f).ok
    /\ Then("idle")
    /\ UNCHANGED <<line, version, columns, files, edges, upgrade, faults>>

SkipRewrite ==
    /\ At("ids") /\ version \notin 5..6
    /\ Then("sync")
    /\ UNCHANGED <<line, version, columns, files, edges, upgrade, faults>>

RebuildsIfParsed(parsed) == parsed # {}
Rebuilds(parsed) == parsed # {} \/ upgrade = RebuildEdges

\* The sync's own transaction: parse what the upgrade or the files call for, rebuild
\* the edges if that or the upgrade changed anything, record the version.
Sync(force) ==
    /\ At("sync") /\ Then("idle")
    /\ LET parsed == {f \in Files : force \/ upgrade = FullReindex \/ ~files[f].fresh}
       IN  /\ files' = [f \in Files |-> IF f \in parsed THEN Extracted ELSE files[f]]
           /\ edges' = IF Rebuilds(parsed) THEN "resolved" ELSE edges
    /\ version' = Current
    /\ UNCHANGED <<line, columns, upgrade, faults>>

\* The process is killed, or a file cannot be read: what has committed stays.
Interrupt ==
    /\ pc # "idle" /\ faults < MaxFaults
    /\ Then("idle")
    /\ faults' = faults + 1
    /\ UNCHANGED <<line, version, columns, files, edges, upgrade>>

\* A file is edited, or its extractor changes.
Edit(f) ==
    /\ faults < MaxFaults /\ files[f].fresh
    /\ files' = [files EXCEPT ![f].fresh = FALSE]
    /\ faults' = faults + 1
    /\ UNCHANGED <<line, version, columns, edges, pc, upgrade>>

-----------------------------------------------------------------------------
\* A database that a tool of schema v synced, or created and never synced, and whose
\* upgrade by a later tool may have stopped after some of its ALTERs.
Init ==
    /\ \E v \in 2..Current, synced \in BOOLEAN, fresh \in [Files -> BOOLEAN] :
          /\ version = IF synced THEN v ELSE 0
          /\ columns \in {c \in SUBSET Columns : ColumnsOf(v) \subseteq c}
          /\ files = [f \in Files |-> Stored(v, synced /\ v >= 4 /\ fresh[f])]
          /\ edges = IF synced /\ v < 6 THEN "unscored" ELSE "resolved"
    /\ line \in Layouts
    /\ pc = "idle" /\ upgrade = None /\ faults = 0

Step ==
    \/ Start \/ AddBodyHash \/ AddFingerprint \/ CheckCalls \/ AddConfidence
    \/ RewriteIds \/ RewriteFails \/ SkipRewrite
    \/ \E force \in BOOLEAN : Sync(force)

Next == Step \/ Interrupt \/ \E f \in Files : Edit(f)

Spec == Init /\ [][Next]_vars

\* A sync, once started, goes on, and somebody asks for the next one.
FairSpec == Spec /\ WF_vars(Step)

-----------------------------------------------------------------------------
FileFacts ==
    [ids : [Twins -> Ids], calls : [Twins -> Ids \union {NoCaller}],
     bodies : BOOLEAN, fresh : BOOLEAN]

TypeOK ==
    /\ version \in {0} \union 2..Current
    /\ columns \in SUBSET Columns
    /\ files \in [Files -> FileFacts]
    /\ line \in Layouts /\ edges \in {"resolved", "unscored", "none"}
    /\ pc \in {"idle", "body_hash", "fingerprint", "calls", "confidence", "ids", "sync"}
    /\ upgrade \in {None, RebuildEdges, FullReindex}
    /\ faults \in 0..MaxFaults

\* The recorded version never runs ahead of the data: under schema 7 every file has
\* its bodies and calls, and the edges are resolved, wherever earlier attempts stopped
\* and whichever of their one-shot signals (a missing column) they used up.
CurrentMeansMigrated ==
    version = Current =>
        /\ columns = Columns
        /\ edges = "resolved"
        /\ \A f \in Files : files[f].bodies /\ \A s \in Twins : files[f].calls[s] # NoCaller

\* Stored calls still belong to the symbols that make them, also after renames.
CallsFollowSymbols ==
    \A f \in Files, s \in Twins : files[f].calls[s] \in {files[f].ids[s], NoCaller}

DistinctLines == \A s, t \in Twins : s # t => line[s] # line[t]

\* "assigned in `(start_line, old id)` order, which matches extraction's traversal
\* order except for exotic same-line duplicates": an upgraded index and a fresh one
\* agree on the id of every symbol.
IdsMatchExtraction ==
    version = Current /\ DistinctLines => \A f \in Files : files[f].ids = Extracted.ids

\* However often it is interrupted, a migration is completed by the syncs that follow,
\* same-line duplicates excepted.
MigrationCompletes == DistinctLines => <>[](version = Current)

\* What schema.rs says of same-line duplicates: "those converge to traversal order the
\* next time their file re-extracts, and edges rebuild either way".
EdgesRebuildEitherWay == <>[](edges = "resolved")
=============================================================================
