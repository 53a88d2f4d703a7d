------------------------------ MODULE GraphSync ------------------------------
(***************************************************************************)
(* One sync of the graph database against the working tree, step by step   *)
(* as store/sync.rs runs it: walk, load the stored files, plan what is     *)
(* stale, then in one transaction purge, re-index, rebuild the edges and   *)
(* record the branch.  Editors, checkouts, upgrades of the tool and kills  *)
(* happen between any two steps.                                           *)
(*                                                                         *)
(* A content hash is the content itself; what a file contributes to the    *)
(* graph (symbols, FTS rows, imports, pending calls) is a function of its  *)
(* content and is named by it.                                             *)
(***************************************************************************)
EXTENDS Naturals, FiniteSets

CONSTANTS
    Files,        \* supported source files, by repository-relative path
    Contents,     \* contents the extractors can read
    Garbage,      \* a content that is not UTF-8
    Missing,      \* no file on disk, no row in the database
    SizeOf,       \* byte length of each content
    Names,        \* function names
    Defines,      \* the names each content defines
    Calls,        \* the names each content calls
    Branches,     \* git branches
    Nobody,       \* no worker holds SQLite's write lock
    Workers,      \* threads that sync this database
    LockWorks,    \* does the advisory lock keep them apart?
    QuietEdits,   \* are edits spaced so that modification times tell them apart?
    MaxTime, MaxEdits, MaxFingerprint   \* bounds

Sources == Contents \union {Garbage}

ASSUME SyncAssumption ==
    /\ Garbage \notin Contents /\ Missing \notin Sources
    /\ SizeOf \in [Sources -> Nat]
    /\ Defines \in [Contents -> SUBSET Names] /\ Calls \in [Contents -> SUBSET Names]
    /\ Nobody \notin Workers /\ Branches # {}
    /\ LockWorks \in BOOLEAN /\ QuietEdits \in BOOLEAN
    /\ MaxTime \in Nat /\ MaxEdits \in Nat /\ MaxFingerprint \in Nat \ {0}

Fingerprints == 1..MaxFingerprint
Times == 0..MaxTime
Sizes == {SizeOf[c] : c \in Sources}

OnDisk == [content : Sources, mtime : Times]
Stat == [size : Sizes, mtime : Times]
Row == [hash : Contents, size : Sizes, mtime : Times, fingerprint : Fingerprints]

\* A file row must not be mistaken for the absence of one.
ASSUME MissingAssumption == Missing \notin OnDisk \union Stat \union Row

VARIABLES
    disk,        \* the working tree
    now,         \* the clock that stamps modification times, in seconds
    branch,      \* the checked-out branch
    installed,   \* extractor fingerprint of the installed tool
    db,          \* the committed database
    writer,      \* the worker in a write transaction
    staged,      \* the database as the writer sees it
    job,         \* what each worker is doing
    edits,       \* how many edits and checkouts there were, for the bound
    held         \* history: every content each file has had

env == <<disk, now, branch, installed, edits, held>>
vars == <<disk, now, branch, installed, db, writer, staged, job, edits, held>>

-----------------------------------------------------------------------------
(* The database.                                                           *)

\* rows: the files table.  facts: the content whose symbols, imports and pending
\* calls are stored.  edges: the edges table.  branch: meta's synced_branch, or
\* Missing before the first sync, when schema_version is absent too.
EmptyDb ==
    [rows |-> [f \in Files |-> Missing], facts |-> [f \in Files |-> Missing],
     edges |-> {}, branch |-> Missing]

DefinedIn(facts, f) == IF facts[f] = Missing THEN {} ELSE Defines[facts[f]]
CalledIn(facts, f) == IF facts[f] = Missing THEN {} ELSE Calls[facts[f]]

Edges == [from : Files, name : Names, to : Files, sure : BOOLEAN]

\* resolve_call at the grain of files: a definition in the caller's file wins,
\* else every definer is a target ...
Targets(facts, f, n) ==
    LET definers == {g \in Files : n \in DefinedIn(facts, g)}
    IN  IF f \in definers THEN {f} ELSE definers

\* ... and the confidence of the edge says whether it is the only one.
ResolveEdges(facts) ==
    {e \in Edges : /\ e.name \in CalledIn(facts, e.from)
                   /\ e.to \in Targets(facts, e.from, e.name)
                   /\ e.sure = (Cardinality(Targets(facts, e.from, e.name)) = 1)}

InsertOrIgnore(d) ==
    [d EXCEPT !.edges = @ \union
        {r \in ResolveEdges(d.facts) : \A e \in d.edges :
                      <<r.from, r.name, r.to>> # <<e.from, e.name, e.to>>}]

\* rebuild_edges: delete every edge, resolve every stored call again.
RebuildEdges(d) == [d EXCEPT !.edges = ResolveEdges(d.facts)]

PurgeRowsOnly(d, gone) ==
    [d EXCEPT !.rows = [f \in Files |-> IF f \in gone THEN Missing ELSE @[f]]]

\* purge_file_graph for each path: its rows in every table, and through the foreign
\* keys the edges at its symbols.
Purge(d, gone) ==
    [d EXCEPT !.rows = [f \in Files |-> IF f \in gone THEN Missing ELSE @[f]],
              !.facts = [f \in Files |-> IF f \in gone THEN Missing ELSE @[f]],
              !.edges = {e \in @ : e.from \notin gone /\ e.to \notin gone}]

\* write_file_graph: the file row and everything extracted from content c.
Write(d, f, c, stat, fp) ==
    [d EXCEPT !.rows[f] = [hash |-> c, size |-> stat.size, mtime |-> stat.mtime,
                           fingerprint |-> fp],
              !.facts[f] = c]

StatOf(f) ==
    IF disk[f] = Missing THEN Missing
    ELSE [size |-> SizeOf[disk[f].content], mtime |-> disk[f].mtime]

Readable(f) == disk[f] # Missing /\ disk[f].content \in Contents

SameStatByEither(row, stat) == row.size = stat.size \/ row.mtime = stat.mtime
SameStat(row, stat) == row.size = stat.size /\ row.mtime = stat.mtime

-----------------------------------------------------------------------------
(* A worker's job.                                                         *)

NoEntries == [f \in Files |-> Missing]

Idle ==
    [pc |-> "idle", force |-> FALSE, fingerprint |-> 1, entries |-> NoEntries,
     known |-> NoEntries, todo |-> {}, plan |-> {}, changed |-> FALSE,
     file |-> Missing, read |-> Missing, undisturbed |-> TRUE]

Doing(w, step) == job[w].pc = step
Busy == {w \in Workers : job[w].pc \notin {"idle", "killed"}}

\* Files in the database that the walk did not meet.
Deleted(w) == {f \in Files : job[w].known[f] # Missing /\ job[w].entries[f] = Missing}

\* The transaction of a worker that leaves ends with it.
EndTransaction(w) ==
    /\ writer' = IF writer = w THEN Nobody ELSE writer
    /\ staged' = IF writer = w THEN EmptyDb ELSE staged

\* `?` on an error: the transaction rolls back and the lock's guard is dropped.
Abort(w) ==
    /\ job' = [job EXCEPT ![w] = Idle]
    /\ EndTransaction(w)
    /\ UNCHANGED <<env, db>>

\* Take the next file of a pass; the pass after the last file is `next`.
Advance(w, j, f, next) ==
    job' = [job EXCEPT ![w] =
        [j EXCEPT !.todo = @ \ {f}, !.pc = IF job[w].todo = {f} THEN next ELSE @]]

\* sync_repo_force: lock, then walk.  The binary in use fixes the fingerprint.
Start(w, force) ==
    /\ Doing(w, "idle")
    /\ LockWorks => Busy = {}
    /\ job' = [job EXCEPT ![w] =
          [Idle EXCEPT !.pc = "walk", !.force = force, !.fingerprint = installed,
                       !.todo = Files]]
    /\ UNCHANGED <<env, db, writer, staged>>

\* collect_sync_walk stats one file.
WalkFile(w, f) ==
    /\ Doing(w, "walk") /\ f \in job[w].todo
    /\ Advance(w, [job[w] EXCEPT !.entries[f] = StatOf(f)], f, "load")
    /\ UNCHANGED <<env, db, writer, staged>>

\* load_db_files, outside the transaction.  A forced sync indexes every entry.
LoadRows(w) ==
    /\ Doing(w, "load")
    /\ LET found == {f \in Files : job[w].entries[f] # Missing}
           planned == job[w].force \/ found = {}
       IN  job' = [job EXCEPT ![w].known = db.rows,
                              ![w].todo = IF planned THEN {} ELSE found,
                              ![w].plan = IF planned THEN found ELSE {},
                              ![w].force = FALSE,
                              ![w].pc = IF planned THEN "begin" ELSE "plan"]
    /\ UNCHANGED <<env, db, writer, staged>>

\* entry_freshness: a row whose stat differs is re-read and compared by hash.
MustRead(row, stat) == row # Missing /\ ~SameStat(row, stat)

StaleWithoutFingerprint(row, stat, fingerprint, f) ==
    \/ row = Missing
    \/ ~SameStat(row, stat) /\ disk[f].content # row.hash

Stale(row, stat, fingerprint, f) ==
    \/ row = Missing
    \/ ~SameStat(row, stat) /\ disk[f].content # row.hash
    \/ row.fingerprint # fingerprint

PlanFile(w, f) ==
    LET row == job[w].known[f]
        stat == job[w].entries[f]
    IN  /\ Doing(w, "plan") /\ f \in job[w].todo
        /\ MustRead(row, stat) => Readable(f)
        /\ Advance(w, IF Stale(row, stat, job[w].fingerprint, f)
                      THEN [job[w] EXCEPT !.plan = @ \union {f}] ELSE job[w], f, "begin")
        /\ UNCHANGED <<env, db, writer, staged>>

\* The file to compare is gone or unreadable: `?` ends the whole sync.
PlanFails(w, f) ==
    /\ Doing(w, "plan") /\ f \in job[w].todo
    /\ MustRead(job[w].known[f], job[w].entries[f]) /\ ~Readable(f)
    /\ Abort(w)

\* From here on only the files still to index matter, and whether anything changed.
StartIndexing(w, changed) ==
    job' = [job EXCEPT ![w].todo = job[w].plan,
                       ![w].changed = changed,
                       ![w].plan = {}, ![w].entries = NoEntries, ![w].known = NoEntries,
                       ![w].pc = IF job[w].plan = {} THEN "finish" ELSE "index"]

BeginInAutocommit(w) ==
    LET gone == job[w].plan \union Deleted(w)
    IN  /\ Doing(w, "begin") /\ writer = Nobody
        /\ writer' = w
        /\ db' = Purge(db, gone)
        /\ staged' = Purge(db, gone)
        /\ StartIndexing(w, gone # {})
        /\ UNCHANGED env

\* The first write takes SQLite's write lock and purges; with nothing to do, the
\* transaction only refreshes the metadata.
Begin(w) ==
    LET gone == job[w].plan \union Deleted(w)
    IN  /\ Doing(w, "begin") /\ writer = Nobody
        /\ writer' = w
        /\ staged' = Purge(db, gone)
        /\ StartIndexing(w, gone # {})
        /\ UNCHANGED <<env, db>>

\* The busy timeout passes while another connection writes.
BeginTimesOut(w) ==
    /\ Doing(w, "begin") /\ writer # Nobody
    /\ Abort(w)

ReadFileLossy(w, f) ==
    /\ Doing(w, "index") /\ f \in job[w].todo
    /\ disk[f] # Missing
    /\ job' = [job EXCEPT ![w].file = f, ![w].read = disk[f].content, ![w].pc = "stat"]
    /\ UNCHANGED <<env, db, writer, staged>>

\* index_file reads the content ...
ReadFile(w, f) ==
    /\ Doing(w, "index") /\ f \in job[w].todo
    /\ Readable(f)
    /\ job' = [job EXCEPT ![w].file = f, ![w].read = disk[f].content, ![w].pc = "stat"]
    /\ UNCHANGED <<env, db, writer, staged>>

ReadFails(w, f) ==
    /\ Doing(w, "index") /\ f \in job[w].todo
    /\ ~Readable(f)
    /\ Abort(w)

\* ... then the metadata, which may by now be those of another content.
StatFile(w) ==
    LET f == job[w].file
    IN  /\ Doing(w, "stat")
        /\ StatOf(f) # Missing
        /\ staged' = Write(staged, f, job[w].read, StatOf(f), job[w].fingerprint)
        /\ Advance(w, [job[w] EXCEPT !.file = Missing, !.read = Missing, !.pc = "index"], f, "finish")
        /\ UNCHANGED <<env, db, writer>>

StatFails(w) ==
    /\ Doing(w, "stat")
    /\ StatOf(job[w].file) = Missing
    /\ Abort(w)

RecordMetaIfChanged(w) ==
    /\ Doing(w, "finish")
    /\ staged' = IF job[w].changed
                 THEN [RebuildEdges(staged) EXCEPT !.branch = branch] ELSE staged
    /\ job' = [job EXCEPT ![w].pc = "commit"]
    /\ UNCHANGED <<env, db, writer>>

\* rebuild_edges when anything changed, then write_sync_meta and write_branch_meta.
RecordMeta(w) ==
    /\ Doing(w, "finish")
    /\ staged' = [(IF job[w].changed THEN RebuildEdges(staged) ELSE staged)
                     EXCEPT !.branch = branch]
    /\ job' = [job EXCEPT ![w].pc = "commit"]
    /\ UNCHANGED <<env, db, writer>>

Commit(w) ==
    /\ Doing(w, "commit")
    /\ db' = staged
    /\ job' = [job EXCEPT ![w] = Idle]
    /\ EndTransaction(w)
    /\ UNCHANGED env

\* The process is killed: SQLite rolls the transaction back.
Crash(w) ==
    /\ w \in Busy
    /\ job' = [job EXCEPT ![w] = [Idle EXCEPT !.pc = "killed"]]
    /\ EndTransaction(w)
    /\ UNCHANGED <<env, db>>

\* Somebody runs the tool again.
Restart(w) ==
    /\ Doing(w, "killed")
    /\ job' = [job EXCEPT ![w] = Idle]
    /\ UNCHANGED <<env, db, writer, staged>>

-----------------------------------------------------------------------------
(* The world around it.                                                    *)

\* Every running job loses its claim to have seen the tree at rest.
Disturb == job' = [w \in Workers |-> [job[w] EXCEPT !.undisturbed = w \notin Busy]]

\* At a time later than every modification time on record for f, and not between
\* the read and the stat of f in a running sync.
WellSpaced(f, t) ==
    /\ disk[f] # Missing => disk[f].mtime < t
    /\ \A d \in {db, staged} : d.rows[f] # Missing => d.rows[f].mtime < t
    /\ \A w \in Workers : ~(Doing(w, "stat") /\ job[w].file = f)

\* Some time passes, then f is given the content c or, for Missing, removed.
Edit(f, c, t) ==
    /\ edits < MaxEdits /\ now <= t
    /\ QuietEdits => WellSpaced(f, t)
    /\ c # (IF disk[f] = Missing THEN Missing ELSE disk[f].content)
    /\ disk' = [disk EXCEPT ![f] = IF c = Missing THEN Missing ELSE [content |-> c, mtime |-> t]]
    /\ held' = [held EXCEPT ![f] = @ \union {c}]
    /\ now' = t
    /\ edits' = edits + 1
    /\ Disturb
    /\ UNCHANGED <<branch, installed, db, writer, staged>>

Checkout(b) ==
    /\ edits < MaxEdits /\ b # branch
    /\ branch' = b
    /\ edits' = edits + 1
    /\ Disturb
    /\ UNCHANGED <<disk, now, installed, db, writer, staged, held>>

\* A new version of the tool; running jobs keep the old one.
Upgrade ==
    /\ installed < MaxFingerprint
    /\ installed' = installed + 1
    /\ Disturb
    /\ UNCHANGED <<disk, now, branch, db, writer, staged, edits, held>>

Init ==
    /\ disk \in [Files -> [content : Sources, mtime : {0}] \union {Missing}]
    /\ now = 0
    /\ branch = CHOOSE b \in Branches : TRUE
    /\ installed = 1
    /\ db = EmptyDb
    /\ writer = Nobody
    /\ staged = EmptyDb
    /\ job = [w \in Workers |-> Idle]
    /\ edits = 0
    /\ held = [f \in Files |-> {IF disk[f] = Missing THEN Missing ELSE disk[f].content}]

Step(w) ==
    \/ \E force \in BOOLEAN : Start(w, force)
    \/ \E f \in Files : WalkFile(w, f) \/ PlanFile(w, f) \/ PlanFails(w, f)
                           \/ ReadFile(w, f) \/ ReadFails(w, f)
    \/ LoadRows(w) \/ Begin(w) \/ BeginTimesOut(w)
    \/ StatFile(w) \/ StatFails(w) \/ RecordMeta(w) \/ Commit(w) \/ Restart(w)

World ==
    \/ \E f \in Files, c \in Sources \union {Missing}, t \in Times : Edit(f, c, t)
    \/ \E b \in Branches : Checkout(b)
    \/ Upgrade

Next == (\E w \in Workers : Step(w) \/ Crash(w)) \/ World

Spec == Init /\ [][Next]_vars

\* A started sync keeps running and syncs keep being asked for; nothing obliges
\* anybody to edit, kill or upgrade.
FairSpec == Spec /\ \A w \in Workers : WF_vars(Step(w))

-----------------------------------------------------------------------------
Phases == {"idle", "walk", "load", "plan", "begin", "index", "stat", "finish", "commit", "killed"}

Jobs == [pc : Phases,
         force : BOOLEAN, fingerprint : Fingerprints,
         entries : [Files -> Stat \union {Missing}], known : [Files -> Row \union {Missing}],
         todo : SUBSET Files, plan : SUBSET Files, changed : BOOLEAN, file : Files \union {Missing},
         read : Contents \union {Missing}, undisturbed : BOOLEAN]

Dbs == [rows : [Files -> Row \union {Missing}], facts : [Files -> Contents \union {Missing}],
        edges : SUBSET Edges, branch : Branches \union {Missing}]

TypeOK ==
    /\ disk \in [Files -> OnDisk \union {Missing}]
    /\ now \in Times /\ branch \in Branches /\ installed \in Fingerprints
    /\ db \in Dbs /\ staged \in Dbs
    /\ writer \in Workers \union {Nobody}
    /\ job \in [Workers -> Jobs]
    /\ edits \in 0..MaxEdits
    /\ held \in [Files -> SUBSET (Sources \union {Missing})]

\* The row a freshness check trusts describes the content whose symbols are stored:
\* no sync, killed or failed anywhere, leaves a file row without its facts, facts
\* without a row, or the facts of another content.
RowsDescribeFacts ==
    \A f \in Files :
        /\ db.rows[f] = Missing <=> db.facts[f] = Missing
        /\ db.rows[f] # Missing => db.rows[f].hash = db.facts[f]

\* Committed edges are those of a full resolution over the committed facts, also
\* for the calls of files the last sync did not touch.
EdgesAreResolved == db.edges = ResolveEdges(db.facts)

\* doctor's verdict FRESH: nothing new, changed, deleted or extracted by another
\* version, and the branch has not drifted.
Fresh ==
    /\ db.branch = branch
    /\ \A f \in Files :
          IF disk[f] = Missing THEN db.rows[f] = Missing
          ELSE /\ ~MustRead(db.rows[f], StatOf(f)) \/ Readable(f)
               /\ ~Stale(db.rows[f], StatOf(f), installed, f)

InSync ==
    \A f \in Files : db.facts[f] = IF disk[f] = Missing THEN Missing ELSE disk[f].content

\* "Freshness contract for deciding whether the graph can be trusted right now":
\* when doctor says FRESH, the graph describes the files as they are.
FreshMeansInSync == Fresh => InSync

\* An incremental sync that ran while nothing moved commits what a full reindex
\* would: the plan missed no stale file, no deleted file and no old fingerprint.
IncrementalIsFull ==
    [][\A w \in Workers : Commit(w) /\ job[w].undisturbed =>
          \A f \in Files :
             IF disk[f] = Missing THEN db'.facts[f] = Missing
             ELSE /\ db'.facts[f] = disk[f].content
                  /\ db'.rows[f].fingerprint = installed]_vars

\* Once edits, upgrades and kills cease, repeated syncs reach FRESH and stay there,
\* unless an unreadable file makes every sync fail.
Converges ==
    <>[](\A w \in Workers : ~Doing(w, "killed")) =>
        <>[](Fresh \/ \E f \in Files : disk[f] # Missing /\ disk[f].content = Garbage)

-----------------------------------------------------------------------------
Store == INSTANCE GraphStore WITH
            Sources <- Sources, published <- db.facts, edges <- db.edges

\* Every behaviour of sync, seen at its commits, is one of the abstract store.
ImplementsStore == Store!Spec
=============================================================================
