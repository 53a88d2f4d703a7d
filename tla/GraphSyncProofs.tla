-------------------------- MODULE GraphSyncProofs --------------------------
(***************************************************************************)
(* What sync guarantees for every repository, every number of concurrent   *)
(* syncs, working lock or not, and every resolution policy: the proofs     *)
(* never look inside ResolveEdges except to see that no facts make no      *)
(* edges.                                                                  *)
(***************************************************************************)
EXTENDS GraphSync, TLAPS

-----------------------------------------------------------------------------
(* Types.                                                                  *)

LEMMA StatType ==
    ASSUME TypeOK, NEW f \in Files
    PROVE  /\ StatOf(f) \in Stat \union {Missing}
           /\ StatOf(f) # Missing => StatOf(f) \in Stat
           /\ StatOf(f) = Missing => disk[f] = Missing
  <1>1. CASE disk[f] = Missing
    BY <1>1 DEF StatOf
  <1>2. CASE disk[f] # Missing
    <2>1. disk[f] \in [content : Sources, mtime : Times]
      BY <1>2 DEF TypeOK, OnDisk
    <2>2. SizeOf[disk[f].content] \in Sizes /\ disk[f].mtime \in Times
      BY <2>1 DEF Sizes
    <2>3. [size |-> SizeOf[disk[f].content], mtime |-> disk[f].mtime] \in Stat
      BY <2>2 DEF Stat
    <2> QED
      BY <1>2, <2>3, MissingAssumption DEF StatOf
  <1> QED
    BY <1>1, <1>2

LEMMA IdleType == Idle \in Jobs /\ [Idle EXCEPT !.pc = "killed"] \in Jobs
  <1>1. NoEntries \in [Files -> Stat \union {Missing}] /\ NoEntries \in [Files -> Row \union {Missing}]
    BY DEF NoEntries
  <1>2. 1 \in Fingerprints
    BY SyncAssumption DEF Fingerprints
  <1>3. Idle \in Jobs
    BY <1>1, <1>2 DEF Idle, Jobs, Phases
  <1>4. "killed" \in Phases
    BY DEF Phases
  <1>5. \A j \in Jobs : [j EXCEPT !.pc = "killed"] \in Jobs
    BY <1>4 DEF Jobs
  <1> QED
    BY <1>3, <1>5

LEMMA EmptyDbType == EmptyDb \in Dbs
  BY DEF EmptyDb, Dbs

LEMMA EdgesType == ASSUME NEW facts PROVE ResolveEdges(facts) \in SUBSET Edges
  BY DEF ResolveEdges, Edges

LEMMA PurgeType == ASSUME NEW d \in Dbs, NEW gone PROVE Purge(d, gone) \in Dbs
  BY DEF Purge, Dbs

LEMMA WriteType ==
    ASSUME NEW d \in Dbs, NEW f \in Files, NEW c \in Contents, NEW stat \in Stat,
           NEW fp \in Fingerprints
    PROVE  Write(d, f, c, stat, fp) \in Dbs
  BY DEF Write, Dbs, Row, Stat

LEMMA RebuildType == ASSUME NEW d \in Dbs PROVE RebuildEdges(d) \in Dbs
  BY EdgesType DEF RebuildEdges, Dbs

\* The file a worker is between reading and statting is one, and was readable.
AtStat ==
    \A w \in Workers : Doing(w, "stat") =>
        job[w].file \in Files /\ job[w].read \in Contents

TypeInv == TypeOK /\ AtStat

LEMMA EndTransactionType ==
    ASSUME TypeOK, NEW w, EndTransaction(w)
    PROVE  staged' \in Dbs /\ writer' \in Workers \union {Nobody}
  BY EmptyDbType DEF EndTransaction, TypeOK

LEMMA AbortType ==
    ASSUME TypeInv, NEW w \in Workers, Abort(w)
    PROVE  TypeInv'
  <1>1. Idle.pc # "stat"
    BY DEF Idle
  <1> QED
    BY <1>1, IdleType, EndTransactionType DEF TypeInv, TypeOK, AtStat, Doing, Abort, env

\* What Disturb writes is the same jobs but for the history flag.
LEMMA DisturbType ==
    ASSUME TypeInv, Disturb
    PROVE  /\ job' \in [Workers -> Jobs]
           /\ \A w \in Workers : /\ job'[w].pc = job[w].pc /\ job'[w].file = job[w].file
                                 /\ job'[w].read = job[w].read
  <1>1. \A j \in Jobs, b \in BOOLEAN :
           /\ [j EXCEPT !.undisturbed = b] \in Jobs
           /\ [j EXCEPT !.undisturbed = b].pc = j.pc
           /\ [j EXCEPT !.undisturbed = b].file = j.file
           /\ [j EXCEPT !.undisturbed = b].read = j.read
    BY DEF Jobs
  <1>2. \A w \in Workers : job'[w] = [job[w] EXCEPT !.undisturbed = w \notin Busy]
    BY DEF Disturb
  <1>3. \A w \in Workers : job[w] \in Jobs /\ (w \notin Busy) \in BOOLEAN
    BY DEF TypeInv, TypeOK
  <1>4. job' = [w \in Workers |-> job'[w]]
    BY DEF Disturb
  <1>5. \A w \in Workers : job'[w] \in Jobs
    BY <1>1, <1>2, <1>3
  <1> QED
    BY <1>1, <1>2, <1>3, <1>4, <1>5

\* The job of a worker about to plan, to index, and between two files.
LEMMA LoadedType ==
    ASSUME NEW j \in Jobs, NEW rows \in [Files -> Row \union {Missing}],
           NEW todo \in SUBSET Files, NEW plan \in SUBSET Files, NEW pc \in {"begin", "plan"}
    PROVE  LET k == [j EXCEPT !.known = rows, !.todo = todo, !.plan = plan,
                              !.force = FALSE, !.pc = pc]
           IN  k \in Jobs /\ k.pc = pc
  <1>1. pc \in Phases
    BY DEF Phases
  <1> QED
    BY <1>1 DEF Jobs

LEMMA BegunType ==
    ASSUME NEW j \in Jobs, NEW todo \in SUBSET Files, NEW changed \in BOOLEAN,
           NEW pc \in {"finish", "index"}
    PROVE  LET k == [j EXCEPT !.todo = todo, !.changed = changed, !.plan = {},
                              !.entries = NoEntries, !.known = NoEntries, !.pc = pc]
           IN  k \in Jobs /\ k.pc = pc
  <1>1. pc \in Phases
    BY DEF Phases
  <1>2. NoEntries \in [Files -> Stat \union {Missing}] /\ NoEntries \in [Files -> Row \union {Missing}]
    BY DEF NoEntries
  <1> QED
    BY <1>1, <1>2 DEF Jobs

LEMMA AdvanceType ==
    ASSUME TypeOK, NEW w \in Workers, NEW j \in Jobs, NEW f \in Files,
           NEW next \in Phases, Advance(w, j, f, next)
    PROVE  /\ job' \in [Workers -> Jobs]
           /\ job'[w].pc \in {j.pc, next}
           /\ \A v \in Workers \ {w} : job'[v] = job[v]
  <1>1. PICK pc \in Phases, todo \in SUBSET Files :
           /\ pc \in {j.pc, next}
           /\ job' = [job EXCEPT ![w] = [j EXCEPT !.todo = todo, !.pc = pc]]
    BY DEF Advance, Jobs
  <1>2. [j EXCEPT !.todo = todo, !.pc = pc] \in Jobs
    BY <1>1 DEF Jobs
  <1>3. [j EXCEPT !.todo = todo, !.pc = pc].pc = pc
    BY DEF Jobs
  <1> QED
    BY <1>1, <1>2, <1>3 DEF TypeOK

LEMMA TypeInit == Init => TypeInv
  <1> SUFFICES ASSUME Init PROVE TypeInv
    OBVIOUS
  <1>1. 0 \in Times /\ 1 \in Fingerprints /\ 0 \in 0..MaxEdits
    BY SyncAssumption DEF Times, Fingerprints
  <1>2. disk \in [Files -> OnDisk \union {Missing}]
    BY <1>1 DEF Init, OnDisk
  <1>3. branch \in Branches
    BY SyncAssumption DEF Init
  <1>4. held \in [Files -> SUBSET (Sources \union {Missing})]
    BY <1>2 DEF Init, OnDisk
  <1>5. job \in [Workers -> Jobs] /\ AtStat
    BY IdleType DEF Init, AtStat, Doing, Idle
  <1> QED
    BY <1>1, <1>2, <1>3, <1>4, <1>5, EmptyDbType DEF Init, TypeInv, TypeOK

LEMMA TypeStep == TypeInv /\ [Next]_vars => TypeInv'
  <1> SUFFICES ASSUME TypeInv, [Next]_vars PROVE TypeInv'
    OBVIOUS
  <1> USE DEF TypeInv, Doing
  <1>1. ASSUME NEW w \in Workers, NEW force \in BOOLEAN, Start(w, force) PROVE TypeInv'
    <2>1. [Idle EXCEPT !.pc = "walk", !.force = force, !.fingerprint = installed, !.todo = Files]
             \in Jobs
      BY IdleType DEF TypeOK, Jobs, Phases
    <2> QED
      BY <1>1, <2>1 DEF Start, TypeOK, AtStat, env, Idle
  <1>2. ASSUME NEW w \in Workers, NEW f \in Files, WalkFile(w, f) PROVE TypeInv'
    <2>1. [job[w] EXCEPT !.entries[f] = StatOf(f)] \in Jobs
      BY StatType DEF TypeOK, Jobs
    <2> QED
      BY <1>2, <2>1 DEF WalkFile, Advance, TypeOK, AtStat, env, Jobs, Phases
  <1>3. ASSUME NEW w \in Workers, LoadRows(w) PROVE TypeInv'
    <2>2. db.rows \in [Files -> Row \union {Missing}]
      BY DEF TypeOK, Dbs
    <2>3. PICK todo \in SUBSET Files, plan \in SUBSET Files, pc \in {"begin", "plan"} :
             job' = [job EXCEPT ![w] = [job[w] EXCEPT !.known = db.rows, !.todo = todo,
                                            !.plan = plan, !.force = FALSE, !.pc = pc]]
      <3> DEFINE found == {f \in Files : job[w].entries[f] # Missing}
                 planned == job[w].force \/ found = {}
      <3>1. job' = [job EXCEPT ![w] = [job[w] EXCEPT !.known = db.rows,
                       !.todo = IF planned THEN {} ELSE found,
                       !.plan = IF planned THEN found ELSE {}, !.force = FALSE,
                       !.pc = IF planned THEN "begin" ELSE "plan"]]
        BY <1>3 DEF LoadRows, TypeOK, Jobs
      <3> QED
        BY <3>1
    <2>4. job' \in [Workers -> Jobs] /\ job'[w].pc # "stat"
      BY <2>2, <2>3, LoadedType DEF TypeOK
    <2> QED
      BY <1>3, <2>3, <2>4 DEF LoadRows, TypeOK, AtStat, env
  <1>4. ASSUME NEW w \in Workers, NEW f \in Files, PlanFile(w, f) PROVE TypeInv'
    <2>1. PICK j \in Jobs : j.pc = "plan" /\ Advance(w, j, f, "begin")
      <3>1. job[w] \in Jobs /\ [job[w] EXCEPT !.plan = @ \union {f}] \in Jobs
        BY DEF TypeOK, Jobs
      <3> QED
        BY <1>4, <3>1 DEF PlanFile, Jobs
    <2>2. job' \in [Workers -> Jobs] /\ job'[w].pc # "stat"
      BY <2>1 DEF Advance, TypeOK, Jobs, Phases
    <2> QED
      BY <1>4, <2>1, <2>2 DEF PlanFile, Advance, TypeOK, AtStat, env
  <1>5. ASSUME NEW w \in Workers, NEW f \in Files, PlanFails(w, f) PROVE TypeInv'
    BY <1>5, AbortType DEF PlanFails
  <1>6. ASSUME NEW w \in Workers, Begin(w) PROVE TypeInv'
    <2>2. staged' \in Dbs /\ writer' \in Workers
      BY <1>6, PurgeType DEF Begin, TypeOK
    <2>4. job[w] \in Jobs /\ job[w].plan \in SUBSET Files
      BY DEF TypeOK, Jobs
    <2>5. PICK changed \in BOOLEAN, pc \in {"finish", "index"} :
             job' = [job EXCEPT ![w] =
                       [job[w] EXCEPT !.todo = job[w].plan, !.changed = changed, !.plan = {},
                                      !.entries = NoEntries, !.known = NoEntries, !.pc = pc]]
      <3> DEFINE changed == job[w].plan \union Deleted(w) # {}
                 pc == IF job[w].plan = {} THEN "finish" ELSE "index"
      <3>1. job' = [job EXCEPT ![w] =
                       [job[w] EXCEPT !.todo = job[w].plan, !.changed = changed, !.plan = {},
                                      !.entries = NoEntries, !.known = NoEntries, !.pc = pc]]
        BY <1>6 DEF Begin, StartIndexing, TypeOK
      <3> QED
        BY <3>1
    <2>6. job' \in [Workers -> Jobs] /\ job'[w].pc # "stat"
      BY <2>4, <2>5, BegunType DEF TypeOK
    <2> QED
      BY <1>6, <2>2, <2>5, <2>6 DEF Begin, TypeOK, AtStat, env
  <1>7. ASSUME NEW w \in Workers, BeginTimesOut(w) PROVE TypeInv'
    BY <1>7, AbortType DEF BeginTimesOut
  <1>8. ASSUME NEW w \in Workers, NEW f \in Files, ReadFile(w, f) PROVE TypeInv'
    <2>1. disk[f].content \in Contents
      BY <1>8 DEF ReadFile, Readable
    <2> QED
      BY <1>8, <2>1 DEF ReadFile, TypeOK, AtStat, env, Jobs, Phases
  <1>9. ASSUME NEW w \in Workers, NEW f \in Files, ReadFails(w, f) PROVE TypeInv'
    BY <1>9, AbortType DEF ReadFails
  <1>10. ASSUME NEW w \in Workers, StatFile(w) PROVE TypeInv'
    <2>1. job[w].file \in Files /\ job[w].read \in Contents
      BY <1>10 DEF StatFile, AtStat
    <2>2. staged' \in Dbs
      BY <1>10, <2>1, StatType, WriteType DEF StatFile, TypeOK, Jobs
    <2>3. \A j \in Jobs : LET k == [j EXCEPT !.file = Missing, !.read = Missing, !.pc = "index"]
                         IN  k \in Jobs /\ k.pc = "index"
      BY DEF Jobs, Phases
    <2>4. job' \in [Workers -> Jobs] /\ job'[w].pc # "stat"
      <3> DEFINE j == [job[w] EXCEPT !.file = Missing, !.read = Missing, !.pc = "index"]
      <3>1. j \in Jobs /\ j.pc = "index" /\ Advance(w, j, job[w].file, "finish")
        BY <1>10, <2>3 DEF StatFile, TypeOK
      <3> HIDE DEF j
      <3> QED
        BY <2>1, <3>1, AdvanceType DEF Phases
    <2> QED
      BY <1>10, <2>2, <2>4 DEF StatFile, Advance, TypeOK, AtStat, env
  <1>11. ASSUME NEW w \in Workers, StatFails(w) PROVE TypeInv'
    BY <1>11, AbortType DEF StatFails
  <1>12. ASSUME NEW w \in Workers, RecordMeta(w) PROVE TypeInv'
    <2>1. \A d \in Dbs : [d EXCEPT !.branch = branch] \in Dbs
      BY DEF TypeOK, Dbs
    <2>2. staged' \in Dbs
      BY <1>12, <2>1, RebuildType DEF RecordMeta, TypeOK
    <2>3. \A j \in Jobs : [j EXCEPT !.pc = "commit"] \in Jobs /\ [j EXCEPT !.pc = "commit"].pc = "commit"
      BY DEF Jobs, Phases
    <2> QED
      BY <1>12, <2>2, <2>3 DEF RecordMeta, TypeOK, AtStat, env
  <1>13. ASSUME NEW w \in Workers, Commit(w) PROVE TypeInv'
    BY <1>13, IdleType, EndTransactionType DEF Commit, TypeOK, AtStat, env, Idle
  <1>14. ASSUME NEW w \in Workers, Crash(w) PROVE TypeInv'
    <2>1. [Idle EXCEPT !.pc = "killed"].pc = "killed"
      BY DEF Idle
    <2> QED
      BY <1>14, <2>1, IdleType, EndTransactionType DEF Crash, TypeOK, AtStat, env
  <1>15. ASSUME NEW w \in Workers, Restart(w) PROVE TypeInv'
    BY <1>15, IdleType DEF Restart, TypeOK, AtStat, env, Idle
  <1>16. ASSUME NEW f \in Files, NEW c \in Sources \union {Missing}, NEW t \in Times, Edit(f, c, t)
         PROVE  TypeInv'
    <2>1. disk' \in [Files -> OnDisk \union {Missing}]
      BY <1>16 DEF Edit, TypeOK, OnDisk
    <2>2. edits' \in 0..MaxEdits
      BY <1>16, SyncAssumption DEF Edit, TypeOK
    <2> QED
      BY <1>16, <2>1, <2>2, DisturbType DEF Edit, TypeOK, AtStat
  <1>17. ASSUME NEW b \in Branches, Checkout(b) PROVE TypeInv'
    <2>1. edits' \in 0..MaxEdits
      BY <1>17, SyncAssumption DEF Checkout, TypeOK
    <2> QED
      BY <1>17, <2>1, DisturbType DEF Checkout, TypeOK, AtStat
  <1>18. CASE Upgrade
    <2>1. installed' \in Fingerprints
      BY <1>18, SyncAssumption DEF Upgrade, TypeOK, Fingerprints
    <2> QED
      BY <1>18, <2>1, DisturbType DEF Upgrade, TypeOK, AtStat
  <1>19. CASE UNCHANGED vars
    BY <1>19 DEF vars, TypeOK, AtStat
  <1> QED
    BY <1>1, <1>2, <1>3, <1>4, <1>5, <1>6, <1>7, <1>8, <1>9, <1>10, <1>11, <1>12, <1>13,
       <1>14, <1>15, <1>16, <1>17, <1>18, <1>19 DEF Next, Step, World

\* TypeOK: every job, row and fact stays in its domain; in particular a sync stores
\* facts and stats only of files whose content an extractor could read.
THEOREM TypeCorrect == Spec => []TypeOK
  <1>1. TypeInv => TypeOK
    BY DEF TypeInv
  <1> QED
    BY <1>1, TypeInit, TypeStep, PTL DEF Spec

-----------------------------------------------------------------------------
(* Rows and facts.                                                         *)

Coherent(d) ==
    \A f \in Files :
        /\ d.rows[f] = Missing <=> d.facts[f] = Missing
        /\ d.rows[f] # Missing => d.rows[f].hash = d.facts[f]

LEMMA CoherentOperations ==
    ASSUME NEW d \in Dbs, Coherent(d)
    PROVE  /\ \A gone : Coherent(Purge(d, gone))
           /\ Coherent(RebuildEdges(d))
           /\ \A b : Coherent([d EXCEPT !.branch = b])
  BY DEF Coherent, Purge, RebuildEdges, Dbs

LEMMA CoherentWrite ==
    ASSUME NEW d \in Dbs, Coherent(d), NEW f \in Files, NEW c \in Contents,
           NEW stat \in Stat, NEW fp \in Fingerprints
    PROVE  Coherent(Write(d, f, c, stat, fp))
  <1> DEFINE row == [hash |-> c, size |-> stat.size, mtime |-> stat.mtime, fingerprint |-> fp]
  <1>1. row \in Row /\ row.hash = c
    BY DEF Row, Stat
  <1>2. row # Missing /\ c # Missing
    BY <1>1, MissingAssumption, SyncAssumption DEF Sources
  <1>3. /\ Write(d, f, c, stat, fp).rows = [d.rows EXCEPT ![f] = row]
        /\ Write(d, f, c, stat, fp).facts = [d.facts EXCEPT ![f] = c]
    BY DEF Write, Dbs
  <1>4. d.rows \in [Files -> Row \union {Missing}] /\ d.facts \in [Files -> Contents \union {Missing}]
    BY DEF Dbs
  <1> HIDE DEF row
  <1> QED
    BY <1>1, <1>2, <1>3, <1>4 DEF Coherent

LEMMA EmptyDbCoherent == Coherent(EmptyDb)
  BY DEF Coherent, EmptyDb

CoherentInv == Coherent(db) /\ Coherent(staged)

LEMMA CoherentStep == TypeInv /\ CoherentInv /\ [Next]_vars => CoherentInv'
  <1> SUFFICES ASSUME TypeInv, CoherentInv, [Next]_vars PROVE CoherentInv'
    OBVIOUS
  <1> USE DEF CoherentInv
  <1>0. db \in Dbs /\ staged \in Dbs
    BY DEF TypeInv, TypeOK
  <1>1. ASSUME UNCHANGED <<db, staged>> PROVE CoherentInv'
    BY <1>1 DEF Coherent
  <1>2. ASSUME NEW w \in Workers, EndTransaction(w), db' \in {db, staged} PROVE CoherentInv'
    <2>1. staged' \in {staged, EmptyDb}
      BY <1>2 DEF EndTransaction
    <2> QED
      BY <1>2, <2>1, EmptyDbCoherent DEF Coherent
  <1>3. ASSUME NEW w \in Workers, Begin(w) PROVE CoherentInv'
    <2>1. staged' = Purge(db, job[w].plan \union Deleted(w)) /\ db' = db
      BY <1>3 DEF Begin
    <2> QED
      BY <1>0, <2>1, CoherentOperations DEF Coherent
  <1>4. ASSUME NEW w \in Workers, StatFile(w) PROVE CoherentInv'
    <2>1. job[w].file \in Files /\ job[w].read \in Contents
      BY <1>4 DEF StatFile, TypeInv, AtStat
    <2>2. StatOf(job[w].file) \in Stat /\ job[w].fingerprint \in Fingerprints
      BY <1>4, <2>1, StatType DEF StatFile, TypeInv, TypeOK, Jobs
    <2>3. db' = db /\ staged' = Write(staged, job[w].file, job[w].read, StatOf(job[w].file),
                                     job[w].fingerprint)
      BY <1>4 DEF StatFile
    <2> QED
      BY <1>0, <2>1, <2>2, <2>3, CoherentWrite DEF Coherent
  <1>5. ASSUME NEW w \in Workers, RecordMeta(w) PROVE CoherentInv'
    <2>1. PICK d \in {staged, RebuildEdges(staged)} : staged' = [d EXCEPT !.branch = branch]
      BY <1>5 DEF RecordMeta
    <2>2. d \in Dbs /\ Coherent(d)
      BY <1>0, <2>1, RebuildType, CoherentOperations
    <2>3. db' = db
      BY <1>5 DEF RecordMeta
    <2> QED
      BY <2>1, <2>2, <2>3, CoherentOperations DEF Coherent
  <1>6. ASSUME NEW w \in Workers, Step(w) PROVE CoherentInv'
    BY <1>1, <1>2, <1>3, <1>4, <1>5, <1>6
       DEF Step, Start, WalkFile, LoadRows, PlanFile, PlanFails, BeginTimesOut, ReadFile,
           ReadFails, StatFails, Commit, Restart, Abort
  <1>7. ASSUME NEW w \in Workers, Crash(w) PROVE CoherentInv'
    BY <1>2, <1>7 DEF Crash
  <1>8. CASE World
    BY <1>1, <1>8 DEF World, Edit, Checkout, Upgrade
  <1>9. CASE UNCHANGED vars
    BY <1>1, <1>9 DEF vars
  <1> QED
    BY <1>6, <1>7, <1>8, <1>9 DEF Next

\* A committed file row always comes with the facts of exactly the content whose hash
\* it carries, for any number of syncs, with the advisory lock or without it: what
\* entry_freshness concludes from the row is true of the stored symbols.
THEOREM RowsAreTrustworthy == Spec => []RowsDescribeFacts
  <1>1. Init => CoherentInv
    BY EmptyDbCoherent DEF Init, CoherentInv
  <1>2. CoherentInv => RowsDescribeFacts
    BY DEF CoherentInv, Coherent, RowsDescribeFacts
  <1> QED
    BY <1>1, <1>2, TypeInit, TypeStep, CoherentStep, PTL DEF Spec

-----------------------------------------------------------------------------
(* The transaction, its edges and where its facts come from.               *)

Writing(w) == job[w].pc \in {"index", "stat", "finish", "commit"}

\* A job past Begin is the writer.
WriterInv == \A w \in Workers : Writing(w) => writer = w

\* What is left to index, and the file between its read and its stat.
IndexInv ==
    \A w \in Workers :
        /\ job[w].pc \in {"index", "stat"} => job[w].changed
        /\ job[w].pc = "stat" => job[w].file \in job[w].todo /\ job[w].read \in held[job[w].file]
        /\ job[w].pc \in {"finish", "commit"} => job[w].todo = {}

\* The edges of a transaction are resolved by the time it commits, or were never touched.
EdgeInv ==
    /\ EdgesAreResolved
    /\ \A w \in Workers :
          Doing(w, "commit") \/ (Doing(w, "finish") /\ ~job[w].changed) =>
              staged.edges = ResolveEdges(staged.facts)

\* What the walk reports missing was missing, and what is staged was held.
HeldInv ==
    /\ \A f \in Files : (IF disk[f] = Missing THEN Missing ELSE disk[f].content) \in held[f]
    /\ \A w \in Workers, f \in Files :
          /\ \/ Doing(w, "walk") /\ f \notin job[w].todo
             \/ job[w].pc \in {"load", "plan", "begin"}
          /\ job[w].entries[f] = Missing
          => Missing \in held[f]
    /\ \A w \in Workers, f \in Files :
          Writing(w) => staged.facts[f] \in held[f] \union {db.facts[f]} \/ f \in job[w].todo

LEMMA AbortIdles ==
    ASSUME TypeInv, NEW w \in Workers, Abort(w)
    PROVE  job'[w] = Idle /\ ~Writing(w)'
  BY DEF Abort, TypeInv, TypeOK, Writing, Idle

\* A worker's step leaves the others' jobs alone, and its step touches neither the
\* database nor what is staged while another worker is the writer.
LEMMA OthersKeep ==
    ASSUME TypeInv, WriterInv, NEW w \in Workers, Step(w) \/ Crash(w),
           NEW v \in Workers \ {w}
    PROVE  /\ job'[v] = job[v]
           /\ Writing(v) => writer' = writer /\ staged' = staged /\ db' = db
  <1>1. job'[v] = job[v]
    BY DEF TypeInv, TypeOK, Step, Start, WalkFile, LoadRows, PlanFile, PlanFails, Begin,
           StartIndexing, BeginTimesOut, ReadFile, ReadFails, StatFile, StatFails, RecordMeta,
           Commit, Restart, Crash, Abort, Advance
  <1>2. ASSUME Writing(v) PROVE writer' = writer /\ staged' = staged /\ db' = db
    <2>1. writer = v /\ writer # w /\ writer # Nobody /\ ~Writing(w)
      BY <1>2, SyncAssumption DEF WriterInv
    <2>2. ~Begin(w) /\ ~StatFile(w) /\ ~RecordMeta(w) /\ ~Commit(w)
      BY <2>1 DEF Begin, StatFile, RecordMeta, Commit, Writing, Doing
    <2>3. EndTransaction(w) => writer' = writer /\ staged' = staged
      BY <2>1 DEF EndTransaction
    <2> QED
      BY <2>2, <2>3 DEF Step, Start, WalkFile, LoadRows, PlanFile, PlanFails, BeginTimesOut,
           ReadFile, ReadFails, StatFails, Restart, Crash, Abort
  <1> QED
    BY <1>1, <1>2

\* The world moves neither the database nor a job, history flag aside.
LEMMA WorldKeeps ==
    ASSUME TypeInv, World
    PROVE  /\ UNCHANGED <<db, writer, staged>>
           /\ \A w \in Workers :
                /\ job'[w].pc = job[w].pc /\ job'[w].file = job[w].file
                /\ job'[w].read = job[w].read /\ job'[w].todo = job[w].todo
                /\ job'[w].entries = job[w].entries /\ job'[w].changed = job[w].changed
  <1>1. UNCHANGED <<db, writer, staged>> /\ Disturb
    BY DEF World, Edit, Checkout, Upgrade
  <1> QED
    BY <1>1 DEF Disturb, TypeInv, TypeOK, Jobs

\* What each step leaves in the job of the worker that takes it.
LEMMA WalkDoes ==
    ASSUME TypeInv, NEW w \in Workers, NEW f \in Files, WalkFile(w, f)
    PROVE  /\ job'[w].entries = [job[w].entries EXCEPT ![f] = StatOf(f)]
           /\ job'[w].todo = job[w].todo \ {f}
           /\ job'[w].pc \in {"walk", "load"} /\ (job'[w].pc = "load" => job'[w].todo = {})
           /\ UNCHANGED <<env, db, writer, staged>>
  <1>1. PICK j \in Jobs : /\ j = [job[w] EXCEPT !.entries[f] = StatOf(f)]
                         /\ Advance(w, j, f, "load")
    BY StatType DEF WalkFile, TypeInv, TypeOK, Jobs
  <1>2. /\ j.pc = "walk" /\ j.todo = job[w].todo
        /\ j.entries = [job[w].entries EXCEPT ![f] = StatOf(f)]
    BY <1>1 DEF WalkFile, Doing, TypeInv, TypeOK, Jobs
  <1> QED
    BY <1>1, <1>2 DEF WalkFile, Advance, TypeInv, TypeOK, Jobs

LEMMA LoadDoes ==
    ASSUME TypeInv, NEW w \in Workers, LoadRows(w)
    PROVE  /\ job'[w].pc \in {"plan", "begin"} /\ job'[w].entries = job[w].entries
           /\ UNCHANGED <<env, db, writer, staged>>
  <1>1. PICK pc \in {"plan", "begin"}, todo \in SUBSET Files, plan \in SUBSET Files :
           job' = [job EXCEPT ![w] = [job[w] EXCEPT !.known = db.rows, !.todo = todo,
                                            !.plan = plan, !.force = FALSE, !.pc = pc]]
    <2> DEFINE found == {f \in Files : job[w].entries[f] # Missing}
               planned == job[w].force \/ found = {}
    <2>1. job' = [job EXCEPT ![w] = [job[w] EXCEPT !.known = db.rows,
                     !.todo = IF planned THEN {} ELSE found,
                     !.plan = IF planned THEN found ELSE {}, !.force = FALSE,
                     !.pc = IF planned THEN "begin" ELSE "plan"]]
      BY DEF LoadRows, TypeInv, TypeOK, Jobs
    <2> QED
      BY <2>1
  <1> QED
    <2>1. \A j \in Jobs : LET k == [j EXCEPT !.known = db.rows, !.todo = todo, !.plan = plan,
                                            !.force = FALSE, !.pc = pc]
                         IN  k.pc = pc /\ k.entries = j.entries
      BY DEF Jobs
    <2>2. job[w] \in Jobs
      BY DEF TypeInv, TypeOK
    <2> QED
      BY <1>1, <2>1, <2>2 DEF LoadRows, TypeInv, TypeOK

LEMMA PlanDoes ==
    ASSUME TypeInv, NEW w \in Workers, NEW f \in Files, PlanFile(w, f)
    PROVE  /\ job'[w].pc \in {"plan", "begin"} /\ job'[w].entries = job[w].entries
           /\ UNCHANGED <<env, db, writer, staged>>
  BY DEF PlanFile, Advance, Doing, TypeInv, TypeOK, Jobs

LEMMA BeginDoes ==
    ASSUME TypeInv, NEW w \in Workers, Begin(w)
    PROVE  /\ job'[w].pc = IF job[w].plan = {} THEN "finish" ELSE "index"
           /\ job'[w].todo = job[w].plan
           /\ job'[w].changed = (job[w].plan \union Deleted(w) # {})
           /\ staged' = Purge(db, job[w].plan \union Deleted(w))
           /\ UNCHANGED <<env, db>>
  <1>1. \A j \in Jobs, todo \in SUBSET Files, changed \in BOOLEAN, pc \in Phases :
           LET k == [j EXCEPT !.todo = todo, !.changed = changed, !.plan = {},
                              !.entries = NoEntries, !.known = NoEntries, !.pc = pc]
           IN  k.pc = pc /\ k.todo = todo /\ k.changed = changed
    BY DEF Jobs
  <1>2. job[w] \in Jobs
    BY DEF TypeInv, TypeOK
  <1>3. job'[w] = [job[w] EXCEPT !.todo = job[w].plan,
                      !.changed = (job[w].plan \union Deleted(w) # {}), !.plan = {},
                      !.entries = NoEntries, !.known = NoEntries,
                      !.pc = IF job[w].plan = {} THEN "finish" ELSE "index"]
    BY DEF Begin, StartIndexing, TypeInv, TypeOK
  <1> QED
    BY <1>1, <1>2, <1>3 DEF Begin

LEMMA ReadDoes ==
    ASSUME TypeInv, NEW w \in Workers, NEW f \in Files, ReadFile(w, f)
    PROVE  /\ job'[w].pc = "stat" /\ job'[w].file = f /\ job'[w].read = disk[f].content
           /\ job'[w].todo = job[w].todo /\ job'[w].changed = job[w].changed
           /\ f \in job[w].todo /\ job[w].pc = "index" /\ disk[f] # Missing
           /\ UNCHANGED <<env, db, writer, staged>>
  BY DEF ReadFile, Readable, Doing, TypeInv, TypeOK, Jobs

LEMMA StatDoes ==
    ASSUME TypeInv, NEW w \in Workers, StatFile(w)
    PROVE  /\ job'[w].pc \in {"index", "finish"}
           /\ job'[w].todo = job[w].todo \ {job[w].file}
           /\ job'[w].changed = job[w].changed
           /\ (job'[w].pc = "finish" => job'[w].todo = {})
           /\ staged'.facts = [staged.facts EXCEPT ![job[w].file] = job[w].read]
           /\ job[w].pc = "stat"
           /\ UNCHANGED <<env, db, writer>>
  <1>1. \A j \in Jobs : LET k == [j EXCEPT !.file = Missing, !.read = Missing, !.pc = "index"]
                       IN  k.pc = "index" /\ k.todo = j.todo /\ k.changed = j.changed /\ k \in Jobs
    BY DEF Jobs, Phases
  <1>2. PICK j \in Jobs : /\ j.pc = "index" /\ j.todo = job[w].todo /\ j.changed = job[w].changed
                         /\ Advance(w, j, job[w].file, "finish")
    BY <1>1 DEF StatFile, TypeInv, TypeOK
  <1>3. staged'.facts = [staged.facts EXCEPT ![job[w].file] = job[w].read]
    BY DEF StatFile, Write, TypeInv, TypeOK, Dbs
  <1> QED
    BY <1>2, <1>3 DEF StatFile, Doing, Advance, TypeInv, TypeOK, Jobs

LEMMA RecordDoes ==
    ASSUME TypeInv, NEW w \in Workers, RecordMeta(w)
    PROVE  /\ job'[w].pc = "commit" /\ job'[w].todo = job[w].todo
           /\ staged'.facts = staged.facts
           /\ staged'.edges = IF job[w].changed THEN ResolveEdges(staged.facts) ELSE staged.edges
           /\ job[w].pc = "finish"
           /\ UNCHANGED <<env, db, writer>>
  BY DEF RecordMeta, RebuildEdges, Doing, TypeInv, TypeOK, Jobs, Dbs

LEMMA WriterStep == TypeInv /\ WriterInv /\ [Next]_vars => WriterInv'
  <1> SUFFICES ASSUME TypeInv, WriterInv, [Next]_vars PROVE WriterInv'
    OBVIOUS
  <1>1. ASSUME NEW w \in Workers, Step(w) \/ Crash(w), Writing(w)' => writer' = w
        PROVE  WriterInv'
    BY <1>1, OthersKeep DEF WriterInv, Writing
  <1>2. ASSUME NEW w \in Workers, Crash(w) PROVE WriterInv'
    <2>1. ~Writing(w)'
      BY <1>2 DEF Crash, Writing, Idle, TypeInv, TypeOK
    <2> QED
      BY <1>1, <1>2, <2>1
  <1>3. ASSUME NEW w \in Workers, Step(w) PROVE WriterInv'
    <2>1. ASSUME Abort(w) PROVE WriterInv'
      BY <1>1, <1>3, <2>1, AbortIdles
    <2>2. ASSUME NEW force \in BOOLEAN, Start(w, force) PROVE WriterInv'
      BY <1>1, <1>3, <2>2 DEF Start, Writing, Idle, TypeInv, TypeOK
    <2>3. ASSUME NEW f \in Files, WalkFile(w, f) PROVE WriterInv'
      BY <1>1, <1>3, <2>3, WalkDoes DEF Writing
    <2>4. ASSUME LoadRows(w) PROVE WriterInv'
      BY <1>1, <1>3, <2>4, LoadDoes DEF Writing
    <2>5. ASSUME NEW f \in Files, PlanFile(w, f) PROVE WriterInv'
      BY <1>1, <1>3, <2>5, PlanDoes DEF Writing
    <2>6. ASSUME Begin(w) PROVE WriterInv'
      BY <1>1, <1>3, <2>6 DEF Begin
    <2>7. ASSUME Writing(w), UNCHANGED writer PROVE WriterInv'
      BY <1>1, <1>3, <2>7 DEF WriterInv
    <2>8. ASSUME Commit(w) \/ Restart(w) PROVE WriterInv'
      <3>1. job'[w] = Idle
        BY <2>8 DEF Commit, Restart, TypeInv, TypeOK
      <3> QED
        BY <1>1, <1>3, <3>1 DEF Writing, Idle
    <2> QED
      BY <1>3, <2>1, <2>2, <2>3, <2>4, <2>5, <2>6, <2>7, <2>8
         DEF Step, PlanFails, BeginTimesOut, ReadFile, ReadFails, StatFile, StatFails,
             RecordMeta, Writing, Doing
  <1>4. CASE World
    BY <1>4, WorldKeeps DEF WriterInv, Writing
  <1>5. CASE UNCHANGED vars
    BY <1>5 DEF vars, WriterInv, Writing
  <1> QED
    BY <1>2, <1>3, <1>4, <1>5 DEF Next

\* A worker's step leaves the tree alone, and history only grows.
LEMMA StepKeepsTree ==
    ASSUME NEW w \in Workers, Step(w) \/ Crash(w)
    PROVE  UNCHANGED <<disk, held>>
  BY DEF Step, Start, WalkFile, LoadRows, PlanFile, PlanFails, Begin, BeginTimesOut,
         ReadFile, ReadFails, StatFile, StatFails, RecordMeta, Commit, Restart, Crash, Abort, env

LEMMA HeldGrows ==
    ASSUME TypeInv, [Next]_vars
    PROVE  \A f \in Files : held[f] \subseteq held'[f]
  <1>1. ASSUME NEW f \in Files, NEW c \in Sources \union {Missing}, NEW t \in Times, Edit(f, c, t)
        PROVE  \A g \in Files : held[g] \subseteq held'[g]
    BY <1>1 DEF Edit, TypeInv, TypeOK
  <1>2. ASSUME UNCHANGED held PROVE \A g \in Files : held[g] \subseteq held'[g]
    BY <1>2
  <1>3. ASSUME NEW w \in Workers, Step(w) \/ Crash(w) PROVE UNCHANGED held
    BY <1>3, StepKeepsTree
  <1>4. Upgrade \/ UNCHANGED vars => UNCHANGED held
    BY DEF Upgrade, vars
  <1>5. ASSUME NEW b \in Branches, Checkout(b) PROVE UNCHANGED held
    BY <1>5 DEF Checkout
  <1> QED
    BY <1>1, <1>2, <1>3, <1>4, <1>5 DEF Next, World

\* A worker's step either ends or has not begun its writing, or is one of these.
LEMMA WritingSteps ==
    ASSUME TypeInv, NEW w \in Workers, Step(w) \/ Crash(w), Writing(w)'
    PROVE  \/ Begin(w) \/ \E f \in Files : ReadFile(w, f)
           \/ StatFile(w) \/ RecordMeta(w)
  <1>1. ~Abort(w)
    BY AbortIdles
  <1>2. ASSUME NEW force \in BOOLEAN PROVE ~Start(w, force)
    BY DEF Start, Writing, Idle, TypeInv, TypeOK
  <1>3. ~Commit(w) /\ ~Restart(w) /\ ~Crash(w)
    BY DEF Commit, Restart, Crash, Writing, Idle, TypeInv, TypeOK
  <1>4. ASSUME NEW f \in Files PROVE ~WalkFile(w, f) /\ ~PlanFile(w, f)
    BY WalkDoes, PlanDoes DEF Writing
  <1>5. ~LoadRows(w)
    BY LoadDoes DEF Writing
  <1> QED
    BY <1>1, <1>2, <1>3, <1>4, <1>5 DEF Step, PlanFails, BeginTimesOut, ReadFails, StatFails

LEMMA IndexStep == TypeInv /\ WriterInv /\ IndexInv /\ HeldInv /\ [Next]_vars => IndexInv'
  <1> SUFFICES ASSUME TypeInv, WriterInv, IndexInv, HeldInv, [Next]_vars PROVE IndexInv'
    OBVIOUS
  <1> DEFINE Good(v) ==
        /\ job[v].pc \in {"index", "stat"} => job[v].changed
        /\ job[v].pc = "stat" => job[v].file \in job[v].todo /\ job[v].read \in held[job[v].file]
        /\ job[v].pc \in {"finish", "commit"} => job[v].todo = {}
  <1>1. ASSUME NEW w \in Workers, Step(w) \/ Crash(w) PROVE IndexInv'
    <2>1. ASSUME NEW v \in Workers \ {w} PROVE Good(v)'
      BY <1>1, <2>1, OthersKeep, StepKeepsTree DEF IndexInv
    <2>2. Good(w)'
      <3>1. CASE ~Writing(w)'
        BY <3>1 DEF Writing
      <3>2. CASE Begin(w)
        <4>1. job[w].plan # {} => job'[w].changed
          BY <3>2, BeginDoes DEF TypeInv, TypeOK, Jobs
        <4> QED
          BY <3>2, <4>1, BeginDoes
      <3>3. ASSUME NEW f \in Files, ReadFile(w, f) PROVE Good(w)'
        <4>1. disk[f].content \in held[f]
          BY <3>3, ReadDoes DEF HeldInv
        <4> QED
          BY <3>3, <4>1, ReadDoes, StepKeepsTree, <1>1 DEF IndexInv
      <3>4. CASE StatFile(w)
        BY <3>4, StatDoes DEF IndexInv
      <3>5. CASE RecordMeta(w)
        BY <3>5, RecordDoes DEF IndexInv
      <3> QED
        BY <1>1, <3>1, <3>2, <3>3, <3>4, <3>5, WritingSteps
    <2> QED
      BY <2>1, <2>2 DEF IndexInv
  <1>2. CASE World
    <2>1. \A v \in Workers : job[v].pc = "stat" => job[v].file \in Files
      BY DEF TypeInv, AtStat, Doing
    <2> QED
      BY <1>2, <2>1, WorldKeeps, HeldGrows DEF IndexInv
  <1>3. CASE UNCHANGED vars
    BY <1>3 DEF vars, IndexInv
  <1> QED
    BY <1>1, <1>2, <1>3 DEF Next

\* Purging nothing leaves the database as it was.
LEMMA PurgeNothing == ASSUME NEW d \in Dbs PROVE Purge(d, {}) = d
  <1>1. [f \in Files |-> IF f \in {} THEN Missing ELSE d.rows[f]] = d.rows
    BY DEF Dbs
  <1>2. [f \in Files |-> IF f \in {} THEN Missing ELSE d.facts[f]] = d.facts
    BY DEF Dbs
  <1>3. {e \in d.edges : e.from \notin {} /\ e.to \notin {}} = d.edges
    OBVIOUS
  <1> QED
    BY <1>1, <1>2, <1>3 DEF Purge, Dbs

LEMMA EdgeStep == TypeInv /\ WriterInv /\ IndexInv /\ EdgeInv /\ [Next]_vars => EdgeInv'
  <1> SUFFICES ASSUME TypeInv, WriterInv, IndexInv, EdgeInv, [Next]_vars PROVE EdgeInv'
    OBVIOUS
  <1> DEFINE Settled(v) == job[v].pc = "commit" \/ (job[v].pc = "finish" /\ ~job[v].changed)
             Good(v) == Settled(v) => staged.edges = ResolveEdges(staged.facts)
  <1>1. ASSUME NEW w \in Workers, Step(w) \/ Crash(w) PROVE EdgeInv'
    <2>1. EdgesAreResolved'
      <3>1. CASE Commit(w)
        BY <3>1 DEF Commit, Doing, EdgeInv, EdgesAreResolved
      <3>2. CASE UNCHANGED db
        BY <3>2 DEF EdgeInv, EdgesAreResolved
      <3> QED
        BY <1>1, <3>1, <3>2
           DEF Step, Start, WalkFile, LoadRows, PlanFile, PlanFails, Begin, BeginTimesOut,
               ReadFile, ReadFails, StatFile, StatFails, RecordMeta, Restart, Crash, Abort
    <2>2. ASSUME NEW v \in Workers \ {w} PROVE Good(v)'
      BY <1>1, <2>2, OthersKeep DEF EdgeInv, Doing, Writing
    <2>3. Good(w)'
      <3>1. CASE ~Writing(w)'
        BY <3>1 DEF Writing
      <3>2. CASE Begin(w)
        <4>1. ~job'[w].changed => staged' = db
          BY <3>2, BeginDoes, PurgeNothing DEF TypeInv, TypeOK
        <4>2. job'[w].pc # "commit"
          BY <3>2, BeginDoes
        <4> QED
          BY <4>1, <4>2 DEF EdgeInv, EdgesAreResolved
      <3>3. ASSUME NEW f \in Files, ReadFile(w, f) PROVE Good(w)'
        BY <3>3, ReadDoes
      <3>4. CASE StatFile(w)
        BY <3>4, StatDoes DEF IndexInv
      <3>5. CASE RecordMeta(w)
        BY <3>5, RecordDoes DEF EdgeInv, Doing
      <3> QED
        BY <1>1, <3>1, <3>2, <3>3, <3>4, <3>5, WritingSteps
    <2> QED
      BY <2>1, <2>2, <2>3 DEF EdgeInv, Doing
  <1>2. CASE World
    BY <1>2, WorldKeeps DEF EdgeInv, EdgesAreResolved, Doing
  <1>3. CASE UNCHANGED vars
    BY <1>3 DEF vars, EdgeInv, EdgesAreResolved, Doing
  <1> QED
    BY <1>1, <1>2, <1>3 DEF Next

LEMMA PurgedFacts ==
    ASSUME NEW d \in Dbs, NEW gone, NEW f \in Files
    PROVE  Purge(d, gone).facts[f] = IF f \in gone THEN Missing ELSE d.facts[f]
  BY DEF Purge, Dbs

LEMMA HeldStep == TypeInv /\ WriterInv /\ IndexInv /\ HeldInv /\ [Next]_vars => HeldInv'
  <1> SUFFICES ASSUME TypeInv, WriterInv, IndexInv, HeldInv, [Next]_vars PROVE HeldInv'
    OBVIOUS
  <1> DEFINE Known(f) == (IF disk[f] = Missing THEN Missing ELSE disk[f].content) \in held[f]
             Missed(v, f) ==
                /\ \/ job[v].pc = "walk" /\ f \notin job[v].todo
                   \/ job[v].pc \in {"load", "plan", "begin"}
                /\ job[v].entries[f] = Missing
             Sourced(v, f) == staged.facts[f] \in held[f] \union {db.facts[f]} \/ f \in job[v].todo
             Good(v) == \A f \in Files : /\ Missed(v, f) => Missing \in held[f]
                                         /\ Writing(v) => Sourced(v, f)
  <1>0. (\A f \in Files : Known(f)') /\ (\A v \in Workers : Good(v)') => HeldInv'
    BY DEF HeldInv, Doing
  <1>1. ASSUME NEW w \in Workers, Step(w) \/ Crash(w) PROVE HeldInv'
    <2>1. ASSUME NEW f \in Files PROVE Known(f)'
      BY <1>1, StepKeepsTree DEF HeldInv
    <2>2. ASSUME NEW v \in Workers \ {w} PROVE Good(v)'
      BY <1>1, OthersKeep, StepKeepsTree DEF HeldInv, Doing, Writing
    <2>3. ASSUME NEW f \in Files, Missed(w, f)' PROVE Missing \in held'[f]
      <3>1. ~Writing(w)' /\ job'[w].pc \notin {"idle", "killed"}
        BY <2>3 DEF Writing
      <3>2. ~Abort(w) /\ ~Commit(w) /\ ~Restart(w) /\ ~Crash(w)
        BY <3>1, AbortIdles DEF Commit, Restart, Crash, Idle, TypeInv, TypeOK
      <3>3. ~Begin(w) /\ (\A g \in Files : ~ReadFile(w, g)) /\ ~StatFile(w) /\ ~RecordMeta(w)
        BY <3>1, BeginDoes, ReadDoes, StatDoes, RecordDoes DEF Writing
      <3>4. ASSUME NEW force \in BOOLEAN PROVE ~Start(w, force)
        <4>1. Start(w, force) => job'[w] = [Idle EXCEPT !.pc = "walk", !.force = force,
                                               !.fingerprint = installed, !.todo = Files]
          BY DEF Start, TypeInv, TypeOK
        <4>2. Start(w, force) => job'[w].pc = "walk" /\ job'[w].todo = Files
          BY <4>1 DEF Idle
        <4> QED
          BY <2>3, <4>2
      <3>5. ASSUME NEW g \in Files, WalkFile(w, g) PROVE Missing \in held[f]
        <4>1. f \notin job'[w].todo /\ Doing(w, "walk")
          BY <2>3, <3>5, WalkDoes DEF WalkFile
        <4>4. /\ job'[w].entries = [job[w].entries EXCEPT ![g] = StatOf(g)]
              /\ job'[w].todo = job[w].todo \ {g}
          BY <3>5, WalkDoes
        <4>5. job[w].entries \in [Files -> Stat \union {Missing}]
          BY DEF TypeInv, TypeOK, Jobs
        <4>6. job'[w].entries[f] = Missing
          BY <2>3
        <4>2. CASE f = g
          <5>1. StatOf(f) = Missing
            BY <4>2, <4>4, <4>5, <4>6
          <5> QED
            BY <5>1, StatType DEF HeldInv, TypeInv
        <4>3. CASE f # g
          <5>1. f \notin job[w].todo /\ job[w].entries[f] = Missing
            BY <4>1, <4>3, <4>4, <4>5, <4>6
          <5> QED
            BY <4>1, <5>1 DEF HeldInv
        <4> QED
          BY <4>2, <4>3
      <3>6. ASSUME LoadRows(w) \/ \E g \in Files : PlanFile(w, g) PROVE Missing \in held[f]
        <4>1. job[w].pc \in {"load", "plan"} /\ job[w].entries[f] = Missing
          BY <2>3, <3>6, LoadDoes, PlanDoes DEF LoadRows, PlanFile, Doing
        <4> QED
          BY <4>1 DEF HeldInv
      <3> QED
        BY <1>1, <3>2, <3>3, <3>4, <3>5, <3>6, StepKeepsTree
           DEF Step, PlanFails, BeginTimesOut, ReadFails, StatFails
    <2>4. ASSUME NEW f \in Files, Writing(w)' PROVE Sourced(w, f)'
      <3>1. CASE Begin(w)
        <4>0. staged'.facts[f] = IF f \in job[w].plan \union Deleted(w) THEN Missing ELSE db.facts[f]
          <5>1. staged' = Purge(db, job[w].plan \union Deleted(w)) /\ db \in Dbs
            BY <3>1, BeginDoes DEF TypeInv, TypeOK
          <5> QED
            BY <5>1, PurgedFacts
        <4>1. ASSUME f \notin job[w].plan
              PROVE  staged'.facts[f] \in held[f] \union {db.facts[f]}
          <5>1. CASE f \in Deleted(w)
            <6>1. Missing \in held[f]
              BY <3>1, <5>1 DEF Deleted, Begin, Doing, HeldInv
            <6>2. staged'.facts[f] = Missing
              BY <4>0, <5>1
            <6> QED
              BY <6>1, <6>2
          <5>2. CASE f \notin Deleted(w)
            BY <4>0, <4>1, <5>2
          <5> QED
            BY <5>1, <5>2
        <4> QED
          BY <3>1, <4>1, BeginDoes, StepKeepsTree, <1>1
      <3>2. ASSUME NEW g \in Files, ReadFile(w, g) PROVE Sourced(w, f)'
        BY <1>1, <3>2, ReadDoes, StepKeepsTree DEF HeldInv, Writing
      <3>3. CASE StatFile(w)
        <4>1. job[w].read \in held[job[w].file] /\ Sourced(w, f) /\ job[w].file \in Files
          BY <3>3, StatDoes DEF IndexInv, HeldInv, Writing, TypeInv, AtStat, Doing
        <4>2. staged.facts \in [Files -> Contents \union {Missing}]
          BY DEF TypeInv, TypeOK, Dbs
        <4>3. /\ job'[w].todo = job[w].todo \ {job[w].file}
              /\ staged'.facts = [staged.facts EXCEPT ![job[w].file] = job[w].read]
              /\ db' = db /\ held' = held
          BY <1>1, <3>3, StatDoes, StepKeepsTree
        <4> QED
          BY <4>1, <4>2, <4>3
      <3>4. CASE RecordMeta(w)
        BY <1>1, <3>4, RecordDoes, StepKeepsTree DEF HeldInv, Writing
      <3> QED
        BY <1>1, <2>4, <3>1, <3>2, <3>3, <3>4, WritingSteps
    <2> QED
      BY <1>0, <2>1, <2>2, <2>3, <2>4
  <1>2. CASE World
    <2>1. ASSUME NEW f \in Files PROVE Known(f)'
      <3>1. ASSUME NEW g \in Files, NEW c \in Sources \union {Missing}, NEW t \in Times,
                   Edit(g, c, t)
            PROVE  Known(f)'
        <4>1. CASE f = g /\ c # Missing
          <5>1. [content |-> c, mtime |-> t] # Missing
            BY <4>1, MissingAssumption DEF OnDisk
          <5> QED
            BY <3>1, <4>1, <5>1 DEF Edit, TypeInv, TypeOK
        <4>2. CASE f = g /\ c = Missing
          BY <3>1, <4>2 DEF Edit, TypeInv, TypeOK
        <4>3. CASE f # g
          BY <3>1, <4>3 DEF Edit, HeldInv, TypeInv, TypeOK
        <4> QED
          BY <4>1, <4>2, <4>3
      <3>2. ASSUME UNCHANGED <<disk, held>> PROVE Known(f)'
        BY <3>2 DEF HeldInv
      <3> QED
        BY <1>2, <3>1, <3>2 DEF World, Checkout, Upgrade
    <2>2. ASSUME NEW v \in Workers PROVE Good(v)'
      BY <1>2, WorldKeeps, HeldGrows DEF HeldInv, Doing, Writing
    <2> QED
      BY <1>0, <2>1, <2>2
  <1>3. CASE UNCHANGED vars
    BY <1>0, <1>3 DEF vars, HeldInv, Doing, Writing
  <1> QED
    BY <1>1, <1>2, <1>3 DEF Next

-----------------------------------------------------------------------------
(* The theorems about edges and about the abstract store.                  *)

SafeInv == TypeInv /\ WriterInv /\ IndexInv /\ EdgeInv /\ HeldInv

LEMMA NoFactsNoEdges == ResolveEdges(EmptyDb.facts) = {}
  <1>1. \A f \in Files : CalledIn(EmptyDb.facts, f) = {}
    BY DEF CalledIn, EmptyDb
  <1>2. \A e \in Edges : e.from \in Files
    BY DEF Edges
  <1> QED
    BY <1>1, <1>2 DEF ResolveEdges

LEMMA SafeInit == Init => SafeInv
  <1> SUFFICES ASSUME Init PROVE SafeInv
    OBVIOUS
  <1>1. \A w \in Workers : job[w] = Idle
    BY DEF Init
  <1>2. \A w \in Workers : job[w].pc = "idle"
    BY <1>1 DEF Idle
  <1>3. db = EmptyDb /\ EdgesAreResolved
    BY NoFactsNoEdges DEF Init, EdgesAreResolved, EmptyDb
  <1>4. \A f \in Files : (IF disk[f] = Missing THEN Missing ELSE disk[f].content) \in held[f]
    BY DEF Init
  <1> QED
    BY <1>2, <1>3, <1>4, TypeInit
       DEF SafeInv, WriterInv, IndexInv, EdgeInv, HeldInv, Writing, Doing

LEMMA SafeStep == SafeInv /\ [Next]_vars => SafeInv'
  BY TypeStep, WriterStep, IndexStep, EdgeStep, HeldStep DEF SafeInv

LEMMA SafeInvariant == Spec => []SafeInv
  BY SafeInit, SafeStep, PTL DEF Spec

\* At every commit, by any sync, crashed neighbours and all, the edges in the database
\* are a full resolution of the facts in it: no sync that "changed nothing" skips a
\* rebuild it needed.
THEOREM EdgesStayResolved == Spec => []EdgesAreResolved
  <1>1. SafeInv => EdgesAreResolved
    BY DEF SafeInv, EdgeInv
  <1> QED
    BY <1>1, SafeInvariant, PTL

LEMMA CommitPublishes ==
    ASSUME SafeInv, NEW w \in Workers, Commit(w)
    PROVE  Store!Publish
  <1>1. Doing(w, "commit") /\ db' = staged /\ held' = held
    BY DEF Commit, env
  <1>2. Writing(w) /\ job[w].todo = {}
    BY <1>1 DEF SafeInv, IndexInv, Writing, Doing
  <1>3. staged.facts \in [Files -> Sources \union {Missing}]
    BY DEF SafeInv, TypeInv, TypeOK, Dbs, Sources
  <1>4. \A f \in Files : staged.facts[f] \in held[f] \union {db.facts[f]}
    BY <1>2 DEF SafeInv, HeldInv
  <1>5. staged.edges = ResolveEdges(staged.facts)
    BY <1>1 DEF SafeInv, EdgeInv
  <1> QED
    BY <1>1, <1>3, <1>4, <1>5 DEF Store!Publish

\* Sync implements the store: whatever the interleaving of syncs, edits, upgrades and
\* kills, readers of committed states only ever see whole graphs, made of contents the
\* files have had, replaced in one step.
THEOREM SyncImplementsStore == Spec => ImplementsStore
  <1>1. Init => Store!Init
    <2> SUFFICES ASSUME Init PROVE Store!Init
      OBVIOUS
    <2>1. held \in [Files -> SUBSET (Sources \union {Missing})]
      BY TypeInit DEF TypeInv, TypeOK
    <2>2. db.facts = [f \in Files |-> Missing] /\ db.edges = ResolveEdges(db.facts)
      BY NoFactsNoEdges DEF Init, EmptyDb
    <2> QED
      BY <2>1, <2>2 DEF Store!Init
  <1>2. SafeInv /\ [Next]_vars => [Store!Next]_Store!storeVars
    <2> SUFFICES ASSUME SafeInv, [Next]_vars PROVE [Store!Next]_Store!storeVars
      OBVIOUS
    <2>1. ASSUME NEW w \in Workers, Step(w) \/ Crash(w) PROVE [Store!Next]_Store!storeVars
      <3>1. CASE Commit(w)
        BY <3>1, CommitPublishes DEF Store!Next
      <3>2. CASE ~Commit(w)
        <4>1. UNCHANGED <<held, db>>
          BY <2>1, <3>2, StepKeepsTree
             DEF Step, Start, WalkFile, LoadRows, PlanFile, PlanFails, Begin, BeginTimesOut,
                 ReadFile, ReadFails, StatFile, StatFails, RecordMeta, Restart, Crash, Abort
        <4> QED
          BY <4>1 DEF Store!storeVars
      <3> QED
        BY <3>1, <3>2
    <2>2. ASSUME NEW f \in Files, NEW c \in Sources \union {Missing}, NEW t \in Times, Edit(f, c, t)
          PROVE  Store!Next
      BY <2>2 DEF Edit, Store!Next, Store!Touch
    <2>3. ASSUME UNCHANGED <<held, db>> PROVE [Store!Next]_Store!storeVars
      BY <2>3 DEF Store!storeVars
    <2> QED
      BY <2>1, <2>2, <2>3 DEF Next, World, Checkout, Upgrade, vars
  <1> QED
    BY <1>1, <1>2, SafeInvariant, PTL DEF Spec, ImplementsStore, Store!Spec

-----------------------------------------------------------------------------
(* What FRESH and "nothing to do" are worth where edits are spaced so that *)
(* modification times tell them apart.  The argument: a row that carries   *)
(* the time of the file on disk was written from the content on disk       *)
(* (TimesTell), so a stat that agrees may be trusted; and where the lock   *)
(* works, what an undisturbed sync did not plan was right when it planned, *)
(* and nobody has changed it since (PlanInv).                              *)

-----------------------------------------------------------------------------
(* Modification times.                                                     *)

\* A row as old as the file has the file's content ...
TimesTell(d) ==
    \A f \in Files :
        d.rows[f] # Missing /\ disk[f] # Missing /\ d.rows[f].mtime = disk[f].mtime
            => d.rows[f].hash = disk[f].content

\* ... as has the reader of a file until its stat.
ReadTells ==
    \A w \in Workers : Doing(w, "stat") =>
        disk[job[w].file] # Missing /\ job[w].read = disk[job[w].file].content

TimesInv == TimesTell(db) /\ TimesTell(staged) /\ ReadTells

LEMMA TimesInit == Init => TimesInv
  <1>1. Init => \A w \in Workers : ~Doing(w, "stat")
    BY DEF Init, Doing, Idle
  <1>2. Init => \A f \in Files : db.rows[f] = Missing /\ staged.rows[f] = Missing
    BY DEF Init, EmptyDb
  <1> QED
    BY <1>1, <1>2 DEF TimesInv, TimesTell, ReadTells

LEMMA TimesOperations ==
    ASSUME NEW d \in Dbs, TimesTell(d)
    PROVE  /\ \A gone : TimesTell(Purge(d, gone))
           /\ TimesTell(RebuildEdges(d))
           /\ \A b : TimesTell([d EXCEPT !.branch = b])
  BY DEF TimesTell, Purge, RebuildEdges, Dbs

\* A sync's own steps.
LEMMA TimesWorker ==
    ASSUME TypeInv, TimesInv, NEW w \in Workers, Step(w) \/ Crash(w)
    PROVE  TimesTell(db)' /\ TimesTell(staged)'
  <1>0. db \in Dbs /\ staged \in Dbs /\ disk' = disk
    BY StepKeepsTree DEF TypeInv, TypeOK
  <1>1. ASSUME UNCHANGED <<db, staged>> PROVE TimesTell(db)' /\ TimesTell(staged)'
    BY <1>0, <1>1 DEF TimesInv, TimesTell
  <1>2. ASSUME EndTransaction(w), db' \in {db, staged} PROVE TimesTell(db)' /\ TimesTell(staged)'
    <2>1. staged' \in {staged, EmptyDb}
      BY <1>2 DEF EndTransaction
    <2> QED
      BY <1>0, <1>2, <2>1 DEF TimesInv, TimesTell, EmptyDb
  <1>3. ASSUME Begin(w) PROVE TimesTell(db)' /\ TimesTell(staged)'
    <2>1. TimesTell(Purge(db, job[w].plan \union Deleted(w)))
      BY <1>0, TimesOperations DEF TimesInv
    <2> QED
      BY <1>0, <1>3, <2>1 DEF Begin, TimesInv, TimesTell
  <1>4. ASSUME StatFile(w) PROVE TimesTell(db)' /\ TimesTell(staged)'
    <2>1. job[w].file \in Files /\ disk[job[w].file] # Missing /\ job[w].read = disk[job[w].file].content
      BY <1>4 DEF StatFile, TypeInv, AtStat, TimesInv, ReadTells
    <2> DEFINE f == job[w].file
               row == [hash |-> job[w].read, size |-> StatOf(f).size, mtime |-> StatOf(f).mtime,
                       fingerprint |-> job[w].fingerprint]
    <2>2. staged'.rows = [staged.rows EXCEPT ![f] = row] /\ row.hash = job[w].read
      BY <1>0, <1>4 DEF StatFile, Write, Dbs
    <2> HIDE DEF row
    <2>3. staged.rows \in [Files -> Row \union {Missing}]
      BY <1>0 DEF Dbs
    <2> QED
      BY <1>0, <1>4, <2>1, <2>2, <2>3 DEF StatFile, TimesInv, TimesTell, f
  <1>5. ASSUME RecordMeta(w) PROVE TimesTell(db)' /\ TimesTell(staged)'
    <2>1. PICK d \in {staged, RebuildEdges(staged)} : staged' = [d EXCEPT !.branch = branch]
      BY <1>5 DEF RecordMeta
    <2>2. TimesTell([d EXCEPT !.branch = branch])
      BY <1>0, <2>1, RebuildType, TimesOperations DEF TimesInv
    <2> QED
      BY <1>0, <1>5, <2>1, <2>2 DEF RecordMeta, TimesInv, TimesTell
  <1> QED
    BY <1>1, <1>2, <1>3, <1>4, <1>5
       DEF Step, Start, WalkFile, LoadRows, PlanFile, PlanFails, BeginTimesOut, ReadFile,
           ReadFails, StatFails, Commit, Restart, Crash, Abort

\* Only reading a file leads to its stat.
LEMMA StatComesFrom ==
    ASSUME TypeInv, NEW w \in Workers, Step(w) \/ Crash(w), Doing(w, "stat")'
    PROVE  \E f \in Files : ReadFile(w, f)
  <1>1. Writing(w)'
    BY DEF Writing, Doing
  <1> QED
    BY <1>1, WritingSteps, BeginDoes, StatDoes, RecordDoes DEF Doing

LEMMA TimesStep == QuietEdits /\ TypeInv /\ WriterInv /\ TimesInv /\ [Next]_vars => TimesInv'
  <1> SUFFICES ASSUME QuietEdits, TypeInv, WriterInv, TimesInv, [Next]_vars PROVE TimesInv'
    OBVIOUS
  <1>1. ASSUME NEW w \in Workers, Step(w) \/ Crash(w) PROVE TimesInv'
    <2>1. disk' = disk
      BY <1>1, StepKeepsTree
    <2>2. ASSUME NEW v \in Workers \ {w}, Doing(v, "stat")'
          PROVE  disk'[job'[v].file] # Missing /\ job'[v].read = disk'[job'[v].file].content
      BY <1>1, <2>1, <2>2, OthersKeep DEF TimesInv, ReadTells, Doing
    <2>3. ASSUME Doing(w, "stat")'
          PROVE  disk'[job'[w].file] # Missing /\ job'[w].read = disk'[job'[w].file].content
      <3>1. PICK f \in Files : ReadFile(w, f)
        BY <1>1, <2>3, StatComesFrom
      <3> QED
        BY <2>1, <3>1, ReadDoes
    <2> QED
      BY <1>1, <2>2, <2>3, TimesWorker DEF TimesInv, ReadTells
  <1>2. ASSUME NEW f \in Files, NEW c \in Sources \union {Missing}, NEW t \in Times, Edit(f, c, t)
        PROVE  TimesInv'
    <2>1. World
      BY <1>2 DEF World
    <2>2. /\ disk' = [disk EXCEPT ![f] = IF c = Missing THEN Missing ELSE [content |-> c, mtime |-> t]]
          /\ WellSpaced(f, t)
      BY <1>2 DEF Edit
    <2>3. \A g \in Files \ {f} : disk'[g] = disk[g]
      BY <2>2 DEF TypeInv, TypeOK
    <2>4. disk'[f] # Missing => disk'[f].mtime = t
      BY <2>2 DEF TypeInv, TypeOK
    <2>5. ASSUME NEW d \in {db, staged}, d.rows[f] # Missing PROVE d.rows[f].mtime # t
      <3>1. d.rows[f] \in Row /\ d.rows[f].mtime < t
        BY <2>2, <2>5 DEF WellSpaced, TypeInv, TypeOK, Dbs
      <3> QED
        BY <3>1 DEF Row, Times
    <2>6. db' = db /\ staged' = staged
      BY <2>1, WorldKeeps
    <2>7. TimesTell(db)' /\ TimesTell(staged)'
      BY <2>3, <2>4, <2>5, <2>6 DEF TimesInv, TimesTell
    <2>8. \A w \in Workers : Doing(w, "stat") => job[w].file \in Files \ {f}
      BY <2>2 DEF WellSpaced, TypeInv, AtStat
    <2>9. ReadTells'
      BY <2>1, <2>3, <2>8, WorldKeeps DEF TimesInv, ReadTells, Doing
    <2> QED
      BY <2>7, <2>9 DEF TimesInv
  <1>3. ASSUME (\E b \in Branches : Checkout(b)) \/ Upgrade PROVE TimesInv'
    <2>1. World /\ disk' = disk
      BY <1>3 DEF World, Checkout, Upgrade
    <2> QED
      BY <2>1, WorldKeeps DEF TimesInv, TimesTell, ReadTells, Doing
  <1>4. CASE UNCHANGED vars
    BY <1>4 DEF vars, TimesInv, TimesTell, ReadTells, Doing
  <1> QED
    BY <1>1, <1>2, <1>3, <1>4 DEF Next, World

FreshInv == TypeInv /\ WriterInv /\ CoherentInv /\ TimesInv

LEMMA FreshInit == Init => FreshInv
  <1>1. Init => CoherentInv
    BY EmptyDbCoherent DEF Init, CoherentInv
  <1> QED
    BY <1>1, SafeInit, TypeInit, TimesInit DEF FreshInv, SafeInv

LEMMA FreshStep == QuietEdits /\ FreshInv /\ [Next]_vars => FreshInv'
  BY TypeStep, WriterStep, CoherentStep, TimesStep DEF FreshInv

\* What is not stale to entry_freshness has been indexed as it is.
LEMMA NotStale ==
    ASSUME FreshInv, NEW f \in Files, disk[f] # Missing, NEW fp,
           ~Stale(db.rows[f], StatOf(f), fp, f)
    PROVE  db.facts[f] = disk[f].content /\ db.rows[f].fingerprint = fp
  <1>1. db.rows[f] # Missing /\ db.facts[f] = db.rows[f].hash /\ db.rows[f].fingerprint = fp
    BY DEF Stale, FreshInv, CoherentInv, Coherent
  <1>2. CASE SameStat(db.rows[f], StatOf(f))
    <2>1. db.rows[f].mtime = disk[f].mtime
      BY <1>2 DEF SameStat, StatOf
    <2> QED
      BY <1>1, <2>1 DEF FreshInv, TimesInv, TimesTell
  <1>3. CASE disk[f].content = db.rows[f].hash
    BY <1>1, <1>3
  <1> QED
    BY <1>2, <1>3 DEF Stale

\* doctor's FRESH can be trusted, with the advisory lock or without, wherever syncs are
\* killed, as long as no edit falls into the second of another one of its file or between
\* the read and the stat of a sync.
THEOREM FreshIsInSync == QuietEdits => (Spec => []FreshMeansInSync)
  <1> SUFFICES ASSUME QuietEdits PROVE Spec => []FreshMeansInSync
    OBVIOUS
  <1>1. FreshInv /\ [Next]_vars => FreshInv'
    BY FreshStep
  <1>2. FreshInv => FreshMeansInSync
    <2> SUFFICES ASSUME FreshInv, Fresh, NEW f \in Files
                 PROVE  db.facts[f] = IF disk[f] = Missing THEN Missing ELSE disk[f].content
      BY DEF FreshMeansInSync, InSync
    <2>1. CASE disk[f] = Missing
      BY <2>1 DEF Fresh, FreshInv, CoherentInv, Coherent
    <2>2. CASE disk[f] # Missing
      BY <2>2, NotStale DEF Fresh
    <2> QED
      BY <2>1, <2>2
  <1> QED
    BY <1>1, <1>2, FreshInit, PTL DEF Spec
-----------------------------------------------------------------------------
(* An incremental sync.                                                    *)

\* The advisory lock, where it works, lets one worker in at a time.
AloneInv == \A v, w \in Busy : v = w

\* What a full sync would store for f.
UpToDate(d, f) ==
    IF disk[f] = Missing THEN d.facts[f] = Missing
    ELSE d.facts[f] = disk[f].content /\ d.rows[f].fingerprint = installed

\* While nothing moves: what a job has seen is there, and what it does not plan needs no
\* indexing.
Ready(w) ==
    /\ job[w].fingerprint = installed
    /\ job[w].pc \in {"walk", "load", "plan", "begin"} =>
          \A f \in Files : (f \in job[w].todo /\ job[w].pc = "walk") \/ job[w].entries[f] = StatOf(f)
    /\ job[w].pc \in {"plan", "begin"} =>
          /\ job[w].known = db.rows
          /\ \A f \in Files :
                \/ f \in job[w].plan \/ (job[w].pc = "plan" /\ f \in job[w].todo)
                \/ disk[f] = Missing \/ UpToDate(db, f)
    /\ Writing(w) => \A f \in Files \ job[w].todo : UpToDate(staged, f)

PlanInv == \A w \in Busy : job[w].undisturbed => Ready(w)

FullInv == FreshInv /\ IndexInv /\ HeldInv /\ AloneInv /\ PlanInv

LEMMA StartDoes ==
    ASSUME TypeInv, NEW w \in Workers, NEW force \in BOOLEAN, Start(w, force)
    PROVE  /\ job'[w].pc = "walk" /\ job'[w].todo = Files /\ job'[w].fingerprint = installed
           /\ UNCHANGED <<env, db, writer, staged>>
  BY DEF Start, Idle, TypeInv, TypeOK

\* Nobody steps beside a busy worker but to come back.
LEMMA OthersWait ==
    ASSUME LockWorks, TypeInv, AloneInv, NEW w \in Workers, Step(w) \/ Crash(w),
           NEW v \in Busy, v # w
    PROVE  Restart(w)
  <1>1. w \notin Busy /\ job[w].pc \in {"idle", "killed"}
    BY DEF AloneInv, Busy
  <1>2. \A force \in BOOLEAN : ~Start(w, force)
    BY DEF Start
  <1> QED
    BY <1>1, <1>2
       DEF Step, Crash, WalkFile, LoadRows, PlanFile, PlanFails, Begin, BeginTimesOut, ReadFile,
           ReadFails, StatFile, StatFails, RecordMeta, Commit, Doing

LEMMA AloneStep == LockWorks /\ TypeInv /\ WriterInv /\ AloneInv /\ [Next]_vars => AloneInv'
  <1> SUFFICES ASSUME LockWorks, TypeInv, WriterInv, AloneInv, [Next]_vars PROVE AloneInv'
    OBVIOUS
  <1>1. ASSUME NEW w \in Workers, Step(w) \/ Crash(w) PROVE AloneInv'
    <2>1. \A v \in Workers \ {w} : job'[v] = job[v]
      BY <1>1, OthersKeep
    <2>2. ASSUME NEW v \in Busy, v # w PROVE w \notin Busy'
      <3>1. Restart(w)
        BY <1>1, <2>2, OthersWait
      <3> QED
        BY <3>1 DEF Restart, Busy, Idle, TypeInv, TypeOK
    <2> QED
      BY <2>1, <2>2 DEF AloneInv, Busy
  <1>2. CASE World
    BY <1>2, WorldKeeps DEF AloneInv, Busy
  <1>3. CASE UNCHANGED vars
    BY <1>3 DEF vars, AloneInv, Busy
  <1> QED
    BY <1>1, <1>2, <1>3 DEF Next

\* What the plan starts from.
LEMMA LoadPlans ==
    ASSUME TypeInv, NEW w \in Workers, LoadRows(w)
    PROVE  /\ job'[w].undisturbed = job[w].undisturbed /\ job'[w].fingerprint = job[w].fingerprint
           /\ job'[w].known = db.rows
           /\ \A f \in Files : \/ f \in job'[w].plan \/ (job'[w].pc = "plan" /\ f \in job'[w].todo)
                               \/ job[w].entries[f] = Missing
  <1> DEFINE found == {f \in Files : job[w].entries[f] # Missing}
             planned == job[w].force \/ found = {}
             todo == IF planned THEN {} ELSE found
             plan == IF planned THEN found ELSE {}
             pc == IF planned THEN "begin" ELSE "plan"
  <1>1. job'[w] = [job[w] EXCEPT !.known = db.rows, !.todo = todo, !.plan = plan, !.force = FALSE, !.pc = pc]
    BY DEF LoadRows, TypeInv, TypeOK, Jobs
  <1>2. /\ todo \in SUBSET Files /\ plan \in SUBSET Files
        /\ \A f \in Files : f \in plan \/ (pc = "plan" /\ f \in todo) \/ job[w].entries[f] = Missing
    OBVIOUS
  <1> HIDE DEF todo, plan, pc
  <1>3. \A j \in Jobs : LET k == [j EXCEPT !.known = db.rows, !.todo = todo, !.plan = plan,
                                          !.force = FALSE, !.pc = pc]
                       IN  /\ k.undisturbed = j.undisturbed /\ k.fingerprint = j.fingerprint
                           /\ k.known = db.rows /\ k.todo = todo /\ k.plan = plan /\ k.pc = pc
    BY DEF Jobs
  <1>4. job[w] \in Jobs
    BY DEF TypeInv, TypeOK
  <1> QED
    BY <1>1, <1>2, <1>3, <1>4

\* The flags of a job last until it ends.
LEMMA FlagsStay ==
    ASSUME TypeInv, NEW w \in Workers, Step(w) \/ Crash(w), w \in Busy, w \in Busy'
    PROVE  job'[w].undisturbed = job[w].undisturbed /\ job'[w].fingerprint = job[w].fingerprint
  <1>1. ~Abort(w) /\ ~Commit(w) /\ ~Restart(w) /\ ~Crash(w)
    BY DEF Abort, Commit, Restart, Crash, Busy, Idle, TypeInv, TypeOK
  <1>2. \A force \in BOOLEAN : ~Start(w, force)
    BY DEF Start, Doing, Busy
  <1>3. ASSUME Begin(w)
        PROVE  job'[w].undisturbed = job[w].undisturbed /\ job'[w].fingerprint = job[w].fingerprint
    <2>1. PICK changed, pc :
             job'[w] = [job[w] EXCEPT !.todo = job[w].plan, !.changed = changed, !.plan = {},
                           !.entries = NoEntries, !.known = NoEntries, !.pc = pc]
      BY <1>3 DEF Begin, StartIndexing, TypeInv, TypeOK
    <2>2. job[w] \in Jobs
      BY DEF TypeInv, TypeOK
    <2> QED
      BY <2>1, <2>2 DEF Jobs
  <1>4. ASSUME LoadRows(w)
        PROVE  job'[w].undisturbed = job[w].undisturbed /\ job'[w].fingerprint = job[w].fingerprint
    BY <1>4, LoadPlans
  <1>5. ASSUME RecordMeta(w)
        PROVE  job'[w].undisturbed = job[w].undisturbed /\ job'[w].fingerprint = job[w].fingerprint
    BY <1>5 DEF RecordMeta, TypeInv, TypeOK, Jobs
  <1>9. ASSUME NEW f \in Files, ReadFile(w, f)
        PROVE  job'[w].undisturbed = job[w].undisturbed /\ job'[w].fingerprint = job[w].fingerprint
    BY <1>9 DEF ReadFile, TypeInv, TypeOK, Jobs
  <1>6. ASSUME NEW f, NEW j \in Jobs, NEW next, Advance(w, j, f, next),
               j.undisturbed = job[w].undisturbed, j.fingerprint = job[w].fingerprint
        PROVE  job'[w].undisturbed = job[w].undisturbed /\ job'[w].fingerprint = job[w].fingerprint
    BY <1>6 DEF Advance, TypeInv, TypeOK, Jobs
  <1>7. ASSUME NEW f \in Files, WalkFile(w, f) \/ PlanFile(w, f)
        PROVE  job'[w].undisturbed = job[w].undisturbed /\ job'[w].fingerprint = job[w].fingerprint
    <2>1. PICK j \in Jobs, next \in {"load", "begin"} :
             /\ j.undisturbed = job[w].undisturbed /\ j.fingerprint = job[w].fingerprint
             /\ Advance(w, j, f, next)
      <3>1. job[w] \in Jobs /\ [job[w] EXCEPT !.plan = @ \union {f}] \in Jobs
                            /\ [job[w] EXCEPT !.entries[f] = StatOf(f)] \in Jobs
        BY StatType DEF TypeInv, TypeOK, Jobs
      <3> QED
        BY <1>7, <3>1 DEF WalkFile, PlanFile, Jobs
    <2> QED
      BY <1>6, <2>1
  <1>8. ASSUME StatFile(w)
        PROVE  job'[w].undisturbed = job[w].undisturbed /\ job'[w].fingerprint = job[w].fingerprint
    <2>1. \A j \in Jobs : LET k == [j EXCEPT !.file = Missing, !.read = Missing, !.pc = "index"]
                         IN  k \in Jobs /\ k.undisturbed = j.undisturbed /\ k.fingerprint = j.fingerprint
      BY DEF Jobs, Phases
    <2>2. PICK j \in Jobs : /\ j.undisturbed = job[w].undisturbed /\ j.fingerprint = job[w].fingerprint
                           /\ Advance(w, j, job[w].file, "finish")
      BY <1>8, <2>1 DEF StatFile, TypeInv, TypeOK
    <2> QED
      BY <1>6, <2>2
  <1> QED
    BY <1>1, <1>2, <1>3, <1>4, <1>5, <1>7, <1>8, <1>9 DEF Step, PlanFails, BeginTimesOut, ReadFails, StatFails

LEMMA PlanFileDoes ==
    ASSUME TypeInv, NEW w \in Workers, NEW f \in Files, PlanFile(w, f)
    PROVE  /\ job'[w].todo = job[w].todo \ {f} /\ job'[w].known = job[w].known
           /\ job[w].pc = "plan" /\ (job'[w].pc = "begin" => job'[w].todo = {})
           /\ job[w].plan \subseteq job'[w].plan
           /\ f \in job'[w].plan \/ ~Stale(job[w].known[f], job[w].entries[f], job[w].fingerprint, f)
  <1> DEFINE stale == Stale(job[w].known[f], job[w].entries[f], job[w].fingerprint, f)
             marked == [job[w] EXCEPT !.plan = @ \union {f}]
  <1>1. job[w] \in Jobs /\ marked \in Jobs /\ marked.plan = job[w].plan \union {f}
        /\ marked.todo = job[w].todo /\ marked.known = job[w].known /\ marked.pc = job[w].pc
    BY DEF TypeInv, TypeOK, Jobs
  <1>2. PICK j \in Jobs : /\ Advance(w, j, f, "begin") /\ j.todo = job[w].todo
                         /\ j.known = job[w].known /\ j.pc = job[w].pc
                         /\ job[w].plan \subseteq j.plan /\ (f \in j.plan \/ ~stale)
    <2>1. CASE stale
      BY <1>1, <2>1 DEF PlanFile
    <2>2. CASE ~stale
      BY <1>1, <2>2 DEF PlanFile
    <2> QED
      BY <2>1, <2>2
  <1>3. job[w].pc = "plan"
    BY DEF PlanFile, Doing
  <1> HIDE DEF stale
  <1>4. /\ job'[w].todo = job[w].todo \ {f} /\ job'[w].known = job[w].known /\ job'[w].plan = j.plan
        /\ (job'[w].pc = "begin" => job'[w].todo = {})
    BY <1>2, <1>3 DEF Advance, TypeInv, TypeOK, Jobs
  <1> QED
    BY <1>2, <1>3, <1>4 DEF stale

\* Whoever waits stays ready: coming back moves nothing.
LEMMA OthersReady ==
    ASSUME LockWorks, TypeInv, AloneInv, PlanInv, NEW w \in Workers, Step(w) \/ Crash(w),
           NEW v \in Busy', v # w, job'[v].undisturbed
    PROVE  Ready(v)'
  <1>1. v \in Busy /\ job'[v] = job[v]
    <2>1. job'[v] = job[v]
      BY DEF TypeInv, TypeOK, Step, Start, WalkFile, LoadRows, PlanFile, PlanFails, Begin,
             StartIndexing, BeginTimesOut, ReadFile, ReadFails, StatFile, StatFails, RecordMeta,
             Commit, Restart, Crash, Abort, Advance, Busy
    <2> QED
      BY <2>1 DEF Busy
  <1>2. Restart(w)
    BY <1>1, OthersWait
  <1>3. UNCHANGED <<disk, installed, db, staged>>
    BY <1>2 DEF Restart, env
  <1> QED
    BY <1>1, <1>3 DEF PlanInv, Ready, Writing, UpToDate, StatOf

\* What an undisturbed worker's own step leaves.
LEMMA WorkerReady ==
    ASSUME FreshInv, IndexInv, PlanInv, NEW w \in Workers, Step(w) \/ Crash(w),
           w \in Busy', job'[w].undisturbed
    PROVE  Ready(w)'
  <1>0. TypeInv /\ UNCHANGED <<disk, installed>>
    BY DEF FreshInv, Step, Start, WalkFile, LoadRows, PlanFile, PlanFails, Begin, BeginTimesOut,
           ReadFile, ReadFails, StatFile, StatFails, RecordMeta, Commit, Restart, Crash, Abort, env
  <1>1. \A f \in Files : StatOf(f)' = StatOf(f)
    BY <1>0 DEF StatOf
  <1>2. ~Abort(w) /\ ~Commit(w) /\ ~Restart(w) /\ ~Crash(w)
    BY <1>0 DEF Abort, Commit, Restart, Crash, Busy, Idle, TypeInv, TypeOK
  <1>3. ASSUME w \in Busy
        PROVE  Ready(w) /\ job'[w].fingerprint = installed'
    BY <1>0, <1>3, FlagsStay DEF PlanInv, Ready
  <1>4. ASSUME NEW force \in BOOLEAN, Start(w, force) PROVE Ready(w)'
    BY <1>0, <1>4, StartDoes DEF Ready, Writing
  <1>5. ASSUME NEW f \in Files, WalkFile(w, f) PROVE Ready(w)'
    <2>1. w \in Busy /\ job[w].pc = "walk"
      BY <1>5 DEF WalkFile, Doing, Busy
    <2>2. job[w].entries \in [Files -> Stat \union {Missing}]
      BY <1>0 DEF TypeInv, TypeOK, Jobs
    <2>3. /\ job'[w].entries = [job[w].entries EXCEPT ![f] = StatOf(f)]
          /\ job'[w].todo = job[w].todo \ {f}
          /\ job'[w].pc \in {"walk", "load"} /\ (job'[w].pc = "load" => job'[w].todo = {})
      BY <1>0, <1>5, WalkDoes
    <2>4. \A g \in Files : g \in job'[w].todo \/ job'[w].entries[g] = StatOf(g)
      BY <1>3, <2>1, <2>2, <2>3 DEF Ready
    <2> QED
      BY <1>1, <1>3, <2>1, <2>3, <2>4 DEF Ready, Writing
  <1>6. ASSUME LoadRows(w) PROVE Ready(w)'
    <2>1. w \in Busy /\ job[w].pc = "load"
      BY <1>6 DEF LoadRows, Doing, Busy
    <2>2. \A f \in Files : job[w].entries[f] = StatOf(f)
      BY <1>3, <2>1 DEF Ready
    <2>3. \A f \in Files : job[w].entries[f] = Missing => disk[f] = Missing
      BY <1>0, <2>2, StatType DEF TypeInv
    <2> QED
      BY <1>0, <1>1, <1>3, <1>6, <2>1, <2>2, <2>3, LoadDoes, LoadPlans DEF Ready, Writing
  <1>7. ASSUME NEW f \in Files, PlanFile(w, f) PROVE Ready(w)'
    <2>1. w \in Busy /\ job[w].pc = "plan" /\ Ready(w)
      BY <1>3, <1>7 DEF PlanFile, Doing, Busy
    <2>2. job[w].known = db.rows /\ job[w].entries[f] = StatOf(f) /\ job[w].fingerprint = installed
      BY <2>1 DEF Ready
    <2>3. f \in job'[w].plan \/ disk[f] = Missing \/ UpToDate(db, f)
      <3>1. SUFFICES ASSUME disk[f] # Missing, ~Stale(db.rows[f], StatOf(f), installed, f)
                     PROVE  UpToDate(db, f)
        BY <1>0, <1>7, <2>2, PlanFileDoes
      <3> QED
        BY <3>1, NotStale DEF UpToDate
    <2>4. UNCHANGED db /\ job'[w].entries = job[w].entries /\ job'[w].pc \in {"plan", "begin"}
      BY <1>0, <1>7, PlanDoes
    <2>5. \A g \in Files : UpToDate(db, g)' <=> UpToDate(db, g)
      BY <1>0, <2>4 DEF UpToDate
    <2> QED
      BY <1>0, <1>1, <1>3, <1>7, <2>1, <2>2, <2>3, <2>4, <2>5, PlanFileDoes DEF Ready, Writing
  <1>8. ASSUME Begin(w) PROVE Ready(w)'
    <2>1. w \in Busy /\ job[w].pc = "begin" /\ Ready(w)
      BY <1>3, <1>8 DEF Begin, Doing, Busy
    <2>2. staged' = Purge(db, job[w].plan \union Deleted(w)) /\ db \in Dbs
      BY <1>0, <1>8, BeginDoes DEF TypeInv, TypeOK
    <2>3. ASSUME NEW f \in Files \ job[w].plan PROVE UpToDate(staged, f)'
      <3>1. job[w].known[f] = db.rows[f] /\ job[w].entries[f] = StatOf(f)
        BY <2>1 DEF Ready
      <3>2. CASE disk[f] = Missing
        <4>1. StatOf(f) = Missing
          BY <3>2 DEF StatOf
        <4>2. f \in Deleted(w) \/ db.facts[f] = Missing
          BY <3>1, <4>1 DEF Deleted, FreshInv, CoherentInv, Coherent
        <4> QED
          BY <1>0, <2>2, <3>2, <4>2 DEF UpToDate, Purge, Dbs
      <3>3. CASE disk[f] # Missing
        <4>1. UpToDate(db, f)
          BY <2>1, <3>3 DEF Ready
        <4>2. f \notin Deleted(w)
          BY <1>0, <3>1, <3>3, StatType DEF Deleted, TypeInv
        <4> QED
          BY <1>0, <2>2, <3>3, <4>1, <4>2 DEF UpToDate, Purge, Dbs
      <3> QED
        BY <3>2, <3>3
    <2> QED
      BY <1>0, <1>3, <1>8, <2>1, <2>3, BeginDoes DEF Ready, Writing
  <1>9. ASSUME NEW f \in Files, ReadFile(w, f) PROVE Ready(w)'
    <2>1. w \in Busy /\ Writing(w)
      BY <1>9 DEF ReadFile, Doing, Busy, Writing
    <2> QED
      BY <1>0, <1>3, <1>9, <2>1, ReadDoes DEF Ready, Writing, UpToDate
  <1>10. ASSUME StatFile(w) PROVE Ready(w)'
    <2>0. PICK f \in Files : f = job[w].file
      BY <1>0, <1>10 DEF StatFile, TypeInv, AtStat
    <2> DEFINE row == [hash |-> job[w].read, size |-> StatOf(f).size, mtime |-> StatOf(f).mtime,
                       fingerprint |-> job[w].fingerprint]
    <2>1. w \in Busy /\ Writing(w) /\ job[w].pc = "stat"
      BY <1>10 DEF StatFile, Doing, Busy, Writing
    <2>2. disk[f] # Missing /\ job[w].read = disk[f].content /\ job[w].fingerprint = installed
      BY <1>0, <1>3, <2>0, <2>1 DEF FreshInv, TimesInv, ReadTells, Doing, Ready
    <2>3. /\ staged'.facts = [staged.facts EXCEPT ![f] = job[w].read]
          /\ staged'.rows = [staged.rows EXCEPT ![f] = row] /\ row.fingerprint = job[w].fingerprint
      BY <1>0, <1>10, <2>0 DEF StatFile, Write, Dbs, TypeInv, TypeOK
    <2>4. staged.rows \in [Files -> Row \union {Missing}] /\ staged.facts \in [Files -> Contents \union {Missing}]
      BY <1>0 DEF TypeInv, TypeOK, Dbs
    <2> HIDE DEF row
    <2>5. UpToDate(staged, f)'
      BY <1>0, <2>2, <2>3, <2>4 DEF UpToDate
    <2>6. \A g \in Files \ {f} : UpToDate(staged, g)' <=> UpToDate(staged, g)
      BY <1>0, <2>3, <2>4 DEF UpToDate
    <2>7. job'[w].todo = job[w].todo \ {f} /\ job'[w].pc \in {"index", "finish"}
      BY <1>0, <1>10, <2>0, StatDoes
    <2> QED
      BY <1>0, <1>3, <2>1, <2>5, <2>6, <2>7 DEF Ready, Writing
  <1>11. ASSUME RecordMeta(w) PROVE Ready(w)'
    <2>1. w \in Busy /\ Writing(w)
      BY <1>11 DEF RecordMeta, Doing, Busy, Writing
    <2>2. staged'.rows = staged.rows /\ staged'.facts = staged.facts
      BY <1>0, <1>11 DEF RecordMeta, RebuildEdges, TypeInv, TypeOK, Dbs
    <2> QED
      BY <1>0, <1>3, <1>11, <2>1, <2>2, RecordDoes DEF Ready, Writing, UpToDate
  <1> QED
    BY <1>2, <1>4, <1>5, <1>6, <1>7, <1>8, <1>9, <1>10, <1>11
       DEF Step, PlanFails, BeginTimesOut, ReadFails, StatFails

LEMMA PlanStep ==
    LockWorks /\ FreshInv /\ IndexInv /\ AloneInv /\ PlanInv /\ [Next]_vars => PlanInv'
  <1> SUFFICES ASSUME LockWorks, FreshInv, IndexInv, AloneInv, PlanInv, [Next]_vars PROVE PlanInv'
    OBVIOUS
  <1>1. ASSUME NEW w \in Workers, Step(w) \/ Crash(w) PROVE PlanInv'
    <2>1. ASSUME NEW v \in Busy', job'[v].undisturbed PROVE Ready(v)'
      BY <1>1, <2>1, OthersReady, WorkerReady DEF FreshInv
    <2> QED
      BY <2>1 DEF PlanInv
  <1>2. CASE World
    <2>1. \A w \in Workers : job'[w].pc = job[w].pc
      BY <1>2, WorldKeeps DEF FreshInv
    <2>2. \A w \in Busy : ~job'[w].undisturbed
      <3>1. Disturb
        BY <1>2 DEF World, Edit, Checkout, Upgrade
      <3>2. \A w \in Workers : job'[w] = [job[w] EXCEPT !.undisturbed = w \notin Busy]
        BY <3>1 DEF Disturb
      <3>3. \A w \in Busy : w \in Workers /\ job[w] \in Jobs
        BY DEF Busy, FreshInv, TypeInv, TypeOK
      <3>4. \A w \in Busy : [job[w] EXCEPT !.undisturbed = FALSE].undisturbed = FALSE
        BY <3>3 DEF Jobs
      <3> QED
        BY <3>2, <3>3, <3>4
    <2> QED
      BY <2>1, <2>2 DEF PlanInv, Busy
  <1>3. CASE UNCHANGED vars
    BY <1>3 DEF vars, PlanInv, Busy, Ready, Writing, UpToDate, StatOf
  <1> QED
    BY <1>1, <1>2, <1>3 DEF Next

LEMMA FullInit == Init => FullInv
  <1>1. Init => \A w \in Workers : job[w].pc = "idle"
    BY DEF Init, Idle
  <1>2. Init => Busy = {}
    BY <1>1 DEF Busy
  <1> QED
    BY <1>2, FreshInit, SafeInit DEF FullInv, SafeInv, AloneInv, PlanInv

LEMMA FullStep == QuietEdits /\ LockWorks /\ FullInv /\ [Next]_vars => FullInv'
  BY FreshStep, IndexStep, HeldStep, AloneStep, PlanStep DEF FullInv, FreshInv

\* Where the lock works and times tell edits apart, an incremental sync during which nothing
\* moved leaves nothing for a full one to do.
THEOREM IncrementalSyncIsFull == QuietEdits /\ LockWorks => (Spec => IncrementalIsFull)
  <1> SUFFICES ASSUME QuietEdits, LockWorks PROVE Spec => IncrementalIsFull
    OBVIOUS
  <1> DEFINE Full ==
        \A w \in Workers : Commit(w) /\ job[w].undisturbed =>
          \A f \in Files :
             IF disk[f] = Missing THEN db'.facts[f] = Missing
             ELSE /\ db'.facts[f] = disk[f].content
                  /\ db'.rows[f].fingerprint = installed
  <1>1. FullInv /\ [Next]_vars => FullInv'
    BY FullStep
  <1>2. FullInv => Full
    <2> SUFFICES ASSUME FullInv, NEW w \in Workers, Commit(w), job[w].undisturbed, NEW f \in Files
                 PROVE  IF disk[f] = Missing THEN db'.facts[f] = Missing
                        ELSE /\ db'.facts[f] = disk[f].content
                             /\ db'.rows[f].fingerprint = installed
      OBVIOUS
    <2>1. w \in Busy /\ Writing(w) /\ job[w].todo = {} /\ db' = staged
      BY DEF Commit, Doing, Busy, Writing, FullInv, IndexInv
    <2>2. UpToDate(staged, f)
      BY <2>1 DEF FullInv, PlanInv, Ready
    <2> QED
      BY <2>1, <2>2 DEF UpToDate
  <1>3. IncrementalIsFull <=> [][Full]_vars
    BY DEF IncrementalIsFull
  <1> HIDE DEF Full
  <1> QED
    BY <1>1, <1>2, <1>3, FullInit, PTL DEF Spec
=============================================================================
