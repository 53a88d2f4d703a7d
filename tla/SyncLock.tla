------------------------------ MODULE SyncLock ------------------------------
(***************************************************************************)
(* The advisory sync lock of store/lock.rs: the file `<db>.lock`, created  *)
(* with O_EXCL, holding the pid of its owner, and reclaimed when that pid  *)
(* is dead.  Every system call of SyncLock::acquire is a step of its own,  *)
(* because that is where processes interleave.                             *)
(*                                                                         *)
(* A worker is a thread that runs one sync after another: the main thread  *)
(* of a CLI command or of the watcher, or one refresh thread of the MCP    *)
(* server.  Threads of one process share its pid.  A process may die at    *)
(* any step, with or without the lock, and never runs the destructor then. *)
(***************************************************************************)
EXTENDS Naturals

CONSTANTS
    Workers,      \* threads that sync the same database
    Pids,         \* process ids
    PidOf,        \* the process each worker belongs to
    Blank,        \* what a lock file without a parsable pid holds
    NoFile        \* the lock path when nothing is there

LockFile == [creator : Workers, owner : Pids \union {Blank}, expired : BOOLEAN]

ASSUME ProcessAssumption ==
    /\ PidOf \in [Workers -> Pids]
    /\ Blank \notin Pids
    /\ NoFile \notin LockFile

VARIABLES
    lockFile,   \* the file at the lock path; `creator` is the inode's identity
    proc,       \* the fate of each pid: "running", "gone", or "reused"
    pc,         \* where each worker stands in acquire
    seen,       \* the owner each worker read from the file it inspected
    evicted,    \* history: holders whose file somebody else removed
    outlived    \* history: has a lock file without a pid ever outlived an hour?

vars == <<lockFile, proc, pc, seen, evicted, outlived>>

Steps == {"idle", "inspect", "probe", "age", "reclaim", "retry", "stamp", "held", "dead"}

\* A worker that has created the lock file and not yet dropped its guard.
Holds(w) == pc[w] \in {"stamp", "held"}

Init ==
    /\ lockFile = NoFile
    /\ proc = [p \in Pids |-> "running"]
    /\ pc = [w \in Workers |-> "idle"]
    /\ seen = [w \in Workers |-> Blank]
    /\ evicted = {}
    /\ outlived = FALSE

-----------------------------------------------------------------------------
(* The two file operations the protocol is built from.                     *)

CreateWithoutExcl(w) ==
    lockFile' = [creator |-> w, owner |-> Blank, expired |-> FALSE]

\* OpenOptions::create_new: fails when the path exists.
CreateNew(w) ==
    /\ lockFile = NoFile
    /\ lockFile' = [creator |-> w, owner |-> Blank, expired |-> FALSE]

\* fs::remove_file: whatever is at the path goes, and a missing file is no error.
RemoveLockFile(w) ==
    /\ lockFile' = NoFile
    /\ evicted' = (evicted \ {w}) \union
                     {v \in Workers \ {w} :
                         lockFile # NoFile /\ lockFile.creator = v /\ Holds(v)}

Goto(w, step) == pc' = [pc EXCEPT ![w] = step]

-----------------------------------------------------------------------------
(* SyncLock::acquire.                                                      *)

\* First attempt, the path is free.
AcquireFirst(w) ==
    /\ pc[w] = "idle"
    /\ CreateNew(w)
    /\ Goto(w, "stamp")
    /\ UNCHANGED <<proc, seen, evicted, outlived>>

\* First attempt, AlreadyExists.
FindTaken(w) ==
    /\ pc[w] = "idle"
    /\ lockFile # NoFile
    /\ Goto(w, "inspect")
    /\ UNCHANGED <<lockFile, proc, seen, evicted, outlived>>

ReadOwnerUnparsed(w) ==
    /\ pc[w] = "inspect"
    /\ seen' = [seen EXCEPT ![w] = lockFile]
    /\ Goto(w, "probe")
    /\ UNCHANGED <<lockFile, proc, evicted, outlived>>

\* Read the pid; a file that is gone by now, or holds no pid yet, has no owner.
ReadOwner(w) ==
    /\ pc[w] = "inspect"
    /\ LET owner == IF lockFile = NoFile THEN Blank ELSE lockFile.owner
       IN  /\ seen' = [seen EXCEPT ![w] = owner]
           /\ Goto(w, IF owner = Blank THEN "age" ELSE "probe")
    /\ UNCHANGED <<lockFile, proc, evicted, outlived>>

\* kill(pid, 0): ESRCH means stale; a live pid, ours or a stranger's, means busy.
ProbeOwner(w) ==
    /\ pc[w] = "probe"
    /\ Goto(w, IF proc[seen[w]] = "gone" THEN "reclaim" ELSE "idle")
    /\ UNCHANGED <<lockFile, proc, seen, evicted, outlived>>

CheckAgeAlwaysStale(w) ==
    /\ pc[w] = "age"
    /\ Goto(w, IF lockFile # NoFile THEN "reclaim" ELSE "idle")
    /\ UNCHANGED <<lockFile, proc, seen, evicted, outlived>>

CheckAgeNeverStale(w) ==
    /\ pc[w] = "age"
    /\ Goto(w, "idle")
    /\ UNCHANGED <<lockFile, proc, seen, evicted, outlived>>

\* No owner to probe: stale when the file now at the path is older than an hour.
CheckAge(w) ==
    /\ pc[w] = "age"
    /\ Goto(w, IF lockFile # NoFile /\ lockFile.expired THEN "reclaim" ELSE "idle")
    /\ UNCHANGED <<lockFile, proc, seen, evicted, outlived>>

\* Remove the file judged stale, or its successor, and try once more.
Reclaim(w) ==
    /\ pc[w] = "reclaim"
    /\ RemoveLockFile(w)
    /\ Goto(w, "retry")
    /\ UNCHANGED <<proc, seen, outlived>>

\* Second attempt, the path is free.
AcquireRetry(w) ==
    /\ pc[w] = "retry"
    /\ CreateNew(w)
    /\ Goto(w, "stamp")
    /\ UNCHANGED <<proc, seen, evicted, outlived>>

\* Second attempt, AlreadyExists: another sync is running.
GiveUp(w) ==
    /\ pc[w] = "retry"
    /\ lockFile # NoFile
    /\ Goto(w, "idle")
    /\ UNCHANGED <<lockFile, proc, seen, evicted, outlived>>

\* Write the pid into the inode this worker created; a write error is ignored.
Stamp(w) ==
    /\ pc[w] = "stamp"
    /\ \/ /\ lockFile # NoFile /\ lockFile.creator = w
          /\ lockFile' = [lockFile EXCEPT !.owner = PidOf[w]]
       \/ UNCHANGED lockFile
    /\ Goto(w, "held")
    /\ UNCHANGED <<proc, seen, evicted, outlived>>

\* Drop: the sync is over, well or badly, and the path is removed.
Release(w) ==
    /\ pc[w] = "held"
    /\ RemoveLockFile(w)
    /\ Goto(w, "idle")
    /\ UNCHANGED <<proc, seen, outlived>>

-----------------------------------------------------------------------------
(* The world around it.                                                    *)

\* A process exits or is killed, and all its threads with it.
Die(p) ==
    /\ proc[p] = "running"
    /\ proc' = [proc EXCEPT ![p] = "gone"]
    /\ pc' = [w \in Workers |-> IF PidOf[w] = p THEN "dead" ELSE pc[w]]
    /\ evicted' = {w \in evicted : PidOf[w] # p}
    /\ UNCHANGED <<lockFile, seen, outlived>>

\* The dead pid is given to a process that has nothing to do with this database.
ReusePid(p) ==
    /\ proc[p] = "gone"
    /\ proc' = [proc EXCEPT ![p] = "reused"]
    /\ UNCHANGED <<lockFile, pc, seen, evicted, outlived>>

\* An hour passes over a lock file that carries no pid.
Expire ==
    /\ lockFile # NoFile /\ lockFile.owner = Blank /\ ~lockFile.expired
    /\ lockFile' = [lockFile EXCEPT !.expired = TRUE]
    /\ outlived' = TRUE
    /\ UNCHANGED <<proc, pc, seen, evicted>>

Step(w) ==
    \/ AcquireFirst(w) \/ FindTaken(w) \/ ReadOwner(w) \/ ProbeOwner(w)
    \/ CheckAge(w) \/ Reclaim(w) \/ AcquireRetry(w) \/ GiveUp(w)
    \/ Stamp(w) \/ Release(w)

Next ==
    \/ \E w \in Workers : Step(w)
    \/ \E p \in Pids : Die(p) \/ ReusePid(p)
    \/ Expire

Spec == Init /\ [][Next]_vars

\* Live threads keep running, syncs keep being asked for (a watcher, a timer or
\* an agent does), and time passes.  Nothing forces a death or a reused pid.
FairSpec == Spec /\ (\A w \in Workers : WF_vars(Step(w))) /\ WF_vars(Expire)

-----------------------------------------------------------------------------
TypeOK ==
    /\ lockFile \in LockFile \union {NoFile}
    /\ proc \in [Pids -> {"running", "gone", "reused"}]
    /\ pc \in [Workers -> Steps]
    /\ seen \in [Workers -> Pids \union {Blank}]
    /\ evicted \in SUBSET Workers
    /\ outlived \in BOOLEAN

\* No two workers are past acquire at once.
OneWriter == \A v, w \in Workers : pc[v] = "held" /\ pc[w] = "held" => v = w

\* lock.rs calls itself "one writer per database file".  The reclaim path does not
\* keep this promise, even when only dead pids, never old files, are reclaimed.
OneWriterPerDatabase == ~outlived => OneWriter

\* Exclusion fails only through eviction: of two workers that both created the
\* lock and have not dropped it, one had its file removed by somebody else.
ExclusiveUnlessEvicted ==
    \A v, w \in Workers : Holds(v) /\ Holds(w) /\ v # w => v \in evicted \/ w \in evicted

\* As long as every process is alive and no pid-less lock file has grown old, the
\* lock excludes, whatever the interleaving of contenders, read and stamp.
CrashFreeExclusion ==
    (\A p \in Pids : proc[p] = "running") /\ ~outlived => OneWriter

\* Dropping the guard removes another worker's lock only when the dropper had
\* already lost its own: the unconditional remove_file of Drop does no harm of
\* its own, it passes an eviction on.
DropHarmsOnlyIfEvicted ==
    [][\A w \in Workers : Release(w) /\ w \notin evicted => evicted' \subseteq evicted]_vars

\* The lock file of a thread that is dead and will never drop its guard.
Orphaned == lockFile # NoFile /\ pc[lockFile.creator] = "dead"

NobodySyncs == \A w \in Workers : pc[w] = "dead"

\* The pid in the lock file belongs to a stranger now.
OwnerReused == lockFile # NoFile /\ lockFile.owner \in Pids /\ proc[lockFile.owner] = "reused"

\* While somebody is left to sync, the lock of a dead process goes away, also one
\* killed between creating the file and writing its pid, unless the pid is reused: then
\* every sync is refused for as long as the process that has it lives.
OrphanReclaimed == Orphaned ~> (~Orphaned \/ NobodySyncs \/ OwnerReused)
=============================================================================
