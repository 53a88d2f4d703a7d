----------------------------- MODULE SyncService -----------------------------
(***************************************************************************)
(* What a thread that calls sync_repo gets from it: a sync that takes the  *)
(* lock or fails at once, reads the tree, commits what it has read, and    *)
(* gives the lock back.  It is GraphSync seen from its callers.            *)
(*                                                                         *)
(* Of the tree it shows one source file, any of them: what a sync does     *)
(* with a file does not depend on the others.  Its content is the number   *)
(* of edits so far, the graph is the number of edits that the graph knows. *)
(* A sync that finds the file's stat in its row does not read it, and the  *)
(* stat it records is taken after the content.  The lock excludes: how far *)
(* the lock file keeps that promise is SyncLock's subject.                 *)
(***************************************************************************)
EXTENDS Naturals

CONSTANTS
    Threads,    \* threads that may call sync_repo
    Free,       \* nobody holds the lock
    MaxEdits    \* bound on source edits

ASSUME ServiceAssumption == Free \notin Threads /\ MaxEdits \in Nat

VARIABLES
    tree,    \* edits of the file so far
    stat,    \* its size and modification time in seconds, named by an edit that had them
    graph,   \* the edits the committed graph includes
    row,     \* the stat in the file's committed row
    hidden,  \* history: the last edit that the graph does not know and whose stat the row has
    lock,    \* the thread that holds the sync lock
    sync     \* each thread's call of sync_repo

file == <<tree, stat>>
committed == <<graph, row, hidden>>
service == <<file, committed, lock, sync>>

Phases == {"none", "called", "walking", "reading", "stating", "writing", "leaving", "ok",
           "failed"}

NoSync == [pc |-> "none", seen |-> 0, stat |-> 0, awaited |-> FALSE]

ServiceInit ==
    /\ tree = 0 /\ stat = 0 /\ graph = 0 /\ row = 0 /\ hidden = 0 /\ lock = Free
    /\ sync = [t \in Threads |-> NoSync]

\* sync_repo is called, has returned, and its result is matched; or nobody waits for it any more.
CallSync(t) == sync' = [sync EXCEPT ![t] = [NoSync EXCEPT !.pc = "called", !.awaited = TRUE]]
Returned(t) == sync[t].pc \in {"ok", "failed"}
TakeResult(t) == sync' = [sync EXCEPT ![t] = NoSync]
Abandon(t) == sync' = [sync EXCEPT ![t].awaited = FALSE]

\* What t has read is done with; a result that nobody waits for is lost.
Return(t, result) ==
    sync' = [sync EXCEPT ![t] =
        IF sync[t].awaited THEN [NoSync EXCEPT !.pc = result, !.awaited = TRUE] ELSE NoSync]

LockIgnored(t) ==
    /\ sync[t].pc = "called"
    /\ lock' = t
    /\ sync' = [sync EXCEPT ![t].pc = "walking"]
    /\ UNCHANGED <<file, committed>>

Lock(t) ==
    /\ sync[t].pc = "called" /\ lock = Free
    /\ lock' = t
    /\ sync' = [sync EXCEPT ![t].pc = "walking"]
    /\ UNCHANGED <<file, committed>>

\* "another sync is already running": no waiting.
Locked(t) ==
    /\ sync[t].pc = "called" /\ lock # Free
    /\ Return(t, "failed")
    /\ UNCHANGED <<file, committed, lock>>

\* The walk meets the stat of the row: the file is not read, and the row stays.
FindFresh(t) ==
    /\ sync[t].pc = "walking" /\ stat = row
    /\ sync' = [sync EXCEPT ![t].pc = "writing", ![t].seen = graph, ![t].stat = row]
    /\ UNCHANGED <<file, committed, lock>>

\* Another stat, and another hash, as each edit gives the file a content of its own.
FindChanged(t) ==
    /\ sync[t].pc = "walking" /\ stat # row
    /\ sync' = [sync EXCEPT ![t].pc = "reading"]
    /\ UNCHANGED <<file, committed, lock>>

\* index_file reads the content ...
ReadContent(t) ==
    /\ sync[t].pc = "reading"
    /\ sync' = [sync EXCEPT ![t].pc = "stating", ![t].seen = tree]
    /\ UNCHANGED <<file, committed, lock>>

\* ... then the metadata, which may by now be those of another content.
ReadStat(t) ==
    /\ sync[t].pc = "stating"
    /\ sync' = [sync EXCEPT ![t].pc = "writing", ![t].stat = stat]
    /\ UNCHANGED <<file, committed, lock>>

CommitPastRead(t) ==
    /\ sync[t].pc = "writing"
    /\ graph' = sync[t].seen + 1 /\ row' = sync[t].stat
    /\ sync' = [sync EXCEPT ![t].pc = "leaving", ![t].seen = 0, ![t].stat = 0]
    /\ UNCHANGED <<file, hidden, lock>>

\* The commit publishes what was read, under the stat that was read.
CommitGraph(t) ==
    /\ sync[t].pc = "writing"
    /\ graph' = sync[t].seen /\ row' = sync[t].stat
    /\ hidden' = IF row' = stat /\ graph' # tree THEN tree ELSE hidden
    /\ sync' = [sync EXCEPT ![t].pc = "leaving", ![t].seen = 0, ![t].stat = 0]
    /\ UNCHANGED <<file, lock>>

\* The guard is dropped as sync_repo returns.
Leave(t) ==
    /\ sync[t].pc = "leaving"
    /\ lock' = Free
    /\ Return(t, "ok")
    /\ UNCHANGED <<file, committed>>

\* An unreadable file or a busy database: the transaction rolls back.
FailSync(t) ==
    /\ sync[t].pc \in {"walking", "reading", "stating", "writing"}
    /\ lock' = Free
    /\ Return(t, "failed")
    /\ UNCHANGED <<file, committed>>

\* The process of these threads is gone; the next sync finds their lock stale.
KillThreads(ts) ==
    /\ sync' = [t \in Threads |-> IF t \in ts THEN NoSync ELSE sync[t]]
    /\ lock' = IF lock \in ts THEN Free ELSE lock
    /\ UNCHANGED <<file, committed>>

\* The file is saved: with a stat of its own, with the one it had (as long as before, within
\* the same second), or with the one in its row, put back.
EditFile ==
    /\ tree < MaxEdits
    /\ tree' = tree + 1
    /\ stat' \in {stat, row, tree'}
    /\ hidden' = IF stat' = row THEN tree' ELSE hidden
    /\ UNCHANGED <<graph, row, lock, sync>>

ServiceTypeOK ==
    /\ {tree, stat, graph, row, hidden} \subseteq 0..MaxEdits
    /\ lock \in Threads \union {Free}
    /\ sync \in [Threads -> [pc : Phases, seen : 0..MaxEdits, stat : 0..MaxEdits, awaited : BOOLEAN]]

\* A later graph is never an older one: what one sync has published, a sync that read
\* the file earlier cannot overwrite, because reading and publishing are under the lock.
NeverGoesBack == [][graph' >= graph]_graph
=============================================================================
