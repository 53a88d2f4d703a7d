------------------------------- MODULE Watcher -------------------------------
(***************************************************************************)
(* graphtrail watch (watch.rs): one sync up front, then a sync after each  *)
(* burst of file events that is followed by a quiet period.  The file      *)
(* events of a sync's own writes come back to the watcher, other programs  *)
(* write whatever they like under the root, as often as they like, and the *)
(* kernel's event queue may overflow.                                      *)
(***************************************************************************)
EXTENDS SyncService, Sequences

CONSTANT Watch      \* the watcher's thread

ASSUME WatchAssumption == Watch \in Threads

VARIABLES
    wpc,        \* where watch() stands
    queue,      \* file events in the channel, once the watch is registered
    relevant,   \* has the burst touched a source file?
    missed      \* history: since the watcher's sync last looked at the file and since the last
                \* relevant event, has a sync failed, or has an edit raised no event?

watcher == <<wpc, queue, relevant, missed>>

\* Paths outside .git and .graphtrail with a source file's extension or with none, be they
\* ignored, generated or directories; and what is_relevant_change calls noise: anything under
\* .git or .graphtrail, other files, and the notice of an overflow, an error or without a path.
Kinds == {"source", "noise"}

WatcherInit ==
    /\ wpc = "start" /\ queue = <<>> /\ relevant = FALSE /\ missed = FALSE


\* is_relevant_change, event_is_relevant.
IsRelevantChange(kind) == kind = "source"

Registered == wpc \in {"wait", "drain", "syncing"}

Queued(kind) == \E i \in DOMAIN queue : queue[i] = kind

\* A path changes under the root.  Of the events waiting in the channel, which end in one burst,
\* those of one kind count as one: the loop asks only whether some event was relevant.
Notify(kind) ==
    queue' = IF ~Registered \/ Queued(kind) THEN queue ELSE Append(queue, kind)

\* A relevant event that arrives makes up for what was missed: a sync will follow it.
Heard(kind) == Notify(kind) /\ missed' = (missed /\ ~(Registered /\ kind = "source"))

\* A build, a log, git, other source files: whatever else is written under the root.
Churn(kind) == Heard(kind) /\ UNCHANGED <<service, wpc, relevant>>

\* "One sync always runs up front".
StartWatch ==
    /\ wpc = "start"
    /\ CallSync(Watch)
    /\ wpc' = "first"
    /\ UNCHANGED <<file, committed, lock, queue, relevant, missed>>

\* The first sync's error ends watch().
FirstFailed ==
    /\ wpc = "first" /\ sync[Watch].pc = "failed"
    /\ wpc' = "stopped"
    /\ TakeResult(Watch)
    /\ UNCHANGED <<file, committed, lock, queue, relevant, missed>>

\* The watch is registered after the first sync has returned.
Register ==
    /\ wpc = "first" /\ sync[Watch].pc = "ok"
    /\ wpc' = "wait"
    /\ TakeResult(Watch)
    /\ UNCHANGED <<file, committed, lock, queue, relevant, missed>>

\* recv: something happens at all.
ReceiveFirst ==
    /\ wpc = "wait" /\ queue # <<>>
    /\ relevant' = IsRelevantChange(Head(queue))
    /\ queue' = Tail(queue)
    /\ wpc' = "drain"
    /\ UNCHANGED <<service, missed>>

DrainToLast ==
    /\ wpc = "drain" /\ queue # <<>>
    /\ relevant' = IsRelevantChange(Head(queue))
    /\ queue' = Tail(queue)
    /\ UNCHANGED <<service, wpc, missed>>

\* recv_timeout: absorb the burst.
Drain ==
    /\ wpc = "drain" /\ queue # <<>>
    /\ relevant' = (IsRelevantChange(Head(queue)) \/ relevant)
    /\ queue' = Tail(queue)
    /\ UNCHANGED <<service, wpc, missed>>

\* Nothing for the length of the debounce.
Quiet ==
    /\ wpc = "drain" /\ queue = <<>>
    /\ IF relevant THEN wpc' = "syncing" /\ CallSync(Watch)
       ELSE wpc' = "wait" /\ UNCHANGED sync
    /\ relevant' = FALSE
    /\ UNCHANGED <<file, committed, lock, queue, missed>>

\* An error is printed and forgotten: "will retry on next change".
BurstSynced ==
    /\ wpc = "syncing" /\ Returned(Watch)
    /\ wpc' = "wait"
    /\ TakeResult(Watch)
    /\ UNCHANGED <<file, committed, lock, queue, relevant, missed>>

WatchLoop ==
    \/ StartWatch \/ FirstFailed \/ Register \/ ReceiveFirst \/ Drain \/ Quiet
    \/ BurstSynced

WatcherTypeOK ==
    /\ wpc \in {"start", "first", "wait", "drain", "syncing", "stopped"}
    /\ queue \in Seq(Kinds)
    /\ relevant \in BOOLEAN /\ missed \in BOOLEAN

\* Once edits cease, the last of them is in the graph, also when a sync has failed or an event
\* was lost on the way, as the next change makes up for it.  The exceptions: that edit's stat
\* is the row's, it raised no event or the sync failed, and nothing relevant has happened
\* since, events go on without ever a pause, or syncs fail for ever.
LastEditIsSynced ==
    \/ <>[](wpc = "stopped" \/ graph = tree \/ hidden = tree \/ missed)
    \/ <>[](wpc = "drain")
    \/ []<>(sync[Watch].pc = "failed")


\* "One sync always runs up front so the graph is current before the first event" (as far as
\* stats tell).
CurrentBeforeFirstEvent == [][Register => graph = tree \/ hidden = tree]_watcher
=============================================================================
