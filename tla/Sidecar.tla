------------------------------- MODULE Sidecar -------------------------------
(***************************************************************************)
(* A watcher and an MCP server on one database, as an agent's sidecar runs *)
(* them: two processes whose syncs meet at the lock.                       *)
(***************************************************************************)
EXTENDS Watcher, McpServer

ASSUME SidecarAssumption == Watch \notin Requests

vars == <<service, watcher, server>>

Init == ServiceInit /\ WatcherInit /\ ServerInit

\* A step of sync_repo.  Its lock and database files change under the root, in .graphtrail or
\* with an extension of their own.
SyncStep(t) ==
    /\ \/ (Lock(t) \/ CommitGraph(t)) /\ Notify("noise") /\ UNCHANGED missed
       \/ (FindFresh(t) \/ ReadContent(t)) /\ UNCHANGED queue /\ missed' = (missed /\ t # Watch)
       \/ /\ Locked(t) \/ FailSync(t)
          /\ UNCHANGED queue /\ missed' = (missed \/ (t = Watch /\ ~Queued("source")))
       \/ (FindChanged(t) \/ ReadStat(t) \/ Leave(t)) /\ UNCHANGED <<queue, missed>>
    /\ UNCHANGED <<wpc, relevant, server>>

\* An editor saves the file, unheard by a watch that is not registered yet or whose queue is
\* full.
Edit ==
    /\ EditFile
    /\ \/ Registered /\ Heard("source")
       \/ Notify("noise") /\ missed' = TRUE
    /\ UNCHANGED <<wpc, relevant, server>>

WatcherStep == WatchLoop /\ UNCHANGED server
ServerStep == ServerLoop /\ UNCHANGED watcher
Client == \E r \in Requests, refresh \in BOOLEAN : Send(r, refresh) /\ UNCHANGED watcher
ServerEnds == Exit /\ UNCHANGED watcher
OtherWrites == (\E kind \in Kinds : Churn(kind)) /\ UNCHANGED server

Next ==
    \/ (\E t \in Threads : SyncStep(t)) \/ Edit \/ OtherWrites
    \/ WatcherStep \/ ServerStep \/ Client \/ ServerEnds

Spec == Init /\ [][Next]_vars

\* The two main threads run on, and so does the watcher's sync.  Nothing makes a
\* refresh thread finish: it may hang on a slow disk with the lock in its hand.
FairSpec ==
    /\ Spec
    /\ WF_vars(WatcherStep) /\ WF_vars(ServerStep) /\ WF_vars(SyncStep(Watch))

TypeOK == ServiceTypeOK /\ WatcherTypeOK /\ ServerTypeOK
=============================================================================
