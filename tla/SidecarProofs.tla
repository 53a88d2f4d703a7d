--------------------------- MODULE SidecarProofs ---------------------------
(***************************************************************************)
(* What a watcher and a server with any number of requests can rely on.    *)
(* The argument: whoever reads the file holds the lock, so nobody commits  *)
(* between its reading and its commit; hence what it commits is at least   *)
(* as new as what it replaces, and as anything a client knew before.  A    *)
(* file that it does not read has the stat of its row: then the graph      *)
(* knows its last edit, or that edit is hidden.                            *)
(***************************************************************************)
EXTENDS Sidecar, TLAPS

USE DEF Phases, Kinds, file, committed

Inside == {"walking", "reading", "stating", "writing", "leaving"}

\* The threads inside sync_repo hold the lock.
LockInv ==
    \A t \in Threads : sync[t].pc \in Inside => lock = t

\* The graph is never ahead of the file, nor of what a sync is about to commit, and where
\* the row has the file's stat it has its content, or hides it.
SeenInv ==
    /\ graph <= tree /\ hidden <= tree
    /\ row = stat => graph = tree \/ hidden = tree
    /\ \A t \in Threads :
          sync[t].pc \in {"stating", "writing"} => graph <= sync[t].seen /\ sync[t].seen <= tree

\* The server handles one request at a time, and reads nothing for the others.
TakenInv ==
    /\ \A q, r \in Requests : Current(q) /\ Current(r) => q = r
    /\ \A r \in Requests : Current(r) => spc \in {"refreshing", "querying"}
    /\ \A r \in Requests : ~Current(r) \/ spc = "refreshing" => call[r].reads = <<>>

\* n includes what the client of r knew, as far as no stat hides it.
Knows(r, n) == call[r].asked <= n \/ call[r].asked <= hidden

\* What a client knew is known to its refresh from the moment the file is looked at.
AskedInv ==
    \A r \in Requests :
        /\ call[r].asked <= tree
        /\ Current(r) /\ call[r].refresh =>
              /\ sync[r].pc \in {"stating", "writing"} => Knows(r, sync[r].seen)
              /\ sync[r].pc \in {"leaving", "ok"} => Knows(r, graph)
              /\ spc = "querying" /\ call[r].note = "none" =>
                    /\ Knows(r, graph)
                    /\ \A i \in DOMAIN call[r].reads : Knows(r, call[r].reads[i])

-----------------------------------------------------------------------------
(* Types.                                                                  *)

LEMMA InitTypes == Init => TypeOK
<1> SUFFICES ASSUME Init PROVE TypeOK
  OBVIOUS
<1>1. ServiceTypeOK
  BY ServiceAssumption DEF Init, ServiceInit, NoSync, ServiceTypeOK
<1>2. WatcherTypeOK
  <2>1. queue \in Seq(Kinds)
    BY DEF Init, WatcherInit
  <2>2. relevant \in BOOLEAN /\ missed \in BOOLEAN
    BY DEF Init, WatcherInit
  <2>3. wpc \in {"start", "first", "wait", "drain", "syncing", "stopped"}
    BY DEF Init, WatcherInit
  <2>4. QED
    BY <2>1, <2>2, <2>3 DEF WatcherTypeOK
<1>3. ServerTypeOK
  BY ServiceAssumption DEF Init, ServerInit, ServerTypeOK, NoCall
<1>4. QED
  BY <1>1, <1>2, <1>3 DEF TypeOK

\* A notice, whatever it tells of.
LEMMA NoticeTypes ==
    ASSUME TypeOK, NEW kind \in Kinds, Notify(kind) PROVE queue' \in Seq(Kinds)
  BY DEF Notify, TypeOK, WatcherTypeOK

LEMMA ChurnTypes == ASSUME TypeOK, OtherWrites PROVE TypeOK'
<1>1. queue' \in Seq(Kinds)
  BY NoticeTypes DEF OtherWrites, Churn, Heard
<1>2. UNCHANGED <<service, wpc, relevant, server>> /\ missed' \in BOOLEAN
  BY DEF OtherWrites, Churn, Heard, TypeOK, WatcherTypeOK
<1>3. QED
  BY <1>1, <1>2 DEF service, server, TypeOK, ServiceTypeOK, WatcherTypeOK, ServerTypeOK

Syncs == [pc : Phases, seen : 0..MaxEdits, stat : 0..MaxEdits, awaited : BOOLEAN]

LEMMA SyncsType == ASSUME TypeOK PROVE sync \in [Threads -> Syncs]
  BY DEF TypeOK, ServiceTypeOK, Syncs

LEMMA NoSyncType == NoSync \in Syncs
<1>1. 0 \in 0..MaxEdits
  BY ServiceAssumption
<1>2. QED
  BY <1>1 DEF NoSync, Syncs

\* A thread that begins, gives up or ends: only its own record changes.
LEMMA CallTypesSync ==
    ASSUME TypeOK, NEW t \in Threads, CallSync(t) \/ TakeResult(t) \/ Abandon(t)
    PROVE  /\ sync' \in [Threads -> Syncs]
           /\ \A u \in Threads \ {t} : sync'[u] = sync[u]
           /\ \/ sync'[t].pc \in {"called", "none"}
              \/ sync'[t].pc = sync[t].pc /\ sync'[t].seen = sync[t].seen
<1>1. sync \in [Threads -> Syncs] /\ sync[t] \in Syncs
  BY SyncsType
<1>2. CASE CallSync(t)
  BY <1>1, <1>2, NoSyncType DEF CallSync, NoSync, Syncs
<1>3. CASE TakeResult(t)
  BY <1>1, <1>3, NoSyncType DEF TakeResult, NoSync, Syncs
<1>4. CASE Abandon(t)
  BY <1>1, <1>4 DEF Abandon, Syncs
<1>5. QED
  BY <1>2, <1>3, <1>4

LEMMA ReturnTypes ==
    ASSUME TypeOK, NEW t \in Threads, NEW result \in {"ok", "failed"}, Return(t, result)
    PROVE  /\ sync' \in [Threads -> Syncs]
           /\ \A u \in Threads \ {t} : sync'[u] = sync[u]
           /\ sync'[t].pc \in {"none", result}
<1>1. sync \in [Threads -> Syncs] /\ NoSync \in Syncs
  BY SyncsType, NoSyncType
<1>2. PICK s \in {[NoSync EXCEPT !.pc = result, !.awaited = TRUE], NoSync} :
         sync' = [sync EXCEPT ![t] = s]
  BY DEF Return
<1>3. s \in Syncs /\ s.pc \in {"none", result}
  BY <1>1, <1>2 DEF NoSync, Syncs
<1>4. QED
  BY <1>1, <1>2, <1>3

\* What each of sync_repo's steps needs, and what it does for its thread.
Effect(t) ==
    LET from == sync[t].pc
        to == sync'[t].pc
    IN  \/ /\ UNCHANGED <<file, committed>>
           /\ \/ from = "called" /\ to = "walking" /\ lock = Free /\ lock' = t
              \/ from = "called" /\ to \in {"none", "failed"} /\ lock' = lock
              \/ /\ from = "walking" /\ to = "writing" /\ lock' = lock
                 /\ stat = row /\ sync'[t].seen = graph
              \/ from = "walking" /\ to = "reading" /\ lock' = lock
              \/ from = "reading" /\ to = "stating" /\ lock' = lock /\ sync'[t].seen = tree
              \/ from = "stating" /\ to = "writing" /\ lock' = lock /\ sync'[t].seen = sync[t].seen
              \/ from = "leaving" /\ to \in {"none", "ok"}
              \/ from \in Inside /\ to \in {"none", "failed"}
        \/ /\ from = "writing" /\ to = "leaving" /\ lock' = lock
           /\ UNCHANGED file /\ graph' = sync[t].seen
           /\ row' = stat /\ graph' # tree => hidden' = tree
           /\ ~(row' = stat /\ graph' # tree) => hidden' = hidden

LEMMA SyncAfter ==
    ASSUME TypeOK, NEW t \in Threads, SyncStep(t)
    PROVE  /\ sync' \in [Threads -> Syncs]
           /\ \A u \in Threads \ {t} : sync'[u] = sync[u]
           /\ Effect(t)
<1>1. /\ sync \in [Threads -> Syncs] /\ sync[t] \in Syncs
      /\ {tree, stat, graph, row} \subseteq 0..MaxEdits /\ 0 \in 0..MaxEdits
  BY SyncsType, ServiceAssumption DEF TypeOK, ServiceTypeOK
<1>2. CASE Lock(t)
  BY <1>1, <1>2 DEF Lock, Syncs, Effect
<1>3. CASE Locked(t)
  BY <1>3, ReturnTypes DEF Locked, Effect, Inside
<1>4. CASE FindFresh(t)
  BY <1>1, <1>4 DEF FindFresh, Syncs, Effect
<1>5. CASE FindChanged(t)
  BY <1>1, <1>5 DEF FindChanged, Syncs, Effect
<1>6. CASE ReadContent(t)
  BY <1>1, <1>6 DEF ReadContent, Syncs, Effect
<1>7. CASE ReadStat(t)
  BY <1>1, <1>7 DEF ReadStat, Syncs, Effect
<1>8. CASE CommitGraph(t)
  BY <1>1, <1>8 DEF CommitGraph, Syncs, Effect
<1>9. CASE Leave(t)
  BY <1>9, ReturnTypes DEF Leave, Effect, Inside
<1>10. CASE FailSync(t)
  BY <1>10, ReturnTypes DEF FailSync, Effect, Inside
<1>11. QED
  BY <1>2, <1>3, <1>4, <1>5, <1>6, <1>7, <1>8, <1>9, <1>10 DEF SyncStep

\* sync_repo's own steps, wherever they run.
LEMMA SyncTypes ==
    ASSUME TypeOK, NEW t \in Threads, SyncStep(t) PROVE TypeOK'
<1>1. ServiceTypeOK'
  <2>1. sync[t] \in Syncs /\ {tree, stat, graph, row, hidden} \subseteq 0..MaxEdits
    BY SyncsType DEF TypeOK, ServiceTypeOK
  <2>2. {tree, stat, graph, row, hidden}' \subseteq 0..MaxEdits
    BY <2>1 DEF SyncStep, Lock, Locked, FindFresh, FindChanged, ReadContent, ReadStat, CommitGraph,
                Leave, FailSync, Syncs
  <2>3. (lock \in Threads \union {Free})'
    BY DEF SyncStep, Lock, Locked, FindFresh, FindChanged, ReadContent, ReadStat, CommitGraph,
           Leave, FailSync, TypeOK, ServiceTypeOK
  <2>4. QED
    BY <2>2, <2>3, SyncAfter DEF ServiceTypeOK, Syncs
<1>2. queue' \in Seq(Kinds)
  BY NoticeTypes DEF SyncStep, TypeOK, WatcherTypeOK
<1>3. WatcherTypeOK'
  BY <1>2 DEF SyncStep, TypeOK, WatcherTypeOK
<1>4. ServerTypeOK'
  BY DEF SyncStep, server, TypeOK, ServerTypeOK
<1>5. QED
  BY <1>1, <1>3, <1>4 DEF TypeOK

LEMMA EditTypes == ASSUME TypeOK, Edit PROVE TypeOK'
<1>1. ServiceTypeOK'
  BY ServiceAssumption DEF Edit, EditFile, TypeOK, ServiceTypeOK
<1>2. queue' \in Seq(Kinds)
  BY NoticeTypes DEF Edit, Heard
<1>3. WatcherTypeOK'
  BY <1>2 DEF Edit, Heard, TypeOK, WatcherTypeOK
<1>4. ServerTypeOK'
  BY DEF Edit, server, TypeOK, ServerTypeOK
<1>5. QED
  BY <1>1, <1>3, <1>4 DEF TypeOK

LEMMA WatcherTypes == ASSUME TypeOK, WatcherStep PROVE TypeOK'
<1>1. ServiceTypeOK'
  <2>1. /\ UNCHANGED <<file, committed, lock>>
        /\ UNCHANGED sync \/ CallSync(Watch) \/ TakeResult(Watch)
    BY DEF WatcherStep, WatchLoop, StartWatch, FirstFailed, Register, ReceiveFirst, Drain, Quiet,
           BurstSynced, service
  <2>2. sync' \in [Threads -> Syncs]
    BY <2>1, SyncsType, CallTypesSync, WatchAssumption
  <2>3. QED
    BY <2>1, <2>2 DEF TypeOK, ServiceTypeOK, Syncs
<1>2. queue' \in Seq(Kinds)
  <2>1. queue' = queue \/ (queue # <<>> /\ queue' = Tail(queue))
    BY DEF WatcherStep, WatchLoop, StartWatch, FirstFailed, Register, ReceiveFirst, Drain, Quiet,
           BurstSynced
  <2>2. QED
    BY <2>1 DEF TypeOK, WatcherTypeOK
<1>3. relevant' \in BOOLEAN /\ missed' \in BOOLEAN
  BY DEF WatcherStep, WatchLoop, StartWatch, FirstFailed, Register, ReceiveFirst, Drain, Quiet,
         BurstSynced, IsRelevantChange, TypeOK, WatcherTypeOK
<1>4. wpc' \in {"start", "first", "wait", "drain", "syncing", "stopped"}
  BY DEF WatcherStep, WatchLoop, StartWatch, FirstFailed, Register, ReceiveFirst, Drain, Quiet,
         BurstSynced, TypeOK, WatcherTypeOK
<1>5. ServerTypeOK'
  BY DEF WatcherStep, server, TypeOK, ServerTypeOK
<1>6. QED
  BY <1>1, <1>2, <1>3, <1>4, <1>5 DEF TypeOK, WatcherTypeOK

Calls == [state : {"unsent", "sent", "taken", "answered"}, refresh : BOOLEAN,
          asked : 0..MaxEdits, note : {"none", "error"}, reads : Seq(0..MaxEdits)]

LEMMA NoCallType == NoCall \in Calls
<1>1. <<>> \in Seq(0..MaxEdits) /\ 0 \in 0..MaxEdits
  BY ServiceAssumption
<1>2. QED
  BY <1>1 DEF Calls, NoCall

\* A call's record keeps its type under each of the server's updates.
LEMMA CallTypes ==
    ASSUME NEW c \in Calls, ServiceTypeOK
    PROVE  /\ NoCall \in Calls
           /\ [c EXCEPT !.state = "taken"] \in Calls
           /\ \A note \in {"none", "error"} : [c EXCEPT !.note = note] \in Calls
           /\ [c EXCEPT !.reads = Append(c.reads, graph)] \in Calls
           /\ [NoCall EXCEPT !.state = "answered"] \in Calls
           /\ \A refresh \in BOOLEAN, n \in 0..MaxEdits :
                 [NoCall EXCEPT !.state = "sent", !.refresh = refresh, !.asked = n] \in Calls
<1>1. NoCall \in Calls
  BY NoCallType
<1>2. [c EXCEPT !.reads = Append(c.reads, graph)] \in Calls
  <2>1. Append(c.reads, graph) \in Seq(0..MaxEdits)
    <3>1. c.reads \in Seq(0..MaxEdits) /\ graph \in 0..MaxEdits
      BY DEF Calls, ServiceTypeOK
    <3>2. QED
      BY <3>1
  <2>2. \A q \in Seq(0..MaxEdits) : [c EXCEPT !.reads = q] \in Calls
    BY DEF Calls
  <2>3. QED
    BY <2>1, <2>2
<1>3. QED
  BY <1>1, <1>2, ServiceAssumption DEF Calls, NoCall

LEMMA ServerTypes == ASSUME TypeOK, ServerStep \/ Client \/ ServerEnds PROVE TypeOK'
<1> USE ServiceAssumption, ServerAssumption
<1>1. /\ spc \in {"reading", "refreshing", "querying", "exited"} /\ stdin \in Seq(Requests)
      /\ call \in [Requests -> Calls] /\ ServiceTypeOK
  BY DEF TypeOK, ServerTypeOK, Calls
<1>2. WatcherTypeOK'
  BY DEF ServerStep, Client, ServerEnds, watcher, TypeOK, WatcherTypeOK
<1>3. CASE TakeRequest
  <2>1. Head(stdin) \in Requests /\ Tail(stdin) \in Seq(Requests)
    BY <1>1, <1>3 DEF TakeRequest
  <2>2. call' \in [Requests -> Calls]
    BY <1>1, <1>3, <2>1, CallTypes DEF TakeRequest
  <2>3. spc' \in {"reading", "refreshing", "querying", "exited"} /\ stdin' \in Seq(Requests)
    BY <1>3, <2>1 DEF TakeRequest
  <2>4. ServiceTypeOK'
    <3>1. Head(stdin) \in Threads
      BY <2>1
    <3>2. UNCHANGED <<file, committed, lock>> /\ (UNCHANGED sync \/ CallSync(Head(stdin)))
      BY <1>3 DEF TakeRequest
    <3>4. sync' \in [Threads -> Syncs]
      BY <3>1, <3>2, SyncsType, CallTypesSync
    <3>5. QED
      BY <1>1, <3>2, <3>4 DEF ServiceTypeOK, Syncs
  <2>5. QED
    BY <1>2, <2>2, <2>3, <2>4 DEF TypeOK, ServerTypeOK, Calls
<1>4. ASSUME NEW r \in Requests,
             Refreshed(r) \/ RefreshTimesOut(r) \/ RunStatement(r) \/ Answer(r)
      PROVE  TypeOK'
  <2>1. call' \in [Requests -> Calls]
    <3>1. CASE Refreshed(r)
      BY <1>1, <3>1, CallTypes DEF Refreshed
    <3>2. CASE RefreshTimesOut(r)
      BY <1>1, <3>2, CallTypes DEF RefreshTimesOut
    <3>3. CASE RunStatement(r)
      BY <1>1, <3>3, CallTypes DEF RunStatement
    <3>4. CASE Answer(r)
      BY <1>1, <3>4, CallTypes DEF Answer
    <3>5. QED
      BY <1>4, <3>1, <3>2, <3>3, <3>4
  <2>2. /\ spc' \in {"reading", "refreshing", "querying", "exited"} /\ stdin' \in Seq(Requests)
        /\ UNCHANGED <<file, committed, lock>>
        /\ UNCHANGED sync \/ TakeResult(r) \/ Abandon(r)
    BY <1>1, <1>4 DEF Refreshed, RefreshTimesOut, RunStatement, Answer, service
  <2>3. ServiceTypeOK'
    <3>1. sync' \in [Threads -> Syncs]
      BY <2>2, SyncsType, CallTypesSync
    <3>2. QED
      BY <1>1, <2>2, <3>1 DEF ServiceTypeOK, Syncs
  <2>4. QED
    BY <1>2, <2>1, <2>2, <2>3 DEF TypeOK, ServerTypeOK, Calls
<1>5. ASSUME NEW r \in Requests, NEW refresh \in BOOLEAN, Send(r, refresh) PROVE TypeOK'
  <2>1. (IF refresh THEN tree ELSE 0) \in 0..MaxEdits
    BY <1>1 DEF ServiceTypeOK
  <2>2. call' \in [Requests -> Calls]
    BY <1>1, <1>5, <2>1, CallTypes DEF Send
  <2>3. stdin' \in Seq(Requests) /\ spc' = spc /\ UNCHANGED service
    BY <1>1, <1>5 DEF Send
  <2>4. ServiceTypeOK'
    BY <1>1, <2>3 DEF service, ServiceTypeOK
  <2>5. QED
    BY <1>1, <1>2, <2>2, <2>3, <2>4 DEF TypeOK, ServerTypeOK, Calls
<1>6. CASE Exit
  <2>1. ServiceTypeOK'
    BY <1>1, <1>6, NoSyncType DEF Exit, KillThreads, ServiceTypeOK, Syncs
  <2>2. call' \in [Requests -> Calls] /\ spc' = "exited" /\ stdin' \in Seq(Requests)
    BY <1>6, NoCallType DEF Exit
  <2>3. QED
    BY <1>2, <2>1, <2>2 DEF TypeOK, ServerTypeOK, Calls
<1>7. QED
  BY <1>3, <1>4, <1>5, <1>6 DEF ServerStep, ServerLoop, Client, ServerEnds

\* The steps preserve the types.
THEOREM TypeCorrect == Spec => []TypeOK
<1>1. TypeOK /\ [Next]_vars => TypeOK'
  <2>1. TypeOK /\ UNCHANGED vars => TypeOK'
    BY DEF vars, service, watcher, server, TypeOK, ServiceTypeOK, WatcherTypeOK, ServerTypeOK
  <2>2. QED
    BY <2>1, SyncTypes, EditTypes, ChurnTypes, WatcherTypes, ServerTypes DEF Next
<1>2. QED
  BY <1>1, InitTypes, PTL DEF Spec

-----------------------------------------------------------------------------
(* The lock and what is read under it.                                     *)

LEMMA ReadingUnderLockInit == Init => LockInv /\ SeenInv
  BY DEF Init, ServiceInit, NoSync, LockInv, SeenInv, Inside

\* sync_repo's steps: only the holder of the lock reads, commits or leaves.
LEMMA SyncKeepsLock ==
    ASSUME TypeOK, LockInv, SeenInv, NEW t \in Threads, SyncStep(t)
    PROVE  LockInv' /\ SeenInv' /\ graph' >= graph /\ hidden' >= hidden
<1> USE DEF LockInv, SeenInv, Inside
<1>1. /\ tree \in Nat /\ stat \in Nat /\ graph \in Nat /\ row \in Nat /\ hidden \in Nat
      /\ sync[t].seen \in Nat
  BY SyncsType, ServiceAssumption DEF TypeOK, ServiceTypeOK, Syncs
<1>2. (\A u \in Threads \ {t} : sync'[u] = sync[u]) /\ Effect(t) /\ Free \notin Threads
  BY SyncAfter, ServiceAssumption
<1>3. CASE sync[t].pc \in Inside
  <2>1. lock = t /\ \A u \in Threads \ {t} : sync[u].pc \notin Inside /\ sync'[u].pc \notin Inside
    BY <1>2, <1>3
  <2>2. LockInv'
    <3>1. sync'[t].pc \in Inside => lock' = t
      BY <1>2, <1>3, <2>1 DEF Effect
    <3>2. QED
      BY <2>1, <3>1
  <2>3. \A u \in Threads \ {t} : sync'[u].pc \notin {"stating", "writing"}
    BY <2>1
  <2>4. CASE ~UNCHANGED <<file, committed>>
    <3>1. /\ sync'[t].pc = "leaving" /\ sync[t].pc = "writing"
          /\ graph' = sync[t].seen /\ tree' = tree /\ stat' = stat
          /\ row' = stat /\ graph' # tree => hidden' = tree
          /\ ~(row' = stat /\ graph' # tree) => hidden' = hidden
      BY <1>2, <2>4 DEF Effect
    <3>2. graph <= sync[t].seen /\ sync[t].seen <= tree
      BY <3>1
    <3>3. QED
      BY <1>1, <2>2, <2>3, <3>1, <3>2
  <2>5. CASE UNCHANGED <<file, committed>>
    <3>1. sync'[t].pc \in {"stating", "writing"} => graph <= sync'[t].seen /\ sync'[t].seen <= tree
      BY <1>1, <1>2, <2>5 DEF Effect
    <3>2. QED
      BY <1>1, <2>2, <2>3, <2>5, <3>1
  <2>6. QED
    BY <2>4, <2>5
<1>4. CASE sync[t].pc \notin Inside
  <2>1. /\ UNCHANGED <<file, committed>>
        /\ sync'[t].pc \notin {"stating", "writing"}
        /\ \/ lock = Free /\ lock' = t
           \/ lock' = lock /\ sync'[t].pc \notin Inside
    BY <1>2, <1>4 DEF Effect
  <2>2. QED
    BY <1>1, <1>2, <2>1
<1>5. QED
  BY <1>3, <1>4

\* The other steps call sync_repo, take its result, end a process or edit; none of them reads or
\* commits.
LEMMA OthersKeepLock ==
    ASSUME TypeOK, LockInv, SeenInv,
           Edit \/ OtherWrites \/ WatcherStep \/ ServerStep \/ Client \/ ServerEnds
              \/ UNCHANGED vars
    PROVE  LockInv' /\ SeenInv' /\ graph' = graph
<1> USE ServiceAssumption, WatchAssumption, ServerAssumption
        DEF LockInv, SeenInv, Inside, service
<1>1. CASE Edit
  <2>1. {tree, stat, graph, row, hidden} \subseteq Nat
    BY DEF TypeOK, ServiceTypeOK
  <2>2. \A t \in Threads : sync[t].seen \in Nat
    BY SyncsType DEF Syncs
  <2>3. tree' = tree + 1 /\ UNCHANGED <<graph, row, lock, sync>>
    BY <1>1 DEF Edit, EditFile
  <2>4. (stat' = row => hidden' = tree') /\ (stat' # row => hidden' = hidden)
    BY <1>1 DEF Edit, EditFile
  <2>5. QED
    BY <2>1, <2>2, <2>3, <2>4
<1>2. CASE UNCHANGED service
  BY <1>2
<1>3. ASSUME NEW t \in Threads, CallSync(t) \/ TakeResult(t) \/ Abandon(t),
             UNCHANGED <<file, committed, lock>>
      PROVE  LockInv' /\ SeenInv' /\ graph' = graph
  BY <1>3, CallTypesSync
<1>4. CASE Exit
  <2>1. /\ UNCHANGED <<file, committed>>
        /\ \A t \in Threads : sync'[t] = NoSync \/ (t \notin Requests /\ sync'[t] = sync[t])
        /\ lock \notin Requests => lock' = lock
    BY <1>4 DEF Exit, KillThreads
  <2>2. NoSync.pc = "none"
    BY DEF NoSync
  <2>3. QED
    BY <2>1, <2>2
<1>5. CASE TakeRequest
  <2>1. stdin \in Seq(Requests) /\ stdin # <<>>
    BY <1>5 DEF TakeRequest, TypeOK, ServerTypeOK
  <2>2. Head(stdin) \in Requests
    BY <2>1
  <2>3. UNCHANGED service \/ (CallSync(Head(stdin)) /\ UNCHANGED <<file, committed, lock>>)
    BY <1>5 DEF TakeRequest
  <2>4. QED
    BY <1>2, <1>3, <2>2, <2>3
<1>6. CASE WatcherStep
  <2>1. /\ UNCHANGED <<file, committed, lock>>
        /\ UNCHANGED sync \/ CallSync(Watch) \/ TakeResult(Watch)
    BY <1>6 DEF WatcherStep, WatchLoop, StartWatch, FirstFailed, Register, ReceiveFirst, Drain,
                Quiet, BurstSynced
  <2>2. QED
    BY <1>2, <1>3, <2>1
<1>7. ASSUME NEW r \in Requests, Refreshed(r) \/ RefreshTimesOut(r) \/ RunStatement(r) \/ Answer(r)
      PROVE  LockInv' /\ SeenInv' /\ graph' = graph
  <2>1. UNCHANGED service \/ ((TakeResult(r) \/ Abandon(r)) /\ UNCHANGED <<file, committed, lock>>)
    BY <1>7 DEF Refreshed, RefreshTimesOut, RunStatement, Answer
  <2>2. QED
    BY <1>2, <1>3, <2>1
<1>8. CASE OtherWrites \/ Client \/ UNCHANGED vars
  BY <1>2, <1>8 DEF vars, OtherWrites, Churn, Client, Send
<1>9. QED
  BY <1>1, <1>4, <1>5, <1>6, <1>7, <1>8 DEF ServerStep, ServerLoop, ServerEnds

LEMMA ReadingUnderLock ==
    TypeOK /\ LockInv /\ SeenInv /\ [Next]_vars => LockInv' /\ SeenInv' /\ graph' >= graph
<1> SUFFICES ASSUME TypeOK, LockInv, SeenInv, [Next]_vars
             PROVE  LockInv' /\ SeenInv' /\ graph' >= graph
  OBVIOUS
<1>1. ASSUME NEW t \in Threads, SyncStep(t) PROVE LockInv' /\ SeenInv' /\ graph' >= graph
  BY <1>1, SyncKeepsLock
<1>2. CASE Edit \/ OtherWrites \/ WatcherStep \/ ServerStep \/ Client \/ ServerEnds
              \/ UNCHANGED vars
  BY <1>2, OthersKeepLock DEF TypeOK, ServiceTypeOK
<1>3. QED
  BY <1>1, <1>2 DEF Next

\* However many threads sync, a graph is never replaced by an older one.
THEOREM GraphNeverGoesBack == Spec => NeverGoesBack
<1>1. Spec => [](LockInv /\ SeenInv)
  BY ReadingUnderLockInit, ReadingUnderLock, TypeCorrect, PTL DEF Spec
<1>2. TypeOK /\ LockInv /\ SeenInv /\ [Next]_vars => [graph' >= graph]_graph
  BY ReadingUnderLock
<1>3. QED
  BY <1>1, <1>2, TypeCorrect, PTL DEF Spec, NeverGoesBack

-----------------------------------------------------------------------------
(* What a client knew when it asked.                                       *)

KnownInv == TakenInv /\ AskedInv

LEMMA AskedType ==
    ASSUME TypeOK, NEW r \in Requests
    PROVE  r \in Threads /\ call[r] \in Calls /\ call[r].asked \in Nat /\ sync[r].seen \in Nat
<1>1. r \in Threads
  BY ServerAssumption
<1>2. call \in [Requests -> Calls]
  BY DEF TypeOK, ServerTypeOK, Calls
<1>3. call[r] \in Calls /\ call[r].asked \in 0..MaxEdits
  BY <1>2 DEF Calls
<1>4. sync[r].seen \in 0..MaxEdits
  BY <1>1, SyncsType DEF Syncs
<1>5. QED
  BY <1>1, <1>3, <1>4, ServiceAssumption

LEMMA KnownInit == Init => KnownInv
<1> SUFFICES ASSUME Init PROVE KnownInv
  OBVIOUS
<1>1. \A r \in Requests : call[r] = NoCall
  BY DEF Init, ServerInit
<1>2. /\ tree = 0
      /\ \A r \in Requests : call[r].asked = 0 /\ call[r].state = "unsent" /\ call[r].reads = <<>>
  BY <1>1 DEF Init, ServiceInit, NoCall
<1>3. QED
  BY <1>2 DEF KnownInv, TakenInv, AskedInv, Current

LEMMA NumberTypes ==
    ASSUME TypeOK PROVE tree \in Nat /\ graph \in Nat /\ hidden \in Nat /\ stat \in Nat /\ row \in Nat
  BY ServiceAssumption DEF TypeOK, ServiceTypeOK

\* A sync reads every edit asked for, or finds the row's stat, which hides one it does not know;
\* and graphs only grow.
LEMMA SyncKeepsKnown ==
    ASSUME TypeOK, LockInv, SeenInv, KnownInv, NEW t \in Threads, SyncStep(t)
    PROVE  KnownInv'
<1> USE ServerAssumption DEF KnownInv, Current
<1>1. TakenInv' /\ UNCHANGED <<tree, spc, call>>
  BY DEF SyncStep, Lock, Locked, FindFresh, FindChanged, ReadContent, ReadStat, CommitGraph, Leave,
         FailSync, server, TakenInv
<1>2. /\ graph' >= graph /\ hidden' >= hidden
      /\ {tree, graph, graph', hidden, hidden'} \subseteq Nat
  BY SyncKeepsLock, SyncTypes, ServiceAssumption DEF TypeOK, ServiceTypeOK
<1>3. ASSUME NEW r \in Requests, NEW n \in Nat, NEW m \in Nat, m >= n, Knows(r, n)
      PROVE  call'[r].asked <= m \/ call'[r].asked <= hidden'
  BY <1>1, <1>2, <1>3, AskedType DEF Knows
<1>4. ASSUME NEW r \in Requests, Current(r), call[r].refresh
      PROVE  /\ sync'[r].pc \in {"stating", "writing"} =>
                   call'[r].asked <= sync'[r].seen \/ call'[r].asked <= hidden'
             /\ sync'[r].pc \in {"leaving", "ok"} =>
                   call'[r].asked <= graph' \/ call'[r].asked <= hidden'
  <2>1. /\ r \in Threads /\ call[r].asked \in Nat /\ sync[r].seen \in Nat
        /\ call[r].asked <= tree /\ call'[r].asked = call[r].asked
        /\ sync[r].pc \in {"stating", "writing"} => Knows(r, sync[r].seen)
        /\ sync[r].pc \in {"leaving", "ok"} => Knows(r, graph)
    BY <1>1, <1>4, AskedType DEF AskedInv
  <2>2. CASE t # r
    <3>1. sync'[r] = sync[r]
      BY <2>1, <2>2, SyncAfter
    <3>2. sync[r].pc \in {"stating", "writing"} =>
             call'[r].asked <= sync[r].seen \/ call'[r].asked <= hidden'
      BY <1>3, <2>1
    <3>3. sync[r].pc \in {"leaving", "ok"} => call'[r].asked <= graph' \/ call'[r].asked <= hidden'
      BY <1>2, <1>3, <2>1
    <3>4. QED
      BY <3>1, <3>2, <3>3
  <2>3. CASE t = r /\ sync[r].pc = "walking"
    <3>1. sync'[r].pc \in {"writing", "reading", "none", "failed"} /\ hidden' = hidden
      BY <2>3, SyncAfter DEF Effect, Inside
    <3>2. sync'[r].pc = "writing" => sync'[r].seen = graph /\ stat = row
      BY <2>3, SyncAfter DEF Effect, Inside
    <3>3. stat = row => graph = tree \/ hidden = tree
      BY DEF SeenInv
    <3>4. QED
      BY <2>1, <3>1, <3>2, <3>3
  <2>4. CASE t = r /\ sync[r].pc = "reading"
    <3>1. sync'[r].pc \in {"stating", "none", "failed"}
      BY <2>4, SyncAfter DEF Effect, Inside
    <3>2. sync'[r].pc = "stating" => sync'[r].seen = tree
      BY <2>4, SyncAfter DEF Effect, Inside
    <3>3. QED
      BY <2>1, <3>1, <3>2
  <2>5. CASE t = r /\ sync[r].pc = "stating"
    <3>1. sync'[r].pc \in {"writing", "none", "failed"}
      BY <2>5, SyncAfter DEF Effect, Inside
    <3>2. sync'[r].pc = "writing" => sync'[r].seen = sync[r].seen
      BY <2>5, SyncAfter DEF Effect, Inside
    <3>3. call'[r].asked <= sync[r].seen \/ call'[r].asked <= hidden'
      BY <1>3, <2>1, <2>5
    <3>4. QED
      BY <3>1, <3>2, <3>3
  <2>6. CASE t = r /\ sync[r].pc = "writing"
    <3>1. sync'[r].pc \in {"leaving", "none", "failed"}
      BY <2>6, SyncAfter DEF Effect, Inside
    <3>2. sync'[r].pc = "leaving" => graph' = sync[r].seen
      BY <2>6, SyncAfter DEF Effect, Inside
    <3>3. call'[r].asked <= sync[r].seen \/ call'[r].asked <= hidden'
      BY <1>3, <2>1, <2>6
    <3>4. QED
      BY <3>1, <3>2, <3>3
  <2>7. CASE t = r /\ sync[r].pc = "leaving"
    <3>1. sync'[r].pc \in {"none", "ok", "failed"}
      BY <2>7, SyncAfter DEF Effect, Inside
    <3>2. call'[r].asked <= graph' \/ call'[r].asked <= hidden'
      BY <1>2, <1>3, <2>1, <2>7
    <3>3. QED
      BY <3>1, <3>2
  <2>8. CASE t = r /\ sync[r].pc \notin Inside
    <3>1. sync'[r].pc \in {"walking", "none", "failed"}
      BY <2>8, SyncAfter DEF Effect, Inside
    <3>2. QED
      BY <3>1
  <2>9. QED
    BY <2>2, <2>3, <2>4, <2>5, <2>6, <2>7, <2>8 DEF Inside
<1>5. ASSUME NEW r \in Requests, Current(r), call[r].refresh, spc = "querying", call[r].note = "none"
      PROVE  /\ call'[r].asked <= graph' \/ call'[r].asked <= hidden'
             /\ \A i \in DOMAIN call'[r].reads :
                   call'[r].asked <= call'[r].reads[i] \/ call'[r].asked <= hidden'
  <2>1. Knows(r, graph) /\ \A i \in DOMAIN call[r].reads : Knows(r, call[r].reads[i])
    BY <1>5 DEF AskedInv
  <2>2. \A i \in DOMAIN call[r].reads : call[r].reads[i] \in Nat
    <3>1. call[r].reads \in Seq(0..MaxEdits)
      BY AskedType DEF Calls
    <3>2. QED
      BY <3>1, ServiceAssumption
  <2>3. QED
    BY <1>1, <1>2, <1>3, <2>1, <2>2
<1>6. AskedInv'
  BY <1>1, <1>4, <1>5 DEF AskedInv, Knows
<1>7. QED
  BY <1>1, <1>6

LEMMA EditKeepsKnown == ASSUME TypeOK, SeenInv, KnownInv, Edit PROVE KnownInv'
<1>1. UNCHANGED <<graph, sync, spc, call>> /\ tree' = tree + 1
  BY DEF Edit, EditFile, server
<1>2. tree \in Nat /\ hidden \in Nat /\ hidden' \in Nat /\ hidden' >= hidden
  <2>1. hidden' = tree + 1 \/ hidden' = hidden
    BY DEF Edit, EditFile
  <2>2. QED
    BY <2>1, NumberTypes DEF SeenInv
<1>3. TakenInv'
  BY <1>1 DEF KnownInv, TakenInv, Current
<1>4. \A r \in Requests : call'[r].asked \in Nat /\ call'[r].asked <= tree'
  BY <1>1, <1>2, AskedType DEF KnownInv, AskedInv
<1>5. \A r \in Requests : call[r].asked <= hidden => call'[r].asked <= hidden'
  BY <1>1, <1>2, AskedType
<1>6. AskedInv'
  BY <1>1, <1>4, <1>5 DEF KnownInv, AskedInv, Knows, Current
<1>7. QED
  BY <1>3, <1>6 DEF KnownInv

\* The watcher calls sync_repo on its own thread only.
LEMMA WatcherKeepsKnown == ASSUME TypeOK, KnownInv, WatcherStep PROVE KnownInv'
<1>1. /\ UNCHANGED <<tree, graph, hidden, spc, call>>
      /\ UNCHANGED sync \/ CallSync(Watch) \/ TakeResult(Watch)
  BY DEF WatcherStep, WatchLoop, StartWatch, FirstFailed, Register, ReceiveFirst, Drain, Quiet,
         BurstSynced, service, server
<1>2. \A r \in Requests : sync'[r] = sync[r]
  BY <1>1, CallTypesSync, SidecarAssumption, WatchAssumption, ServerAssumption
<1>3. QED
  BY <1>1, <1>2 DEF KnownInv, TakenInv, AskedInv, Knows, Current

LEMMA TakeKeepsKnown == ASSUME TypeOK, KnownInv, TakeRequest PROVE KnownInv'
<1> DEFINE r == Head(stdin)
<1>1. stdin \in Seq(Requests) /\ stdin # <<>>
  BY DEF TakeRequest, TypeOK, ServerTypeOK
<1>2. r \in Requests /\ r \in Threads
  BY <1>1, ServerAssumption
<1>3. \A q \in Requests : ~Current(q)
  BY DEF KnownInv, TakenInv, TakeRequest
<1>4. /\ call'[r].state = "taken" /\ call'[r].refresh = call[r].refresh
      /\ call'[r].asked = call[r].asked /\ call'[r].reads = call[r].reads
      /\ \A q \in Requests \ {r} : call'[q] = call[q]
  <2>1. call' = [call EXCEPT ![r] = [call[r] EXCEPT !.state = "taken"]]
    BY DEF TakeRequest, TypeOK, ServerTypeOK
  <2>2. \A c \in Calls : LET d == [c EXCEPT !.state = "taken"]
                        IN  d.state = "taken" /\ d.refresh = c.refresh /\ d.asked = c.asked
                            /\ d.reads = c.reads
    BY DEF Calls
  <2>3. call \in [Requests -> Calls]
    BY DEF TypeOK, ServerTypeOK, Calls
  <2>4. QED
    BY <1>2, <2>1, <2>2, <2>3
<1>5. UNCHANGED <<tree, graph, hidden>>
  BY DEF TakeRequest
<1>6. CASE call[r].refresh
  <2>1. spc' = "refreshing" /\ sync'[r].pc = "called"
    BY <1>2, <1>6, SyncsType DEF TakeRequest, CallSync, NoSync
  <2>2. TakenInv'
    BY <1>2, <1>3, <1>4, <2>1 DEF KnownInv, TakenInv, Current
  <2>3. AskedInv'
    BY <1>2, <1>3, <1>4, <1>5, <2>1 DEF KnownInv, AskedInv, Knows, Current
  <2>4. QED
    BY <2>2, <2>3 DEF KnownInv
<1>7. CASE ~call[r].refresh
  <2>1. spc' = "querying"
    BY <1>7 DEF TakeRequest
  <2>2. TakenInv'
    BY <1>2, <1>3, <1>4, <2>1 DEF KnownInv, TakenInv, Current
  <2>3. AskedInv'
    BY <1>2, <1>3, <1>4, <1>5, <1>7 DEF KnownInv, AskedInv, Knows, Current
  <2>4. QED
    BY <2>2, <2>3 DEF KnownInv
<1>8. QED
  BY <1>6, <1>7

\* An update of one call: what AskedInv and TakenInv need to know of it.
LEMMA NoteAfter ==
    ASSUME NEW c \in Calls, NEW n \in {"none", "error"}
    PROVE  LET d == [c EXCEPT !.note = n]
           IN  /\ d.state = c.state /\ d.refresh = c.refresh /\ d.asked = c.asked
               /\ d.reads = c.reads /\ d.note = n
  BY DEF Calls

LEMMA ReadAfter ==
    ASSUME NEW c \in Calls, NEW g
    PROVE  LET d == [c EXCEPT !.reads = Append(c.reads, g)]
           IN  /\ d.state = c.state /\ d.refresh = c.refresh /\ d.asked = c.asked
               /\ d.reads = Append(c.reads, g) /\ d.note = c.note
  BY DEF Calls

LEMMA SentAfter ==
    ASSUME NEW refresh \in BOOLEAN, NEW m \in Nat
    PROVE  LET d == [NoCall EXCEPT !.state = "sent", !.refresh = refresh, !.asked = m]
           IN  d.state = "sent" /\ d.asked = m /\ d.reads = <<>>
  BY DEF NoCall

LEMMA CallsType == ASSUME TypeOK PROVE call \in [Requests -> Calls]
  BY DEF TypeOK, ServerTypeOK, Calls

\* The end of the wait: a sync that has returned "ok" knows what was asked.
LEMMA WaitKeepsKnown ==
    ASSUME TypeOK, KnownInv, NEW r \in Requests, Refreshed(r) \/ RefreshTimesOut(r)
    PROVE  KnownInv'
<1>1. call \in [Requests -> Calls] /\ call[r] \in Calls /\ Current(r)
  BY CallsType DEF Refreshed, RefreshTimesOut
<1>2. PICK m \in {"none", "error"} :
         /\ call' = [call EXCEPT ![r] = [call[r] EXCEPT !.note = m]]
         /\ m = "none" => sync[r].pc = "ok"
  <2>1. CASE Refreshed(r)
    BY <1>1, <2>1 DEF Refreshed
  <2>2. CASE RefreshTimesOut(r)
    BY <1>1, <2>2 DEF RefreshTimesOut
  <2>3. QED
    BY <2>1, <2>2
<1>3. /\ call'[r].state = call[r].state /\ call'[r].refresh = call[r].refresh
      /\ call'[r].asked = call[r].asked /\ call'[r].reads = call[r].reads /\ call'[r].note = m
  BY <1>1, <1>2, NoteAfter
<1>4. \A q \in Requests \ {r} : call'[q] = call[q]
  BY <1>1, <1>2
<1>5. /\ UNCHANGED <<tree, graph, hidden>> /\ spc = "refreshing" /\ spc' = "querying"
      /\ TakeResult(r) \/ Abandon(r)
  BY DEF Refreshed, RefreshTimesOut
<1>6. call[r].reads = <<>> /\ \A q \in Requests \ {r} : ~Current(q)
  BY <1>1, <1>5 DEF KnownInv, TakenInv
<1>7. TakenInv'
  BY <1>3, <1>4, <1>5, <1>6 DEF KnownInv, TakenInv, Current
<1>8. call[r].refresh /\ m = "none" => Knows(r, graph)
  BY <1>1, <1>2 DEF KnownInv, AskedInv
<1>9. AskedInv'
  <2>1. ASSUME NEW q \in Requests \ {r}
        PROVE  call'[q].asked <= tree' /\ ~(call'[q].state = "taken")
    BY <1>4, <1>5, <1>6, <2>1 DEF KnownInv, AskedInv, Knows, Current
  <2>2. call'[r].asked <= tree'
    BY <1>3, <1>5 DEF KnownInv, AskedInv
  <2>3. ASSUME call'[r].refresh
        PROVE  /\ sync'[r].pc \in {"stating", "writing"} =>
                     call'[r].asked <= sync'[r].seen \/ call'[r].asked <= hidden'
               /\ sync'[r].pc \in {"leaving", "ok"} =>
                     call'[r].asked <= graph' \/ call'[r].asked <= hidden'
    <3>1. \/ sync'[r].pc \in {"called", "none"}
          \/ sync'[r].pc = sync[r].pc /\ sync'[r].seen = sync[r].seen
      BY <1>5, CallTypesSync, ServerAssumption
    <3>2. /\ sync[r].pc \in {"stating", "writing"} => Knows(r, sync[r].seen)
          /\ sync[r].pc \in {"leaving", "ok"} => Knows(r, graph)
      BY <1>1, <1>3, <2>3 DEF KnownInv, AskedInv
    <3>3. QED
      BY <1>3, <1>5, <3>1, <3>2 DEF Knows
  <2>4. ASSUME call'[r].refresh, call'[r].note = "none"
        PROVE  /\ call'[r].asked <= graph' \/ call'[r].asked <= hidden'
               /\ DOMAIN call'[r].reads = {}
    BY <1>3, <1>5, <1>6, <1>8, <2>4 DEF Knows
  <2>5. QED
    BY <2>1, <2>2, <2>3, <2>4 DEF AskedInv, Knows, Current
<1>10. QED
  BY <1>7, <1>9 DEF KnownInv

\* One more statement sees a graph that knows what was asked.
LEMMA StatementKeepsKnown ==
    ASSUME TypeOK, KnownInv, NEW r \in Requests, RunStatement(r) PROVE KnownInv'
<1>1. call \in [Requests -> Calls] /\ Current(r) /\ call[r] \in Calls
  BY CallsType DEF RunStatement
<1>2. call' = [call EXCEPT ![r] = [call[r] EXCEPT !.reads = Append(call[r].reads, graph)]]
  BY <1>1 DEF RunStatement
<1>3. /\ call'[r].state = call[r].state /\ call'[r].refresh = call[r].refresh
      /\ call'[r].asked = call[r].asked /\ call'[r].note = call[r].note
      /\ call'[r].reads = Append(call[r].reads, graph)
  BY <1>1, <1>2, ReadAfter
<1>4. \A q \in Requests \ {r} : call'[q] = call[q]
  BY <1>1, <1>2
<1>5. UNCHANGED <<tree, graph, hidden, sync, spc>> /\ spc = "querying"
  BY DEF RunStatement, service
<1>6. \A q \in Requests \ {r} : ~Current(q)
  BY <1>1 DEF KnownInv, TakenInv
<1>7. TakenInv'
  BY <1>1, <1>3, <1>4, <1>5, <1>6 DEF KnownInv, TakenInv, Current
<1>8. ASSUME call[r].refresh, call[r].note = "none"
      PROVE  \A i \in DOMAIN call'[r].reads : Knows(r, call'[r].reads[i])
  <2>1. call[r].reads \in Seq(0..MaxEdits)
    BY <1>1 DEF Calls
  <2>2. Knows(r, graph) /\ \A i \in DOMAIN call[r].reads : Knows(r, call[r].reads[i])
    BY <1>1, <1>5, <1>8 DEF KnownInv, AskedInv
  <2>3. ASSUME NEW q \in Seq(0..MaxEdits), NEW i \in DOMAIN Append(q, graph)
        PROVE  Append(q, graph)[i] = graph \/ (i \in DOMAIN q /\ Append(q, graph)[i] = q[i])
    OBVIOUS
  <2>4. QED
    BY <1>3, <2>1, <2>2, <2>3
<1>9. AskedInv'
  BY <1>1, <1>3, <1>4, <1>5, <1>6, <1>8 DEF KnownInv, AskedInv, Knows, Current
<1>10. QED
  BY <1>7, <1>9 DEF KnownInv

LEMMA AnswerKeepsKnown ==
    ASSUME TypeOK, KnownInv, NEW r \in Requests, Answer(r) PROVE KnownInv'
<1>1. call \in [Requests -> Calls] /\ Current(r) /\ tree \in Nat
  BY CallsType, NumberTypes DEF Answer
<1>2. call'[r].state = "answered" /\ call'[r].asked = 0 /\ call'[r].reads = <<>>
  <2>1. call' = [call EXCEPT ![r] = [NoCall EXCEPT !.state = "answered"]]
    BY DEF Answer
  <2>2. QED
    BY <1>1, <2>1 DEF NoCall
<1>3. \A q \in Requests \ {r} : call'[q] = call[q] /\ ~Current(q)
  BY <1>1 DEF Answer, KnownInv, TakenInv
<1>4. UNCHANGED <<tree, graph, hidden, sync>>
  BY DEF Answer, service
<1>5. TakenInv'
  BY <1>2, <1>3 DEF KnownInv, TakenInv, Current
<1>6. AskedInv'
  BY <1>1, <1>2, <1>3, <1>4 DEF KnownInv, AskedInv, Knows, Current
<1>7. QED
  BY <1>5, <1>6 DEF KnownInv

LEMMA SendKeepsKnown ==
    ASSUME TypeOK, KnownInv, NEW r \in Requests, NEW refresh \in BOOLEAN, Send(r, refresh)
    PROVE  KnownInv'
<1>1. call \in [Requests -> Calls] /\ ~Current(r) /\ tree \in Nat
  BY CallsType, NumberTypes DEF Send, Current
<1>2. PICK m \in Nat :
         /\ m <= tree
         /\ call' = [call EXCEPT ![r] = [NoCall EXCEPT !.state = "sent", !.refresh = refresh,
                                                       !.asked = m]]
  <2> DEFINE m == IF refresh THEN tree ELSE 0
  <2>1. m \in Nat /\ m <= tree
    BY <1>1
  <2>2. call' = [call EXCEPT ![r] = [NoCall EXCEPT !.state = "sent", !.refresh = refresh,
                                                   !.asked = m]]
    BY DEF Send
  <2> HIDE DEF m
  <2>3. QED
    BY <2>1, <2>2
<1>3. call'[r].state = "sent" /\ call'[r].asked = m /\ call'[r].reads = <<>>
  BY <1>1, <1>2, SentAfter
<1>4. \A q \in Requests \ {r} : call'[q] = call[q]
  BY <1>1, <1>2
<1>5. UNCHANGED <<tree, graph, hidden, sync, spc>>
  BY DEF Send, service
<1>6. TakenInv'
  BY <1>3, <1>4, <1>5 DEF KnownInv, TakenInv, Current
<1>7. AskedInv'
  BY <1>2, <1>3, <1>4, <1>5 DEF KnownInv, AskedInv, Knows, Current
<1>8. QED
  BY <1>6, <1>7 DEF KnownInv

LEMMA ExitKeepsKnown == ASSUME TypeOK, KnownInv, Exit PROVE KnownInv'
<1>1. tree' = tree /\ tree \in Nat
  BY ServiceAssumption DEF Exit, KillThreads, TypeOK, ServiceTypeOK
<1>2. \A r \in Requests :
         call'[r].state = "unsent" /\ call'[r].asked = 0 /\ call'[r].reads = <<>>
  BY DEF Exit, NoCall
<1>3. QED
  BY <1>1, <1>2 DEF KnownInv, TakenInv, AskedInv, Current

LEMMA StepKeepsKnown ==
    TypeOK /\ LockInv /\ SeenInv /\ KnownInv /\ [Next]_vars => KnownInv'
<1> SUFFICES ASSUME TypeOK, LockInv, SeenInv, KnownInv, [Next]_vars PROVE KnownInv'
  OBVIOUS
<1>1. CASE UNCHANGED vars \/ OtherWrites
  BY <1>1 DEF vars, OtherWrites, Churn, service, server, KnownInv, TakenInv, AskedInv, Knows, Current
<1>2. CASE ServerStep
  BY <1>2, TakeKeepsKnown, WaitKeepsKnown, StatementKeepsKnown, AnswerKeepsKnown
  DEF ServerStep, ServerLoop
<1>3. CASE Client \/ ServerEnds
  BY <1>3, SendKeepsKnown, ExitKeepsKnown DEF Client, ServerEnds
<1>4. QED
  BY <1>1, <1>2, <1>3, SyncKeepsKnown, EditKeepsKnown, WatcherKeepsKnown DEF Next

\* Whatever the watcher, the editor and other requests do, an answer without a note
\* knows what its client knew when it asked, unless the stat of a row hid that edit or a
\* later one.
THEOREM AnswersAreFresh == Spec => []UnnotedAnswersAreFresh
<1>1. TypeOK /\ KnownInv => UnnotedAnswersAreFresh
  <2> SUFFICES ASSUME TypeOK, KnownInv, NEW r \in Requests,
                      spc = "querying", Current(r), call[r].refresh, call[r].note = "none",
                      NEW i \in DOMAIN call[r].reads
               PROVE  call[r].reads[i] >= call[r].asked \/ hidden >= call[r].asked
    BY DEF UnnotedAnswersAreFresh
  <2>1. call[r].asked <= call[r].reads[i] \/ call[r].asked <= hidden
    BY DEF KnownInv, AskedInv, Knows
  <2>2. QED
    BY <2>1
<1>2. Spec => []KnownInv
  <2>1. Spec => [](LockInv /\ SeenInv)
    BY ReadingUnderLockInit, ReadingUnderLock, TypeCorrect, PTL DEF Spec
  <2>2. QED
    BY <2>1, KnownInit, StepKeepsKnown, TypeCorrect, PTL DEF Spec
<1>3. QED
  BY <1>1, <1>2, TypeCorrect, PTL
=============================================================================
