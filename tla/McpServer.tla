------------------------------ MODULE McpServer ------------------------------
(***************************************************************************)
(* The MCP server (mcp.rs): one request after another from stdin.  A       *)
(* request with `refresh: true` spawns a thread that syncs and waits for   *)
(* it for ten seconds; the query then runs in any case, on a read-only     *)
(* connection, one statement at a time, and a refresh that failed or timed *)
(* out only adds a note to the answer.  A timed-out thread goes on.        *)
(***************************************************************************)
EXTENDS SyncService, Sequences, FiniteSets

CONSTANTS
    Requests,       \* tools/call requests in the order they are sent; each has its refresh thread
    Statements      \* how many statements a query runs

ASSUME ServerAssumption == Requests \subseteq Threads \intersect Nat /\ Statements \in Nat \ {0}

VARIABLES
    spc,        \* where the server stands
    stdin,      \* the requests it has not read yet
    call        \* for each request: what was asked, and what has become of it

server == <<spc, stdin, call>>

NoCall == [state |-> "unsent", refresh |-> FALSE, asked |-> 0, note |-> "none", reads |-> <<>>]

ServerInit ==
    /\ spc = "reading" /\ stdin = <<>>
    /\ call = [r \in Requests |-> NoCall]

Current(r) == call[r].state = "taken"

\* The client asks; `asked` is the edit it knows of, for a refresh.
Send(r, refresh) ==
    /\ spc # "exited" /\ call[r].state = "unsent"
    /\ \A q \in Requests : q < r => call[q].state # "unsent"
    /\ call' = [call EXCEPT ![r] = [NoCall EXCEPT !.state = "sent", !.refresh = refresh,
                                                  !.asked = IF refresh THEN tree ELSE 0]]
    /\ stdin' = Append(stdin, r)
    /\ UNCHANGED <<service, spc>>

\* call_tool, first half: refresh_db spawns a thread that syncs.
TakeRequest ==
    /\ spc = "reading" /\ stdin # <<>>
    /\ LET r == Head(stdin)
       IN  /\ call' = [call EXCEPT ![r].state = "taken"]
           /\ IF call[r].refresh
              THEN spc' = "refreshing" /\ CallSync(r)
              ELSE spc' = "querying" /\ UNCHANGED sync
    /\ stdin' = Tail(stdin)
    /\ UNCHANGED <<file, committed, lock>>

\* recv_timeout has a result in time.
Refreshed(r) ==
    /\ spc = "refreshing" /\ Current(r) /\ Returned(r)
    /\ call' = [call EXCEPT ![r].note = IF sync[r].pc = "ok" THEN "none" ELSE "error"]
    /\ TakeResult(r)
    /\ spc' = "querying"
    /\ UNCHANGED <<file, committed, lock, stdin>>

WaitForever(r) == FALSE /\ UNCHANGED <<service, server>>

TimeoutUnnoted(r) ==
    /\ spc = "refreshing" /\ Current(r) /\ ~Returned(r)
    /\ Abandon(r)
    /\ spc' = "querying"
    /\ UNCHANGED <<file, committed, lock, stdin, call>>

\* Ten seconds pass; the thread is not stopped, but its result will meet no receiver.
RefreshTimesOut(r) ==
    /\ spc = "refreshing" /\ Current(r) /\ ~Returned(r)
    /\ call' = [call EXCEPT ![r].note = "error"]
    /\ Abandon(r)
    /\ spc' = "querying"
    /\ UNCHANGED <<file, committed, lock, stdin>>

\* One statement of the query sees what is committed by then.
RunStatement(r) ==
    /\ spc = "querying" /\ Current(r) /\ Len(call[r].reads) < Statements
    /\ call' = [call EXCEPT ![r].reads = Append(@, graph)]
    /\ UNCHANGED <<service, spc, stdin>>

Answer(r) ==
    /\ spc = "querying" /\ Current(r) /\ Len(call[r].reads) = Statements
    /\ call' = [call EXCEPT ![r] = [NoCall EXCEPT !.state = "answered"]]
    /\ spc' = "reading"
    /\ UNCHANGED <<service, stdin>>

\* stdin closes or the process is killed: its refresh threads die with it.
Exit ==
    /\ spc # "exited"
    /\ spc' = "exited"
    /\ KillThreads(Requests)
    /\ stdin' = <<>>
    /\ call' = [r \in Requests |-> NoCall]

ServerLoop ==
    \/ TakeRequest
    \/ \E r \in Requests :
          Refreshed(r) \/ RefreshTimesOut(r) \/ RunStatement(r) \/ Answer(r)

ServerTypeOK ==
    /\ spc \in {"reading", "refreshing", "querying", "exited"}
    /\ stdin \in Seq(Requests)
    /\ call \in [Requests ->
          [state : {"unsent", "sent", "taken", "answered"}, refresh : BOOLEAN,
           asked : 0..MaxEdits, note : {"none", "error"}, reads : Seq(0..MaxEdits)]]

\* A refreshed answer without a note knows every edit made before the request was sent,
\* in each of its statements, whoever else syncs meanwhile; unless that edit, or a later
\* one, was ever hidden by the stat of a row.
UnnotedAnswersAreFresh ==
    \A r \in Requests :
        spc = "querying" /\ Current(r) /\ call[r].refresh /\ call[r].note = "none" =>
            \A i \in DOMAIN call[r].reads :
                call[r].reads[i] >= call[r].asked \/ hidden >= call[r].asked

\* Every request is answered while the server lives, also when a sync hangs for ever: none
\* stays in stdin or in the server's hand for good.
EveryRequestIsAnswered ==
    \A r \in Requests : []<>(call[r].state \in {"unsent", "answered"} \/ spc = "exited")
=============================================================================
