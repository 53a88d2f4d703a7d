------------------------------ MODULE MCSidecar ------------------------------
(* A watcher and two requests of an MCP server. *)
EXTENDS Sidecar

MCRequests == 1..2
MCThreads == MCRequests \union {Watch}
=============================================================================
