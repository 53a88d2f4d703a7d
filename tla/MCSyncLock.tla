----------------------------- MODULE MCSyncLock -----------------------------
(* Three workers of which two are threads of one process (the MCP server). *)
EXTENDS SyncLock

CONSTANTS w1, w2, w3, server, cli

MCWorkers == {w1, w2, w3}
MCPids == {server, cli}
MCPidOf == [w \in MCWorkers |-> IF w = w3 THEN cli ELSE server]
=============================================================================
