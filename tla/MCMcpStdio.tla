----------------------------- MODULE MCMcpStdio -----------------------------
(* Small instance of McpStdio: two callers and a pipe they can fill.       *)
EXTENDS McpStdio
=============================================================================
