---------------------------- MODULE MCMcpSession -----------------------------
(* McpSession for TLC.                                                     *)
EXTENDS McpSession, TLC

BothTransports == {"stdio", "http"}

=============================================================================
