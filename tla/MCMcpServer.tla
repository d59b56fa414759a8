----------------------------- MODULE MCMcpServer -----------------------------
(***************************************************************************)
(* One server and one process, a command of the CLI or another server,     *)
(* that asks for the same packet.                                          *)
(***************************************************************************)
EXTENDS McpServer, TLC

CONSTANTS server, cli, direction

MCBuilds == (server :> 2) @@ (cli :> 1)

MCRequests ==
  {BriefRequest("s"), [slug |-> "s", expected |-> 1, form |-> "no_write"]}

\* Each line kind once, between two briefs or after an oversize line.
MCScripts ==
  {<<"brief", "oversize", "brief">>,
   <<"garbage", "notification", "ping">>,
   <<"blank", "unknown_method", "bad_params">>,
   <<"unknown_tool", "bad_arguments", "scan">>}
=============================================================================
