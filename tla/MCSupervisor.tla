---------------------------- MODULE MCSupervisor ----------------------------
(* One hull: hulls meet only in the pids, and strangers take those too.      *)
EXTENDS Supervisor
CONSTANT hull
MCHulls == {hull}
MCPids == 1..3
=============================================================================
