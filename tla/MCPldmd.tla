------------------------------ MODULE MCPldmd ------------------------------
(* pldmd for TLC. *)
EXTENDS Pldmd

CONSTANTS c1, c2, c3
Connections == {c1, c2, c3}
\* Two that may want to update, and more connections than instance ids.
Sockets == {<<c1, "normal">>, <<c2, "update">>, <<c3, "update">>}
=============================================================================
