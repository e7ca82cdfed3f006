---------------------------- MODULE MCPttOutput ----------------------------
(* Small instances of PttOutput, a unit of time being the hang time. *)
EXTENDS PttOutput
=============================================================================
