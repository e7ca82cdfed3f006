--------------------------- MODULE MCReassembler ---------------------------
(* Small instances of Reassembler. *)
EXTENDS Reassembler
=============================================================================
