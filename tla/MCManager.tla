----------------------------- MODULE MCManager -----------------------------
(* Small instances of Manager. *)
EXTENDS Manager

SaveOnly == {{"save"}}
(* Everything; all that leaves no process behind; what updates survive.    *)
Graded == {FaultKinds, FaultKinds \ {"unkillable", "crash"},
           {"network", "rename", "deaf", "crash", "power"}}
=============================================================================
