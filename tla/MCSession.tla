----------------------------- MODULE MCSession -----------------------------
(* Small instances of Session.  A unit of time is 30 s in Session.cfg: one *)
(* period, "more than 60 s" is more than 2, "more than 15 s" more than 0.  *)
(* In the two runs that fail it is 15 s: 2 units, 4 and 1.                 *)
EXTENDS Session

(* The second restart of n2 brings a version the server refuses. *)
SecondRestart == {<<"n2", 2>>}

(* The hypotheses under which a session lasts. *)
ASSUME LastingHypotheses == Period <= DeadAge /\ IDsSuffice
=============================================================================
