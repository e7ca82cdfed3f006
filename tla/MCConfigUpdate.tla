--------------------------- MODULE MCConfigUpdate ---------------------------
(* A small instance of ConfigUpdate: two requests, two of three pins.  The *)
(* pins are alike, so that one of them need be edited in one way only: to  *)
(* the pin both may want.  The other is set to that, to the pin of the     *)
(* first, which is refused unless the first has left it, or to what it is. *)
EXTENDS ConfigUpdate

Pins == {"Squelch_Pin", "Ptt_Pin"}
DefaultPins == [k \in Pins |-> IF k = "Ptt_Pin" THEN 1 ELSE 2]
PinEdits == {<<"Squelch_Pin", 3>>} \cup {"Ptt_Pin"} \X {1, 2, 3}
=============================================================================
