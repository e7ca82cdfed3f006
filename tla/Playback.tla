------------------------------ MODULE Playback ------------------------------
(***************************************************************************)
(* What the injection path promises, without goroutines, locks or a        *)
(* channel: one audio event at a time owns the air; its frames reach the   *)
(* router in the order they were written, none lost; and the event leaves  *)
(* the air only when every frame it wrote has been taken.                  *)
(***************************************************************************)
EXTENDS Naturals

CONSTANTS AllEvents, NoEvent

VARIABLES onAir, written, aired

vars == <<onAir, written, aired>>

Init == onAir = NoEvent /\ written = 0 /\ aired = 0

Start(e) ==
  /\ onAir = NoEvent
  /\ onAir' = e
  /\ UNCHANGED <<written, aired>>

Write ==
  /\ onAir # NoEvent
  /\ written' = written + 1
  /\ UNCHANGED <<onAir, aired>>

Air ==
  /\ aired < written
  /\ aired' = aired + 1
  /\ UNCHANGED <<onAir, written>>

Stop ==
  /\ onAir # NoEvent /\ aired = written
  /\ onAir' = NoEvent /\ written' = 0 /\ aired' = 0

Next == (\E e \in AllEvents : Start(e)) \/ Write \/ Air \/ Stop

Spec == Init /\ [][Next]_vars
=============================================================================
