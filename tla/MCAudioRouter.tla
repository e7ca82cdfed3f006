--------------------------- MODULE MCAudioRouter ---------------------------
(* Small instances of AudioRouter.  A unit of RSSI is 0.5 dB.  A unit of   *)
(* time is the 5 s window: two starts are within it when they fall into    *)
(* the same unit, so StartWindow is 0.                                     *)
EXTENDS AudioRouter

Listener    == [type |-> "listen", toBroadcast |-> TRUE, toInterface |-> TRUE]
Interface   == [type |-> "interface", toBroadcast |-> TRUE, toInterface |-> FALSE]
Broadcaster == [type |-> "broadcast", toBroadcast |-> TRUE, toInterface |-> FALSE]

AllNodes == {Listener, Interface, Broadcaster}
TwoIDs == 1..2
=============================================================================
