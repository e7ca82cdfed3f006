-------------------------- MODULE MCInjectedAudio --------------------------
(* Small instances of InjectedAudio: one HTTP handler, one broadcast and   *)
(* one interface destination, files of at most two frames.                 *)
EXTENDS InjectedAudio

Event(id, type, out) ==
  [id |-> id, type |-> type, enabled |-> TRUE, interval |-> 1, at |-> 0,
   sourceType |-> "all", sourcePeer |-> 0, out |-> out]

ToAll       == [type |-> "all", peer |-> 0]
ToBroadcast == [type |-> "broadcast", peer |-> 0]
ToPeer2     == [type |-> "interface", peer |-> 2]

(* A roger beep for RF listeners only, and one for interface nodes. *)
ListenBeep == [Event("beep", "roger_beep", ToBroadcast)
                 EXCEPT !.sourceType = "listen"]
PreBeep == [Event("pre", "pre_roger_beep", ToPeer2) EXCEPT !.sourcePeer = 2]

BeepEvents == {ListenBeep, PreBeep}
ScheduledEvents == {Event("ann", "announcement", ToAll),
                    Event("rid", "repeater_id", ToBroadcast)}

MCSources == {[type |-> "listen", peer |-> 3], [type |-> "interface", peer |-> 2]}
Listener == {[type |-> "listen", peer |-> 3]}
MCDestinations == {[type |-> "broadcast", peer |-> 1],
                   [type |-> "interface", peer |-> 2]}
=============================================================================
