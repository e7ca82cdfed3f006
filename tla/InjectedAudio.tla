--------------------------- MODULE InjectedAudio ---------------------------
(***************************************************************************)
(* The audio event manager of the server and the injection path of its     *)
(* mixed audio router (cmd/server/audio_events.go, audio_router.go).       *)
(*                                                                         *)
(* Three kinds of goroutine start a playback: the router's 20 ms tick (the *)
(* beeps around an over), the one-second scheduler (announcements and      *)
(* repeater IDs) and the HTTP handlers ("play now").  Each playback then   *)
(* runs in a goroutine of its own, which fills a bounded channel that only *)
(* the router's tick drains.  The manager's fields are guarded by one      *)
(* mutex and the router's by another; one action below is one critical     *)
(* section, channel operation or goroutine start.                          *)
(***************************************************************************)
EXTENDS Integers, Sequences, FiniteSets

CONSTANTS
  Router,        \* the goroutine of the router's 20 ms ticker
  Scheduler,     \* the goroutine of the one-second scheduler
  Handlers,      \* the HTTP handler goroutines
  AllEvents,     \* the audio event records an administrator may save
  NoEvent,       \* what a nil event pointer is
  Sources,       \* live sources routed to broadcast: [type, peer]
  Destinations,  \* broadcast and interface peers: [type, peer]
  QueueCap,      \* maxQueuedInjectedAudioFrames
  MaxFrames,     \* bound on the frames one file decodes to
  MaxMinute,     \* bound on the clock, in minutes
  MinutesPerDay  \* 1440 in the real clock

Threads == {Router, Scheduler} \cup Handlers

Types == {"repeater_id", "announcement", "roger_beep", "pre_roger_beep"}

(* An event after normalize: it names media, a source filter and a target. *)
EventShape(e) ==
  /\ e.type \in Types
  /\ e.enabled \in BOOLEAN
  /\ e.interval \in Nat /\ e.at \in Nat

ASSUME ThreadsDistinct ==
  Router # Scheduler /\ Router \notin Handlers /\ Scheduler \notin Handlers
ASSUME EventsAssumption ==
  NoEvent \notin AllEvents /\ \A e \in AllEvents : EventShape(e)
ASSUME BoundsAssumption ==
  /\ QueueCap \in Nat \ {0}      /\ MaxFrames \in Nat
  /\ MinutesPerDay \in Nat \ {0} /\ MaxMinute \in Nat

VARIABLES
  events,                \* manager.events
  playing,               \* manager.playing
  normalBroadcastActive, \* manager.normalBroadcastActive
  lastSource,            \* manager.lastSource (valid once hasLastSource)
  idleFor,               \* minutes since manager.lastBroadcastActivity
  lastAnnouncement,      \* manager.lastAnnouncement: event ID -> minute
  injectedFrames,        \* router.injectedFrames, the channel's contents
  injectedActive,        \* router.injectedActive
  injectedTarget,        \* router.injectedNodeType and injectedPeerID
  pc,                    \* where each goroutine is
  chosen,                \* the event copy a goroutine is starting
  minuteKey,             \* the scheduler's minute, taken with its event
  player,                \* the playback goroutine each thread spawned last
  playerEvent,           \* the event of that playback goroutine
  written,               \* frames that goroutine has put in the channel
  closed,                \* whether its done channel is closed
  hand,                  \* what the router took from the channel this tick
  bcast,                 \* hasBroadcastDestination of this tick
  unsent,                \* destinations this tick has still to serve
  injectedTo,            \* destinations that got the injected frame
  minute,                \* wall clock
  announced              \* history: <<event ID, minute>> the scheduler started

manager  == <<events, playing, normalBroadcastActive, lastSource, idleFor,
              lastAnnouncement>>
injected == <<injectedActive, injectedTarget>>
players  == <<player, playerEvent, written, closed>>
tick     == <<hand, bcast, unsent, injectedTo>>
vars == <<manager, injectedFrames, injected, pc, chosen, minuteKey, players,
          tick, minute, announced>>

Starting == {"target", "begin", "spawn"}
Streaming == {"stream", "finish", "wait", "clear"}

NoTarget == [type |-> "", peer |-> 0]
NoFrame  == [kind |-> "none", by |-> Router, n |-> 0]
Silence  == [kind |-> "silence", by |-> Router, n |-> 0]
Audio(t, n) == [kind |-> "audio", by |-> t, n |-> n]
Done(t)  == [kind |-> "done", by |-> t, n |-> 0]

InjectsTo(target, d) ==
  /\ target.type \in {"", "all", d.type}
  /\ target.peer \in {0, d.peer}

MatchesSource(e, source) ==
  /\ e.sourcePeer \in {0, source.peer}
  /\ e.sourceType \in {"all", source.type}

Matching(type, source) ==
  {e \in events : e.enabled /\ e.type = type /\ MatchesSource(e, source)}

Goto(t, label) == pc' = [pc EXCEPT ![t] = label]
Choose(t, e)   == chosen' = [chosen EXCEPT ![t] = e]

Init ==
  /\ events \in {S \in SUBSET AllEvents :
                   \A e, f \in S : e.id = f.id => e = f}
  /\ playing = FALSE /\ normalBroadcastActive = FALSE
  /\ lastSource \in Sources /\ idleFor = 0
  /\ lastAnnouncement = [id \in {e.id : e \in AllEvents} |-> -1]
  /\ injectedFrames = <<>> /\ injectedActive = FALSE
  /\ injectedTarget = NoTarget
  /\ pc = [t \in Threads |-> "idle"]
  /\ chosen = [t \in Threads |-> NoEvent]
  /\ minuteKey = 0
  /\ player = [t \in Threads |-> "none"]
  /\ playerEvent = [t \in Threads |-> NoEvent]
  /\ written = [t \in Threads |-> 0]
  /\ closed = [t \in Threads |-> FALSE]
  /\ hand = NoFrame /\ bcast = FALSE
  /\ unsent = {} /\ injectedTo = {}
  /\ minute = 0 /\ announced = {}

-----------------------------------------------------------------------------
(* startPlayback, shared by the three starters: one mutex section takes    *)
(* the playing flag, then the target and the active flag are set in two    *)
(* sections of the router's mutex, then the goroutine is started.          *)

(* Where a thread goes once startPlayback has returned ok. *)
Resume(t, ok) ==
  CASE t = Router -> "take"
    [] t = Scheduler /\ ok /\ chosen[t].type = "announcement" -> "stamp"
    [] OTHER -> "idle"

(* Mutant: the playing flag is set without being looked at. *)
ClaimPlaybackUnchecked(t) ==
  /\ pc[t] = "start"
  /\ playing' = TRUE /\ idleFor' = 0
  /\ Goto(t, "target")
  /\ UNCHANGED <<events, normalBroadcastActive, lastSource, lastAnnouncement,
                 injectedFrames, injected, chosen, minuteKey, players, tick,
                 minute, announced>>

ClaimPlayback(t) ==
  /\ pc[t] = "start" /\ ~playing
  /\ playing' = TRUE /\ idleFor' = 0
  /\ Goto(t, "target")
  /\ announced' = IF t = Scheduler /\ chosen[t].type = "announcement"
                  THEN announced \cup {<<chosen[t].id, minuteKey>>}
                  ELSE announced
  /\ UNCHANGED <<events, normalBroadcastActive, lastSource, lastAnnouncement,
                 injectedFrames, injected, chosen, minuteKey, players, tick,
                 minute>>

(* Mutant: a starter waits for the playback that is running. *)
RefusePlaybackBlocking(t) ==
  pc[t] = "start" /\ playing /\ FALSE /\ UNCHANGED vars

RefusePlayback(t) ==
  /\ pc[t] = "start" /\ playing
  /\ Goto(t, Resume(t, FALSE)) /\ Choose(t, NoEvent)
  /\ UNCHANGED <<manager, injectedFrames, injected, minuteKey, players, tick,
                 minute, announced>>

SetInjectedTarget(t) ==
  /\ pc[t] = "target"
  /\ injectedTarget' = chosen[t].out
  /\ Goto(t, "begin")
  /\ UNCHANGED <<manager, injectedFrames, injectedActive, chosen, minuteKey,
                 players, tick, minute, announced>>

(* Mutant: beginInjectedAudio leaves the path inactive. *)
BeginInjectedAudioInactive(t) ==
  /\ pc[t] = "begin"
  /\ Goto(t, "spawn")
  /\ UNCHANGED <<manager, injectedFrames, injected, chosen, minuteKey,
                 players, tick, minute, announced>>

BeginInjectedAudio(t) ==
  /\ pc[t] = "begin"
  /\ injectedActive' = TRUE
  /\ Goto(t, "spawn")
  /\ UNCHANGED <<manager, injectedFrames, injectedTarget, chosen, minuteKey,
                 players, tick, minute, announced>>

SpawnPlayer(t) ==
  /\ pc[t] = "spawn"
  /\ player' = [player EXCEPT ![t] = "stream"]
  /\ playerEvent' = [playerEvent EXCEPT ![t] = chosen[t]]
  /\ written' = [written EXCEPT ![t] = 0]
  /\ closed' = [closed EXCEPT ![t] = FALSE]
  /\ Goto(t, Resume(t, TRUE))
  /\ chosen' = IF Resume(t, TRUE) = "stamp" THEN chosen
               ELSE [chosen EXCEPT ![t] = NoEvent]
  /\ UNCHANGED <<manager, injectedFrames, injected, minuteKey, tick, minute,
                 announced>>

StartPlayback(t) ==
  \/ ClaimPlayback(t) \/ RefusePlayback(t) \/ SetInjectedTarget(t)
  \/ BeginInjectedAudio(t) \/ SpawnPlayer(t)

-----------------------------------------------------------------------------
(* playMedia, in the goroutine that thread t started. *)

(* Mutant: the channel has no bound. *)
EnqueueFrameUnbounded(t) ==
  /\ player[t] = "stream" /\ written[t] < MaxFrames
  /\ written' = [written EXCEPT ![t] = @ + 1]
  /\ injectedFrames' = Append(injectedFrames, Audio(t, written'[t]))
  /\ UNCHANGED <<manager, injected, pc, chosen, minuteKey, player,
                 playerEvent, closed, tick, minute, announced>>

(* A full channel blocks the sender. *)
EnqueueFrame(t) ==
  /\ player[t] = "stream" /\ written[t] < MaxFrames
  /\ Len(injectedFrames) < QueueCap
  /\ written' = [written EXCEPT ![t] = @ + 1]
  /\ injectedFrames' = Append(injectedFrames, Audio(t, written'[t]))
  /\ UNCHANGED <<manager, injected, pc, chosen, minuteKey, player,
                 playerEvent, closed, tick, minute, announced>>

(* End of file, or any error of opening, decoding or reading the media. *)
EndOfMedia(t) ==
  /\ player[t] = "stream"
  /\ player' = [player EXCEPT ![t] = "finish"]
  /\ UNCHANGED <<manager, injectedFrames, injected, pc, chosen, minuteKey,
                 playerEvent, written, closed, tick, minute, announced>>

(* Mutant: a full channel drops the done marker. *)
FinishInjectedAudioDropping(t) ==
  /\ player[t] = "finish"
  /\ injectedFrames' = IF Len(injectedFrames) < QueueCap
                       THEN Append(injectedFrames, Done(t)) ELSE injectedFrames
  /\ player' = [player EXCEPT ![t] = "wait"]
  /\ UNCHANGED <<manager, injected, pc, chosen, minuteKey, playerEvent,
                 written, closed, tick, minute, announced>>

FinishInjectedAudio(t) ==
  /\ player[t] = "finish" /\ Len(injectedFrames) < QueueCap
  /\ injectedFrames' = Append(injectedFrames, Done(t))
  /\ player' = [player EXCEPT ![t] = "wait"]
  /\ UNCHANGED <<manager, injected, pc, chosen, minuteKey, playerEvent,
                 written, closed, tick, minute, announced>>

(* Mutant: playMedia does not wait for the done channel. *)
AwaitDoneNever(t) ==
  /\ player[t] = "wait"
  /\ player' = [player EXCEPT ![t] = "clear"]
  /\ UNCHANGED <<manager, injectedFrames, injected, pc, chosen, minuteKey,
                 playerEvent, written, closed, tick, minute, announced>>

AwaitDone(t) ==
  /\ player[t] = "wait" /\ closed[t]
  /\ player' = [player EXCEPT ![t] = "clear"]
  /\ UNCHANGED <<manager, injectedFrames, injected, pc, chosen, minuteKey,
                 playerEvent, written, closed, tick, minute, announced>>

ClearPlaying(t) ==
  /\ player[t] = "clear"
  /\ playing' = FALSE
  /\ player' = [player EXCEPT ![t] = "none"]
  /\ playerEvent' = [playerEvent EXCEPT ![t] = NoEvent]
  /\ written' = [written EXCEPT ![t] = 0]
  /\ closed' = [closed EXCEPT ![t] = FALSE]
  /\ UNCHANGED <<events, normalBroadcastActive, lastSource, idleFor,
                 lastAnnouncement, injectedFrames, injected, pc, chosen,
                 minuteKey, tick, minute, announced>>

PlayMedia(t) ==
  \/ EnqueueFrame(t) \/ EndOfMedia(t) \/ FinishInjectedAudio(t)
  \/ AwaitDone(t) \/ ClearPlaying(t)

-----------------------------------------------------------------------------
(* routeMixedAudio: one tick of the router. *)

(* The event, or none, that an edge of the broadcast traffic triggers. *)
Triggered(active, source) ==
  LET beeps ==
        CASE active /\ ~normalBroadcastActive ->
               Matching("pre_roger_beep", source)
          [] ~active /\ normalBroadcastActive ->
               Matching("roger_beep", lastSource)
          [] OTHER -> {}
  IN IF beeps = {} THEN {NoEvent} ELSE beeps

ObserveNormalBroadcast(active, source, hasBroadcast) ==
  /\ pc[Router] = "idle"
  /\ active => hasBroadcast
  /\ bcast' = hasBroadcast
  /\ normalBroadcastActive' = active
  /\ lastSource' = IF active THEN source ELSE lastSource
  /\ idleFor' = IF active THEN 0 ELSE idleFor
  /\ \E e \in Triggered(active, source) :
       /\ Choose(Router, e)
       /\ Goto(Router, IF e = NoEvent THEN "take" ELSE "start")
  /\ UNCHANGED <<events, playing, lastAnnouncement, injectedFrames, injected,
                 minuteKey, players, hand, unsent, injectedTo, minute,
                 announced>>

(* takeInjectedFrame: the non-blocking receive of the select. *)
TakeFrame ==
  /\ pc[Router] = "take"
  /\ IF injectedFrames = <<>>
     THEN /\ Goto(Router, "poll")
          /\ UNCHANGED <<hand, injectedFrames>>
     ELSE /\ hand' = Head(injectedFrames)
          /\ injectedFrames' = Tail(injectedFrames)
          /\ Goto(Router, IF hand'.kind = "done" THEN "reset" ELSE "record")
  /\ UNCHANGED <<manager, injected, chosen, minuteKey, players, bcast, unsent,
                 injectedTo, minute, announced>>

(* ... its default branch: silence while a playback is active. *)
PollActive ==
  /\ pc[Router] = "poll"
  /\ hand' = IF injectedActive THEN Silence ELSE NoFrame
  /\ Goto(Router, "record")
  /\ UNCHANGED <<manager, injectedFrames, injected, chosen, minuteKey, players,
                 bcast, unsent, injectedTo, minute, announced>>

(* ... its done branch, first the critical section, then the close. *)
(* Mutant: the done branch leaves the target behind. *)
ResetInjectedFlagOnly ==
  /\ pc[Router] = "reset"
  /\ injectedActive' = FALSE
  /\ Goto(Router, "close")
  /\ UNCHANGED <<manager, injectedFrames, injectedTarget, chosen, minuteKey,
                 players, tick, minute, announced>>

ResetInjected ==
  /\ pc[Router] = "reset"
  /\ injectedActive' = FALSE /\ injectedTarget' = NoTarget
  /\ Goto(Router, "close")
  /\ UNCHANGED <<manager, injectedFrames, chosen, minuteKey, players, tick,
                 minute, announced>>

CloseDone ==
  /\ pc[Router] = "close"
  /\ closed' = [closed EXCEPT ![hand.by] = TRUE]
  /\ hand' = NoFrame
  /\ Goto(Router, "record")
  /\ UNCHANGED <<manager, injectedFrames, injected, chosen, minuteKey, player,
                 playerEvent, written, bcast, unsent, injectedTo, minute,
                 announced>>

RecordInjectedActivity ==
  /\ pc[Router] = "record"
  /\ idleFor' = IF bcast /\ hand # NoFrame THEN 0 ELSE idleFor
  /\ unsent' = Destinations /\ injectedTo' = {}
  /\ Goto(Router, "send")
  /\ UNCHANGED <<events, playing, normalBroadcastActive, lastSource,
                 lastAnnouncement, injectedFrames, injected, chosen, minuteKey,
                 players, hand, bcast, minute, announced>>

(* One destination of the loop; injectsTo takes the router's mutex anew. *)
SendTo(d) ==
  /\ pc[Router] = "send" /\ d \in unsent
  /\ unsent' = unsent \ {d}
  /\ injectedTo' = IF hand # NoFrame /\ InjectsTo(injectedTarget, d)
                   THEN injectedTo \cup {d} ELSE injectedTo
  /\ UNCHANGED <<manager, injectedFrames, injected, pc, chosen, minuteKey,
                 players, hand, bcast, minute, announced>>

EndTick ==
  /\ pc[Router] = "send" /\ unsent = {}
  /\ hand' = NoFrame /\ injectedTo' = {}
  /\ Goto(Router, "idle")
  /\ UNCHANGED <<manager, injectedFrames, injected, chosen, minuteKey, players,
                 bcast, unsent, minute, announced>>

Observe ==
  \E active, hasBroadcast \in BOOLEAN : \E source \in Sources :
    ObserveNormalBroadcast(active, source, hasBroadcast)

RouterStep ==
  \/ Observe \/ TakeFrame \/ PollActive \/ ResetInjected \/ CloseDone
  \/ RecordInjectedActivity \/ (\E d \in Destinations : SendTo(d)) \/ EndTick

-----------------------------------------------------------------------------
(* triggerScheduledEvents: the choice under the mutex ... *)

(* Mutant: the stamp of the minute is not looked at. *)
DueAnnouncementsUnstamped ==
  {e \in events : /\ e.enabled /\ e.type = "announcement"
                  /\ e.at = minute % MinutesPerDay}

DueAnnouncements ==
  {e \in events : /\ e.enabled /\ e.type = "announcement"
                  /\ e.at = minute % MinutesPerDay
                  /\ lastAnnouncement[e.id] # minute}

DueRepeaterIDs ==
  {e \in events : /\ e.enabled /\ e.type = "repeater_id"
                  /\ idleFor >= e.interval}

Due == IF DueAnnouncements # {} THEN DueAnnouncements ELSE DueRepeaterIDs

ChooseScheduled ==
  /\ pc[Scheduler] = "idle"
  /\ ~normalBroadcastActive /\ ~playing
  /\ \E e \in Due : Choose(Scheduler, e)
  /\ minuteKey' = minute
  /\ Goto(Scheduler, "start")
  /\ UNCHANGED <<manager, injectedFrames, injected, players, tick, minute,
                 announced>>

(* ... and, after a successful start, the mark of the minute. *)
StampAnnouncement ==
  /\ pc[Scheduler] = "stamp"
  /\ lastAnnouncement' =
       [lastAnnouncement EXCEPT ![chosen[Scheduler].id] = minuteKey]
  /\ Choose(Scheduler, NoEvent)
  /\ Goto(Scheduler, "idle")
  /\ UNCHANGED <<events, playing, normalBroadcastActive, lastSource, idleFor,
                 injectedFrames, injected, minuteKey, players, tick, minute,
                 announced>>

-----------------------------------------------------------------------------
(* The HTTP handlers. *)

PlayNow(h, e) ==
  /\ pc[h] = "idle" /\ e \in events
  /\ Choose(h, e)
  /\ Goto(h, "start")
  /\ UNCHANGED <<manager, injectedFrames, injected, minuteKey, players, tick,
                 minute, announced>>

(* save replaces the event of that ID or appends it; delete removes it. *)
EditEvents(S) ==
  /\ events' = S
  /\ UNCHANGED <<playing, normalBroadcastActive, lastSource, idleFor,
                 lastAnnouncement, injectedFrames, injected, pc, chosen,
                 minuteKey, players, tick, minute, announced>>

SaveEvent(e) == EditEvents({f \in events : f.id # e.id} \cup {e})
DeleteEvent(e) == e \in events /\ EditEvents(events \ {e})

MinutePasses ==
  /\ minute < MaxMinute
  /\ minute' = minute + 1 /\ idleFor' = idleFor + 1
  /\ UNCHANGED <<events, playing, normalBroadcastActive, lastSource,
                 lastAnnouncement, injectedFrames, injected, pc, chosen,
                 minuteKey, players, tick, announced>>

Next ==
  \/ \E t \in Threads : StartPlayback(t) \/ PlayMedia(t)
  \/ RouterStep
  \/ ChooseScheduled \/ StampAnnouncement
  \/ \E h \in Handlers, e \in AllEvents : PlayNow(h, e)
  \/ \E e \in AllEvents : SaveEvent(e) \/ DeleteEvent(e)
  \/ MinutePasses

(* The Go scheduler runs every goroutine that can run, the ticker fires    *)
(* for ever and a file has an end; nobody has to call the HTTP interface.  *)
Fairness ==
  /\ WF_vars(RouterStep)
  /\ \A t \in Threads : WF_vars(StartPlayback(t)) /\ WF_vars(PlayMedia(t))
  /\ WF_vars(StampAnnouncement)

Spec == Init /\ [][Next]_vars
FairSpec == Spec /\ Fairness

-----------------------------------------------------------------------------
Frames == [kind : {"none", "silence", "audio", "done"}, by : Threads, n : Nat]

(* The values every variable takes. *)
TypeOK ==
  /\ events \in SUBSET AllEvents
  /\ playing \in BOOLEAN /\ normalBroadcastActive \in BOOLEAN
  /\ lastSource \in Sources /\ idleFor \in Nat
  /\ lastAnnouncement \in [{e.id : e \in AllEvents} -> Int]
  /\ injectedFrames \in Seq(Frames) /\ Len(injectedFrames) <= QueueCap
  /\ injectedActive \in BOOLEAN
  /\ injectedTarget \in {e.out : e \in AllEvents} \cup {NoTarget}
  /\ pc \in [Threads -> {"idle", "start", "stamp", "take", "poll", "reset",
                         "close", "record", "send"} \cup Starting]
  /\ chosen \in [Threads -> AllEvents \cup {NoEvent}]
  /\ minuteKey \in Nat /\ minute \in Nat
  /\ player \in [Threads -> Streaming \cup {"none"}]
  /\ playerEvent \in [Threads -> AllEvents \cup {NoEvent}]
  /\ written \in [Threads -> Nat]
  /\ closed \in [Threads -> BOOLEAN]
  /\ hand \in Frames /\ bcast \in BOOLEAN
  /\ announced \subseteq {e.id : e \in AllEvents} \X Nat
  /\ unsent \subseteq Destinations /\ injectedTo \subseteq Destinations

(* A goroutine that is between startPlayback's claim and the clearing of   *)
(* playing owns the injection path.                                        *)
Owns(t) == pc[t] \in Starting \/ player[t] # "none"

(* At most one goroutine owns the injection path, and only while playing   *)
(* is set: two playbacks never interleave their frames in the channel.     *)
OnePlayback ==
  /\ \A s, t \in Threads : Owns(s) /\ Owns(t) => s = t
  /\ \A t \in Threads : pc[t] \in Starting => player[t] = "none"
  /\ playing <=> \E t \in Threads : Owns(t)

(* Nothing outlives its playback: a frame in the channel or in the         *)
(* router's hand belongs to the playback that is running, and with no      *)
(* playback the channel is empty and injection is off and untargeted (an   *)
(* empty target would send a leaked frame to every destination).           *)
NoStaleInjection ==
  /\ \A i \in 1..Len(injectedFrames) :
       player[injectedFrames[i].by] \in {"stream", "finish", "wait"}
  /\ hand # NoFrame => playing
  /\ ~playing => /\ injectedFrames = <<>>
                 /\ ~injectedActive /\ injectedTarget = NoTarget

(* The event whose audio is on the injection path. *)
OwnerEvent(t) == IF pc[t] \in Starting THEN chosen[t] ELSE playerEvent[t]

(* A frame or the silence that fills a gap goes to exactly the             *)
(* destinations the running event targets, although every destination of   *)
(* the loop reads the target under a lock of its own.                      *)
OnTarget ==
  pc[Router] = "send" /\ hand # NoFrame =>
    \E t \in Threads :
      /\ Owns(t)
      /\ injectedTo =
           {d \in Destinations \ unsent : InjectsTo(OwnerEvent(t).out, d)}

(* The inductive strengthening of the three: where the channel, the        *)
(* router's hand and the injection fields are in each phase of a playback. *)
Off == injectedFrames = <<>> /\ ~injectedActive /\ injectedTarget = NoTarget
On(e) == injectedActive /\ injectedTarget = e.out
Resetting == pc[Router] \in {"reset", "close"}

StartPhase(t) ==
  /\ pc[t] = "target" => Off /\ ~Resetting
  /\ pc[t] = "begin" => /\ injectedFrames = <<>> /\ ~injectedActive
                        /\ injectedTarget = chosen[t].out /\ ~Resetting
  /\ pc[t] = "spawn" => /\ injectedFrames = <<>>
                        /\ On(chosen[t]) /\ ~Resetting
  /\ pc[t] \in Starting \cup {"start", "stamp"} => chosen[t] # NoEvent

OnlyAudio(t, last) ==
  \A i \in 1..last :
    injectedFrames[i].kind = "audio" /\ injectedFrames[i].by = t

StreamPhase(t) ==
  /\ player[t] \in {"stream", "finish"} =>
       /\ On(playerEvent[t]) /\ ~closed[t] /\ ~Resetting
       /\ OnlyAudio(t, Len(injectedFrames))
  /\ player[t] = "wait" =>
       \/ /\ On(playerEvent[t]) /\ ~closed[t] /\ ~Resetting
          /\ injectedFrames # <<>>
          /\ injectedFrames[Len(injectedFrames)] = Done(t)
          /\ OnlyAudio(t, Len(injectedFrames) - 1)
       \/ /\ Resetting /\ hand = Done(t) /\ ~closed[t]
          /\ injectedFrames = <<>>
          /\ IF pc[Router] = "reset" THEN On(playerEvent[t]) ELSE Off
       \/ Off /\ closed[t] /\ ~Resetting
  /\ player[t] = "clear" => Off /\ ~Resetting

HandPhase ==
  /\ hand # NoFrame => pc[Router] \in {"reset", "close", "record", "send"}
  /\ hand # NoFrame /\ ~Resetting => injectedActive
  /\ pc[Router] = "send" =>
       injectedTo = {d \in Destinations \ unsent :
                       hand # NoFrame /\ InjectsTo(injectedTarget, d)}

PlaybackInv ==
  /\ OnePlayback
  /\ ~playing => Off /\ ~Resetting
  /\ \A t \in Threads : StartPhase(t) /\ StreamPhase(t)
  /\ HandPhase

(* The scheduler starts an announcement at most once in its minute, also   *)
(* when playback ends within the minute or the event is saved again.       *)
AnnouncedOnce ==
  [][pc[Scheduler] = "start" /\ pc'[Scheduler] = "target"
       /\ chosen[Scheduler].type = "announcement"
     => <<chosen[Scheduler].id, minuteKey>> \notin announced]_vars

(* The detailed model implements the abstract playback: the owner's event  *)
(* is on air, and what it has written but the router not yet taken is what *)
(* the channel holds of audio.                                             *)
Owner  == CHOOSE t \in Threads : Owns(t)
Busy   == \E t \in Threads : Owns(t)
Unread == {i \in DOMAIN injectedFrames : injectedFrames[i].kind = "audio"}

OnAir   == IF Busy THEN OwnerEvent(Owner) ELSE NoEvent
Written == IF Busy THEN written[Owner] ELSE 0
Aired   == IF Busy THEN written[Owner] - Cardinality(Unread) ELSE 0

Abstract == INSTANCE Playback
              WITH onAir <- OnAir, written <- Written, aired <- Aired
OnePlaybackAtATime == Abstract!Spec

(* Every playback ends, whatever its media does. *)
PlaybackEnds == []<>~playing

(* The router's tick is never blocked by the playbacks it starts itself    *)
(* or by those whose channel it drains.                                    *)
RouterKeepsTicking == []<>(pc[Router] = "idle")
=============================================================================
