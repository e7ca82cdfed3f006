------------------------ MODULE InjectedAudioProofs ------------------------
(* Proofs about InjectedAudio, for every number of handlers, set of events *)
(* and capacity of the channel.                                            *)
EXTENDS InjectedAudio, FiniteSetTheorems, TLAPS

(* The initial state is well typed and outside every phase.                *)
LEMMA InitInv == Init => TypeOK /\ PlaybackInv
<1> SUFFICES ASSUME Init PROVE TypeOK /\ PlaybackInv
  OBVIOUS
<1> USE DEF Init, Threads
<1>1. NoFrame \in Frames
  BY DEF NoFrame, Frames
<1>2. TypeOK
  <2>1. injectedFrames \in Seq(Frames) /\ Len(injectedFrames) <= QueueCap
    BY BoundsAssumption
  <2>2. /\ lastAnnouncement \in [{e.id : e \in AllEvents} -> Int]
        /\ events \in SUBSET AllEvents
    OBVIOUS
  <2>3. /\ pc \in [Threads -> {"idle", "start", "stamp", "take", "poll",
                               "reset", "close", "record", "send"} \cup Starting]
        /\ player \in [Threads -> Streaming \cup {"none"}]
    OBVIOUS
  <2> QED
    BY <1>1, <2>1, <2>2, <2>3 DEF TypeOK
<1>3. Off /\ ~Resetting
  BY DEF Off, Resetting
<1>4. OnePlayback
  BY DEF OnePlayback, Owns, Starting
<1>5. HandPhase
  BY DEF HandPhase
<1>6. \A t \in Threads : StartPhase(t) /\ StreamPhase(t)
  BY DEF StartPhase, StreamPhase, Starting
<1> QED
  BY <1>2, <1>3, <1>4, <1>5, <1>6 DEF PlaybackInv

(* Every step of every goroutine keeps the variables in their types.       *)
LEMMA TypeStep == TypeOK /\ PlaybackInv /\ [Next]_vars => TypeOK'
<1> SUFFICES ASSUME TypeOK, PlaybackInv, [Next]_vars PROVE TypeOK'
  OBVIOUS
<1> USE ThreadsDistinct, EventsAssumption, BoundsAssumption
    DEF TypeOK, vars, manager, injected, players, tick, Goto, Choose
<1>1. ASSUME NEW t \in Threads, ClaimPlayback(t) PROVE TypeOK'
  BY <1>1 DEF ClaimPlayback, Starting, PlaybackInv, StartPhase
<1>2. ASSUME NEW t \in Threads, RefusePlayback(t) PROVE TypeOK'
  BY <1>2 DEF RefusePlayback, Resume
<1>3. ASSUME NEW t \in Threads, SetInjectedTarget(t) PROVE TypeOK'
  BY <1>3 DEF SetInjectedTarget, Starting, PlaybackInv, StartPhase
<1>4. ASSUME NEW t \in Threads, BeginInjectedAudio(t) PROVE TypeOK'
  BY <1>4 DEF BeginInjectedAudio, Starting
<1>5. ASSUME NEW t \in Threads, SpawnPlayer(t) PROVE TypeOK'
  BY <1>5 DEF SpawnPlayer, Resume, Streaming
<1>6. ASSUME NEW t \in Threads, EnqueueFrame(t) PROVE TypeOK'
  BY <1>6 DEF EnqueueFrame, Audio, Frames
<1>7. ASSUME NEW t \in Threads, EndOfMedia(t) PROVE TypeOK'
  BY <1>7 DEF EndOfMedia, Streaming
<1>8. ASSUME NEW t \in Threads, FinishInjectedAudio(t) PROVE TypeOK'
  BY <1>8 DEF FinishInjectedAudio, Done, Frames, Streaming
<1>9. ASSUME NEW t \in Threads, AwaitDone(t) PROVE TypeOK'
  BY <1>9 DEF AwaitDone, Streaming
<1>10. ASSUME NEW t \in Threads, ClearPlaying(t) PROVE TypeOK'
  BY <1>10 DEF ClearPlaying
<1>11. CASE Observe
  <2>1. PICK active \in BOOLEAN, hasBroadcast \in BOOLEAN, source \in Sources :
          ObserveNormalBroadcast(active, source, hasBroadcast)
    BY <1>11 DEF Observe
  <2>2. Triggered(active, source) \subseteq AllEvents \cup {NoEvent}
    BY DEF Triggered, Matching
  <2> QED BY <2>1, <2>2 DEF ObserveNormalBroadcast, Threads
<1>12. CASE TakeFrame
  <2>1. CASE injectedFrames = <<>>
    BY <1>12, <2>1 DEF TakeFrame, Threads
  <2>2. CASE injectedFrames # <<>>
    <3>1. /\ Head(injectedFrames) \in Frames
          /\ Tail(injectedFrames) \in Seq(Frames)
          /\ Len(Tail(injectedFrames)) <= QueueCap
      BY <2>2
    <3> QED
      BY <1>12, <2>2, <3>1 DEF TakeFrame, Threads
  <2> QED BY <2>1, <2>2
<1>13. CASE PollActive
  BY <1>13 DEF PollActive, Silence, NoFrame, Frames, Threads
<1>14. CASE ResetInjected
  BY <1>14 DEF ResetInjected, Threads
<1>15. CASE CloseDone
  BY <1>15 DEF CloseDone, Threads, NoFrame, Frames
<1>16. CASE RecordInjectedActivity
  BY <1>16 DEF RecordInjectedActivity, Threads
<1>17. ASSUME NEW d \in Destinations, SendTo(d) PROVE TypeOK'
  BY <1>17 DEF SendTo
<1>18. CASE EndTick
  BY <1>18 DEF EndTick, Threads, NoFrame, Frames
<1>19. CASE ChooseScheduled
  BY <1>19 DEF ChooseScheduled, Due, DueAnnouncements, DueRepeaterIDs, Threads
<1>20. CASE StampAnnouncement
  BY <1>20 DEF StampAnnouncement, Threads, PlaybackInv, StartPhase
<1>21. ASSUME NEW h \in Handlers, NEW e \in AllEvents, PlayNow(h, e)
       PROVE TypeOK'
  BY <1>21 DEF PlayNow, Threads
<1>22. ASSUME NEW e \in AllEvents, SaveEvent(e) \/ DeleteEvent(e)
       PROVE TypeOK'
  BY <1>22 DEF SaveEvent, DeleteEvent, EditEvents
<1>23. CASE MinutePasses
  BY <1>23 DEF MinutePasses
<1>24. CASE UNCHANGED vars
  BY <1>24
<1> QED
  BY <1>1, <1>2, <1>3, <1>4, <1>5, <1>6, <1>7, <1>8, <1>9, <1>10, <1>11,
     <1>12, <1>13, <1>14, <1>15, <1>16, <1>17, <1>18, <1>19, <1>20, <1>21,
     <1>22, <1>23, <1>24
  DEF Next, StartPlayback, PlayMedia, RouterStep

(* Every step keeps the playback protocol in its phases.                   *)
LEMMA PlaybackStep == TypeOK /\ PlaybackInv /\ [Next]_vars => PlaybackInv'
<1> SUFFICES ASSUME TypeOK, TypeOK', PlaybackInv, [Next]_vars
             PROVE  PlaybackInv'
  BY TypeStep
<1> USE ThreadsDistinct, EventsAssumption, BoundsAssumption
    DEF TypeOK, vars, manager, injected, players, tick, Goto, Choose,
        PlaybackInv, OnePlayback, Owns, Starting, Off, On, Resetting,
        StartPhase, StreamPhase, HandPhase, OnlyAudio
<1>1. ASSUME NEW t \in Threads, ClaimPlayback(t) PROVE PlaybackInv'
  BY <1>1, SMTT(60) DEF ClaimPlayback
<1>2. ASSUME NEW t \in Threads, RefusePlayback(t) PROVE PlaybackInv'
  BY <1>2, SMTT(60) DEF RefusePlayback, Resume
<1>3. ASSUME NEW t \in Threads, SetInjectedTarget(t) PROVE PlaybackInv'
  BY <1>3, SMTT(60) DEF SetInjectedTarget
<1>4. ASSUME NEW t \in Threads, BeginInjectedAudio(t) PROVE PlaybackInv'
  BY <1>4, SMTT(60) DEF BeginInjectedAudio
<1>5. ASSUME NEW t \in Threads, SpawnPlayer(t) PROVE PlaybackInv'
  BY <1>5, SMTT(60) DEF SpawnPlayer, Resume
<1>6. ASSUME NEW t \in Threads, EnqueueFrame(t) PROVE PlaybackInv'
  BY <1>6, SMTT(60) DEF EnqueueFrame, Audio, Done
<1>7. ASSUME NEW t \in Threads, EndOfMedia(t) PROVE PlaybackInv'
  BY <1>7, SMTT(60) DEF EndOfMedia
<1>8. ASSUME NEW t \in Threads, FinishInjectedAudio(t) PROVE PlaybackInv'
  <2>1. /\ player[t] = "finish" /\ player' = [player EXCEPT ![t] = "wait"]
        /\ injectedFrames' = Append(injectedFrames, Done(t))
        /\ UNCHANGED <<pc, chosen, hand, playerEvent, closed, playing>>
        /\ UNCHANGED <<injectedActive, injectedTarget, injectedTo, unsent>>
    BY <1>8 DEF FinishInjectedAudio
  <2>2. /\ On(playerEvent[t]) /\ ~closed[t] /\ ~Resetting
        /\ OnlyAudio(t, Len(injectedFrames))
    BY <2>1
  <2>3. /\ injectedFrames' # <<>> /\ Len(injectedFrames) \in Nat
        /\ Len(injectedFrames') = Len(injectedFrames) + 1
        /\ injectedFrames'[Len(injectedFrames) + 1] = Done(t)
        /\ \A i \in 1..Len(injectedFrames) :
             injectedFrames'[i] = injectedFrames[i]
    <3>1. injectedFrames \in Seq(Frames) /\ Done(t) \in Frames
      BY DEF Done, Frames
    <3> HIDE DEF TypeOK, PlaybackInv
    <3> QED BY <2>1, <3>1
  <2>4. OnePlayback' /\ HandPhase' /\ playing'
    BY <2>1
  <2>5. ASSUME NEW s \in Threads PROVE StartPhase(s)' /\ StreamPhase(s)'
    <3>1. CASE s = t
      <4>1. OnlyAudio(t, Len(injectedFrames) - 1)'
        <5> HIDE DEF TypeOK, PlaybackInv
        <5>1. ASSUME NEW i \in 1..(Len(injectedFrames') - 1)
              PROVE  injectedFrames'[i] = injectedFrames[i]
                       /\ i \in 1..Len(injectedFrames)
          BY <2>3
        <5> QED BY <2>2, <5>1
      <4>2. injectedFrames'[Len(injectedFrames')] = Done(t)
        BY <2>3
      <4>3. player'[t] = "wait" /\ On(playerEvent[t])' /\ ~closed'[t] /\ ~Resetting'
        BY <2>1, <2>2
      <4>4. StreamPhase(t)'
        <5> HIDE DEF On, OnlyAudio, Resetting, Off, PlaybackInv, TypeOK
        <5> QED BY <2>1, <2>3, <4>1, <4>2, <4>3
      <4> QED BY <2>1, <3>1, <4>4
    <3>2. CASE s # t
      <4>1. /\ player[s] = "none" /\ player'[s] = "none"
            /\ pc[s] \notin Starting
        BY <2>1, <3>2
      <4>2. StreamPhase(s)'
        BY <4>1
      <4>3. StartPhase(s)'
        BY <2>1, <4>1
      <4> QED BY <4>2, <4>3
    <3> QED BY <3>1, <3>2
  <2> QED BY <2>4, <2>5
<1>9. ASSUME NEW t \in Threads, AwaitDone(t) PROVE PlaybackInv'
  <2>1. player[t] = "wait" /\ closed[t] /\ player' = [player EXCEPT ![t] = "clear"]
    BY <1>9 DEF AwaitDone
  <2>2. Off /\ ~Resetting
    BY <2>1
  <2>3. /\ Off' /\ ~Resetting'
        /\ UNCHANGED <<pc, chosen, hand, playerEvent, closed, playing>>
        /\ UNCHANGED <<injectedActive, injectedTarget, injectedTo, unsent>>
    BY <1>9, <2>2 DEF AwaitDone
  <2>4. OnePlayback' /\ (~playing => Off /\ ~Resetting)'
    BY <2>1, <2>3
  <2>5. ASSUME NEW s \in Threads PROVE StartPhase(s)' /\ StreamPhase(s)'
    <3>1. CASE s = t
      BY <2>1, <2>3, <3>1
    <3>2. CASE s # t
      BY <2>1, <2>3, <3>2
    <3> QED BY <3>1, <3>2
  <2>6. HandPhase'
    BY <2>3
  <2> QED BY <2>4, <2>5, <2>6
<1>10. ASSUME NEW t \in Threads, ClearPlaying(t) PROVE PlaybackInv'
  BY <1>10, SMTT(60) DEF ClearPlaying
<1>11. CASE Observe
  BY <1>11, SMTT(60) DEF Observe, ObserveNormalBroadcast, Threads, Triggered, Matching
<1>12. CASE TakeFrame
  <2>1. CASE injectedFrames = <<>>
    BY <1>12, <2>1, SMTT(60) DEF TakeFrame, Threads
  <2>2. CASE injectedFrames # <<>>
    <3>1. /\ pc[Router] = "take" /\ hand' = Head(injectedFrames)
          /\ injectedFrames' = Tail(injectedFrames)
          /\ pc' = [pc EXCEPT ![Router] =
                      IF hand'.kind = "done" THEN "reset" ELSE "record"]
          /\ UNCHANGED <<chosen, player, playerEvent, closed, playing>>
          /\ UNCHANGED <<injectedActive, injectedTarget>>
      BY <1>12, <2>2 DEF TakeFrame
    <3>2. PICK t \in Threads : Owns(t)
      BY <2>2
    <3>3. player[t] \in {"stream", "finish", "wait"} /\ On(playerEvent[t])
      BY <2>2, <3>1, <3>2 DEF Streaming
    <3>4. /\ \A s \in Threads : Owns(s) => s = t
          /\ OnePlayback' /\ playing' /\ ~closed[t]
          /\ \A s \in Threads : pc[s] \notin Starting /\ pc'[s] \notin Starting
      BY <2>2, <3>1, <3>2, <3>3 DEF Threads
    <3>5. /\ Len(injectedFrames) \in Nat \ {0}
          /\ hand' = injectedFrames[1]
          /\ Len(injectedFrames') = Len(injectedFrames) - 1
          /\ \A i \in 1..(Len(injectedFrames) - 1) :
               injectedFrames'[i] = injectedFrames[i + 1]
      BY <2>2, <3>1
    <3>6. ASSUME NEW s \in Threads PROVE StartPhase(s)'
      BY <3>1, <3>4 DEF Threads
    <3>7. ~Resetting /\ (player[t] = "wait" =>
                            /\ injectedFrames[Len(injectedFrames)] = Done(t)
                            /\ OnlyAudio(t, Len(injectedFrames) - 1))
      BY <2>2, <3>1
    <3>8. player[t] # "wait" => OnlyAudio(t, Len(injectedFrames))
      BY <3>3
    <3>9. CASE hand'.kind = "done"
      <4>1. player[t] = "wait" /\ Len(injectedFrames) = 1 /\ hand' = Done(t)
        <5> HIDE DEF TypeOK, PlaybackInv, StreamPhase
        <5>1. player[t] = "wait"
          BY <3>5, <3>8, <3>9
        <5>2. ~(1 \in 1..(Len(injectedFrames) - 1))
          BY <3>5, <3>7, <3>9, <5>1
        <5>3. Len(injectedFrames) = 1
          BY <3>5, <5>2
        <5> QED BY <3>5, <3>7, <5>1, <5>3
      <4>2. pc'[Router] = "reset"
        BY <3>1, <3>9 DEF Threads
      <4>3. injectedFrames' = <<>>
        <5>1. injectedFrames' \in Seq(Frames) /\ Len(injectedFrames') = 0
          BY <3>5, <4>1
        <5> QED BY <5>1
      <4>4. ASSUME NEW s \in Threads PROVE StreamPhase(s)'
        BY <3>1, <3>3, <3>4, <4>1, <4>2, <4>3, <4>4
      <4>5. HandPhase'
        BY <4>2
      <4> QED BY <3>4, <3>6, <4>4, <4>5
    <3>10. CASE hand'.kind # "done"
      <4>1. pc'[Router] = "record" /\ ~Resetting' /\ ~Resetting
        BY <3>1, <3>7, <3>10 DEF Threads
      <4>2. On(playerEvent[t])' /\ ~closed'[t]
        BY <3>1, <3>3, <3>4
      <4>3. StreamPhase(t)'
        <5> HIDE DEF TypeOK, PlaybackInv
        <5>1. CASE player[t] # "wait"
          <6>1. ASSUME NEW i \in 1..Len(injectedFrames')
                PROVE  injectedFrames'[i] = injectedFrames[i + 1]
                         /\ i + 1 \in 1..Len(injectedFrames)
            BY <3>5
          <6>2. OnlyAudio(t, Len(injectedFrames))'
            BY <3>8, <5>1, <6>1
          <6> HIDE DEF On, OnlyAudio, Off, Resetting
          <6> QED BY <3>1, <3>3, <4>1, <4>2, <5>1, <6>2
        <5>2. CASE player[t] = "wait"
          <6>1. Len(injectedFrames) > 1
            BY <3>5, <3>7, <3>10, <5>2 DEF Done
          <6>2. injectedFrames' # <<>>
            BY <3>5, <6>1
          <6>3. /\ OnlyAudio(t, Len(injectedFrames) - 1)'
                /\ injectedFrames'[Len(injectedFrames')] = Done(t)
            BY <3>5, <3>7, <5>2, <6>1
          <6> HIDE DEF On, OnlyAudio, Off, Resetting
          <6> QED BY <3>1, <4>1, <4>2, <5>2, <6>2, <6>3
        <5> QED BY <5>1, <5>2
      <4>4. ASSUME NEW s \in Threads PROVE StreamPhase(s)'
        <5>1. CASE s = t
          BY <4>3, <5>1
        <5>2. CASE s # t
          BY <3>1, <3>4, <5>2
        <5> QED BY <5>1, <5>2
      <4>5. HandPhase'
        BY <3>1, <3>3, <4>1
      <4> QED BY <3>4, <3>6, <4>4, <4>5
    <3> QED BY <3>9, <3>10
  <2> QED BY <2>1, <2>2
<1>13. CASE PollActive
  <2>1. /\ pc[Router] = "poll" /\ pc' = [pc EXCEPT ![Router] = "record"]
        /\ hand' # NoFrame => injectedActive
        /\ UNCHANGED <<playing, chosen, player, playerEvent, closed>>
        /\ UNCHANGED <<injectedFrames, injectedActive, injectedTarget>>
    BY <1>13 DEF PollActive
  <2>2. HandPhase'
    BY <2>1 DEF Threads
  <2>3. OnePlayback' /\ (~playing => Off /\ ~Resetting)'
    BY <2>1 DEF Threads
  <2>4. ASSUME NEW t \in Threads PROVE StartPhase(t)' /\ StreamPhase(t)'
    BY <2>1 DEF Threads
  <2> QED BY <2>2, <2>3, <2>4
<1>14. CASE ResetInjected
  BY <1>14, SMTT(60) DEF ResetInjected, Threads
<1>15. CASE CloseDone
  <2>1. /\ pc[Router] = "close" /\ pc' = [pc EXCEPT ![Router] = "record"]
        /\ closed' = [closed EXCEPT ![hand.by] = TRUE] /\ hand' = NoFrame
        /\ UNCHANGED <<chosen, player, playerEvent, playing>>
        /\ UNCHANGED <<injectedFrames, injectedActive, injectedTarget>>
    BY <1>15 DEF CloseDone
  <2>2. PICK t \in Threads : Owns(t)
    BY <2>1
  <2>3. player[t] = "wait" /\ hand = Done(t) /\ Off
    BY <2>1, <2>2 DEF Streaming
  <2>4. hand.by = t /\ closed'[t]
    BY <2>1, <2>3 DEF Done
  <2>5. /\ \A s \in Threads : Owns(s) => s = t
        /\ OnePlayback' /\ HandPhase' /\ playing' /\ Off' /\ ~Resetting'
        /\ \A s \in Threads : pc[s] \notin Starting /\ pc'[s] \notin Starting
    BY <2>1, <2>2, <2>3 DEF Threads
  <2>6. ASSUME NEW s \in Threads PROVE StartPhase(s)' /\ StreamPhase(s)'
    BY <2>1, <2>3, <2>4, <2>5 DEF Threads
  <2> QED BY <2>5, <2>6
<1>16. CASE RecordInjectedActivity
  <2>1. /\ pc[Router] = "record" /\ pc' = [pc EXCEPT ![Router] = "send"]
        /\ UNCHANGED <<playing, chosen, player, playerEvent, closed, hand>>
        /\ UNCHANGED <<injectedFrames, injectedActive, injectedTarget>>
        /\ unsent' = Destinations /\ injectedTo' = {}
    BY <1>16 DEF RecordInjectedActivity
  <2>2. HandPhase'
    BY <2>1 DEF Threads
  <2>3. OnePlayback' /\ (~playing => Off /\ ~Resetting)'
    BY <2>1 DEF Threads
  <2>4. ASSUME NEW t \in Threads PROVE StartPhase(t)' /\ StreamPhase(t)'
    BY <2>1 DEF Threads
  <2> QED BY <2>2, <2>3, <2>4
<1>17. CASE EndTick
  BY <1>17, SMTT(60) DEF EndTick, Threads, NoFrame
<1>18. CASE ChooseScheduled
  BY <1>18, SMTT(60) DEF ChooseScheduled, Threads, Due, DueAnnouncements, DueRepeaterIDs
<1>19. CASE StampAnnouncement
  BY <1>19, SMTT(60) DEF StampAnnouncement, Threads
<1>20. ASSUME NEW d \in Destinations, SendTo(d) PROVE PlaybackInv'
  BY <1>20, SMTT(60) DEF SendTo
<1>21. ASSUME NEW h \in Handlers, NEW e \in AllEvents, PlayNow(h, e)
       PROVE PlaybackInv'
  BY <1>21, SMTT(60) DEF PlayNow, Threads
<1>22. ASSUME NEW e \in AllEvents, SaveEvent(e) \/ DeleteEvent(e)
       PROVE PlaybackInv'
  BY <1>22 DEF SaveEvent, DeleteEvent, EditEvents
<1>23. CASE MinutePasses
  BY <1>23 DEF MinutePasses
<1>24. CASE UNCHANGED vars
  BY <1>24
<1> QED
  BY <1>1, <1>2, <1>3, <1>4, <1>5, <1>6, <1>7, <1>8, <1>9, <1>10, <1>11,
     <1>12, <1>13, <1>14, <1>15, <1>16, <1>17, <1>18, <1>19, <1>20, <1>21,
     <1>22, <1>23, <1>24
  DEF Next, StartPlayback, PlayMedia, RouterStep

(* The types and the playback protocol hold in every reachable state.      *)
THEOREM PlaybackCorrect == Spec => [](TypeOK /\ PlaybackInv)
<1>1. TypeOK /\ PlaybackInv /\ [Next]_vars => (TypeOK /\ PlaybackInv)'
  BY TypeStep, PlaybackStep
<1> QED BY InitInv, <1>1, PTL DEF Spec

(* Every variable of the manager, the router and the playbacks keeps to    *)
(* its type; in particular the channel holds QueueCap frames at most.      *)
THEOREM InjectedTypeCorrect == Spec => []TypeOK
BY PlaybackCorrect, PTL

(* At most one goroutine owns the injection path, and only while playing   *)
(* is set.                                                                 *)
THEOREM OnePlaybackCorrect == Spec => []OnePlayback
<1>1. PlaybackInv => OnePlayback
  BY DEF PlaybackInv
<1> QED BY PlaybackCorrect, <1>1, PTL

(* No frame, hand-over or target outlives its playback.                    *)
THEOREM NoStaleInjectionCorrect == Spec => []NoStaleInjection
<1>1. ASSUME TypeOK, PlaybackInv PROVE NoStaleInjection
  <2> USE <1>1 DEF PlaybackInv
  <2>1. ~playing => Off /\ hand = NoFrame
    BY DEF HandPhase, Off
  <2>2. ASSUME NEW i \in 1..Len(injectedFrames)
        PROVE player[injectedFrames[i].by] \in {"stream", "finish", "wait"}
    <3>1. PICK t \in Threads : Owns(t)
      BY <2>1, <2>2 DEF Off, OnePlayback, TypeOK
    <3>2. /\ injectedFrames # <<>>
          /\ Len(injectedFrames) \in Nat /\ i \in Nat
      BY <2>2 DEF TypeOK
    <3>3. player[t] \in {"stream", "finish", "wait"}
      BY <3>1, <3>2 DEF Owns, Starting, StartPhase, StreamPhase, Off, TypeOK,
         Streaming
    <3>4. injectedFrames[i].by = t
      <4>1. CASE player[t] \in {"stream", "finish"}
        BY <4>1 DEF StreamPhase, OnlyAudio
      <4>2. CASE player[t] = "wait"
        <5>1. /\ injectedFrames[Len(injectedFrames)] = Done(t)
              /\ OnlyAudio(t, Len(injectedFrames) - 1)
          BY <4>2, <3>2 DEF StreamPhase, Off
        <5>2. i = Len(injectedFrames) \/ i \in 1..(Len(injectedFrames) - 1)
          BY <2>2, <3>2
        <5> QED BY <5>1, <5>2 DEF OnlyAudio, Done
      <4> QED BY <3>3, <4>1, <4>2
    <3> QED BY <3>3, <3>4
  <2> QED BY <2>1, <2>2 DEF NoStaleInjection, Off
<1> QED BY PlaybackCorrect, <1>1, PTL

(* An injected frame goes to exactly the destinations its event targets.   *)
THEOREM OnTargetCorrect == Spec => []OnTarget
<1>1. ASSUME TypeOK, PlaybackInv PROVE OnTarget
  <2> SUFFICES ASSUME pc[Router] = "send", hand # NoFrame
               PROVE  \E t \in Threads :
                        /\ Owns(t)
                        /\ injectedTo = {d \in Destinations \ unsent :
                                           InjectsTo(OwnerEvent(t).out, d)}
    BY DEF OnTarget
  <2> USE <1>1 DEF PlaybackInv
  <2>1. injectedActive /\ ~Resetting
    BY DEF HandPhase, Resetting
  <2>2. PICK t \in Threads : Owns(t)
    BY <2>1 DEF OnePlayback, Off
  <2>3. injectedTarget = OwnerEvent(t).out
    <3>1. CASE pc[t] \in Starting
      BY <2>1, <3>1 DEF StartPhase, Starting, OwnerEvent, On, Off
    <3>2. CASE pc[t] \notin Starting
      BY <2>1, <2>2, <3>2
      DEF StreamPhase, Streaming, OwnerEvent, On, Off, Owns, TypeOK
    <3> QED BY <3>1, <3>2
  <2>4. injectedTo = {d \in Destinations \ unsent :
                        InjectsTo(injectedTarget, d)}
    BY DEF HandPhase
  <2> QED BY <2>2, <2>3, <2>4
<1> QED BY PlaybackCorrect, <1>1, PTL

-----------------------------------------------------------------------------
(* The refinement of Playback.                                             *)

(* A playback goroutine that runs has an event, one that does not has      *)
(* written nothing.                                                        *)
PlayerInv ==
  \A t \in Threads :
    IF player[t] = "none" THEN written[t] = 0 ELSE playerEvent[t] # NoEvent

(* The starter hands its event on, and ClearPlaying clears the count.      *)
LEMMA PlayerStep ==
  TypeOK /\ PlaybackInv /\ PlayerInv /\ [Next]_vars => PlayerInv'
<1> SUFFICES ASSUME TypeOK, PlaybackInv, PlayerInv, [Next]_vars
             PROVE  PlayerInv'
  OBVIOUS
<1> USE DEF TypeOK, PlayerInv, Goto, Choose, manager, injected, players, tick
<1>1. ASSUME NEW t \in Threads, StartPlayback(t) PROVE PlayerInv'
  <2>1. CASE SpawnPlayer(t)
    BY <2>1 DEF SpawnPlayer, PlaybackInv, StartPhase, Starting
  <2> QED
    BY <1>1, <2>1 DEF StartPlayback, ClaimPlayback, RefusePlayback,
       SetInjectedTarget, BeginInjectedAudio
<1>2. ASSUME NEW t \in Threads, PlayMedia(t) PROVE PlayerInv'
  BY <1>2 DEF PlayMedia, EnqueueFrame, EndOfMedia, FinishInjectedAudio,
     AwaitDone, ClearPlaying
<1>3. ASSUME UNCHANGED <<player, playerEvent, written>> PROVE PlayerInv'
  BY <1>3
<1>4. CASE RouterStep
  BY <1>3, <1>4 DEF RouterStep, Observe, ObserveNormalBroadcast, TakeFrame,
     PollActive, ResetInjected, CloseDone, RecordInjectedActivity, SendTo,
     EndTick
<1>5. CASE \/ ChooseScheduled \/ StampAnnouncement \/ MinutePasses
           \/ \E h \in Handlers, e \in AllEvents : PlayNow(h, e)
           \/ \E e \in AllEvents : SaveEvent(e) \/ DeleteEvent(e)
  BY <1>3, <1>5 DEF ChooseScheduled, StampAnnouncement, MinutePasses, PlayNow,
     SaveEvent, DeleteEvent, EditEvents
<1>6. CASE UNCHANGED vars
  BY <1>3, <1>6 DEF vars
<1> QED BY <1>1, <1>2, <1>4, <1>5, <1>6 DEF Next

(* What is on air is what the one owner plays.                             *)
LEMMA OwnerOnAir ==
  OnePlayback =>
    /\ \A t \in Threads :
         Owns(t) => /\ OnAir = OwnerEvent(t) /\ Written = written[t]
                    /\ Aired = written[t] - Cardinality(Unread)
    /\ ~playing => OnAir = NoEvent /\ Written = 0 /\ Aired = 0
<1> SUFFICES ASSUME OnePlayback
             PROVE  /\ \A t \in Threads :
                         Owns(t) => /\ OnAir = OwnerEvent(t)
                                    /\ Written = written[t]
                                    /\ Aired = written[t] - Cardinality(Unread)
                    /\ ~playing => OnAir = NoEvent /\ Written = 0 /\ Aired = 0
  OBVIOUS
<1>1. playing <=> Busy
  BY DEF OnePlayback, Busy
<1>2. ASSUME NEW t \in Threads, Owns(t) PROVE Busy /\ Owner = t
  <2>1. Busy /\ Owner \in Threads /\ Owns(Owner)
    BY <1>2 DEF Busy, Owner
  <2> QED BY <1>2, <2>1 DEF OnePlayback
<1> QED BY <1>1, <1>2 DEF OnAir, Written, Aired

(* The frames of audio in the channel: all of it, but for a marker, which  *)
(* is the last.                                                            *)
LEMMA UnreadCount ==
  TypeOK /\ PlaybackInv =>
    \A t \in Threads :
      Owns(t) => Cardinality(Unread) =
                   IF player[t] = "wait" /\ injectedFrames # <<>>
                   THEN Len(injectedFrames) - 1 ELSE Len(injectedFrames)
<1> SUFFICES ASSUME TypeOK, PlaybackInv, NEW t \in Threads, Owns(t)
             PROVE  Cardinality(Unread) =
                      IF player[t] = "wait" /\ injectedFrames # <<>>
                      THEN Len(injectedFrames) - 1 ELSE Len(injectedFrames)
  OBVIOUS
<1> DEFINE n == Len(injectedFrames)
<1>1. /\ injectedFrames \in Seq(Frames) /\ n \in Nat
      /\ DOMAIN injectedFrames = 1..n
      /\ injectedFrames = <<>> <=> n = 0
  BY DEF TypeOK
<1>2. ASSUME NEW m \in Nat, Unread = 1..m PROVE Cardinality(Unread) = m
  BY <1>2, FS_Interval
<1>3. CASE player[t] = "wait" /\ injectedFrames # <<>>
  <2>1. /\ injectedFrames[n] = Done(t)
        /\ OnlyAudio(t, n - 1)
    BY <1>3 DEF PlaybackInv, StreamPhase, Off
  <2>2. n - 1 \in Nat /\ n \in 1..n /\ 1..n = (1..(n - 1)) \cup {n}
    BY <1>1, <1>3
  <2>3. injectedFrames[n].kind = "done"
    BY <2>1 DEF Done
  <2>4. Unread = 1..(n - 1)
    BY <1>1, <2>1, <2>2, <2>3 DEF Unread, OnlyAudio
  <2> QED BY <1>2, <1>3, <2>2, <2>4
<1>4. CASE ~(player[t] = "wait" /\ injectedFrames # <<>>)
  <2>1. OnlyAudio(t, n)
    <3>1. CASE player[t] \in {"stream", "finish"}
      BY <3>1 DEF PlaybackInv, StreamPhase
    <3>2. CASE player[t] \notin {"stream", "finish"}
      <4>1. injectedFrames = <<>>
        BY <1>4, <3>2 DEF TypeOK, PlaybackInv, StreamPhase, StartPhase, Owns,
           Starting, Streaming, Off
      <4> QED BY <1>1, <4>1 DEF OnlyAudio
    <3> QED BY <3>1, <3>2
  <2>2. Unread = 1..n
    BY <1>1, <2>1 DEF Unread, OnlyAudio
  <2> QED BY <1>1, <1>2, <1>4, <2>2
<1> QED BY <1>3, <1>4

(* What is on air, counted by what the channel holds of the owner's.       *)
Count(t) == IF player[t] = "wait" /\ injectedFrames # <<>>
            THEN Len(injectedFrames) - 1 ELSE Len(injectedFrames)

AirInv ==
  /\ \A t \in Threads :
       Owns(t) => /\ OnAir = OwnerEvent(t) /\ Written = written[t]
                  /\ Aired = written[t] - Count(t)
  /\ ~playing => OnAir = NoEvent /\ Written = 0 /\ Aired = 0

LEMMA AirCounted == TypeOK /\ PlaybackInv => AirInv
BY OwnerOnAir, UnreadCount DEF PlaybackInv, AirInv, Count

(* Every step of the goroutines is a step of Playback or leaves it alone.  *)
LEMMA PlaybackRefined ==
  /\ TypeOK /\ PlaybackInv /\ PlayerInv
  /\ TypeOK' /\ PlaybackInv'
  /\ [Next]_vars
  => [Abstract!Next]_(Abstract!vars)
<1> SUFFICES ASSUME TypeOK, PlaybackInv, PlayerInv, TypeOK', PlaybackInv',
                    [Next]_vars
             PROVE  [Abstract!Next]_(Abstract!vars)
  OBVIOUS
<1> USE DEF manager, injected, players, tick, Goto, Choose
<1>1. AirInv /\ AirInv'
  BY AirCounted, PTL
<1>2. /\ playing <=> \E t \in Threads : Owns(t)
      /\ \A s, t \in Threads : Owns(s) /\ Owns(t) => s = t
      /\ \A t \in Threads : pc[t] \in Starting => player[t] = "none"
  BY DEF PlaybackInv, OnePlayback
<1>3. /\ Len(injectedFrames) \in Nat
      /\ injectedFrames = <<>> <=> Len(injectedFrames) = 0
  BY DEF TypeOK
<1> DEFINE Still == UNCHANGED <<OnAir, Written, Aired>>
<1>4. Still => [Abstract!Next]_(Abstract!vars)
  BY DEF Abstract!vars
<1>5. ASSUME playing' = playing,
             \A t \in Threads :
               Owns(t) => /\ Owns(t)' /\ OwnerEvent(t)' = OwnerEvent(t)
                          /\ written'[t] = written[t]
                          /\ Count(t)' = Count(t)
      PROVE  Still
  <2>1. CASE ~playing
    BY <1>1, <1>5, <2>1 DEF AirInv
  <2>2. CASE playing
    <3>1. PICK t \in Threads : Owns(t)
      BY <1>2, <2>2
    <3> QED BY <1>1, <1>5, <3>1 DEF AirInv
  <2> QED BY <2>1, <2>2
<1>6. ASSUME NEW t \in Threads, StartPlayback(t)
      PROVE  Still \/ \E e \in AllEvents : Abstract!Start(e)
  <2>1. CASE ClaimPlayback(t)
    <3>1. /\ Owns(t)' /\ ~playing /\ OwnerEvent(t)' = chosen[t]
          /\ written'[t] = written[t] /\ Count(t)' = Count(t)
      BY <1>2, <2>1 DEF ClaimPlayback, Owns, OwnerEvent, Starting, Count, TypeOK
    <3>2. player[t] = "none" /\ injectedFrames = <<>> /\ chosen[t] \in AllEvents
      BY <1>2, <2>1, <3>1
      DEF ClaimPlayback, Owns, PlaybackInv, StartPhase, Off, TypeOK
    <3>3. written[t] = 0 /\ Count(t) = 0
      BY <1>3, <3>2 DEF PlayerInv, Count
    <3>4. OnAir' = chosen[t] /\ Written' = 0 /\ Aired' = 0
      BY <1>1, <3>1, <3>3 DEF AirInv
    <3>5. OnAir = NoEvent /\ Written = 0 /\ Aired = 0
      BY <1>1, <3>1 DEF AirInv
    <3> QED BY <3>2, <3>4, <3>5 DEF Abstract!Start
  <2>2. CASE ~ClaimPlayback(t)
    <3>1. playing' = playing /\ UNCHANGED injectedFrames
      BY <1>6, <2>2 DEF StartPlayback, RefusePlayback, SetInjectedTarget,
         BeginInjectedAudio, SpawnPlayer
    <3>2. ASSUME NEW s \in Threads, Owns(s)
          PROVE  /\ Owns(s)' /\ OwnerEvent(s)' = OwnerEvent(s)
                 /\ written'[s] = written[s] /\ Count(s)' = Count(s)
      BY <1>2, <1>6, <2>2, <3>2
      DEF StartPlayback, RefusePlayback, SetInjectedTarget, Resume, Count,
          BeginInjectedAudio, SpawnPlayer, Owns, OwnerEvent, Starting, TypeOK,
          PlayerInv
    <3> QED BY <1>5, <3>1, <3>2
  <2> QED BY <2>1, <2>2
<1>7. ASSUME NEW t \in Threads, PlayMedia(t)
      PROVE  Still \/ Abstract!Write \/ Abstract!Stop
  <2>1. Owns(t) /\ player[t] # "none" /\ pc[t] \notin Starting
    BY <1>2, <1>7 DEF PlayMedia, EnqueueFrame, EndOfMedia, FinishInjectedAudio,
       AwaitDone, ClearPlaying, Owns
  <2>2. OnAir = playerEvent[t] /\ OnAir # NoEvent
    BY <1>1, <2>1 DEF AirInv, OwnerEvent, PlayerInv
  <2>3. Written = written[t] /\ Aired = written[t] - Count(t)
    BY <1>1, <2>1 DEF AirInv
  <2>4. CASE EnqueueFrame(t)
    <3>1. /\ Owns(t)' /\ OwnerEvent(t)' = playerEvent[t]
          /\ written'[t] = written[t] + 1
      BY <2>1, <2>4 DEF EnqueueFrame, Owns, OwnerEvent, TypeOK
    <3>2. Len(injectedFrames') = Len(injectedFrames) + 1
      BY <2>4 DEF EnqueueFrame, TypeOK
    <3>3. Count(t) = Len(injectedFrames) /\ Count(t)' = Count(t) + 1
      BY <2>4, <3>2 DEF EnqueueFrame, Count
    <3>4. /\ OnAir' = OnAir /\ Written' = Written + 1 /\ Aired' = Aired
      <4>1. /\ OnAir' = playerEvent[t] /\ Written' = written'[t]
            /\ Aired' = written'[t] - Count(t)'
        BY <1>1, <3>1 DEF AirInv
      <4>2. written[t] \in Nat
        BY DEF TypeOK
      <4> QED BY <1>3, <2>2, <2>3, <3>1, <3>3, <4>1, <4>2
    <3> QED BY <2>2, <3>4 DEF Abstract!Write
  <2>5. CASE FinishInjectedAudio(t)
    <3>1. Len(injectedFrames') = Len(injectedFrames) + 1 /\ injectedFrames' # <<>>
      BY <2>5 DEF FinishInjectedAudio, TypeOK, Done, Frames
    <3>2. player[t] = "finish" /\ player'[t] = "wait"
      BY <2>5 DEF FinishInjectedAudio, TypeOK
    <3>3. Count(t)' = Count(t)
      BY <1>3, <3>1, <3>2 DEF Count
    <3>4. /\ Owns(t)' /\ OwnerEvent(t)' = OwnerEvent(t)
          /\ written'[t] = written[t] /\ playing' = playing
      BY <2>1, <2>5, <3>2 DEF FinishInjectedAudio, Owns, OwnerEvent
    <3> QED BY <1>2, <1>5, <2>1, <3>3, <3>4
  <2>6. CASE ClearPlaying(t)
    <3>1. Count(t) = 0
      BY <1>3, <2>6 DEF ClearPlaying, PlaybackInv, StreamPhase, Off, Count
    <3>2. Aired = Written
      BY <2>3, <3>1 DEF TypeOK
    <3>3. OnAir' = NoEvent /\ Written' = 0 /\ Aired' = 0
      BY <1>1, <2>6 DEF ClearPlaying, AirInv
    <3> QED BY <2>2, <3>2, <3>3 DEF Abstract!Stop
  <2>7. CASE EndOfMedia(t) \/ AwaitDone(t)
    <3>1. /\ Owns(t)' /\ OwnerEvent(t)' = OwnerEvent(t) /\ playing' = playing
          /\ written'[t] = written[t] /\ injectedFrames' = injectedFrames
      BY <2>1, <2>7 DEF EndOfMedia, AwaitDone, Owns, OwnerEvent, TypeOK
    <3>2. Count(t)' = Count(t)
      <4>1. CASE EndOfMedia(t)
        BY <3>1, <4>1 DEF EndOfMedia, Count, TypeOK
      <4>2. CASE AwaitDone(t)
        <5>1. player[t] = "wait" /\ closed[t] /\ player'[t] = "clear"
          BY <4>2 DEF AwaitDone, TypeOK
        <5>2. injectedFrames = <<>>
          BY <5>1 DEF PlaybackInv, StreamPhase, Off
        <5> QED BY <3>1, <5>2 DEF Count
      <4> QED BY <2>7, <4>1, <4>2
    <3> QED BY <1>2, <1>5, <2>1, <3>1, <3>2
  <2> QED BY <1>7, <2>4, <2>5, <2>6, <2>7 DEF PlayMedia
<1>8. CASE TakeFrame
  <2>1. /\ playing' = playing /\ UNCHANGED <<player, playerEvent, written, chosen>>
        /\ \A t \in Threads : pc'[t] \in Starting <=> pc[t] \in Starting
    BY <1>8 DEF TakeFrame, Starting, TypeOK
  <2>2. ASSUME NEW t \in Threads
        PROVE  Owns(t)' = Owns(t) /\ OwnerEvent(t)' = OwnerEvent(t)
    BY <2>1 DEF Owns, OwnerEvent
  <2>3. CASE injectedFrames = <<>>
    <3>1. injectedFrames' = injectedFrames
      BY <1>8, <2>3 DEF TakeFrame
    <3> QED BY <1>4, <1>5, <2>1, <2>2, <3>1 DEF Count
  <2>4. CASE injectedFrames # <<>>
    <3>1. Len(injectedFrames') = Len(injectedFrames) - 1
      BY <1>8, <2>4 DEF TakeFrame, TypeOK
    <3>2. PICK t \in Threads : Owns(t)
      BY <1>2, <2>4 DEF PlaybackInv, Off
    <3>3. /\ injectedFrames' = <<>> <=> Len(injectedFrames') = 0
          /\ Len(injectedFrames') \in Nat /\ Len(injectedFrames) > 0
      BY <1>3, <2>4 DEF TypeOK
    <3>4. CASE player[t] = "wait" /\ Len(injectedFrames) = 1
      <4>1. Count(t)' = Count(t)
        BY <2>1, <2>4, <3>1, <3>3, <3>4 DEF Count
      <4> QED BY <1>2, <1>4, <1>5, <2>1, <2>2, <3>2, <4>1
    <3>5. CASE ~(player[t] = "wait" /\ Len(injectedFrames) = 1)
      <4>1. Count(t)' = Count(t) - 1 /\ Count(t) \in Nat \ {0}
        BY <1>3, <2>1, <2>4, <3>1, <3>3, <3>5 DEF Count
      <4>2. /\ OnAir' = OnAir /\ Written' = Written
            /\ Written = written[t] /\ Aired = written[t] - Count(t)
            /\ Aired' = written[t] - Count(t)'
        BY <1>1, <2>1, <2>2, <3>2 DEF AirInv
      <4>3. written[t] \in Nat
        BY DEF TypeOK
      <4>4. Aired < Written /\ Aired' = Aired + 1
        BY <4>1, <4>2, <4>3
      <4> QED BY <4>2, <4>4 DEF Abstract!Next, Abstract!Air
    <3> QED BY <3>4, <3>5
  <2> QED BY <2>3, <2>4
<1>9. ASSUME UNCHANGED <<playing, player, playerEvent, written, injectedFrames>>,
             \A t \in Threads :
               /\ pc'[t] \in Starting <=> pc[t] \in Starting
               /\ pc[t] \in Starting => chosen'[t] = chosen[t]
      PROVE  Still
  BY <1>5, <1>9 DEF Owns, OwnerEvent, Count
<1>10. CASE RouterStep /\ ~TakeFrame
  <2>1. CASE Observe
    <3>1. /\ UNCHANGED <<playing, player, playerEvent, written, injectedFrames>>
          /\ pc[Router] = "idle"
          /\ \E e \in AllEvents \cup {NoEvent} :
               chosen' = [chosen EXCEPT ![Router] = e]
          /\ \/ pc' = [pc EXCEPT ![Router] = "take"]
             \/ pc' = [pc EXCEPT ![Router] = "start"]
      BY <2>1 DEF Observe, ObserveNormalBroadcast, Triggered, Matching, TypeOK
    <3> QED BY <1>4, <1>9, <3>1 DEF Starting, TypeOK
  <2>2. CASE ~Observe
    <3>1. UNCHANGED <<playing, player, playerEvent, written, chosen,
                      injectedFrames>>
      BY <1>10, <2>2 DEF RouterStep, PollActive, ResetInjected, CloseDone,
         RecordInjectedActivity, SendTo, EndTick
    <3>2. \A t \in Threads : pc'[t] \in Starting <=> pc[t] \in Starting
      BY <1>10, <2>2 DEF RouterStep, PollActive, ResetInjected, CloseDone,
         RecordInjectedActivity, SendTo, EndTick, Starting, TypeOK
    <3> QED BY <1>4, <1>9, <3>1, <3>2
  <2> QED BY <2>1, <2>2
<1>11. CASE ChooseScheduled \/ StampAnnouncement
  <2>1. /\ UNCHANGED <<playing, player, playerEvent, written, injectedFrames>>
        /\ pc[Scheduler] \in {"idle", "stamp"}
        /\ \E p \in {"idle", "start"} : pc' = [pc EXCEPT ![Scheduler] = p]
        /\ \E e : chosen' = [chosen EXCEPT ![Scheduler] = e]
    BY <1>11 DEF ChooseScheduled, StampAnnouncement
  <2> QED BY <1>4, <1>9, <2>1 DEF Starting, TypeOK
<1>12. ASSUME NEW h \in Handlers, NEW e \in AllEvents, PlayNow(h, e)
       PROVE  Still
  BY <1>9, <1>12 DEF PlayNow, Starting, TypeOK
<1>13. CASE \/ MinutePasses \/ UNCHANGED vars
            \/ \E e \in AllEvents : SaveEvent(e) \/ DeleteEvent(e)
  BY <1>4, <1>9, <1>13 DEF MinutePasses, SaveEvent, DeleteEvent, EditEvents, vars
<1> QED
  BY <1>4, <1>6, <1>7, <1>8, <1>10, <1>11, <1>12, <1>13
  DEF Next, Abstract!Next

(* The injection path implements Playback: one event at a time is on the   *)
(* air, its frames reach the router in order and none is lost, and it      *)
(* leaves the air only when every frame it wrote has been taken.           *)
THEOREM OnePlaybackAtATimeCorrect == Spec => OnePlaybackAtATime
<1>1. Init => Abstract!Init /\ PlayerInv
  <2> SUFFICES ASSUME Init PROVE Abstract!Init /\ PlayerInv
    OBVIOUS
  <2>1. AirInv /\ ~playing
    BY InitInv, AirCounted DEF Init
  <2>2. PlayerInv
    BY DEF Init, PlayerInv
  <2> QED BY <2>1, <2>2 DEF AirInv, Abstract!Init
<1> QED
  BY <1>1, PlaybackCorrect, PlayerStep, PlaybackRefined, PTL
  DEF Spec, OnePlaybackAtATime, Abstract!Spec

-----------------------------------------------------------------------------
(* The scheduler's memory of its announcements.                            *)

(* What was announced is stamped, or will be by the start under way; and   *)
(* the announcement that is being started is not stamped with its minute.  *)
Stamping(a) ==
  /\ pc[Scheduler] \in Starting \cup {"stamp"}
  /\ chosen[Scheduler].type = "announcement"
  /\ a = <<chosen[Scheduler].id, minuteKey>>

AnnounceInv ==
  /\ minuteKey <= minute
  /\ \A e \in AllEvents : lastAnnouncement[e.id] <= minuteKey
  /\ \A e \in AllEvents, m \in Nat :
       <<e.id, m>> \in announced =>
         m <= lastAnnouncement[e.id] \/ Stamping(<<e.id, m>>)
  /\ pc[Scheduler] = "start" /\ chosen[Scheduler].type = "announcement" =>
       lastAnnouncement[chosen[Scheduler].id] < minuteKey

(* Only the scheduler's own choice, claim and stamp matter to it.          *)
LEMMA AnnounceStep ==
  TypeOK /\ PlaybackInv /\ AnnounceInv /\ [Next]_vars => AnnounceInv'
<1> SUFFICES ASSUME TypeOK, PlaybackInv, AnnounceInv, [Next]_vars
             PROVE  AnnounceInv'
  OBVIOUS
<1> USE ThreadsDistinct, EventsAssumption
    DEF TypeOK, Goto, Choose, manager, injected, players, tick, Threads
<1>1. ASSUME UNCHANGED <<minuteKey, lastAnnouncement, announced>>,
             minute' \in {minute, minute + 1},
             pc'[Scheduler] = pc[Scheduler],
             chosen'[Scheduler] = chosen[Scheduler]
      PROVE  AnnounceInv'
  BY <1>1 DEF AnnounceInv, Stamping
<1>2. ASSUME NEW t \in Threads, StartPlayback(t) PROVE AnnounceInv'
  <2>1. CASE t # Scheduler
    <3>1. UNCHANGED <<minuteKey, minute, lastAnnouncement, announced>>
      BY <1>2, <2>1 DEF StartPlayback, ClaimPlayback, RefusePlayback,
         SetInjectedTarget, BeginInjectedAudio, SpawnPlayer
    <3>2. pc'[Scheduler] = pc[Scheduler] /\ chosen'[Scheduler] = chosen[Scheduler]
      BY <1>2, <2>1 DEF StartPlayback, ClaimPlayback, RefusePlayback,
         SetInjectedTarget, BeginInjectedAudio, SpawnPlayer
    <3> QED BY <1>1, <3>1, <3>2
  <2>2. CASE t = Scheduler /\ ClaimPlayback(t)
    <3>1. /\ UNCHANGED <<minuteKey, minute, lastAnnouncement, chosen>>
          /\ pc[Scheduler] = "start" /\ pc'[Scheduler] = "target"
          /\ announced' = IF chosen[Scheduler].type = "announcement"
                          THEN announced \cup {<<chosen[Scheduler].id, minuteKey>>}
                          ELSE announced
      BY <2>2 DEF ClaimPlayback
    <3>2. ASSUME NEW e \in AllEvents, NEW m \in Nat,
                 <<e.id, m>> \in announced'
          PROVE  m <= lastAnnouncement'[e.id] \/ Stamping(<<e.id, m>>)'
      <4>1. CASE <<e.id, m>> \in announced
        BY <3>1, <4>1 DEF AnnounceInv, Stamping, Starting
      <4>2. CASE <<e.id, m>> \notin announced
        BY <3>1, <3>2, <4>2 DEF Stamping, Starting
      <4> QED BY <4>1, <4>2
    <3> QED BY <3>1, <3>2 DEF AnnounceInv
  <2>3. CASE t = Scheduler /\ RefusePlayback(t)
    BY <2>3 DEF RefusePlayback, Resume, AnnounceInv, Stamping, Starting
  <2>4. CASE t = Scheduler /\ (SetInjectedTarget(t) \/ BeginInjectedAudio(t))
    BY <2>4 DEF SetInjectedTarget, BeginInjectedAudio, AnnounceInv, Stamping,
       Starting
  <2>5. CASE t = Scheduler /\ SpawnPlayer(t)
    BY <2>5 DEF SpawnPlayer, Resume, AnnounceInv, Stamping, Starting
  <2> QED BY <1>2, <2>1, <2>2, <2>3, <2>4, <2>5 DEF StartPlayback
<1>3. ASSUME NEW t \in Threads, PlayMedia(t) PROVE AnnounceInv'
  <2>1. UNCHANGED <<minuteKey, minute, lastAnnouncement, announced, pc, chosen>>
    BY <1>3 DEF PlayMedia, EnqueueFrame, EndOfMedia, FinishInjectedAudio,
       AwaitDone, ClearPlaying
  <2> QED BY <1>1, <2>1
<1>4. CASE RouterStep
  <2>1. UNCHANGED <<minuteKey, minute, lastAnnouncement, announced>>
    BY <1>4 DEF RouterStep, Observe, ObserveNormalBroadcast, TakeFrame,
       PollActive, ResetInjected, CloseDone, RecordInjectedActivity, SendTo,
       EndTick
  <2>2. pc'[Scheduler] = pc[Scheduler] /\ chosen'[Scheduler] = chosen[Scheduler]
    BY <1>4 DEF RouterStep, Observe, ObserveNormalBroadcast, TakeFrame,
       PollActive, ResetInjected, CloseDone, RecordInjectedActivity, SendTo,
       EndTick
  <2> QED BY <1>1, <2>1, <2>2
<1>5. CASE ChooseScheduled
  <2>1. PICK e \in Due : Choose(Scheduler, e)
    BY <1>5 DEF ChooseScheduled
  <2>2. /\ pc[Scheduler] = "idle" /\ pc'[Scheduler] = "start"
        /\ minuteKey' = minute /\ minute' = minute
        /\ UNCHANGED <<lastAnnouncement, announced>>
        /\ chosen'[Scheduler] = e
    BY <1>5, <2>1 DEF ChooseScheduled
  <2>3. /\ e \in AllEvents
        /\ e.type = "announcement" => lastAnnouncement[e.id] # minute
    BY DEF Due, DueAnnouncements, DueRepeaterIDs
  <2>4. lastAnnouncement[e.id] \in Int
    BY <2>3
  <2>5. \A f \in AllEvents : lastAnnouncement[f.id] \in Int
    OBVIOUS
  <2> QED BY <2>2, <2>3, <2>4, <2>5 DEF AnnounceInv, Stamping, Starting
<1>6. CASE StampAnnouncement
  <2>1. /\ pc[Scheduler] = "stamp" /\ pc'[Scheduler] = "idle"
        /\ UNCHANGED <<minute, minuteKey, announced>>
        /\ lastAnnouncement' =
             [lastAnnouncement EXCEPT ![chosen[Scheduler].id] = minuteKey]
    BY <1>6 DEF StampAnnouncement
  <2>2. \A e \in AllEvents : lastAnnouncement[e.id] \in Int
    OBVIOUS
  <2>3. \A e \in AllEvents :
          lastAnnouncement'[e.id] = IF e.id = chosen[Scheduler].id
                                    THEN minuteKey ELSE lastAnnouncement[e.id]
    BY <2>1
  <2>4. ASSUME NEW e \in AllEvents, NEW m \in Nat, <<e.id, m>> \in announced
        PROVE  m <= lastAnnouncement'[e.id]
    BY <2>1, <2>2, <2>3, <2>4 DEF AnnounceInv, Stamping
  <2> QED BY <2>1, <2>2, <2>3, <2>4 DEF AnnounceInv
<1>7. ASSUME NEW h \in Handlers, NEW e \in AllEvents, PlayNow(h, e)
      PROVE  AnnounceInv'
  BY <1>1, <1>7 DEF PlayNow
<1>8. CASE \/ MinutePasses \/ UNCHANGED vars
           \/ \E e \in AllEvents : SaveEvent(e) \/ DeleteEvent(e)
  BY <1>1, <1>8 DEF MinutePasses, SaveEvent, DeleteEvent, EditEvents, vars
<1> QED BY <1>2, <1>3, <1>4, <1>5, <1>6, <1>7, <1>8 DEF Next

(* The scheduler starts an announcement at most once in its minute,        *)
(* however short its playback and whoever else plays or edits events.      *)
THEOREM AnnouncedOnceCorrect == Spec => AnnouncedOnce
<1>1. Init => AnnounceInv
  BY ThreadsDistinct
  DEF Init, AnnounceInv, Stamping, Starting, Threads
<1>2. TypeOK /\ PlaybackInv /\ AnnounceInv /\ [Next]_vars =>
        [pc[Scheduler] = "start" /\ pc'[Scheduler] = "target"
           /\ chosen[Scheduler].type = "announcement"
         => <<chosen[Scheduler].id, minuteKey>> \notin announced]_vars
  <2> SUFFICES ASSUME TypeOK, PlaybackInv, AnnounceInv,
                      pc[Scheduler] = "start",
                      chosen[Scheduler].type = "announcement",
                      <<chosen[Scheduler].id, minuteKey>> \in announced
               PROVE  FALSE
    OBVIOUS
  <2>1. chosen[Scheduler] \in AllEvents /\ minuteKey \in Nat
    BY DEF TypeOK, PlaybackInv, StartPhase, Threads
  <2>2. lastAnnouncement[chosen[Scheduler].id] \in Int
    BY <2>1 DEF TypeOK
  <2>3. minuteKey <= lastAnnouncement[chosen[Scheduler].id]
    BY <2>1 DEF AnnounceInv, Stamping, Starting
  <2> QED BY <2>1, <2>2, <2>3 DEF AnnounceInv
<1> QED
  BY <1>1, <1>2, PlaybackCorrect, AnnounceStep, PTL DEF Spec, AnnouncedOnce
=============================================================================
