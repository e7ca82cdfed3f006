------------------------- MODULE AudioRouterProofs -------------------------
(***************************************************************************)
(* What holds of source selection and mixing for any IDs, kinds of node,   *)
(* RSSI values, thresholds, queue lengths and bounds.                      *)
(***************************************************************************)
EXTENDS AudioRouter, FiniteSetTheorems, TLAPS

(* Strengthening of StopIsOwed.  A serial is one peer, which has one ID;   *)
(* nobody is heard before joining.                                         *)
SerialInv ==
  /\ \A i, j \in IDs : Known(i) /\ peers[i].serial = peers[j].serial => i = j
  /\ \A id \in IDs : peers[id].serial <= serial
  /\ \A s \in Serials : heard[s].on => s <= serial

(* What is left of the snapshot's destinations: when the ID of one has     *)
(* been given to another peer, that peer has not heard anything yet.       *)
DestInv ==
  /\ \A d \in dests :
       /\ d.serial <= serial
       /\ \A id \in IDs : peers[id].serial = d.serial => id = d.id
       /\ Known(d.id) /\ peers[d.id].serial # d.serial
            => ~heard[peers[d.id].serial].on
  /\ \A d, e \in dests : d.id = e.id => d = e

OwedInv == SerialInv /\ DestInv /\ StopIsOwed

(* Strengthening of NoEcho.  Only the peer that sent a frame may still     *)
(* have its serial; while no ID has been given out twice, a source that is *)
(* in the table is the peer it was.                                        *)
Belongs(s, id) ==
  s <= serial /\ \A i \in IDs : peers[i].serial = s => i = id

FramesInv ==
  /\ net.at # "idle" => Belongs(net.serial, net.id)
  /\ \A id \in IDs : /\ \A k \in 1..Len(buffers[id]) : Belongs(buffers[id][k], id)
                     /\ \A k \in 1..Len(frames[id]) : Belongs(frames[id][k], id)

GivenInv ==
  /\ IsFiniteSet(given) /\ Cardinality(given) <= serial
  /\ \A id \in IDs : Known(id) => id \in given
  /\ \A s \in sources : s.id \in given
  /\ serial = Cardinality(given) =>
       \A s \in sources : Known(s.id) => peers[s.id].node = s.node

-----------------------------------------------------------------------------
LEMMA KnownPeer ==
  ASSUME TypeOK, NEW id \in IDs
  PROVE  Known(id) <=> peers[id] \in Peer
BY DEF TypeOK, Known, Peer, NoPeer, NewPeer, Serials

LEMMA RouteType ==
  ASSUME TypeOK, NEW id \in IDs, Known(id)
  PROVE  Route(id) \in Routes
BY KnownPeer DEF Route, Routes, Peer

LEMMA Bounds ==
  /\ MaxSerial \in Nat /\ MaxChunks \in Nat
  /\ MaxTime \in Nat /\ MaxTime >= 1 /\ QueueCap \in Nat /\ QueueCap >= 1
BY RouterBounds

(* The functions the actions build from the buffers. *)
LEMMA FirstOfType ==
  ASSUME NEW q \in Seq(Serials)
  PROVE  /\ FirstOf(q) \in Seq(Serials)
         /\ \A k \in 1..Len(FirstOf(q)) : k \in 1..Len(q) /\ FirstOf(q)[k] = q[k]
<1>1. CASE q = <<>>
  <2>1. FirstOf(q) = <<>>
    BY <1>1 DEF FirstOf
  <2> QED
    BY <2>1
<1>2. CASE q # <<>>
  <2>1. Len(q) \in Nat /\ Len(q) >= 1 /\ FirstOf(q) = SubSeq(q, 1, 1)
    BY <1>2 DEF FirstOf
  <2> QED
    BY <2>1
<1> QED
  BY <1>1, <1>2

LEMMA TailType ==
  ASSUME NEW q \in Seq(Serials), q # <<>>
  PROVE  /\ Tail(q) \in Seq(Serials) /\ Len(Tail(q)) = Len(q) - 1
         /\ \A k \in 1..Len(Tail(q)) : k + 1 \in 1..Len(q) /\ Tail(q)[k] = q[k + 1]
OBVIOUS

LEMMA AppendType ==
  ASSUME NEW q \in Seq(Serials), NEW s \in Serials
  PROVE  /\ Append(q, s) \in Seq(Serials) /\ Append(q, s) # <<>>
         /\ Len(Append(q, s)) = Len(q) + 1
         /\ \A k \in 1..Len(Append(q, s)) :
              \/ k \in 1..Len(q) /\ Append(q, s)[k] = q[k]
              \/ Append(q, s)[k] = s
OBVIOUS

(* The buffer of the peer whose chunk is pushed. *)
Queued == Append(buffers[net.id], net.serial)
Trimmed == IF Len(Queued) > QueueCap THEN Tail(Queued) ELSE Queued

LEMMA TrimmedType ==
  ASSUME TypeOK, net.at = "push"
  PROVE  /\ Trimmed \in Seq(Serials) /\ Len(Trimmed) <= QueueCap
         /\ \A k \in 1..Len(Trimmed) :
              \/ \E j \in 1..Len(buffers[net.id]) : Trimmed[k] = buffers[net.id][j]
              \/ Trimmed[k] = net.serial
<1>1. net.id \in IDs /\ net.serial \in Serials /\ buffers[net.id] \in Seq(Serials)
      /\ Len(buffers[net.id]) <= QueueCap
  BY DEF TypeOK
<1>2. /\ Queued \in Seq(Serials) /\ Queued # <<>>
      /\ Len(Queued) = Len(buffers[net.id]) + 1
      /\ \A k \in 1..Len(Queued) :
           \/ k \in 1..Len(buffers[net.id]) /\ Queued[k] = buffers[net.id][k]
           \/ Queued[k] = net.serial
  BY <1>1, AppendType DEF Queued
<1>3. CASE Len(Queued) > QueueCap
  <2>1. Trimmed = Tail(Queued)
    BY <1>3 DEF Trimmed
  <2>2. /\ Tail(Queued) \in Seq(Serials) /\ Len(Tail(Queued)) = Len(Queued) - 1
        /\ \A k \in 1..Len(Tail(Queued)) :
             k + 1 \in 1..Len(Queued) /\ Tail(Queued)[k] = Queued[k + 1]
    BY <1>2, TailType
  <2> QED
    BY <1>1, <1>2, <2>1, <2>2, Bounds
<1>4. CASE ~(Len(Queued) > QueueCap)
  <2>1. Trimmed = Queued
    BY <1>4 DEF Trimmed
  <2> QED
    BY <1>1, <1>2, <1>4, <2>1, Bounds
<1> QED
  BY <1>3, <1>4

LEMMA MixedType ==
  ASSUME TypeOK, NEW d
  PROVE  Mixed(d) \in SUBSET (Serials \cup {InjectedFrame})
<1>1. CASE d \in injected
  <2>1. Mixed(d) = {InjectedFrame}
    BY <1>1, Zenon DEF Mixed
  <2> QED
    BY <2>1
<1>2. CASE d \notin injected
  <2>1. \A s \in Inputs(d) : \A i \in 1..Len(frames[s.id]) : frames[s.id][i] \in Serials
    BY DEF Inputs, TypeOK, Routes
  <2> QED
    BY <1>2, <2>1 DEF Mixed
<1> QED
  BY <1>1, <1>2

(* Whatever is chosen was a candidate, or nothing is. *)
LEMMA ChoiceType ==
  ASSUME TypeOK
  PROVE  ChooseAudioSource(candidates, active) \subseteq IDs \cup {0}
<1>1. \A c \in candidates : c.id \in IDs
  BY DEF TypeOK, Candidate
<1>2. active \in IDs \cup {0}
  BY DEF TypeOK
<1> QED
  BY <1>1, <1>2 DEF ChooseAudioSource, ChooseInitialSource, Strongest

-----------------------------------------------------------------------------
LEMMA InitInv ==
  Init => /\ TypeOK /\ SerialInv /\ DestInv /\ StopIsOwed
          /\ FramesInv /\ GivenInv
<1> SUFFICES ASSUME Init
             PROVE  /\ TypeOK /\ SerialInv /\ DestInv /\ StopIsOwed
                    /\ FramesInv /\ GivenInv
  OBVIOUS
<1>1. \A id \in IDs : peers[id] = NoPeer /\ ~Known(id)
  BY DEF Init, Known
<1>2. <<>> \in Seq(Serials) /\ Len(<<>>) = 0
  OBVIOUS
<1>3. TypeOK
  <2>1. /\ buffers \in [IDs -> Seq(Serials)] /\ frames \in [IDs -> Seq(Serials)]
        /\ \A id \in IDs : Len(buffers[id]) <= QueueCap
    BY <1>2, Bounds DEF Init
  <2>2. heard \in [Serials -> [on : BOOLEAN, from : SUBSET (Serials \cup {InjectedFrame})]]
    BY DEF Init, Quiet
  <2>3. net \in [at : {"idle", "push", "release", "drop"}, id : IDs \cup {0},
                 serial : Serials \cup {0}] /\ net.at = "idle"
    BY DEF Init, NetIdle
  <2>4. peers \in [IDs -> Peer \cup {NoPeer}] /\ destActive \in [IDs -> BOOLEAN]
    BY DEF Init
  <2>5. /\ active \in IDs \cup {0} /\ selected \in IDs \cup {0}
        /\ candidates \subseteq Candidate /\ sources \subseteq Routes
        /\ dests \subseteq Routes /\ injected \subseteq Routes
        /\ pc = "refresh" /\ given \subseteq IDs
    BY DEF Init
  <2>6. serial \in 0..MaxSerial /\ now \in 1..MaxTime /\ chunks \in 0..MaxChunks
    BY Bounds DEF Init
  <2> QED
    BY <2>1, <2>2, <2>3, <2>4, <2>5, <2>6 DEF TypeOK
<1>4. SerialInv /\ DestInv /\ StopIsOwed
  BY <1>1 DEF Init, SerialInv, DestInv, StopIsOwed, NoPeer, NewPeer, Quiet, Serials
<1>5. FramesInv
  BY <1>2 DEF Init, FramesInv, NetIdle
<1>6. GivenInv
  BY <1>1, FS_EmptySet DEF Init, GivenInv
<1> QED
  BY <1>3, <1>4, <1>5, <1>6

-----------------------------------------------------------------------------
LEMMA TypePreserved ==
  TypeOK /\ [Next]_vars => TypeOK'
<1> SUFFICES ASSUME TypeOK, [Next]_vars PROVE TypeOK'
  OBVIOUS
<1> USE DEF table, router, tick, joined
<1>1. ASSUME NEW n \in Nodes, Join(n) PROVE TypeOK'
  <2>1. serial + 1 \in Serials /\ serial' = serial + 1 /\ LargestID + 1 \in IDs
    BY <1>1, Bounds DEF Join, TypeOK, Serials
  <2>2. NewPeer(serial', n) \in Peer
    BY <2>1, Bounds DEF NewPeer, Peer
  <2>3. peers' \in [IDs -> Peer \cup {NoPeer}]
    BY <1>1, <2>1, <2>2 DEF Join, TypeOK
  <2>4. serial' \in 0..MaxSerial /\ given' \subseteq IDs
    BY <1>1, <2>1 DEF Join, TypeOK, Serials
  <2> QED
    BY <1>1, <2>3, <2>4 DEF Join, TypeOK
<1>2. ASSUME NEW id \in IDs, NEW r \in RSSIs, ReceiveRSSI(id, r) PROVE TypeOK'
  <2>1. [peers[id] EXCEPT !.rssi = r, !.hasRSSI = TRUE] \in Peer
    BY <1>2, KnownPeer DEF ReceiveRSSI, Peer
  <2>2. peers' = [peers EXCEPT ![id] = [peers[id] EXCEPT !.rssi = r, !.hasRSSI = TRUE]]
    BY <1>2 DEF ReceiveRSSI, TypeOK
  <2>3. peers' \in [IDs -> Peer \cup {NoPeer}]
    BY <2>1, <2>2 DEF TypeOK
  <2> QED
    BY <1>2, <2>3 DEF ReceiveRSSI, TypeOK
<1>3. ASSUME NEW id \in IDs, MarkAudioSourceActivity(id) PROVE TypeOK'
  <2>1. peers[id] \in Peer /\ now \in 0..MaxTime
    BY <1>3, KnownPeer, Bounds DEF MarkAudioSourceActivity, TypeOK
  <2>2. peers' \in [IDs -> Peer \cup {NoPeer}]
    BY <1>3, <2>1 DEF MarkAudioSourceActivity, TypeOK, Peer
  <2>3. chunks' \in 0..MaxChunks
    BY <1>3, Bounds DEF MarkAudioSourceActivity, TypeOK
  <2>4. net' = [at |-> "push", id |-> id, serial |-> peers[id].serial]
        /\ peers[id].serial \in Serials
    BY <1>3, <2>1 DEF MarkAudioSourceActivity, Peer
  <2> QED
    BY <1>3, <2>2, <2>3, <2>4 DEF MarkAudioSourceActivity, TypeOK
<1>4. CASE Push
  <2>1. Trimmed \in Seq(Serials) /\ Len(Trimmed) <= QueueCap
    BY <1>4, TrimmedType DEF Push
  <2>2. buffers' = [buffers EXCEPT ![net.id] = Trimmed]
    BY <1>4 DEF Push, Trimmed, Queued
  <2>3. /\ buffers' \in [IDs -> Seq(Serials)]
        /\ \A id \in IDs : Len(buffers'[id]) <= QueueCap
    BY <2>1, <2>2 DEF TypeOK
  <2> QED
    BY <1>4, <2>3 DEF Push, TypeOK, NetIdle
<1>5. ASSUME NEW id \in IDs, MarkAudioSourceInactive(id) PROVE TypeOK'
  <2>1. peers[id] \in Peer /\ 0 \in 0..MaxTime
    BY <1>5, KnownPeer, Bounds DEF MarkAudioSourceInactive
  <2>2. peers' \in [IDs -> Peer \cup {NoPeer}]
    BY <1>5, <2>1 DEF MarkAudioSourceInactive, TypeOK, Peer
  <2>3. net' = [at |-> "release", id |-> id, serial |-> peers[id].serial]
        /\ peers[id].serial \in Serials
    BY <1>5, <2>1 DEF MarkAudioSourceInactive, Peer
  <2> QED
    BY <1>5, <2>2, <2>3 DEF MarkAudioSourceInactive, TypeOK
<1>6. CASE ReleaseActive
  BY <1>6 DEF ReleaseActive, TypeOK
<1>7. CASE RemoveSource
  <2>1. <<>> \in Seq(Serials) /\ Len(<<>>) = 0 /\ 0 <= QueueCap
    BY Bounds
  <2>2. /\ buffers' \in [IDs -> Seq(Serials)]
        /\ \A id \in IDs : Len(buffers'[id]) <= QueueCap
    BY <1>7, <2>1 DEF RemoveSource, TypeOK
  <2> QED
    BY <1>7, <2>2 DEF RemoveSource, TypeOK, NetIdle
<1>8. ASSUME NEW id \in IDs, RemovePeer(id) PROVE TypeOK'
  <2>1. <<>> \in Seq(Serials) /\ Len(<<>>) = 0 /\ 0 <= QueueCap
    BY Bounds
  <2>2. /\ buffers' \in [IDs -> Seq(Serials)]
        /\ \A i \in IDs : Len(buffers'[i]) <= QueueCap
    BY <1>8, <2>1 DEF RemovePeer, TypeOK
  <2> QED
    BY <1>8, <2>2 DEF RemovePeer, TypeOK
<1>9. ASSUME NEW id \in IDs, AudioTimesOut(id) PROVE TypeOK'
  <2>1. [peers[id] EXCEPT !.live = FALSE] \in Peer
    BY <1>9, KnownPeer DEF AudioTimesOut, IsLive, Peer
  <2>2. peers' \in [IDs -> Peer \cup {NoPeer}]
    BY <1>9, <2>1 DEF AudioTimesOut, TypeOK
  <2> QED
    BY <1>9, <2>2 DEF AudioTimesOut, TypeOK
<1>10. CASE TimePasses
  BY <1>10, Bounds DEF TimePasses, TypeOK
<1>11. CASE FindCandidates
  <2>1. candidates' \subseteq Candidate
    BY <1>11, KnownPeer DEF FindCandidates, IsLive, Candidate, Peer
  <2> QED
    BY <1>11, <2>1 DEF FindCandidates, TypeOK
<1>12. CASE Choose
  BY <1>12, ChoiceType DEF Choose, TypeOK
<1>13. CASE Swap
  BY <1>13 DEF Swap, TypeOK
<1>14. CASE AudioRoutingSnapshot
  <2>1. sources' \subseteq Routes /\ dests' \subseteq Routes
    BY <1>14, RouteType DEF AudioRoutingSnapshot, IsSource, IsLive, IsDestination
  <2> QED
    BY <1>14, <2>1 DEF AudioRoutingSnapshot, TypeOK
<1>15. CASE DiscardInactiveSources
  <2>1. <<>> \in Seq(Serials) /\ Len(<<>>) = 0 /\ 0 <= QueueCap
    BY Bounds
  <2>2. /\ buffers' \in [IDs -> Seq(Serials)]
        /\ \A id \in IDs : Len(buffers'[id]) <= QueueCap
    BY <1>15, <2>1 DEF DiscardInactiveSources, TypeOK
  <2> QED
    BY <1>15, <2>2 DEF DiscardInactiveSources, TypeOK
<1>16. CASE TakeFrames
  <2>1. <<>> \in Seq(Serials)
    OBVIOUS
  <2>2. frames' \in [IDs -> Seq(Serials)]
    BY <1>16, <2>1, FirstOfType DEF TakeFrames, TypeOK
  <2>3. \A id \in IDs : buffers[id] # <<>> =>
          /\ Tail(buffers[id]) \in Seq(Serials)
          /\ Len(Tail(buffers[id])) = Len(buffers[id]) - 1
    BY TailType DEF TypeOK
  <2>4. \A id \in IDs : Len(buffers[id]) \in Nat /\ buffers[id] \in Seq(Serials)
    BY DEF TypeOK
  <2>5. /\ buffers' \in [IDs -> Seq(Serials)]
        /\ \A id \in IDs : Len(buffers'[id]) <= QueueCap
    BY <1>16, <2>3, <2>4, Bounds DEF TakeFrames, TypeOK
  <2>6. injected' \subseteq Routes /\ chunks' \in 0..MaxChunks
    BY <1>16, Bounds DEF TakeFrames, TypeOK
  <2> QED
    BY <1>16, <2>2, <2>5, <2>6 DEF TakeFrames, TypeOK
<1>17. ASSUME NEW d \in dests, SendTo(d) PROVE TypeOK'
  <2>1. d.id \in IDs /\ d.serial \in Serials
    BY DEF TypeOK, Routes
  <2>2. destActive' \in [IDs -> BOOLEAN]
    BY <1>17, <2>1 DEF SendTo, TypeOK
  <2>3. heard' \in [Serials -> [on : BOOLEAN, from : SUBSET (Serials \cup {InjectedFrame})]]
    <3>1. /\ [on |-> TRUE, from |-> Mixed(d)]
               \in [on : BOOLEAN, from : SUBSET (Serials \cup {InjectedFrame})]
          /\ Quiet \in [on : BOOLEAN, from : SUBSET (Serials \cup {InjectedFrame})]
      BY MixedType DEF Quiet
    <3>2. \/ heard' = [heard EXCEPT ![d.serial] = [on |-> TRUE, from |-> Mixed(d)]]
          \/ heard' = [heard EXCEPT ![d.serial] = Quiet]
          \/ heard' = heard
      BY <1>17 DEF SendTo
    <3>3. heard \in [Serials -> [on : BOOLEAN, from : SUBSET (Serials \cup {InjectedFrame})]]
      BY DEF TypeOK
    <3> HIDE DEF Quiet
    <3> QED
      BY <2>1, <3>1, <3>2, <3>3, Zenon
  <2>4. dests' \subseteq Routes
    BY <1>17 DEF SendTo, TypeOK
  <2>5. UNCHANGED <<peers, active, buffers, net, pc, candidates, selected, sources,
                    frames, injected, serial, given, now, chunks>>
    BY <1>17 DEF SendTo
  <2> QED
    BY <2>2, <2>3, <2>4, <2>5 DEF TypeOK
<1>18. CASE EndTick
  <2>1. frames' \in [IDs -> Seq(Serials)]
    BY <1>18 DEF EndTick
  <2> QED
    BY <1>18, <2>1 DEF EndTick, TypeOK
<1>19. CASE UNCHANGED vars
  BY <1>19 DEF vars, TypeOK
<1> QED
  BY <1>1, <1>2, <1>3, <1>4, <1>5, <1>6, <1>7, <1>8, <1>9, <1>10, <1>11, <1>12,
     <1>13, <1>14, <1>15, <1>16, <1>17, <1>18, <1>19 DEF Next, NetStep, RouterStep

-----------------------------------------------------------------------------
(* Serials and IDs. *)

LEMMA PeerSerial ==
  \A p \in Peer \cup {NoPeer} : /\ p = NoPeer <=> p.serial = 0
                                /\ p.serial \in Serials \cup {0}
BY DEF Peer, NoPeer, NewPeer, Serials

LEMMA SerialsArePositive == \A s \in Serials : s \in Nat /\ s # 0
BY Bounds DEF Serials

(* No step gives a peer of the table another serial: it stays, it leaves,  *)
(* or a new peer, with a new serial, takes its ID.                         *)
SerialsStay ==
  /\ serial' >= serial
  /\ \A id \in IDs : \/ peers'[id].serial = peers[id].serial
                     \/ peers'[id].serial = 0
                     \/ (peers'[id].serial > serial /\ peers'[id].serial = serial')
  /\ \A i, j \in IDs : peers'[i].serial > serial /\ peers'[j].serial > serial => i = j

LEMMA StepSerials ==
  ASSUME TypeOK, SerialInv, [Next]_vars
  PROVE  SerialsStay
<1> USE DEF table, router, tick, joined
<1>0. /\ serial \in Nat /\ peers \in [IDs -> Peer \cup {NoPeer}]
      /\ \A id \in IDs : peers[id].serial \in Nat /\ peers[id].serial <= serial
  <2>1. serial \in Nat /\ peers \in [IDs -> Peer \cup {NoPeer}]
    BY Bounds DEF TypeOK
  <2>2. \A p \in Peer \cup {NoPeer} : p.serial \in Nat
    BY PeerSerial, SerialsArePositive
  <2>3. \A id \in IDs : peers[id] \in Peer \cup {NoPeer}
    BY <2>1
  <2>4. \A id \in IDs : peers[id].serial <= serial
    BY DEF SerialInv
  <2> QED
    BY <2>1, <2>2, <2>3, <2>4
<1>1. ASSUME NEW n \in Nodes, Join(n) PROVE SerialsStay
  <2>1. /\ serial' = serial + 1 /\ LargestID + 1 \in IDs
        /\ peers' = [peers EXCEPT ![LargestID + 1] = NewPeer(serial', n)]
    BY <1>1 DEF Join
  <2>2. NewPeer(serial', n).serial = serial'
    BY DEF NewPeer
  <2> QED
    BY <1>0, <2>1, <2>2 DEF SerialsStay
<1>2. ASSUME NEW id \in IDs, RemovePeer(id) PROVE SerialsStay
  BY <1>0, <1>2 DEF RemovePeer, SerialsStay, NoPeer, NewPeer, joined
<1>3. ASSUME NEW id \in IDs, NEW r \in RSSIs, ReceiveRSSI(id, r) PROVE SerialsStay
  BY <1>0, <1>3, KnownPeer DEF ReceiveRSSI, SerialsStay, Peer
<1>4. ASSUME NEW id \in IDs, MarkAudioSourceActivity(id) PROVE SerialsStay
  BY <1>0, <1>4, KnownPeer DEF MarkAudioSourceActivity, SerialsStay, Peer
<1>5. ASSUME NEW id \in IDs, MarkAudioSourceInactive(id) PROVE SerialsStay
  BY <1>0, <1>5, KnownPeer DEF MarkAudioSourceInactive, SerialsStay, Peer
<1>6. ASSUME NEW id \in IDs, AudioTimesOut(id) PROVE SerialsStay
  BY <1>0, <1>6, KnownPeer DEF AudioTimesOut, IsLive, SerialsStay, Peer
<1>7. CASE UNCHANGED <<peers, serial>>
  BY <1>0, <1>7 DEF SerialsStay
<1>8. NetStep \/ TimePasses \/ RouterStep \/ UNCHANGED vars => UNCHANGED <<peers, serial>>
  BY DEF NetStep, Push, ReleaseActive, RemoveSource, TimePasses, RouterStep,
         FindCandidates, Choose, Swap, AudioRoutingSnapshot, DiscardInactiveSources,
         TakeFrames, SendTo, EndTick, vars
<1> QED
  BY <1>1, <1>2, <1>3, <1>4, <1>5, <1>6, <1>7, <1>8 DEF Next

(* A step that sends no packet and takes no snapshot keeps OwedInv, if the *)
(* active flag of a destination is cleared with its peer only.             *)
LEMMA OwedStays ==
  ASSUME TypeOK, TypeOK', SerialsStay, OwedInv, UNCHANGED <<heard, dests>>,
         \A id \in IDs : destActive[id] => destActive'[id] \/ ~Known(id)'
  PROVE  OwedInv'
<1>1. /\ serial \in Nat /\ serial' \in Nat /\ serial' >= serial
      /\ \A id \in IDs : /\ peers[id].serial \in Nat /\ peers'[id].serial \in Nat
                         /\ Known(id) <=> peers[id].serial # 0
                         /\ Known(id)' <=> peers'[id].serial # 0
                         /\ Known(id) => peers[id].serial \in Serials
                         /\ Known(id)' => peers'[id].serial \in Serials
  <2>1. serial \in Nat /\ serial' \in Nat /\ serial' >= serial
    BY Bounds DEF TypeOK, SerialsStay
  <2>2. \A id \in IDs : peers[id] \in Peer \cup {NoPeer} /\ peers'[id] \in Peer \cup {NoPeer}
    BY DEF TypeOK
  <2>3. \A p \in Peer \cup {NoPeer} : p.serial \in Nat /\ (p # NoPeer <=> p.serial # 0)
                                      /\ (p # NoPeer => p.serial \in Serials)
    BY PeerSerial, SerialsArePositive
  <2> QED
    BY <2>1, <2>2, <2>3 DEF Known
<1>2. \A id \in IDs : \/ peers'[id].serial = peers[id].serial
                      \/ peers'[id].serial = 0
                      \/ (peers'[id].serial > serial /\ peers'[id].serial = serial')
  BY DEF SerialsStay
<1>3. \A d \in dests : d.id \in IDs /\ d.serial \in Nat /\ d.serial # 0
  BY SerialsArePositive DEF TypeOK, Routes
<1>4. SerialInv'
  <2>1. /\ \A i, j \in IDs : peers[i].serial # 0 /\ peers[i].serial = peers[j].serial
                               => i = j
        /\ \A id \in IDs : peers[id].serial <= serial
        /\ \A s \in Serials : heard[s].on => s <= serial
    BY <1>1 DEF OwedInv, SerialInv
  <2>2. \A i, j \in IDs : peers'[i].serial # 0 /\ peers'[i].serial = peers'[j].serial
                               => i = j
    <3> SUFFICES ASSUME NEW i \in IDs, NEW j \in IDs, peers'[i].serial # 0,
                        peers'[i].serial = peers'[j].serial
                 PROVE  i = j
      OBVIOUS
    <3>1. CASE peers'[i].serial = peers[i].serial /\ peers'[j].serial = peers[j].serial
      BY <2>1, <3>1
    <3>2. CASE peers'[i].serial > serial \/ peers'[j].serial > serial
      BY <1>1, <1>2, <2>1, <3>2 DEF SerialsStay
    <3> QED
      BY <1>2, <3>1, <3>2
  <2>3. \A id \in IDs : peers'[id].serial <= serial'
    BY <1>1, <1>2, <2>1, SerialsArePositive
  <2>4. \A s \in Serials : heard'[s].on => s <= serial'
    BY <1>1, <2>1, SerialsArePositive
  <2> QED
    BY <1>1, <2>2, <2>3, <2>4 DEF SerialInv
<1>5. DestInv'
  <2>1. \A d, e \in dests' : d.id = e.id => d = e
    BY DEF OwedInv, DestInv
  <2>2. ASSUME NEW d \in dests
        PROVE  /\ d.serial <= serial'
               /\ \A id \in IDs : peers'[id].serial = d.serial => id = d.id
               /\ Known(d.id)' /\ peers'[d.id].serial # d.serial
                    => ~heard[peers'[d.id].serial].on
    <3>1. /\ d.serial <= serial
          /\ \A id \in IDs : peers[id].serial = d.serial => id = d.id
          /\ Known(d.id) /\ peers[d.id].serial # d.serial
               => ~heard[peers[d.id].serial].on
      BY DEF OwedInv, DestInv
    <3>2. \A s \in Serials : heard[s].on => s <= serial
      BY DEF OwedInv, SerialInv
    <3>3. d.serial <= serial'
      BY <1>1, <1>3, <3>1
    <3>4. ASSUME NEW id \in IDs, peers'[id].serial = d.serial PROVE id = d.id
      BY <1>1, <1>2, <1>3, <3>1, <3>4
    <3>5. ASSUME Known(d.id)', peers'[d.id].serial # d.serial
          PROVE  ~heard[peers'[d.id].serial].on
      <4>1. d.id \in IDs
        BY <1>3
      <4>2. CASE peers'[d.id].serial = peers[d.id].serial
        BY <1>1, <3>1, <3>5, <4>1, <4>2
      <4>3. CASE peers'[d.id].serial > serial
        BY <1>1, <3>2, <3>5, <4>1, <4>3
      <4> QED
        BY <1>1, <1>2, <3>5, <4>1, <4>2, <4>3
    <3> QED
      BY <3>3, <3>4, <3>5
  <2> QED
    BY <2>1, <2>2 DEF DestInv
<1>6. StopIsOwed'
  <2> SUFFICES ASSUME NEW id \in IDs, Known(id)', heard[peers'[id].serial].on
               PROVE  destActive'[id]
    BY DEF StopIsOwed
  <2>1. peers'[id].serial = peers[id].serial
    BY <1>1, <1>2, SerialsArePositive DEF OwedInv, SerialInv
  <2> QED
    BY <1>1, <2>1 DEF OwedInv, StopIsOwed
<1> QED
  BY <1>4, <1>5, <1>6 DEF OwedInv

(* The snapshot lists every destination with the peer it has now. *)
LEMMA OwedAfterSnapshot ==
  ASSUME TypeOK, OwedInv, AudioRoutingSnapshot
  PROVE  OwedInv'
<1> USE DEF table, router, joined
<1>1. UNCHANGED <<peers, destActive, heard, serial>>
  BY DEF AudioRoutingSnapshot
<1>2. \A d \in dests' : d.id \in IDs /\ Known(d.id) /\ d = Route(d.id)
  BY DEF AudioRoutingSnapshot, IsDestination, Route
<1>3. \A d \in dests' : d.serial = peers[d.id].serial
  BY <1>2 DEF Route
<1>4. DestInv'
  <2>1. \A d, e \in dests' : d.id = e.id => d = e
    BY <1>2
  <2>2. ASSUME NEW d \in dests'
        PROVE  /\ d.serial <= serial
               /\ \A id \in IDs : peers[id].serial = d.serial => id = d.id
               /\ peers[d.id].serial = d.serial
    BY <1>2, <1>3 DEF OwedInv, SerialInv
  <2> QED
    BY <1>1, <2>1, <2>2 DEF DestInv
<1> QED
  BY <1>1, <1>4 DEF OwedInv, SerialInv, StopIsOwed, Known

(* A packet, or none, for one destination. *)
LEMMA OwedAfterSend ==
  ASSUME TypeOK, OwedInv, NEW d \in dests, SendTo(d)
  PROVE  OwedInv'
<1> USE DEF table, joined
<1> DEFINE on == Inputs(d) # {} \/ d \in injected
<1>1. UNCHANGED <<peers, serial>> /\ dests' = dests \ {d}
  BY DEF SendTo
<1>2. d.id \in IDs /\ d.serial \in Serials
  BY DEF TypeOK, Routes
<1>3. /\ \A i \in IDs : i # d.id => destActive'[i] = destActive[i]
      /\ \A s \in Serials : s # d.serial => heard'[s] = heard[s]
      /\ heard'[d.serial].on => destActive'[d.id] \/ (heard' = heard /\ destActive' = destActive)
  <2>1. \/ /\ destActive' = [destActive EXCEPT ![d.id] = TRUE]
           /\ \E f : heard' = [heard EXCEPT ![d.serial] = [on |-> TRUE, from |-> f]]
        \/ /\ destActive' = [destActive EXCEPT ![d.id] = FALSE]
           /\ heard' = [heard EXCEPT ![d.serial] = Quiet]
        \/ heard' = heard /\ destActive' = destActive
    BY DEF SendTo
  <2>2. /\ heard \in [Serials -> [on : BOOLEAN, from : SUBSET (Serials \cup {InjectedFrame})]]
        /\ destActive \in [IDs -> BOOLEAN] /\ ~Quiet.on
    BY DEF TypeOK, Quiet
  <2> HIDE DEF Quiet
  <2>3. CASE /\ destActive' = [destActive EXCEPT ![d.id] = TRUE]
             /\ \E f : heard' = [heard EXCEPT ![d.serial] = [on |-> TRUE, from |-> f]]
    <3>1. destActive'[d.id] /\ \A i \in IDs : i # d.id => destActive'[i] = destActive[i]
      BY <1>2, <2>2, <2>3
    <3>2. \A s \in Serials : s # d.serial => heard'[s] = heard[s]
      BY <2>2, <2>3
    <3>3. heard'[d.serial].on => destActive'[d.id] \/ (heard' = heard /\ destActive' = destActive)
      BY <3>1
    <3> QED
      BY <3>1, <3>2, <3>3, Zenon
  <2>4. CASE /\ destActive' = [destActive EXCEPT ![d.id] = FALSE]
             /\ heard' = [heard EXCEPT ![d.serial] = Quiet]
    BY <1>2, <2>2, <2>4
  <2>5. CASE heard' = heard /\ destActive' = destActive
    BY <2>5
  <2> QED
    BY <2>1, <2>3, <2>4, <2>5
<1>4. \A i \in IDs : Known(i) => peers[i].serial \in Serials
  BY PeerSerial DEF TypeOK, Known
<1>5. /\ d.serial <= serial
      /\ \A i \in IDs : peers[i].serial = d.serial => i = d.id
      /\ Known(d.id) /\ peers[d.id].serial # d.serial => ~heard[peers[d.id].serial].on
  BY DEF OwedInv, DestInv
<1>6. SerialInv'
  BY <1>1, <1>3, <1>5 DEF OwedInv, SerialInv, Known
<1>7. DestInv'
  <2>1. ASSUME NEW e \in dests' PROVE /\ e.id # d.id /\ e.id \in IDs
                                      /\ Known(e.id) => peers[e.id].serial # d.serial
    BY <1>1, <1>5 DEF OwedInv, DestInv, TypeOK, Routes
  <2>2. ASSUME NEW e \in dests', Known(e.id), peers[e.id].serial # e.serial
        PROVE  ~heard'[peers[e.id].serial].on
    BY <1>1, <1>3, <1>4, <2>1, <2>2 DEF OwedInv, DestInv
  <2> QED
    BY <1>1, <2>2 DEF OwedInv, DestInv, Known
<1>8. StopIsOwed'
  <2> SUFFICES ASSUME NEW i \in IDs, Known(i), heard'[peers[i].serial].on
               PROVE  destActive'[i]
    BY <1>1 DEF StopIsOwed, Known
  <2>1. CASE peers[i].serial = d.serial
    BY <1>3, <1>5, <2>1 DEF OwedInv, StopIsOwed
  <2>2. CASE peers[i].serial # d.serial
    BY <1>3, <1>4, <1>5, <2>2 DEF OwedInv, StopIsOwed
  <2> QED
    BY <2>1, <2>2
<1> QED
  BY <1>6, <1>7, <1>8 DEF OwedInv

LEMMA OwedPreserved ==
  ASSUME TypeOK, OwedInv, [Next]_vars
  PROVE  OwedInv'
<1> USE DEF table, router, tick, joined
<1>1. TypeOK'
  BY TypePreserved
<1>2. SerialsStay
  BY StepSerials DEF OwedInv
<1>3. CASE AudioRoutingSnapshot
  BY <1>3, OwedAfterSnapshot
<1>4. ASSUME NEW d \in dests, SendTo(d) PROVE OwedInv'
  BY <1>4, OwedAfterSend
<1>5. ASSUME NEW id \in IDs, RemovePeer(id) PROVE OwedInv'
  <2>1. /\ UNCHANGED <<heard, dests>> /\ ~Known(id)'
        /\ \A i \in IDs : i # id => destActive'[i] = destActive[i]
    BY <1>5 DEF RemovePeer, Known, TypeOK
  <2> QED
    BY <1>1, <1>2, <2>1, OwedStays
<1>6. CASE EndTick
  <2>1. UNCHANGED <<heard, destActive, dests>>
    BY <1>6 DEF EndTick
  <2> QED
    BY <1>1, <1>2, <2>1, OwedStays
<1>7. CASE UNCHANGED <<heard, destActive, dests>>
  BY <1>1, <1>2, <1>7, OwedStays
<1>8. \/ NetStep \/ TimePasses \/ UNCHANGED vars \/ FindCandidates \/ Choose \/ Swap
      \/ DiscardInactiveSources \/ TakeFrames
      \/ \E n \in Nodes : Join(n)
      \/ \E id \in IDs, r \in RSSIs : ReceiveRSSI(id, r)
      \/ \E id \in IDs : \/ MarkAudioSourceActivity(id) \/ MarkAudioSourceInactive(id)
                         \/ AudioTimesOut(id)
      => UNCHANGED <<heard, destActive, dests>>
  BY DEF NetStep, Push, ReleaseActive, RemoveSource, TimePasses, FindCandidates,
         Choose, Swap, DiscardInactiveSources, TakeFrames, Join, ReceiveRSSI,
         MarkAudioSourceActivity, MarkAudioSourceInactive, AudioTimesOut, vars
<1> QED
  BY <1>3, <1>4, <1>5, <1>6, <1>7, <1>8 DEF Next, RouterStep

-----------------------------------------------------------------------------
(* Whose frames are in a buffer, and which ID was given to whom. *)

(* Belongs, of a value of this state, in the next one. *)
StillBelongs(s, id) ==
  s <= serial' /\ \A i \in IDs : peers'[i].serial = s => i = id

LEMMA BelongsStays ==
  ASSUME TypeOK, TypeOK', SerialsStay, NEW s \in Serials, NEW id \in IDs, Belongs(s, id)
  PROVE  StillBelongs(s, id)
<1>1. s \in Nat /\ s # 0 /\ serial \in Nat /\ serial' \in Nat
  BY SerialsArePositive, Bounds DEF TypeOK
<1>2. s <= serial'
  BY <1>1 DEF Belongs, SerialsStay
<1>3. ASSUME NEW i \in IDs, peers'[i].serial = s PROVE i = id
  BY <1>1, <1>3 DEF Belongs, SerialsStay
<1> QED
  BY <1>2, <1>3 DEF StillBelongs

LEMMA FramesPreserved ==
  ASSUME TypeOK, TypeOK', SerialInv, SerialsStay, FramesInv, [Next]_vars
  PROVE  FramesInv'
<1> USE DEF table, router, tick, joined
<1> DEFINE Ok(q, id) == \A k \in 1..Len(q) : StillBelongs(q[k], id)
<1>1. /\ net.at # "idle" => StillBelongs(net.serial, net.id)
      /\ \A id \in IDs : Ok(buffers[id], id) /\ Ok(frames[id], id)
  <2>1. \A id \in IDs : buffers[id] \in Seq(Serials) /\ frames[id] \in Seq(Serials)
    BY DEF TypeOK
  <2>2. ASSUME NEW id \in IDs, NEW k \in 1..Len(buffers[id])
        PROVE  StillBelongs(buffers[id][k], id)
    BY <2>1, BelongsStays DEF FramesInv
  <2>3. ASSUME NEW id \in IDs, NEW k \in 1..Len(frames[id])
        PROVE  StillBelongs(frames[id][k], id)
    BY <2>1, BelongsStays DEF FramesInv
  <2>4. net.at # "idle" => StillBelongs(net.serial, net.id)
    BY BelongsStays DEF FramesInv, TypeOK
  <2> QED
    BY <2>2, <2>3, <2>4
<1>2. FramesInv' <=> /\ net'.at # "idle" => StillBelongs(net'.serial, net'.id)
                     /\ \A id \in IDs : Ok(buffers'[id], id) /\ Ok(frames'[id], id)
  BY DEF FramesInv, Belongs, StillBelongs
<1>3. \A id \in IDs : Ok(<<>>, id)
  OBVIOUS
<1>4. ASSUME NEW id \in IDs, MarkAudioSourceActivity(id) \/ MarkAudioSourceInactive(id)
      PROVE  FramesInv'
  <2>1. /\ UNCHANGED <<buffers, frames>>
        /\ net'.serial = peers[id].serial /\ net'.id = id /\ Known(id)
    BY <1>4 DEF MarkAudioSourceActivity, MarkAudioSourceInactive
  <2>2. peers[id].serial \in Serials
    BY <2>1, KnownPeer DEF Peer
  <2>3. Belongs(peers[id].serial, id)
    BY <2>1 DEF Belongs, SerialInv
  <2> QED
    BY <1>1, <1>2, <2>1, <2>2, <2>3, BelongsStays
<1>5. CASE Push
  <2>1. /\ UNCHANGED frames /\ net' = NetIdle /\ net.id \in IDs
        /\ buffers' = [buffers EXCEPT ![net.id] = Trimmed]
    BY <1>5 DEF Push, Trimmed, Queued, TypeOK
  <2>2. Ok(Trimmed, net.id)
    BY <1>1, <1>5, <2>1, TrimmedType DEF Push
  <2>3. \A id \in IDs : buffers'[id] = IF id = net.id THEN Trimmed ELSE buffers[id]
    BY <2>1 DEF TypeOK
  <2> QED
    BY <1>1, <1>2, <2>1, <2>2, <2>3 DEF NetIdle
<1>6. CASE ReleaseActive
  <2>1. /\ UNCHANGED <<buffers, frames>>
        /\ net'.serial = net.serial /\ net'.id = net.id /\ net.at # "idle"
    BY <1>6 DEF ReleaseActive, TypeOK
  <2> QED
    BY <1>1, <1>2, <2>1
<1>7. CASE RemoveSource
  <2>1. /\ UNCHANGED frames /\ net' = NetIdle
        /\ \A id \in IDs : buffers'[id] \in {<<>>, buffers[id]}
    BY <1>7 DEF RemoveSource, TypeOK
  <2> QED
    BY <1>1, <1>2, <1>3, <2>1 DEF NetIdle
<1>8. ASSUME NEW i \in IDs, RemovePeer(i) PROVE FramesInv'
  <2>1. /\ UNCHANGED <<frames, net>>
        /\ \A id \in IDs : buffers'[id] \in {<<>>, buffers[id]}
    BY <1>8 DEF RemovePeer, TypeOK
  <2> QED
    BY <1>1, <1>2, <1>3, <2>1
<1>9. CASE DiscardInactiveSources
  <2>1. /\ UNCHANGED <<frames, net>>
        /\ \A id \in IDs : buffers'[id] \in {<<>>, buffers[id]}
    BY <1>9 DEF DiscardInactiveSources
  <2> QED
    BY <1>1, <1>2, <1>3, <2>1
<1>10. CASE TakeFrames
  <2>1. \A id \in IDs : buffers[id] \in Seq(Serials)
    BY DEF TypeOK
  <2>2. /\ UNCHANGED net
        /\ \A id \in IDs : frames'[id] \in {<<>>, FirstOf(buffers[id])}
        /\ \A id \in IDs : \/ buffers'[id] = buffers[id]
                           \/ buffers[id] # <<>> /\ buffers'[id] = Tail(buffers[id])
    BY <1>10 DEF TakeFrames
  <2>3. \A id \in IDs : Ok(FirstOf(buffers[id]), id)
    BY <1>1, <2>1, FirstOfType
  <2>4. \A id \in IDs : buffers[id] # <<>> => Ok(Tail(buffers[id]), id)
    BY <1>1, <2>1, TailType
  <2>5. \A id \in IDs : Ok(frames'[id], id)
    BY <1>3, <2>2, <2>3
  <2>6. \A id \in IDs : Ok(buffers'[id], id)
    BY <1>1, <2>2, <2>4
  <2> QED
    BY <1>1, <1>2, <2>2, <2>5, <2>6
<1>11. CASE EndTick
  <2>1. UNCHANGED <<buffers, net>> /\ \A id \in IDs : frames'[id] = <<>>
    BY <1>11 DEF EndTick
  <2> QED
    BY <1>1, <1>2, <1>3, <2>1
<1>12. CASE UNCHANGED <<buffers, frames, net>>
  BY <1>1, <1>2, <1>12
<1>13. \/ TimePasses \/ UNCHANGED vars \/ FindCandidates \/ Choose \/ Swap
       \/ AudioRoutingSnapshot
       \/ \E d \in dests : SendTo(d)
       \/ \E n \in Nodes : Join(n)
       \/ \E id \in IDs, r \in RSSIs : ReceiveRSSI(id, r)
       \/ \E id \in IDs : AudioTimesOut(id)
       => UNCHANGED <<buffers, frames, net>>
  BY DEF TimePasses, FindCandidates, Choose, Swap, AudioRoutingSnapshot, SendTo, Join,
         ReceiveRSSI, AudioTimesOut, vars
<1> QED
  BY <1>4, <1>5, <1>6, <1>7, <1>8, <1>9, <1>10, <1>11, <1>12, <1>13
  DEF Next, NetStep, RouterStep

LEMMA GivenPreserved ==
  ASSUME TypeOK, GivenInv, [Next]_vars
  PROVE  GivenInv'
<1> USE DEF table, router, tick, joined
<1>0. /\ IsFiniteSet(given) /\ Cardinality(given) \in Nat /\ serial \in Nat
      /\ \A id \in IDs : Known(id) => id \in given
      /\ \A r \in sources : r.id \in given /\ r.id \in IDs
  BY FS_CardinalityType, Bounds DEF GivenInv, TypeOK, Routes
<1>1. ASSUME NEW n \in Nodes, Join(n) PROVE GivenInv'
  <2> DEFINE k == LargestID + 1
  <2>1. /\ serial' = serial + 1 /\ k \in IDs /\ given' = given \cup {k}
        /\ UNCHANGED sources
        /\ \A id \in IDs : id # k => peers'[id] = peers[id]
    BY <1>1 DEF Join, TypeOK
  <2>2. /\ IsFiniteSet(given \cup {k})
        /\ Cardinality(given \cup {k}) =
             IF k \in given THEN Cardinality(given) ELSE Cardinality(given) + 1
    BY <1>0, FS_AddElement
  <2>3. IsFiniteSet(given') /\ Cardinality(given') <= serial'
    BY <1>0, <2>1, <2>2 DEF GivenInv
  <2>4. \A id \in IDs : Known(id)' => id \in given'
    BY <1>0, <2>1 DEF Known
  <2>5. ASSUME serial' = Cardinality(given'), NEW r \in sources, Known(r.id)'
        PROVE  peers'[r.id].node = r.node
    <3>1. k \notin given /\ serial = Cardinality(given)
      BY <1>0, <2>1, <2>2, <2>5 DEF GivenInv
    <3>2. peers'[r.id] = peers[r.id] /\ Known(r.id)
      BY <1>0, <2>1, <2>5, <3>1 DEF Known
    <3> QED
      BY <3>1, <3>2 DEF GivenInv
  <2> HIDE DEF k
  <2> QED
    BY <1>0, <2>1, <2>3, <2>4, <2>5 DEF GivenInv
<1>2. CASE AudioRoutingSnapshot
  <2>1. /\ UNCHANGED <<peers, serial, given>>
        /\ \A r \in sources' : r.id \in IDs /\ Known(r.id) /\ r.node = peers[r.id].node
    BY <1>2 DEF AudioRoutingSnapshot, IsSource, IsLive, Route
  <2> QED
    BY <1>0, <2>1 DEF GivenInv, Known
<1>3. CASE EndTick
  BY <1>3 DEF EndTick, GivenInv, Known
<1>4. ASSUME UNCHANGED <<serial, given, sources>>,
             \A id \in IDs : peers'[id] # NoPeer =>
               peers[id] # NoPeer /\ peers'[id].node = peers[id].node
      PROVE  GivenInv'
  BY <1>0, <1>4 DEF GivenInv, Known
<1>5. ASSUME NEW id \in IDs, RemovePeer(id) PROVE GivenInv'
  <2>1. \A i \in IDs : peers'[i] # NoPeer => peers'[i] = peers[i]
    BY <1>5 DEF RemovePeer, TypeOK
  <2>2. UNCHANGED <<serial, given, sources>>
    BY <1>5 DEF RemovePeer
  <2> QED
    BY <1>4, <2>1, <2>2
<1>6. ASSUME NEW id \in IDs,
             \/ \E r \in RSSIs : ReceiveRSSI(id, r)
             \/ MarkAudioSourceActivity(id) \/ MarkAudioSourceInactive(id)
             \/ AudioTimesOut(id)
      PROVE  GivenInv'
  <2>1. /\ Known(id) /\ UNCHANGED <<serial, given, sources>>
        /\ \A i \in IDs : i # id => peers'[i] = peers[i]
    BY <1>6 DEF ReceiveRSSI, MarkAudioSourceActivity, MarkAudioSourceInactive,
                AudioTimesOut, IsLive, TypeOK
  <2>2. peers[id] \in Peer
    BY <2>1, KnownPeer
  <2>3. peers'[id].node = peers[id].node
    <3>1. CASE \E r \in RSSIs : ReceiveRSSI(id, r)
      BY <2>2, <3>1 DEF ReceiveRSSI, TypeOK, Peer
    <3>2. CASE MarkAudioSourceActivity(id)
      BY <2>2, <3>2 DEF MarkAudioSourceActivity, TypeOK, Peer
    <3>3. CASE MarkAudioSourceInactive(id)
      BY <2>2, <3>3 DEF MarkAudioSourceInactive, TypeOK, Peer
    <3>4. CASE AudioTimesOut(id)
      BY <2>2, <3>4 DEF AudioTimesOut, TypeOK, Peer
    <3> QED
      BY <1>6, <3>1, <3>2, <3>3, <3>4
  <2> QED
    BY <1>4, <2>1, <2>3 DEF Known
<1>7. CASE UNCHANGED <<peers, serial, given, sources>>
  BY <1>4, <1>7
<1>8. \/ NetStep \/ TimePasses \/ UNCHANGED vars \/ FindCandidates \/ Choose \/ Swap
      \/ DiscardInactiveSources \/ TakeFrames
      \/ \E d \in dests : SendTo(d)
      => UNCHANGED <<peers, serial, given, sources>>
  BY DEF NetStep, Push, ReleaseActive, RemoveSource, TimePasses, FindCandidates,
         Choose, Swap, DiscardInactiveSources, TakeFrames, SendTo, vars
<1> QED
  BY <1>1, <1>2, <1>3, <1>5, <1>6, <1>7, <1>8 DEF Next, RouterStep

LEMMA SendKeepsOut ==
  ASSUME TypeOK, FramesInv, GivenInv, NEW d \in dests, SendTo(d), destActive'[d.id],
         d.node.type = "interface", serial = Cardinality(given),
         NEW id \in IDs, Known(id), peers[id].node.type = "interface"
  PROVE  peers[id].serial \notin heard'[d.serial].from
<1>1. d.id \in IDs /\ d.serial \in Serials
  BY DEF TypeOK, Routes
<1>2. heard'[d.serial].from = Mixed(d)
  <2>1. Inputs(d) # {} \/ d \in injected
    BY <1>1 DEF SendTo, TypeOK
  <2>2. heard' = [heard EXCEPT ![d.serial] = [on |-> TRUE, from |-> Mixed(d)]]
    BY <2>1 DEF SendTo
  <2> QED
    BY <1>1, <2>2 DEF TypeOK
<1>3. peers[id].serial \in Serials
  BY KnownPeer DEF Peer
<1>4. CASE d \in injected
  <2>1. Mixed(d) = {0}
    BY <1>4 DEF Mixed, InjectedFrame
  <2> QED
    BY <1>2, <1>3, <2>1, SerialsArePositive
<1>5. CASE d \notin injected
  <2> SUFFICES ASSUME NEW r \in Inputs(d), NEW k \in 1..Len(frames[r.id]),
                      frames[r.id][k] = peers[id].serial
               PROVE  FALSE
    BY <1>2, <1>5 DEF Mixed
  <2>1. r \in sources /\ r.id \in IDs /\ r.node.type # "interface"
    BY DEF Inputs, ShouldRouteAudio, TypeOK, Routes
  <2>2. id = r.id
    BY <2>1 DEF FramesInv, Belongs
  <2>3. peers[r.id].node = r.node
    BY <2>1, <2>2 DEF GivenInv
  <2> QED
    BY <2>1, <2>2, <2>3
<1> QED
  BY <1>4, <1>5

-----------------------------------------------------------------------------
AudioInv == TypeOK /\ OwedInv /\ FramesInv /\ GivenInv

LEMMA AudioInvariant == Spec => []AudioInv
<1>1. Init => AudioInv
  BY InitInv DEF AudioInv, OwedInv
<1>2. ASSUME AudioInv, [Next]_vars PROVE AudioInv'
  <2>1. TypeOK' /\ OwedInv' /\ GivenInv'
    BY <1>2, TypePreserved, OwedPreserved, GivenPreserved
    DEF AudioInv
  <2>2. SerialInv /\ SerialsStay
    BY <1>2, StepSerials DEF AudioInv, OwedInv
  <2>3. FramesInv'
    BY <1>2, <2>1, <2>2, FramesPreserved DEF AudioInv
  <2> QED
    BY <2>1, <2>3 DEF AudioInv
<1> QED
  BY <1>1, <1>2, PTL DEF Spec

(* Every variable of the router, of networkLoop's handler and of the peer  *)
(* table has its type, and no buffer grows past its bound.                 *)
THEOREM AudioTypeCorrect == Spec => []TypeOK
<1>1. AudioInv => TypeOK
  BY DEF AudioInv
<1> QED
  BY <1>1, AudioInvariant, PTL

(* A destination in the table that hears audio is marked active, so that   *)
(* it is owed the empty packet that unkeys it.                             *)
THEOREM StopIsOwedCorrect == Spec => []StopIsOwed
<1>1. AudioInv => StopIsOwed
  BY DEF AudioInv, OwedInv
<1> QED
  BY <1>1, AudioInvariant, PTL

(* While no ID has been given out twice, what an Interface is sent holds   *)
(* no frame of an Interface, its own included.                             *)
THEOREM NoEchoCorrect == Spec => NoEcho
<1>1. ASSUME AudioInv, [Next]_vars
      PROVE  [\A d \in dests :
                /\ SendTo(d) /\ destActive'[d.id]
                /\ d.node.type = "interface" /\ serial = Cardinality(given)
                => \A id \in IDs : Known(id) /\ peers[id].node.type = "interface"
                     => peers[id].serial \notin heard'[d.serial].from]_vars
  BY <1>1, SendKeepsOut DEF AudioInv
<1> QED
  BY <1>1, AudioInvariant, PTL DEF Spec, NoEcho
=============================================================================
