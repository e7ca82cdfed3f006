---------------------------- MODULE AudioRouter ----------------------------
(***************************************************************************)
(* How the server selects a listen node and mixes live audio for every     *)
(* destination: the audio and RSSI handlers of networkLoop and the source  *)
(* selection in cmd/server/main.go, and routeMixedAudio with its buffers   *)
(* in cmd/server/audio_router.go.                                          *)
(*                                                                         *)
(* Three goroutines share the peer table (peersMu), the buffers (the       *)
(* router's mutex) and the atomic activeSourcePeerID: networkLoop, the     *)
(* router's 20 ms tick and heartbeatLoop, which removes peers.  A peer is  *)
(* removed in one step: the three writes are made under peersMu, and every *)
(* step another goroutine can take in between commutes with them.  Audio   *)
(* is counted in whole 20 ms frames; a frame is the serial number of the   *)
(* peer that sent it.  What is injected, and where, is InjectedAudio's     *)
(* subject: here any tick may carry a frame for any destinations.          *)
(***************************************************************************)
EXTENDS Integers, Sequences, FiniteSets

CONSTANTS
  IDs,            \* peer IDs, 1..n
  Nodes,          \* what may join: [type, toBroadcast, toInterface]
  RSSIs,          \* RSSI reports
  SwitchDelta,    \* switchRSSIDelta, 1 dB
  StartWindow,    \* startWindowThreshold, 5 s
  QueueCap,       \* maxQueuedAudioSamples, in frames
  MaxSerial,      \* bound on the peers that ever join
  MaxTime,        \* bound on the clock
  MaxChunks       \* bound on the audio chunks received and frames injected

ASSUME NodesAssumption ==
  /\ IDs = 1..Cardinality(IDs) /\ RSSIs \subseteq Int
  /\ \A n \in Nodes : /\ n.type \in {"listen", "interface", "broadcast"}
                      /\ n.toBroadcast \in BOOLEAN /\ n.toInterface \in BOOLEAN
                      /\ n.type = "interface" => ~n.toInterface
ASSUME RouterBounds ==
  /\ SwitchDelta \in Nat \ {0} /\ StartWindow \in Nat /\ QueueCap \in Nat \ {0}
  /\ {MaxSerial, MaxChunks} \subseteq Nat /\ MaxTime \in Nat \ {0}

VARIABLES
  peers,       \* the table: ID -> peer
  active,      \* activeSourcePeerID, 0 for none
  buffers,     \* router.sources: ID -> frames
  destActive,  \* router.destinationActive
  net,         \* networkLoop: what is left of an audio handler
  pc,          \* where the router's tick is
  candidates, selected,     \* locals of refreshActiveAudioSource
  sources, dests, frames,   \* locals of routeMixedAudio
  injected,    \* destinations of this tick's injected frame
  heard,       \* serial -> the last packet to that peer: audio, and whose
  serial,      \* peers that joined so far
  given,       \* history: IDs given out so far
  now, chunks               \* clock and used budget

table == <<peers, active>>
router == <<buffers, destActive>>
tick == <<pc, candidates, selected, sources, dests, frames, injected, heard>>
joined == <<serial, given>>
vars == <<table, router, net, tick, joined, now, chunks>>

NoNode == [type |-> "none", toBroadcast |-> FALSE, toInterface |-> FALSE]
NewPeer(s, n) == [serial |-> s, node |-> n, hasRSSI |-> FALSE, rssi |-> 0,
                  hasAudio |-> FALSE, started |-> 0, live |-> FALSE]
NoPeer == NewPeer(0, NoNode)
NetIdle == [at |-> "idle", id |-> 0, serial |-> 0]
Serials == 1..MaxSerial
InjectedFrame == 0
Quiet == [on |-> FALSE, from |-> {}]

Known(id) == peers[id] # NoPeer
AudioNode(id) == peers[id].node.type \in {"listen", "interface"}
IsLive(id) == Known(id) /\ peers[id].hasAudio /\ peers[id].live

Init ==
  /\ peers = [id \in IDs |-> NoPeer] /\ active = 0
  /\ buffers = [id \in IDs |-> <<>>]
  /\ destActive = [id \in IDs |-> FALSE]
  /\ net = NetIdle /\ pc = "refresh"
  /\ candidates = {} /\ selected = 0
  /\ sources = {} /\ dests = {} /\ frames = [id \in IDs |-> <<>>]
  /\ injected = {} /\ heard = [s \in Serials |-> Quiet]
  /\ serial = 0 /\ given = {} /\ now = 1 /\ chunks = 0

-----------------------------------------------------------------------------
(* networkLoop. *)

LargestID == CHOOSE n \in {0} \cup IDs :
               /\ n = 0 \/ Known(n)
               /\ \A id \in IDs : Known(id) => id <= n

(* A hello of a new node, accepted, with the config that follows it.       *)
Join(n) ==
  /\ net.at = "idle" /\ serial < MaxSerial /\ LargestID + 1 \in IDs
  /\ serial' = serial + 1 /\ given' = given \cup {LargestID + 1}
  /\ peers' = [peers EXCEPT ![LargestID + 1] = NewPeer(serial', n)]
  /\ UNCHANGED <<active, router, net, tick, now, chunks>>

ReceiveRSSI(id, r) ==
  /\ net.at = "idle" /\ Known(id) /\ peers[id].node.type = "listen"
  /\ peers' = [peers EXCEPT ![id].rssi = r, ![id].hasRSSI = TRUE]
  /\ UNCHANGED <<active, router, net, tick, joined, now, chunks>>

MarkAudioSourceActivity(id) ==
  /\ net.at = "idle" /\ Known(id) /\ AudioNode(id) /\ chunks < MaxChunks
  /\ chunks' = chunks + 1
  /\ LET first == ~peers[id].hasAudio
     IN peers' = [peers EXCEPT
          ![id].hasAudio = TRUE, ![id].live = TRUE,
          ![id].started = IF first THEN now ELSE @]
  /\ net' = [at |-> "push", id |-> id, serial |-> peers[id].serial]
  /\ UNCHANGED <<active, router, tick, joined, now>>

(* Mutant: the buffer is not trimmed. *)
PushUntrimmed ==
  /\ net.at = "push"
  /\ buffers' = [buffers EXCEPT ![net.id] = Append(@, net.serial)]
  /\ net' = NetIdle
  /\ UNCHANGED <<table, destActive, tick, joined, now, chunks>>

(* A full buffer loses its oldest frame. *)
Push ==
  /\ net.at = "push"
  /\ LET queued == Append(buffers[net.id], net.serial)
     IN buffers' = [buffers EXCEPT ![net.id] =
                      IF Len(queued) > QueueCap THEN Tail(queued) ELSE queued]
  /\ net' = NetIdle
  /\ UNCHANGED <<table, destActive, tick, joined, now, chunks>>

(* The empty chunk that ends a transmission: three steps, no common lock.  *)
MarkAudioSourceInactive(id) ==
  /\ net.at = "idle" /\ Known(id)
  /\ peers' = IF AudioNode(id)
              THEN [peers EXCEPT ![id].hasAudio = FALSE, ![id].started = 0,
                                 ![id].live = FALSE]
              ELSE peers
  /\ net' = [at |-> "release", id |-> id, serial |-> peers[id].serial]
  /\ UNCHANGED <<active, router, tick, joined, now, chunks>>

ReleaseActive ==
  /\ net.at = "release"
  /\ active' = IF active = net.id THEN 0 ELSE active
  /\ net' = [net EXCEPT !.at = "drop"]
  /\ UNCHANGED <<peers, router, tick, joined, now, chunks>>

(* Mutant: the source is dropped as if the whole peer were removed. *)
RemoveSourceAsPeer ==
  /\ net.at = "drop"
  /\ buffers' = [buffers EXCEPT ![net.id] = <<>>]
  /\ destActive' = [destActive EXCEPT ![net.id] = FALSE]
  /\ net' = NetIdle
  /\ UNCHANGED <<table, tick, joined, now, chunks>>

RemoveSource ==
  /\ net.at = "drop"
  /\ buffers' = [buffers EXCEPT ![net.id] = <<>>]
  /\ net' = NetIdle
  /\ UNCHANGED <<table, destActive, tick, joined, now, chunks>>

(* A peer times out in heartbeatLoop, whatever networkLoop is at.  Its own *)
(* goodbye is the same step taken between two packets.                     *)
RemovePeer(id) ==
  /\ Known(id)
  /\ buffers' = [buffers EXCEPT ![id] = <<>>]
  /\ destActive' = [destActive EXCEPT ![id] = FALSE]
  /\ active' = IF active = id THEN 0 ELSE active
  /\ peers' = [peers EXCEPT ![id] = NoPeer]
  /\ UNCHANGED <<net, tick, joined, now, chunks>>

(* 300 ms without a chunk: its last one or its stop chunk was lost. *)
AudioTimesOut(id) ==
  /\ IsLive(id)
  /\ peers' = [peers EXCEPT ![id].live = FALSE]
  /\ UNCHANGED <<active, router, net, tick, joined, now, chunks>>

(* A window in which no audio started is not told from the next one. *)
TimePasses ==
  /\ now < MaxTime /\ now' = now + 1
  /\ \E id \in IDs : peers[id].started = now
  /\ UNCHANGED <<table, router, net, tick, joined, chunks>>

-----------------------------------------------------------------------------
(* refreshActiveAudioSource. *)

FindCandidates ==
  /\ pc = "refresh" /\ pc' = "choose"
  /\ candidates' = {[id |-> id, rssi |-> peers[id].rssi,
                     start |-> peers[id].started] :
                    id \in {i \in IDs : /\ IsLive(i) /\ peers[i].hasRSSI
                                        /\ peers[i].node.type = "listen"}}
  /\ UNCHANGED <<table, router, net, selected, sources, dests, frames,
                 injected, heard, joined, now, chunks>>

(* The peers map is iterated in no fixed order: of equals, any may win.    *)
Strongest(S) == {c \in S : \A d \in S : c.rssi >= d.rssi}

ChooseInitialSource(S) ==
  Strongest({c \in S : \A d \in S : c.start - d.start <= StartWindow})

CanTakeOver(c, current) ==
  /\ c.start - current.start \in -StartWindow..StartWindow
  /\ c.rssi - current.rssi >= SwitchDelta

ChooseAudioSource(S, id) ==
  LET current == {c \in S : c.id = id}
      better  == {c \in S : \E cur \in current : CanTakeOver(c, cur)}
  IN CASE S = {}       -> {0}
       [] current = {} -> {c.id : c \in ChooseInitialSource(S)}
       [] better = {}  -> {id}
       [] OTHER        -> {c.id : c \in Strongest(better)}

Choose ==
  /\ pc = "choose" /\ pc' = "swap"
  /\ selected' \in ChooseAudioSource(candidates, active)
  /\ UNCHANGED <<table, router, net, candidates, sources, dests, frames,
                 injected, heard, joined, now, chunks>>

(* Mutant: no choice leaves the last one selected. *)
SwapUnlessNone ==
  /\ pc = "swap" /\ pc' = "snapshot"
  /\ active' = IF selected = 0 THEN active ELSE selected
  /\ candidates' = {}
  /\ UNCHANGED <<peers, router, net, selected, sources, dests, frames,
                 injected, heard, joined, now, chunks>>

Swap ==
  /\ pc = "swap" /\ pc' = "snapshot"
  /\ active' = selected
  /\ candidates' = {}
  /\ UNCHANGED <<peers, router, net, selected, sources, dests, frames,
                 injected, heard, joined, now, chunks>>

-----------------------------------------------------------------------------
(* routeMixedAudio. *)

Route(id) == [id |-> id, serial |-> peers[id].serial, node |-> peers[id].node]

IsSource(id) ==
  IsLive(id) /\ (peers[id].node.type = "listen" => id = selected)
IsDestination(id) ==
  Known(id) /\ peers[id].node.type \in {"broadcast", "interface"}

AudioRoutingSnapshot ==
  /\ pc = "snapshot" /\ pc' = "discard"
  /\ sources' = {Route(id) : id \in {i \in IDs : IsSource(i)}}
  /\ dests' = {Route(id) : id \in {i \in IDs : IsDestination(i)}}
  /\ UNCHANGED <<table, router, net, candidates, selected, frames, injected,
                 heard, joined, now, chunks>>

(* Mutant: what is queued for others than the sources stays. *)
DiscardNothing ==
  /\ pc = "discard" /\ pc' = "take"
  /\ UNCHANGED <<table, router, net, candidates, selected, sources, dests,
                 frames, injected, heard, joined, now, chunks>>

DiscardInactiveSources ==
  /\ pc = "discard" /\ pc' = "take"
  /\ buffers' = [id \in IDs |-> IF \E s \in sources : s.id = id
                                THEN buffers[id] ELSE <<>>]
  /\ UNCHANGED <<table, destActive, net, candidates, selected, sources, dests,
                 frames, injected, heard, joined, now, chunks>>

FirstOf(queue) == SubSeq(queue, 1, IF queue = <<>> THEN 0 ELSE 1)

(* takeFrames, a source with an empty buffer gives silence; and then       *)
(* takeInjectedFrame.                                                      *)
TakeFrames ==
  /\ pc = "take" /\ pc' = "send"
  /\ LET taken == {s.id : s \in sources}
     IN /\ frames' = [id \in IDs |-> IF id \in taken THEN FirstOf(buffers[id])
                                     ELSE <<>>]
        /\ buffers' = [id \in IDs |->
                         IF id \in taken /\ buffers[id] # <<>>
                         THEN Tail(buffers[id]) ELSE buffers[id]]
  /\ \/ injected' = {} /\ UNCHANGED chunks
     \/ /\ chunks < MaxChunks /\ chunks' = chunks + 1
        /\ injected' \in SUBSET dests \ {{}}
  /\ UNCHANGED <<table, destActive, net, candidates, selected, sources, dests,
                 heard, joined, now>>

(* Mutant: one flag for both classes of destinations. *)
ShouldRouteAudioByOneFlag(s, d) == s.id # d.id /\ s.node.toBroadcast

ShouldRouteAudio(s, d) ==
  /\ s.id # d.id
  /\ ~(s.node.type = "interface" /\ d.node.type = "interface")
  /\ IF d.node.type = "broadcast" THEN s.node.toBroadcast
                                  ELSE s.node.toInterface

Inputs(d) == {s \in sources : ShouldRouteAudio(s, d)}

(* What is mixed for d, by sender; an injected frame replaces the mix.     *)
Mixed(d) == IF d \in injected THEN {InjectedFrame}
            ELSE UNION {{frames[s.id][i] : i \in 1..Len(frames[s.id])} :
                        s \in Inputs(d)}

(* Mutant: the end of audio is noted and not sent. *)
SendToWithoutStop(d) ==
  /\ pc = "send" /\ d \in dests /\ dests' = dests \ {d}
  /\ LET on == Inputs(d) # {} \/ d \in injected
     IN /\ destActive' = [destActive EXCEPT ![d.id] = on]
        /\ heard' = IF on THEN [heard EXCEPT ![d.serial] =
                                  [on |-> TRUE, from |-> Mixed(d)]]
                    ELSE heard
  /\ UNCHANGED <<table, buffers, net, pc, candidates, selected, sources,
                 frames, injected, joined, now, chunks>>

(* nextPacket and the sending: audio while active, which may be silence,   *)
(* and one empty packet when it ends.                                      *)
SendTo(d) ==
  /\ pc = "send" /\ d \in dests /\ dests' = dests \ {d}
  /\ LET on == Inputs(d) # {} \/ d \in injected
     IN IF on \/ destActive[d.id]
        THEN /\ destActive' = [destActive EXCEPT ![d.id] = on]
             /\ heard' = [heard EXCEPT ![d.serial] =
                            IF on THEN [on |-> TRUE, from |-> Mixed(d)]
                            ELSE Quiet]
        ELSE UNCHANGED <<destActive, heard>>
  /\ UNCHANGED <<table, buffers, net, pc, candidates, selected, sources,
                 frames, injected, joined, now, chunks>>

EndTick ==
  /\ pc = "send" /\ dests = {} /\ pc' = "refresh"
  /\ sources' = {} /\ injected' = {} /\ selected' = 0
  /\ frames' = [id \in IDs |-> <<>>]
  /\ UNCHANGED <<table, router, net, candidates, dests, heard, joined, now, chunks>>

RouterStep ==
  \/ FindCandidates \/ Choose \/ Swap
  \/ AudioRoutingSnapshot \/ DiscardInactiveSources \/ TakeFrames
  \/ (\E d \in dests : SendTo(d)) \/ EndTick

NetStep == Push \/ ReleaseActive \/ RemoveSource

Next ==
  \/ \E n \in Nodes : Join(n)
  \/ \E id \in IDs, r \in RSSIs : ReceiveRSSI(id, r)
  \/ \E id \in IDs : MarkAudioSourceActivity(id) \/ MarkAudioSourceInactive(id)
  \/ NetStep
  \/ \E id \in IDs : RemovePeer(id) \/ AudioTimesOut(id)
  \/ TimePasses
  \/ RouterStep

Spec == Init /\ [][Next]_vars

(* The ticker fires for ever, networkLoop finishes the packet it is at,    *)
(* and a source that sends no more times out.                              *)
FairSpec ==
  /\ Spec /\ WF_vars(RouterStep) /\ WF_vars(NetStep)
  /\ \A id \in IDs : WF_vars(AudioTimesOut(id))

-----------------------------------------------------------------------------
Routes == [id : IDs, serial : Serials, node : Nodes]
Peer == [serial : Serials, node : Nodes,
         hasRSSI : BOOLEAN, rssi : RSSIs \cup {0},
         hasAudio : BOOLEAN, started : 0..MaxTime, live : BOOLEAN]

Candidate == [id : IDs, rssi : RSSIs \cup {0}, start : 0..MaxTime]

TypeOK ==
  /\ peers \in [IDs -> Peer \cup {NoPeer}] /\ active \in IDs \cup {0}
  /\ buffers \in [IDs -> Seq(Serials)]
  /\ \A id \in IDs : Len(buffers[id]) <= QueueCap
  /\ destActive \in [IDs -> BOOLEAN]
  /\ net \in [at : {"idle", "push", "release", "drop"}, id : IDs \cup {0},
              serial : Serials \cup {0}]
  /\ net.at # "idle" => net.id \in IDs /\ net.serial \in Serials
  /\ pc \in {"refresh", "choose", "swap", "snapshot", "discard", "take",
             "send"}
  /\ candidates \subseteq Candidate /\ selected \in IDs \cup {0}
  /\ sources \subseteq Routes /\ dests \subseteq Routes
  /\ injected \subseteq Routes
  /\ frames \in [IDs -> Seq(Serials)]
  /\ heard \in [Serials -> [on : BOOLEAN, from : SUBSET (Serials \cup {InjectedFrame})]]
  /\ serial \in 0..MaxSerial /\ given \subseteq IDs /\ now \in 1..MaxTime
  /\ chunks \in 0..MaxChunks

(* A destination that is still in the table and whose last packet was      *)
(* audio is marked active, so the empty packet that unkeys it is owed, no  *)
(* matter how its ID was freed and given out again in the middle of a tick.*)
StopIsOwed ==
  \A id \in IDs : Known(id) /\ heard[peers[id].serial].on => destActive[id]

(* "Interface-origin audio is never routed into Interface playback", its   *)
(* own included, whichever buffer it was queued in: as long as no ID has   *)
(* been given out twice.                                                   *)
NoEcho ==
  [][\A d \in dests :
       /\ SendTo(d) /\ destActive'[d.id]
       /\ d.node.type = "interface" /\ serial = Cardinality(given)
       => \A id \in IDs : Known(id) /\ peers[id].node.type = "interface"
            => peers[id].serial \notin heard'[d.serial].from]_vars

(* Whatever swap raced with a removal or a stop, the selected peer is      *)
(* always some time later none or a listen node that is live.              *)
ActiveSettles ==
  []<>(active # 0 => IsLive(active) /\ peers[active].node.type = "listen")

(* A frame that networkLoop queues for a peer heartbeatLoop has removed    *)
(* since does not stay in the buffer of its ID, where every later owner    *)
(* would speak with the voice of another: it is played or dropped soon.    *)
StaleAudioGoes ==
  \A id \in IDs :
    []<>(\A k \in 1..Len(buffers[id]) : buffers[id][k] = peers[id].serial)

(* Every destination that hears audio eventually gets the empty packet,    *)
(* unless it leaves: no lost stop chunk keeps a transmitter keyed.         *)
EveryKeyingEnds ==
  \A s \in Serials :
    []<>(~heard[s].on \/ \A id \in IDs : peers[id].serial # s)
=============================================================================
