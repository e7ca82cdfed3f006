# ClearLink in TLA+

ClearLink links radios over UDP: *listen* nodes receive RF with an RTL-SDR,
*interface* nodes exchange audio with a sound card, *broadcast* nodes key a
transmitter, and one *server* selects, mixes and routes the audio between them.
A *manager* executable installs, runs and updates one of the four programs. This
directory models the parts of that system whose correctness depends on order,
failure and concurrency, checks the models with TLC and proves the central ones
with TLAPS. All paths below are relative to the repository's root, `src/` here.

## 1. The system

| Component | State | Operations | What makes it correct |
|---|---|---|---|
| Server peer table, `cmd/server/main.go` | `peers` (ID, secret, address, last heartbeat, has config), under `peersMu` | hello, heartbeat, config, goodbye, refusal; a pass every 30 s | a packet acts on its own session only; dead peers go, live ones stay |
| Node session loops, `cmd/broadcast`, `cmd/listen`, `cmd/interface` `main.go` | `isConnected`, `serverPeer` | hello, heartbeat, timeout, init, terminate, shutdown | a running node gets and stays connected |
| Source selection, `cmd/server/main.go` 548-704 | `activeSourcePeerID`, RSSI and audio fields of the peers | RSSI and audio packets, the choice of every tick | strongest fresh source heard, none when none is live |
| Mixed audio router, `cmd/server/audio_router.go` | buffers, `destinationActive`, injected channel and target | `push`, `removeSource`, `removePeer`, the 20 ms tick | no echo, no transmitter left keyed, one owner of the injection path |
| Audio events, `cmd/server/audio_events.go` | event list, `playing`, traffic and announcement memory | beeps, announcements, repeater IDs, play now, save, delete | one playback at a time, aired where it was targeted, each ends |
| PTT outputs, `cmd/broadcast/radio_player.go`, `cmd/interface/soundcard.go` | chunk queue, `transmitting`, the GPIO line, `aplay` | `SendAudio`, `NotifyTransmitStop`, the player loop, `Close` | keyed while playing, released after |
| Manager, `cmd/clearlink/clearlink.go` | two directories, the config file, the child | install, update, start, stop, restart | the child runs what it claims, is never lost, and updates arrive |
| Config updates, `cmd/server/main.go` 172-293, 349-369, `cmd/interface/main.go`, `internal/config` | node configs on both sides, `HasSentConf`, the node's file | web edit, update packet, file write, report, restart | both sides agree in the end, the node can start again |
| Fragmentation, `internal/network/network.go` | message counter, partial messages by address and ID | `SendPacket`, `Push`, cleanup | a message is delivered whole or not at all, and in time if it arrives in time |
| Web interface, `internal/web/server.go` | login sessions, media files | HTTP handlers | no event refers to deleted media |
| Squelch, `internal/sdr_helper/narrowfm.go`, `cmd/interface/main.go` | detector phases and debounce counters | one step per block | neither chops nor holds a transmission |
| Discord output, recorder, setup, device discovery, web panel | | | see section 7 |

How they interact: nodes and the server exchange datagrams (hello, init, config,
heartbeat, RSSI, audio chunk, terminate). In the server, `networkLoop`,
`heartbeatLoop`, the router's tick, the one-second event scheduler and the HTTP
handlers share the peer table, the router and the event manager under three
separate mutexes; the router calls the event manager, which calls the router. In
an output node the receive loop, the heartbeat loop and the player share the PTT.
The manager and its child share only the process boundary: signals, an exit event
and an environment variable with the version.

What is hard: datagrams that are lost, doubled or late; IDs that are given out
again; critical sections that hand state over without a common lock; a bounded
channel whose consumer also starts producers; a GPIO line driven outside the lock
that guards its record; crashes between two writes to the disk. `PROJECT.json`
lists these hazards at their lines with the properties that cover them.

## 2. The modules

| Module | Models | Size of state |
|---|---|---|
| `Playback` | abstract specification of the injection path | 3 variables |
| `InjectedAudio` | the audio event manager and `takeInjectedFrame`/`routeMixedAudio`'s share of the injection | every goroutine, lock by lock |
| `InjectedAudioProofs` | theorems about it | |
| `AudioRouter` | audio and RSSI handlers, source selection, routing tick | three goroutines |
| `AudioRouterProofs` | theorems about it | |
| `Session` | peer table and session loops over a lossy network | server, nodes, datagrams |
| `SessionProofs` | theorems about it | |
| `Channel` | abstract specification of a channel of whole messages | 2 variables |
| `Reassembler` | `SendPacket` and `Reassembler.Push` over a lossy network | senders, datagrams, assemblies |
| `ReassemblerProofs` | theorems about what `Push` returns | |
| `ChannelProofs` | theorems about the two ends together, on top of those | |
| `ConfigUpdate` | a config edit from the HTTP request to the node's restart | server, requests, node, its file |
| `ConfigUpdateProofs` | theorems about it | |
| `PttOutput` | `RadioPlayer` and `SoundcardOutput` | player, receiver, other callers, `Close` |
| `PttOutputProofs` | theorems about it | |
| `Manager` | manager, child, disk | one goroutine and its world |
| `ManagerProofs` | theorems about it | |
| `MC*` | small instances for TLC | |

**InjectedAudio.** An action is one critical section, one channel operation or one
goroutine start. `pc[t]` is the position of a goroutine that starts playbacks (the
router's tick, the scheduler, an HTTP handler), `player[t]` that of the playback
goroutine `t` started last. `ClaimPlayback` is the section that takes `playing`;
`SetInjectedTarget` and `BeginInjectedAudio` are the two sections of the router's
mutex that follow; `SpawnPlayer` the `go` statement. `EnqueueFrame` blocks on a full
channel as the code does; `TakeFrame`, `PollActive`, `ResetInjected` and `CloseDone`
are the branches of `takeInjectedFrame`, cut where it unlocks. A frame carries the
goroutine that wrote it, not samples. `events` is the list as a set (no two events
share an ID); where the code takes the first match the model takes any, so what
it checks does not depend on the order of the list. Whether normal traffic is
present is an input of the tick.

**AudioRouter.** The tick is cut at each lock it takes: `FindCandidates`, `Choose`,
`Swap`, `AudioRoutingSnapshot`, `DiscardInactiveSources`, `TakeFrames`, one `SendTo`
per destination. Between any two, `networkLoop` (whose audio handler is itself cut
between marking and pushing) or the removal of a peer may step. Audio is counted in
20 ms frames, each the serial number of the peer that sent it, which outlives IDs.
The timeout of live audio is an action and not a clock. What is injected is an
arbitrary choice here, and `InjectedAudio`'s subject there.

**Session.** Datagrams are records in a set, which reorders; losing and doubling
them and restarting the server draw on one budget of faults. A unit of time is 15 s
and passes only when no tick is due and no datagram is under way: a network delay is
short compared with 15 s. Peer secrets, random 16-bit numbers, are taken to differ
from the secrets still in use; this is the one probabilistic assumption of the
project, and `AuthorizedByOwner` rests on it. The three kinds of node have the same
loops, written out three times; the map names one of the three for each definition.
Config update packets appear only as the restart they cause; `ConfigUpdate` has the
rest. A node that starts anew uses up one of the faults.

**Reassembler.** A message stands for its bytes: a fragment is a message and an index,
and the receiver reads of it only what its header says (sender, message ID, count,
index). The network keeps `Copies` of every datagram, any of which may arrive, in any
order, up to `Lifetime` after it was sent; not delivering is losing. `Push` drops every
assembly beyond the timeout, opens or finds one, stores the fragment and returns the
packet, in one action, as the code does under its mutex; `createdAt` is not renewed by
later fragments. Messages to other peers (`SendElsewhere`) and restarts
(`SenderRestart`) move the counter. A unit of time is the time a process needs to send
a message, so that a sender sends at most one in each. `Abstract` maps it to `Channel`:
the deliveries of a message are numbered (`Numbered`), and the channel delivers the next
number of a message that was sent, up to `Copies`.

**ConfigUpdate.** A handler is one HTTP request, cut where the code unlocks: the check
under the read lock (`ApplyNodeConfigUpdate`; a refused edit changes nothing),
`SendUpdate` or `SendFails`, `ClearHasSentConf` through the pointer taken before, and
`RecordUpdate`, which looks the peer up again by its ID. The node takes an update,
saves, reports and is due for a restart in one action, `RestartDue` comes at any time
later. Sessions and starts of the node are numbered, so that a handler's pointer can
outlive its peer and a packet the process it was sent to. The settings are pins that
must differ, which stands for every rule of `ValidateInterfaceConfig` that relates two
settings; a rule about one setting refuses an edit whatever the rest is. The handshake
is one step here, and a report travels as Session's config packet does.
`ConfigTimeout` is the check of `cmd/server/main.go:319`, which asks for a heartbeat
more than 15 s old. Updates and reports are not heartbeats, so it may fire at any moment
after the report that follows the hello has come or is lost: also with an update or its
report in flight, and in the five seconds before a restart. `SaveTo` rewrites the config
file in place, and nobody looks at its result: a save that fails, or is cut off by the
exit an earlier update has scheduled, leaves the file as it was or empty, and the next
start fills an empty one with defaults (`TakeUpdate`, `RestartDue`, and `NodeStart`,
which saves as well). The two variables `hasty` and `overtaken` record history for the properties and nothing reads
them. The bulk edit of `internal/web/server.go:474-536` and the panel's save button are
sequences of such requests.

**PttOutput.** `isRadio` selects the kind of output in the initial state.
`setPTT` is two actions, `RecordPTT` under the mutex and `DriveLine` after it, in
whichever goroutine calls. `Select` is Go's `select`: any ready case may be taken, a
send on the closed queue is a ready case and panics. A write of the GPIO line may fail
(`WriteFails`): `setPTT` only logs it, with the new state already recorded, and `Close`
returns before it closes the line.

**Manager.** Versions are numbers, `current` and `backup` the versions in the two
directories, `saved` the version in the config file, `version` the one in memory. A
fault is possible only if it is in `faults`, a set drawn in the initial state, so
that one run covers several grades of hostility and a property can say under which
it holds. A process is known by the slot of the manager that started it. Nothing ties a
child to its manager, so `ManagerCrash`, like a child that survives SIGKILL, leaves one
behind that the next manager does not know of (its slot is then `"orphan"`).

## 3. The runs

| Run | Instance | Result |
|---|---|---|
| `InjectedAudioLive` | two beeps, one HTTP handler, two destinations, channel of 1, files of up to 2 frames | holds |
| `InjectedAudioScheduled` | an announcement and a repeater ID, two minutes of a two-minute day | holds |
| `Session` | two nodes, one of which may stop, crash and start twice more, the last time with a version the server refuses; IDs 0 to 2; one loss, duplicate or server restart, not after a node's restart; fair | holds |
| `SessionGhost` | one node, one loss | **`SessionSettles` violated** |
| `SessionNoConfig` | one node, one loss | **`ConfigInTime` violated** |
| `AudioRouter` | three kinds of node, two IDs, two joins, two RSSI levels, a buffer of one frame, two units of time, two frames in all, be they chunks or injected, fair | holds |
| `PttOutput` | both outputs, receiver and heartbeat loop, queue of 2, four chunks, one failing write of the line | holds |
| `PttOutputStuck` | receiver only, three chunks, one stop | **`PTTReleased` violated** |
| `Manager` | three releases, three process slots, three grades of faults | holds |
| `ManagerSaveFails` | two releases, only the write of the config file fails | **`UpdateApplied` violated** |
| `Reassembler` | one sender, packets of one and of two datagrams, every datagram twice, IDs 1 and 2, delays of up to one unit, four units, one restart of the sender | holds |
| `ConfigUpdate` | two requests at a time, two edits, two pins of three values, two IDs, five sessions, one loss, failed send, spoilt save or shutdown, which counts as two sessions, fair | holds |

What the passing runs show:

* *Injection.* At most one playback owns the path (`OnePlayback`), nothing of one
  reaches the next (`NoStaleInjection`), all destinations of a tick see the running
  event's target (`OnTarget`), playbacks end and the router never blocks
  (`PlaybackEnds`, `RouterKeepsTicking`), an announcement starts once in its minute
  (`AnnouncedOnce`), and the whole implements `Playback` (`OnePlaybackAtATime`).
* *Sessions.* A packet the server accepts was sent from the address of the peer it
  acts on (`AuthorizedByOwner`), because a secret is held for one address only,
  however late or often its packets arrive (`OneOwner`); without network faults only a node's own end
  disconnects it (`SessionLasts`); a running node always gets connected again
  (`AlwaysComesBack`); peers no node holds are removed (`GhostsExpire`).
* *Routing.* A destination whose last packet was audio is owed a stop (`StopIsOwed`)
  and gets it (`EveryKeyingEnds`); interface audio is not played by interfaces
  (`NoEcho`, while no ID has been given out twice: with an ID reused between the
  snapshot and `takeFrames` one frame can be taken for the new owner's); a frame that is
  queued for a peer after its removal does not stay in the buffer of its ID, where every
  later owner would speak with it (`StaleAudioGoes`); and the selection never stays on a peer that is not a live listen
  node (`ActiveSettles`). Which source may take over is `CanTakeOver`, one choice over
  one snapshot, which no property repeats.
* *Packets.* What `Push` returns is one message, complete and unmixed, although IDs come
  round, late copies open assemblies that nothing completes, and fragments of several
  messages arrive in any order (`Whole`); a message whose fragments arrive within the
  timeout is delivered whatever arrives in between (`DeliveredInTime`); and loss,
  doubling and reordering of fragments look like loss, doubling and reordering of
  messages (`AsChannel`), which is what `Session`, `AudioRouter` and `ConfigUpdate` take
  the network to be. `Whole` and `DeliveredInTime` have one exception, a restart of the
  sender: its counter starts again at 1, the manager's `RestartDelay` is 2 s
  (`cmd/clearlink/clearlink.go:35`), the reassembly timeout 5 s, so a fragment sent
  before can be completed by one sent after, if peer ID and count agree.
* *Config.* A node that was able to start is able to start again, in every order of
  loss, failure and restart, as long as an edit is made only when the one before has
  come back (`StaysStartable`). An edit may end a live session although nothing was
  lost: the config check fires between the clearing of `HasSentConf` and the report, or
  before the restart when the report has overtaken the clearing, which leaves the flag
  cleared for good. But if nothing was lost it ends only sessions which an update has
  reached or is about to reach, so that the restart would end them anyway
  (`OnlyEditsDrop`). When the edits stop, the panel shows what the node runs with and
  would restart with, however two requests were interleaved (`ViewSettles`), unless a
  packet was lost, an ID changed hands under a request, or the node can no longer start.
* *PTT.* A full queue loses old chunks only (`NewestKept`); a closed player is
  unkeyed, unless its line could not be written and is open still (`ClosedMeansUnkeyed`); the hang time is honoured (`HangHonoured`); with no
  interfering stop and no failed write the line is keyed while audio is written and released after it
  (`KeyedWhileWriting`, `ReleasedAlone`).
* *Manager.* A child runs the version it is told to report (`VersionHonest`), is not
  lost sight of as long as a killed child dies in time and the manager does not crash
  (`ChildTracked`), and updates are applied, also next to an orphan, as long as the
  config file can be written, a process started and a child killed
  (`UpdateAppliedAnyway`).

**Bounds.** Two nodes or two IDs suffice for every race the properties speak of (an
ID given to a second peer, two candidates, a source and a destination). A channel of
one frame and files of two make the sender block; a PTT queue of two and four chunks
make it overflow twice. Two minutes let an announcement fall due, be missed or end
within its minute. Three releases let one supersede another during its installation,
and three slots let a forgotten child, its successor and an unread exit event exist
at once. Two message IDs are the fewest that may exist with a delay of one unit (the
module's assumption); a timeout of none and a delay of one let an assembly expire while
a fragment is under way, and four units let the counter come round twice. Two requests
on two settings make the smallest edits that are valid alone and not together; five
sessions let a node restart after each edit and be dropped before both restarts, or
restart once after a fault that ended a session. `Inputs` are the edits tried: to the
pin that both settings may want, to the pin the other has, and to what is set already. In `Session` a unit is
30 s (15 s in the two runs that fail); the deepest race needs one network fault and a
restart, not both after each other, so a fault is not made after a node's restart. `MaxTime`, `MaxSerial`, `MaxChunks`, `MaxMinute`,
`MaxFrames`, `MaxStops`, `MaxErrors`, `MaxRestarts`, `MaxFaults`, `MaxVersion`, `MaxEdits`, `MaxSessions` and
`Copies` bound histories; none is in the code. `QueueCap`, `HangTime`, `Period`,
`DeadAge`, `ConfAge`, `SwitchDelta`, `StartWindow`, `MaxPeerID`, `MaxMessageID`,
`Timeout` and `Lifetime` are small values of the code's constants and of the network's.
`CHECK_DEADLOCK FALSE` is set where the system really may stop: the two PTT runs, whose
player may be closed and then does nothing; `Reassembler`, which is idle when its time
is up; and `ConfigUpdate`, where nobody has to edit and a node that cannot start stays
down.

**Fairness.** Goroutines that can run do (weak fairness of each); tickers fire for
ever; a file has an end; datagrams that are not lost arrive; time passes; a silent peer
times out, and the manager starts a node again that has ended. Nobody has
to call the HTTP interface, send audio, edit a config, close a player, fail or publish a release.
Only `Manager` uses strong fairness: its `select` picks among ready cases at random
and so passes over none for ever, a download or disk operation that is retried for
ever succeeds in the end (faults are not permanent there, except where the property
says so), and a stopped manager is started again by its supervisor.

## 4. Where the code and its documents disagree

1. **A ghost peer ends the live session, again and again** (`SessionSettles`).
   `cmd/server/main.go:441-458` adds a peer for every accepted hello; a node accepts
   any Terminate from the server (`cmd/broadcast/main.go:310-323`). One lost init
   leaves an orphan, whose timeout terminates the live session of the same address,
   whose end leaves the next orphan.
2. **A peer without a config is kept** (`ConfigInTime`). The check at
   `cmd/server/main.go:319` uses the last heartbeat, which heartbeats renew.
3. **A transmitter stays keyed** (`PTTReleased`). `setPTT`
   (`cmd/broadcast/radio_player.go:242-253`, `cmd/interface/soundcard.go:191-202`)
   records and drives in two steps; two calls can drive in the wrong order.
4. **An update stops the node for good** (`UpdateApplied`). `config.Version` is set
   before the config file is written (`cmd/clearlink/clearlink.go:1001`); when the
   write fails the child is stopped and the manager believes it is up to date.

More weaknesses showed up that no document speaks of directly, so no run is devoted
to them:

* An edit is validated against the server's copy of the config
  (`cmd/server/main.go:269-273`), which two requests may read before either has
  recorded, and which runs ahead of the node when an update is lost: two edits that are
  each valid can leave a file with two equal pins, `loadInterfaceSettings` then refuses,
  and the node is started and ends for ever with no way to correct it from the panel.
  That is why `StaysStartable` is claimed for unhurried edits only.
* An edit can end the node's session early. `updatePeerConfig` clears `HasSentConf`
  (`cmd/server/main.go:365`), and the check at line 319 compares with the last heartbeat,
  15 to 30 s old at a tick; a tick that comes before the report, or before the restart
  if the report came before the clearing, terminates the node. It reconnects. The model
  reaches both cases, and a save cut off by the exit after an earlier edit as well.
* `UpdateConfigValue` (`internal/config/config.go:228`) truncates the file and ignores
  the error of the save. A failed or cut save can lose every setting of the node, the
  server's address included, after the panel was told that the edit is in effect; it
  starts with defaults. So `ViewSettles` is claimed only while no save is spoilt.
* A manager that crashes, or gives up on a child that survives SIGKILL, leaves it running
  next to the child that is started then, with the same devices and GPIO lines
  (`cmd/clearlink/clearlink.go:1328`, 1376-1387).
* `Whole` does not hold across a restart of the sender, as said above.

The properties that pass are stated so that they say what is left: for instance
`UpdateAppliedAnyway` is `UpdateApplied` without failing writes, and
`ReleasedAlone` is `PTTReleased` without a concurrent stop.

## 5. What is proved

`InjectedAudioProofs` proves, for every set of handlers, events, sources and
destinations, every capacity of the channel and every bound (so without the small
instance's limits), from the module's named assumptions `ThreadsDistinct`,
`EventsAssumption` and `BoundsAssumption`:

* `PlaybackCorrect`: `Spec => [](TypeOK /\ PlaybackInv)`, `InjectedTypeCorrect`: `Spec => []TypeOK`
* `OnePlaybackCorrect`: `Spec => []OnePlayback`
* `NoStaleInjectionCorrect`: `Spec => []NoStaleInjection`
* `OnTargetCorrect`: `Spec => []OnTarget`
* `OnePlaybackAtATimeCorrect`: `Spec => OnePlaybackAtATime`, the refinement of `Playback`
* `AnnouncedOnceCorrect`: `Spec => AnnouncedOnce`

The three safety properties are not inductive. That the channel is empty when
`playing` is cleared follows only from where the done marker is: the playback
goroutine waits for its done channel, which the router closes after it has reset the
path, which it does when it has taken the marker, which is the last of the frames.
`PlaybackInv` writes this down phase by phase: `StartPhase` for a goroutine between
the claim and the `go` statement, `StreamPhase` for a playback goroutine (streaming;
marker in the channel; marker in the router's hand, before or after the reset; done),
`HandPhase` for the router, with `OnePlayback` to say that only one goroutine is in
any of these. `InitInv`, `TypeStep` and `PlaybackStep` are the three facts of the
induction, with one step per action; TLC checks `PlaybackInv` in `InjectedAudioLive`
first. The refinement (`PlaybackRefined`) needs little more: the owner is unique, so what
is on air is well defined; the done marker is the last of the channel, so the frames not
yet aired are its length, less one once the marker is in it; and a goroutine that does
not play has written nothing (`PlayerInv`). `AnnounceInv` adds the scheduler's memory:
what was announced is stamped or will be by the start under way, and what is being
started has an older stamp.

`SessionProofs` proves, for every set of nodes, secrets and kinds of fault, every
period and every width of the peer ID, from `ClientsAssumption`, `TimesAssumption` and
`FaultsAssumption`:

* `SessionTypeCorrect`: `Spec => []TypeOK`
* `OneOwnerCorrect`: `Spec => []OneOwner`
* `AuthorizedByOwnerCorrect`: `Spec => []AuthorizedByOwner`
* `SessionLastsCorrect`: `Spec => SessionLasts`, if `Period <= DeadAge` and `IDsSuffice`

That a packet is accepted only from its peer's address is not inductive: it speaks of
the table and the network, but secrets are also held by nodes that have not heard yet
that the server forgot them. `OneOwner` covers every holder, and the proof shows that
only `ServerHello` makes a new one, of a secret nobody holds; every other step
passes on what is held already (`NothingNew`). It does not use that IDs differ, so it
survives their reuse and their wrap. That the largest ID exists (`LargestExists`,
needed for the type of the next one) comes from the well-founded order of the subsets
of a finite set. As in the model, secrets are taken to differ from those still held.

`SessionLasts` has two hypotheses, which the theorem states and which TLC evaluates for
its instances (`LastingHypotheses` in `MCSession`). `Period <= DeadAge`: a heartbeat
period, 30 s, is no longer than the silence a side bears, 60 s. `IDsSuffice`: an ID
exists for every start of every node that is not refused, 65536 in the code.
`getNextPeerID` gives out the largest ID of the table plus one and wraps without
looking; it can overwrite a live peer only after that many sessions.
The invariant, `LastingInv`, holds until the first fault and has three parts.
`AddressesInv`: nothing is addressed from or to a start of a node that is still to come,
so a node that restarts meets nothing of a session before it. `IDsInv`: an ID is no
larger than the number of sessions so far (the addresses of `Greeted`, counted), so the
next one is free. `SessionInv(c)`, for a node that is running and not refused, follows a
session from end to end: `PacketsInv` (no terminate or goodbye is addressed from or to
it, an init belongs to the peer it was made for, what it sends is authorized), `PeerInv`
(the table has it once, heard of it within a period or has a heartbeat under way, and
has its config or is about to get it) and `NodeInv` (the same seen from the node). One
lemma per step that concerns the node (`GreetedSession`, `HeardSession`,
`JoinedSession`, `AliveSession`, `ServedSession`, `TickedSession`, `PassedSession`,
`RestartedSession`) shows it is kept; `Untouched` covers all steps of the others.

`ReassemblerProofs` proves, for every set of senders and counts, every timeout, delay,
number of copies and width of the message ID, from `TimesAssumption` and
`BoundsAssumption`:

* `ReassemblerTypeCorrect`: `Spec => []TypeOK`
* `WholeCorrect`: `Spec => []Whole`

The first assumption is the one thing that makes IDs safe: a full round of the counter
takes longer than a delay and a timeout (2^32 messages against 5 s). `Whole` speaks of
what was delivered; its strengthening `ReassemblyInv` says of everything still about, in
the network or in an assembly, that a message with an ID was sent as long ago as the
counter has gone on since (`SentInv`), so that two with the same ID are a round apart
(`RoundInv`), and that an assembly was created no later than a delay after each message
in it was sent (`TableInv`). A fragment that meets an assembly is at most a delay old,
the assembly at most a timeout, so both are of one message.

`ChannelProofs` proves on top of this, from the same assumptions:

* `DeliveredInTimeCorrect`: `Spec => []DeliveredInTime`
* `AsChannelCorrect`: `Spec => AsChannel`, the refinement of `Channel`

For the first, `Timely` says of the first fragment that arrived of a message which is
not returned: as long as the timeout from then on runs, all of the message that has
arrived is in one assembly; and some fragment has not arrived within it. A second assembly of the same message can only be opened
when the first has been completed or has expired, since within a round of the counter no
other message has its ID (`FreshDiffer`, from `RoundInv`). For the second, the steps that send a message
or deliver it are the two steps of `Channel`; that it delivers no more than `Copies`
times is a matter of bookkeeping: each delivery, and each assembly still open,
uses up one copy of the first fragment that arrived (`UsesUp`), of which there are no
more than were sent (`CopiesInv`).

`ConfigUpdateProofs` proves, for every set of requests, settings, values and IDs and
every bound, from `ConfigAssumption`:

* `ConfigTypeCorrect`: `Spec => []TypeOK`
* `StaysStartableCorrect`: `Spec => []StaysStartable`
* `OnlyEditsDropCorrect`: `Spec => OnlyEditsDrop`

`BootInv` says where session and start numbers come from, `SessionInv` that a session is
one table entry and one start of the node, so a packet or a handler's pointer cannot be
taken for another's. `EditInv` carries `StaysStartable`: without a hasty edit there is
one request or update in progress at most, and it fits what the node runs with.
`DropInv` carries `OnlyEditsDrop`: a connected node of which no config is recorded has
an update or the report of its hello on its way, or a restart ahead, as long as nothing
was lost; and a request that has sent and not yet cleared, whose update has been taken,
has the restart ahead too. Of these, the check waits for the hello's report only.

`AudioRouterProofs` proves, for every set of IDs and nodes, every level, threshold, buffer
length and bound, from `NodesAssumption` and `RouterBounds`:

* `AudioTypeCorrect`: `Spec => []TypeOK`
* `StopIsOwedCorrect`: `Spec => []StopIsOwed`
* `NoEchoCorrect`: `Spec => NoEcho`

IDs are given out again in the middle of a tick, so the proof follows serial numbers.
`SerialInv`: a serial has one ID at a time and nobody is heard before joining. `DestInv`:
when the ID of a destination of the snapshot has gone to another peer, that peer has not
heard anything yet; so the packet that is then sent by that ID cannot undo what is owed
to it. `FramesInv`: only the peer that sent a frame can still have its serial, in the
handler, in a buffer, in a taken frame. `GivenInv`: while no ID was given out twice, there are
as many IDs given as joins, so a source still in the table is the peer it was in the snapshot.

`PttOutputProofs` proves, for every set of callers of `NotifyTransmitStop`, every hang
time, queue length and number of failing writes, from `OutputThreads` and `OutputBounds`:

* `OutputTypeCorrect`: `Spec => []TypeOK`
* `NewestKeptCorrect`: `Spec => []NewestKept`
* `ClosedMeansUnkeyedCorrect`: `Spec => []ClosedMeansUnkeyed`
* `KeyedWhileWritingCorrect`: `Spec => []KeyedWhileWriting`
* `HangHonouredCorrect`: `Spec => HangHonoured`

`QueueInv` adds to `NewestKept` the chunk in `SendAudio`'s hands, newer than the queue,
and the room the dropped one made; `CloseInv` that the player has ended before `Close`
goes on; `LineInv` that, as long as only the player drives it, the line is what was
recorded last but for a write that is still to come; `HangInv` that what keys the
transmitter has renewed the time of the last audio.

`ManagerProofs` proves, for every number of releases, every set of slots and every grade
of faults, from `ManagerAssumption`:

* `ManagerTypeCorrect`: `Spec => []TypeOK`
* `VersionHonestCorrect`: `Spec => []VersionHonest`
* `ChildTrackedCorrect`: `Spec => []ChildTracked`

`VersionHonest` speaks of processes, but what a process is told comes from memory, which
comes from the config file, and what it runs from a directory, each written in a step of
its own. `DiskInv` relates directory and file at every place where the power may go (the
directory may be newer than the file, never the other way round); `MemoryInv` says
that the manager starts a child only when its memory agrees with the directory.
`TrackInv` says that an exit event that is unread is that of the one child, and that a
manager which goes down in its own way has none left.

Model-checked only: the liveness properties (`PlaybackEnds`, `RouterKeepsTicking`,
`AlwaysComesBack`, `GhostsExpire`, `ActiveSettles`, `EveryKeyingEnds`, `StaleAudioGoes`,
`ReleasedAlone`, `UpdateAppliedAnyway`, `ViewSettles`), which like `ENABLED` are beyond this prover.
Every safety property, action property and refinement that a passing run checks is a
theorem. The strengthenings that no run lists (`LastingInv`, `Timely`, `UsesUp` and
others of the proof modules) were model-checked on instances of the same kind before
they were proved.

## 6. Plan

Done: sessions, selection and routing, injection, PTT, update of the programs,
fragmentation, and config updates, with their proofs. Next, in this order:

1. `Squelch` (phases, debounce, tone) and the interface node's GPIO squelch, with the
   two transmissions a flutter must not make of one.
2. The event file of `save` and `delete`, its write errors, and media deletion while an
   event refers to the file.
3. The Discord output's queue and `Close`.
4. Pure operators against reference definitions: `mixPCM16` saturation,
   `resamplePCM16` bounds, the selection scan against `ChooseAudioSource`.
5. Proofs of whatever these add.

## 7. What is not modelled, and why

* Signal processing, sample values, resampling: numerics; the squelch decisions made
  from them are planned, as are the event file and the Discord output (section 6).
* `internal/web/static/` (the compiled Flutter panel and the CanvasKit engine): output of
  a compiler and third-party code, of which nothing here is written or maintained. The
  Dart source of the panel is in `src/webpanel`. The models translate the Go code.
* The login of the web interface and the upload of media: sequential request handlers.
* Setup prompts, dependency installation, ALSA and udev discovery, ini parsing, board
  detection: sequential I/O.
* The recorder: its start is commented out in `cmd/broadcast/main.go`.
* The web panel: a client of the HTTP interface, which appears here as `PlayNow`,
  `SaveEvent`, `DeleteEvent` and `ApplyNodeConfigUpdate`.
* Seen and not claimed either way: a repeater ID may be mixed over an over that began
  between the scheduler's choice and its start (`audio_events.go:265`); a start time
  of audio survives a timeout (`main.go:674`); the queue of a radio player may be
  closed under a sender at shutdown (`radio_player.go:258`).

## 8. Running

    tlc -workers 2 -config InjectedAudioLive.cfg MCInjectedAudio.tla
    tlapm InjectedAudioProofs.tla
    tlapm SessionProofs.tla
    tlapm ReassemblerProofs.tla
    tlapm ChannelProofs.tla
    tlapm ConfigUpdateProofs.tla
    tlapm AudioRouterProofs.tla
    tlapm PttOutputProofs.tla
    tlapm ManagerProofs.tla

`PROJECT.json` lists every run with its module, configuration and expected result,
every mutant that must violate its property, and the source lines behind every
definition.
