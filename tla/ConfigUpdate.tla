---------------------------- MODULE ConfigUpdate ----------------------------
(***************************************************************************)
(* How a setting edited in the web panel reaches an interface node:        *)
(* applyNodeConfigUpdate and updatePeerConfig in cmd/server/main.go, one   *)
(* goroutine per HTTP request; the config handler of networkLoop and the   *)
(* checks of heartbeatLoop there; the update handler, start and restart of *)
(* cmd/interface/main.go; UpdateConfigValue in internal/config/config.go.  *)
(*                                                                         *)
(* The server validates an edit against the copy of the node's config it   *)
(* holds, sends it in one datagram, and records it; the node believes it,  *)
(* saves it, reports its config and restarts five seconds later.  The      *)
(* settings are pins, and a config is valid when no two are equal (the     *)
(* other rules of ValidateInterfaceConfig look at one edit like that too). *)
(* The handshake is Session's subject: here a node connects in one step.   *)
(* A config file is rewritten in place and smaller than a disk block: a    *)
(* save that fails or is cut off leaves it as it was or empty, which the   *)
(* next start fills with defaults.                                         *)
(***************************************************************************)
EXTENDS Integers

CONSTANTS
  Handlers,      \* HTTP requests that may be in progress at a time
  Keys,          \* settings
  Values,        \* what they may be set to
  Inputs,        \* the edits that are tried, <<key, value>>
  Default,       \* the default config, also what the node starts with
  IDs,           \* peer IDs, 1..n
  MaxEdits,      \* bound on the edits the server accepts
  MaxFaults,     \* bound on lost packets, failed sends, spoilt saves, shutdowns
  MaxSessions    \* bound on the sessions of the node: a fault counts as two

Configs == [Keys -> Values]

(* ValidateInterfaceConfig. *)
Valid(c) == \A j, k \in Keys : j # k => c[j] # c[k]

ASSUME ConfigAssumption ==
  /\ Default \in Configs /\ Valid(Default)
  /\ IDs \subseteq Nat \ {0} /\ Keys # {} /\ Values # {}
  /\ Inputs \subseteq Keys \X Values
  /\ MaxEdits \in Nat /\ MaxFaults \in Nat /\ MaxSessions \in Nat \ {0}

VARIABLES
  peers,      \* the server's table: ID -> peer
  handlers,   \* handler -> the edit it is about
  net,        \* datagrams on their way
  node,       \* the node's process
  file,       \* its config file
  sessions,   \* sessions so far: the secret of the newest
  edits, faults,   \* used budgets
  hasty,      \* history: an edit was accepted in a hurry, see InHurry
  overtaken   \* history: an ID was given out that a handler had yet to look up

server == <<peers, handlers, edits, hasty>>
client == <<node, file>>
vars == <<server, net, client, sessions, faults, overtaken>>

NoPeer == [session |-> 0, boot |-> 0, hasConf |-> FALSE, view |-> Default]
NoEdit == [at |-> "idle", id |-> 0, session |-> 0, boot |-> 0,
           key |-> CHOOSE k \in Keys : TRUE, value |-> CHOOSE v \in Values : TRUE]

Update(k, v) == [type |-> "update", key |-> k, value |-> v]

(* hello: it is the one sent when the node connects. *)
Report(id, s, c, hello) ==
  [type |-> "config", id |-> id, session |-> s, config |-> c, hello |-> hello]

(* What is left of net when a process or a session ends: its updates find  *)
(* no socket, its reports have the wrong secret.                           *)
WithoutUpdates == {m \in net : m.type # "update"}
WithoutReports(s) == {m \in net : m.type = "config" => m.session # s}

Known(id) == peers[id].session # 0
Up == node.boot # 0
Connected == node.id # 0

(* The node is connected and the server knows its session. *)
InTable == Connected /\ peers[node.id].session = node.session

Init ==
  /\ peers = [id \in IDs |-> NoPeer]
  /\ handlers = [h \in Handlers |-> NoEdit] /\ net = {}
  /\ node = [boot |-> 0, id |-> 0, session |-> 0, due |-> FALSE,
             config |-> Default]
  /\ file = Default /\ sessions = 0 /\ edits = 0 /\ faults = 0
  /\ hasty = FALSE /\ overtaken = FALSE

Fault == faults < MaxFaults /\ faults' = faults + 1

-----------------------------------------------------------------------------
(* An HTTP request: applyNodeConfigUpdate.                                 *)

(* History only: another edit is in progress or on its way, or the view is *)
(* not the config the node has.                                            *)
InHurry(id) ==
  \/ \E h \in Handlers : handlers[h].at # "idle"
  \/ \E m \in net : m.type = "update"
  \/ ~Up \/ node.boot # peers[id].boot \/ node.config # peers[id].view

Begin(h, id, k, v) ==
  /\ handlers' = [handlers EXCEPT ![h] =
       [at |-> "send", id |-> id, session |-> peers[id].session,
        boot |-> peers[id].boot, key |-> k, value |-> v]]
  /\ edits' = edits + 1 /\ hasty' = (hasty \/ InHurry(id))
  /\ UNCHANGED <<peers, net, client, sessions, faults, overtaken>>

(* Mutant: the new value is taken without looking at the other settings. *)
ApplyUnvalidated(h, id, k, v) ==
  handlers[h].at = "idle" /\ Known(id) /\ edits < MaxEdits /\ Begin(h, id, k, v)

(* Under the read lock; an edit that is refused changes nothing. *)
ApplyNodeConfigUpdate(h, id, k, v) ==
  /\ handlers[h].at = "idle" /\ Known(id) /\ edits < MaxEdits
  /\ Valid([peers[id].view EXCEPT ![k] = v])
  /\ Begin(h, id, k, v)

Goto(h, label) == handlers' = [handlers EXCEPT ![h].at = label]
Finish(h) == handlers' = [handlers EXCEPT ![h] = NoEdit]

SendUpdate(h) ==
  LET e == handlers[h]
  IN /\ e.at = "send" /\ Goto(h, "clear")
     /\ net' = net \cup {u \in {Update(e.key, e.value)} : e.boot = node.boot}
     /\ UNCHANGED <<peers, edits, hasty, client, sessions, faults, overtaken>>

SendFails(h) ==
  /\ handlers[h].at = "send" /\ Fault /\ Finish(h)
  /\ UNCHANGED <<peers, edits, hasty, net, client, sessions, overtaken>>

(* Through the pointer taken before the send: the peer, if it is still in  *)
(* the table.                                                              *)
ClearHasSentConf(h) ==
  LET e == handlers[h]
  IN /\ e.at = "clear" /\ Goto(h, "record")
     /\ peers' = [id \in IDs |->
                    IF peers[id].session = e.session
                    THEN [peers[id] EXCEPT !.hasConf = FALSE] ELSE peers[id]]
     /\ UNCHANGED <<edits, hasty, net, client, sessions, faults, overtaken>>

Record(h, ids) ==
  LET e == handlers[h]
  IN /\ e.at = "record" /\ Finish(h)
     /\ peers' = IF e.id \in ids
                 THEN [peers EXCEPT ![e.id].view[e.key] = e.value] ELSE peers
     /\ UNCHANGED <<edits, hasty, net, client, sessions, faults, overtaken>>

(* Mutant: the entry of a peer that was removed is written all the same. *)
RecordUpdateBlindly(h) == Record(h, IDs)

(* The peer is looked up again, by its ID. *)
RecordUpdate(h) == Record(h, {id \in IDs : Known(id)})

HandlerStep(h) == SendUpdate(h) \/ ClearHasSentConf(h) \/ RecordUpdate(h)

-----------------------------------------------------------------------------
(* networkLoop and heartbeatLoop.                                          *)

(* ServerConfig, of a session that is in the table. *)
ReceiveReport(m) ==
  /\ m \in net /\ m.type = "config" /\ net' = net \ {m}
  /\ peers' = [peers EXCEPT ![m.id].view = m.config, ![m.id].hasConf = TRUE]
  /\ UNCHANGED <<handlers, edits, hasty, client, sessions, faults, overtaken>>

Lose(m) ==
  /\ m \in net /\ net' = net \ {m} /\ Fault
  /\ UNCHANGED <<server, client, sessions, overtaken>>

Remove(id) ==
  /\ peers' = [peers EXCEPT ![id] = NoPeer]
  /\ net' = WithoutReports(peers[id].session)
  /\ UNCHANGED <<handlers, edits, hasty, client, sessions, faults, overtaken>>

(* A peer whose process is gone or holds another session times out. *)
HeartbeatTimeout(id) ==
  Known(id) /\ node.session # peers[id].session /\ Remove(id)

(* A peer that reported no config since the last update, at a tick that is *)
(* more than 15 s after its last heartbeat.  Updates and reports do not    *)
(* count as heartbeats, which come every 30 s: whatever else is under way, *)
(* only the report sent with the hello has come by then, or is lost.       *)
ConfigTimeout(id) ==
  /\ Known(id) /\ ~peers[id].hasConf
  /\ \A m \in net :
       m.type = "config" /\ m.session = peers[id].session => ~m.hello
  /\ Remove(id)

-----------------------------------------------------------------------------
(* The interface node and the manager that starts it again.                *)

(* getNextPeerID: one more than the largest ID of the table. *)
NextPeerID(id) ==
  /\ id = 1 \/ \E j \in IDs : j = id - 1 /\ Known(j)
  /\ \A j \in IDs : Known(j) => j < id

SessionsLeft == sessions + 2 * faults < MaxSessions

(* LoadConfig, which saves the file and reads it again, and                *)
(* loadInterfaceSettings: without a valid config the process ends, and is  *)
(* started again, for ever.                                                *)
NodeStart ==
  /\ ~Up /\ SessionsLeft
  /\ \/ UNCHANGED <<file, faults>>
     \/ Fault /\ file' = Default
  /\ Valid(file')
  /\ node' = [node EXCEPT !.boot = sessions + 1, !.config = file']
  /\ UNCHANGED <<server, net, sessions, overtaken>>

(* Hello and init, and the config that is sent with them. *)
Connect(id) ==
  /\ Up /\ ~Connected /\ NextPeerID(id) /\ SessionsLeft
  /\ sessions' = sessions + 1
  /\ node' = [node EXCEPT !.id = id, !.session = sessions + 1]
  /\ peers' = [peers EXCEPT ![id] =
                 [NoPeer EXCEPT !.session = sessions + 1, !.boot = node.boot]]
  /\ net' = net \cup {Report(id, sessions + 1, node.config, TRUE)}
  /\ overtaken' = (overtaken \/ \E h \in Handlers : handlers[h].id = id)
  /\ UNCHANGED <<handlers, edits, hasty, file, faults>>

Taken(m) == [node.config EXCEPT ![m.key] = m.value]

(* UpdateConfigValue, sendCurrentConfig and the restart that is scheduled. *)
(* The result of SaveTo is not looked at.  A report of a session the       *)
(* server no longer knows is ignored there.                                *)
TakeUpdate(m, restart) ==
  /\ m \in net /\ m.type = "update" /\ Up
  /\ node' = [node EXCEPT !.config = Taken(m), !.due = restart]
  /\ net' = (net \ {m}) \cup
       {r \in {Report(node.id, node.session, Taken(m), FALSE)} : InTable}
  /\ \/ file' = Taken(m) /\ UNCHANGED faults
     \/ Fault /\ file' \in {file, Default}
  /\ UNCHANGED <<server, sessions, overtaken>>

(* Mutant: the node goes on with the new value and does not restart. *)
UpdateConfigEntryLive(m) == TakeUpdate(m, FALSE)

UpdateConfigEntry(m) == TakeUpdate(m, TRUE)

Down == [node EXCEPT !.boot = 0, !.id = 0, !.session = 0, !.due = FALSE]

(* os.Exit, five seconds after an update: nobody is told.  Another update  *)
(* that is being taken then may be saved and not reported, or its save is  *)
(* cut off.                                                                *)
RestartDue ==
  /\ Up /\ node.due /\ node' = Down /\ net' = WithoutUpdates
  /\ \/ UNCHANGED <<file, faults>>
     \/ \E m \in net : /\ m.type = "update"
                        /\ \/ file' = Taken(m) /\ UNCHANGED faults
                           \/ Fault /\ file' = Default
  /\ UNCHANGED <<server, sessions, overtaken>>

(* A shutdown by the operator says goodbye; it is received. *)
Shutdown ==
  /\ Up /\ Fault /\ node' = Down
  /\ net' = WithoutUpdates \cap WithoutReports(node.session)
  /\ peers' = [id \in IDs |-> IF InTable /\ id = node.id THEN NoPeer ELSE peers[id]]
  /\ UNCHANGED <<handlers, edits, hasty, file, sessions, overtaken>>

(* The server no longer knows the session: its terminate, or its answer to *)
(* the next packet, disconnects the node.                                  *)
Terminated ==
  /\ Connected /\ ~InTable
  /\ node' = [node EXCEPT !.id = 0, !.session = 0]
  /\ UNCHANGED <<server, net, file, sessions, faults, overtaken>>

Arrive(m) == ReceiveReport(m) \/ UpdateConfigEntry(m)
NodeStep ==
  NodeStart \/ (\E id \in IDs : Connect(id)) \/ RestartDue \/ Terminated

Next ==
  \/ \E h \in Handlers, id \in IDs, e \in Inputs :
       ApplyNodeConfigUpdate(h, id, e[1], e[2])
  \/ \E h \in Handlers : HandlerStep(h) \/ SendFails(h)
  \/ \E m \in net : Arrive(m) \/ Lose(m)
  \/ \E id \in IDs : HeartbeatTimeout(id) \/ ConfigTimeout(id)
  \/ NodeStep \/ Shutdown

Spec == Init /\ [][Next]_vars

(* Goroutines that can run do, datagrams arrive or are lost, silent peers  *)
(* time out, and the manager starts the node again.                        *)
FairSpec ==
  /\ Spec /\ WF_vars(NodeStep) /\ WF_vars(\E m \in net : Arrive(m))
  /\ \A h \in Handlers : WF_vars(HandlerStep(h))
  /\ \A id \in IDs : WF_vars(HeartbeatTimeout(id))

-----------------------------------------------------------------------------
Sessions == 0..MaxSessions
Message ==
  [type : {"update"}, key : Keys, value : Values]
    \cup [type : {"config"}, id : IDs, session : Sessions, config : Configs,
          hello : BOOLEAN]

TypeOK ==
  /\ peers \in [IDs -> [session : Sessions, boot : Sessions,
                        hasConf : BOOLEAN, view : Configs]]
  /\ \A id \in IDs : ~Known(id) => peers[id] = NoPeer
  /\ handlers \in [Handlers ->
       [at : {"idle", "send", "clear", "record"}, id : IDs \cup {0},
        session : Sessions, boot : Sessions, key : Keys, value : Values]]
  /\ net \subseteq Message
  /\ node \in [boot : Sessions, id : IDs \cup {0}, session : Sessions,
               due : BOOLEAN, config : Configs]
  /\ file \in Configs /\ sessions \in Sessions
  /\ edits \in 0..MaxEdits /\ faults \in 0..MaxFaults
  /\ hasty \in BOOLEAN /\ overtaken \in BOOLEAN

(* "ValidateInterfaceConfig verifies that an Interface node can use its    *)
(* soundcard and GPIO settings": a node that was able to start is able to  *)
(* start again, whatever is lost or restarted.  It is so as long as an     *)
(* edit is made only when the one before has come back.                    *)
StaysStartable == ~hasty => Valid(file)

(* "has not sent config, disconnecting": heartbeatLoop may end a session   *)
(* whose report is on its way, or overtook ClearHasSentConf.  If nothing   *)
(* was lost it ends only one that was edited and that the restart after    *)
(* the edit ends anyway: none is cut off for want of a config for good.    *)
UpdateComing == \E m \in net : m.type = "update"
OnlyEditsDrop ==
  [][\A id \in IDs : ConfigTimeout(id) /\ InTable /\ id = node.id
       => faults > 0 \/ node.due \/ UpdateComing]_vars

(* When the edits stop, the panel shows the config the node runs with and  *)
(* would restart with, in whatever order concurrent edits were sent, taken *)
(* and recorded: unless packets were lost, an ID changed hands under a     *)
(* handler, or the node can no longer start.                               *)
Shown ==
  /\ Up /\ InTable
  /\ peers[node.id].view = node.config /\ node.config = file
ViewSettles ==
  <>[](faults = 0 /\ ~overtaken /\ Valid(file) => Shown)

(* Strengthening.  Where sessions and boots come from: a process that      *)
(* starts has a boot no peer and no handler has seen.                      *)
BootInv ==
  /\ \A id \in IDs :
       /\ peers[id].session <= sessions /\ peers[id].boot <= sessions
       /\ Known(id) => peers[id].boot # 0
  /\ \A h \in Handlers :
       /\ handlers[h].session <= sessions /\ handlers[h].boot <= sessions
       /\ handlers[h].at # "idle" =>
            handlers[h].session # 0 /\ handlers[h].boot # 0
  /\ \A m \in net : m.type = "update" => Up
  /\ node.boot <= sessions + 1 /\ (node.due => Up)
  /\ IF Connected
     THEN /\ Up /\ node.session # 0
          /\ node.session <= sessions /\ node.boot <= sessions
     ELSE node.session = 0

(* A session is one entry of the table, one boot, and one node ID.         *)
SessionInv ==
  /\ \A i, j \in IDs : Known(i) /\ peers[i].session = peers[j].session => i = j
  /\ \A m \in net :
       m.type = "config" => Known(m.id) /\ peers[m.id].session = m.session
  /\ \A id \in IDs, h \in Handlers :
       Known(id) /\ handlers[h].session = peers[id].session
         => handlers[h].boot = peers[id].boot
  /\ Connected =>
       /\ \A id \in IDs : peers[id].session = node.session
            => id = node.id /\ peers[id].boot = node.boot
       /\ \A h \in Handlers : handlers[h].session = node.session
            => handlers[h].boot = node.boot

(* Without a hasty edit there is one at most, and it fits the node.        *)
Fits(e) == Valid([node.config EXCEPT ![e.key] = e.value])
EditInv ==
  ~hasty =>
    /\ Valid(file) /\ (Up => Valid(node.config))
    /\ \A g, h \in Handlers :
         handlers[g].at # "idle" /\ handlers[h].at # "idle" => g = h
    /\ \A h \in Handlers : handlers[h].at = "send" =>
         /\ \A m \in net : m.type # "update"
         /\ handlers[h].boot = node.boot => Fits(handlers[h])
    /\ \A m \in net : m.type = "update" => Fits(m)
    /\ \A m, n \in net : m.type = "update" /\ n.type = "update" => m = n

(* A session of which no config is recorded has one coming, as long as     *)
(* nothing was lost: the one of the hello, one owed for an update, or the  *)
(* one after the restart.                                                  *)
HelloComing ==
  \E m \in net : m.type = "config" /\ m.session = node.session /\ m.hello
DropInv ==
  faults = 0 /\ InTable /\ ~node.due =>
    /\ ~peers[node.id].hasConf => UpdateComing \/ HelloComing
    /\ \A h \in Handlers :
         handlers[h].at = "clear" /\ handlers[h].session = node.session
           => UpdateComing
=============================================================================
