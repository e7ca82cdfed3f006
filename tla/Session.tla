------------------------------ MODULE Session ------------------------------
(***************************************************************************)
(* The sessions between the server and its nodes: the server's peer table  *)
(* (networkLoop and heartbeatLoop of cmd/server/main.go) and the connect,  *)
(* heartbeat and receive loops every node runs (written out alike in       *)
(* cmd/broadcast, cmd/listen and cmd/interface main.go).                   *)
(*                                                                         *)
(* UDP loses, duplicates and reorders datagrams.  Time passes in units; a  *)
(* datagram arrives, if it does, within the unit it was sent in.  A node   *)
(* that restarts binds a new UDP port: its address is the pair of its name *)
(* and its incarnation.                                                    *)
(* Audio and RSSI packets of a known peer leave the session alone; those   *)
(* of an unknown one are answered like any other packet.                   *)
(***************************************************************************)
EXTENDS Integers, FiniteSets

CONSTANTS
  Clients,      \* node processes
  Rejected,     \* addresses whose AuthKey or protocol version is refused
  Secrets,      \* peer secrets; large enough for the live ones to differ
  MaxPeerID,    \* largest value of a peer ID, 65535 in the code
  Period,       \* heartbeat period of both sides, 30 s
  DeadAge,      \* 60 s without a heartbeat
  ConfAge,      \* 15 s without a config
  Stoppable,    \* nodes that may stop, crash or start again
  MaxRestarts,  \* bound on restarts of one node
  Faults,       \* of "lose", "duplicate" and "restart", of the server
  MaxFaults     \* bound on their number; node restarts count as one

ASSUME ClientsAssumption ==
  Rejected \subseteq Clients \X Nat /\ Stoppable \subseteq Clients
ASSUME TimesAssumption ==
  /\ Period \in Nat \ {0} /\ DeadAge \in Nat /\ ConfAge \in Nat
  /\ MaxPeerID \in Nat /\ 0 \notin Secrets
ASSUME FaultsAssumption ==
  /\ Faults \subseteq {"lose", "duplicate", "restart"}
  /\ MaxFaults \in Nat /\ MaxRestarts \in Nat

VARIABLES
  peers,      \* the server's table: ID -> peer, NoPeer when absent
  srvTick,    \* units to the next tick of the server's heartbeatLoop
  node,       \* the state of each node process
  net,        \* datagrams in flight
  faults      \* faults so far

vars == <<peers, srvTick, node, net, faults>>

IDs == 0..MaxPeerID
MaxAge == DeadAge + 1
NoPeer == [secret |-> 0, addr |-> <<>>, age |-> 0, hasConf |-> FALSE]

Addr(c) == <<c, node[c].inc>>
Up(m) == m.type \in {"hello", "config", "beat", "bye"}

Message(type, addr, id, secret) ==
  [type |-> type, addr |-> addr, id |-> id, secret |-> secret]

(* What node c puts in the header of its packets. *)
FromNode(type, c) == Message(type, Addr(c), node[c].id, node[c].secret)
Terminate(addr) == Message("terminate", addr, 0, 0)

Known(id) == peers[id] # NoPeer
(* Mutant: the secret of a packet is not compared. *)
AuthorizedByID(m) == m.id \in IDs /\ Known(m.id)
Authorized(m) == m.id \in IDs /\ Known(m.id) /\ peers[m.id].secret = m.secret

NewNode(inc) ==
  [on |-> TRUE, inc |-> inc, connected |-> FALSE, id |-> 0, secret |-> 0,
   age |-> 0, tick |-> Period]

(* attemptConnect *)
Hello(c, inc) == Message("hello", <<c, inc>>, 0, 0)

Init ==
  /\ peers = [id \in IDs |-> NoPeer]
  /\ srvTick \in 1..Period
  /\ node = [c \in Clients |-> NewNode(0)]
  /\ net = {Hello(c, 0) : c \in Clients}
  /\ faults = 0

-----------------------------------------------------------------------------
(* The network. *)

(* A restart of a node uses up a fault. *)
Restarted == \E c \in Clients : node[c].inc > 0

Fault(kind) ==
  /\ kind \in Faults
  /\ faults < IF Restarted THEN MaxFaults - 1 ELSE MaxFaults
  /\ faults' = faults + 1

Lose(m) ==
  /\ Fault("lose")
  /\ net' = net \ {m}
  /\ UNCHANGED <<peers, srvTick, node>>

(* Receiving m takes it off the network unless a duplicate stays behind;   *)
(* the handler's answers go out.                                           *)
Receive(m, answers) ==
  \/ net' = (net \ {m}) \cup answers /\ UNCHANGED faults
  \/ net' = net \cup answers /\ Fault("duplicate")

-----------------------------------------------------------------------------
(* The server. *)

InUse == {peers[id].secret : id \in IDs} \cup {node[c].secret : c \in Clients}
           \cup {m.secret : m \in net}

(* getNextPeerID: one above the largest ID of the table, as an unsigned    *)
(* integer that wraps.  The random 16-bit secret is taken to differ from   *)
(* every secret still about.                                               *)
LargestID == CHOOSE n \in IDs :
               /\ n = 0 \/ Known(n)
               /\ \A id \in IDs : Known(id) => id <= n
(* Mutant: an ID beyond the unsigned range. *)
NextPeerIDUnwrapped == LargestID + 1
(* Mutant: the largest ID is given out again. *)
NextPeerIDReused == LargestID
NextPeerID == (LargestID + 1) % (MaxPeerID + 1)
(* Mutant: a secret that is still about may be drawn again. *)
FreshSecretsAny == Secrets
FreshSecrets == Secrets \ InUse

NewPeer(secret, addr) ==
  [secret |-> secret, addr |-> addr, age |-> 0, hasConf |-> FALSE]

ServerHello(m) ==
  /\ m \in net /\ m.type = "hello"
  /\ IF m.addr \in Rejected
     THEN /\ Receive(m, {Terminate(m.addr)})
          /\ UNCHANGED peers
     ELSE /\ FreshSecrets # {}
          /\ LET secret == CHOOSE s \in FreshSecrets : TRUE
             IN /\ Receive(m, {Message("init", m.addr, NextPeerID, secret)})
                /\ peers' = [peers EXCEPT ![NextPeerID] =
                               NewPeer(secret, m.addr)]
  /\ UNCHANGED <<srvTick, node>>

ServerUnauthorized(m) ==
  /\ m \in net /\ m.type \in {"config", "beat", "bye"} /\ ~Authorized(m)
  /\ Receive(m, {Terminate(m.addr)})
  /\ UNCHANGED <<peers, srvTick, node>>

ServerBeat(m) ==
  /\ m \in net /\ m.type = "beat" /\ Authorized(m)
  /\ peers' = [peers EXCEPT ![m.id].age = 0]
  /\ Receive(m, {})
  /\ UNCHANGED <<srvTick, node>>

ServerConfig(m) ==
  /\ m \in net /\ m.type = "config" /\ Authorized(m)
  /\ peers' = [peers EXCEPT ![m.id].hasConf = TRUE]
  /\ Receive(m, {})
  /\ UNCHANGED <<srvTick, node>>

ServerBye(m) ==
  /\ m \in net /\ m.type = "bye" /\ Authorized(m)
  /\ peers' = [peers EXCEPT ![m.id] = NoPeer]
  /\ Receive(m, {})
  /\ UNCHANGED <<srvTick, node>>

(* heartbeatLoop: one pass over the table under peersMu. *)
Dead(id) == peers[id].age > DeadAge
NoConfig(id) == ~peers[id].hasConf /\ peers[id].age > ConfAge
(* Mutant: a dead peer that has sent its config is kept. *)
DroppedWithoutConfig == {id \in IDs : Known(id) /\ NoConfig(id)}
Dropped == {id \in IDs : Known(id) /\ (Dead(id) \/ NoConfig(id))}
Kept == {id \in IDs : Known(id)} \ Dropped

ServerTick ==
  /\ srvTick = 0
  /\ srvTick' = Period
  /\ peers' = [id \in IDs |-> IF id \in Dropped THEN NoPeer ELSE peers[id]]
  /\ net' = net \cup {Terminate(peers[id].addr) : id \in Dropped}
                \cup {Message("serverBeat", peers[id].addr, id, 0) :
                        id \in Kept}
  /\ UNCHANGED <<node, faults>>

(* The table lives in memory only. *)
ServerRestart ==
  /\ Fault("restart")
  /\ peers' = [id \in IDs |-> NoPeer]
  /\ srvTick' = Period
  /\ net' = {m \in net : ~Up(m)}
  /\ UNCHANGED node

-----------------------------------------------------------------------------
(* The nodes: heartbeatLoop ... *)

NodeDead(c) == node[c].age > DeadAge

(* Mutant: a node sends its hello once, at its start only. *)
NodeTickSilent(c) ==
  /\ node[c].on /\ node[c].tick = 0
  /\ net' = IF node[c].connected THEN net \cup {FromNode("beat", c)} ELSE net
  /\ node' = [node EXCEPT ![c].tick = Period,
                          ![c].connected = @ /\ ~NodeDead(c)]
  /\ UNCHANGED <<peers, srvTick, faults>>

NodeTick(c) ==
  /\ node[c].on /\ node[c].tick = 0
  /\ LET packet == CASE ~node[c].connected -> Hello(c, node[c].inc)
                     [] node[c].connected /\ NodeDead(c) -> FromNode("bye", c)
                     [] OTHER -> FromNode("beat", c)
     IN net' = net \cup {packet}
  /\ node' = [node EXCEPT ![c].tick = Period,
                          ![c].connected = @ /\ ~NodeDead(c)]
  /\ UNCHANGED <<peers, srvTick, faults>>

(* ... and receiveLoop, which looks at the type only: neither the peer ID  *)
(* nor the secret of a packet from the server is compared with its own.    *)
For(m, c) == m \in net /\ ~Up(m) /\ m.addr = Addr(c) /\ node[c].on

NodeInit(c, m) ==
  /\ For(m, c) /\ m.type = "init"
  /\ IF node[c].connected
     THEN Receive(m, {}) /\ UNCHANGED node
     ELSE /\ node' = [node EXCEPT ![c].connected = TRUE, ![c].id = m.id,
                                  ![c].secret = m.secret, ![c].age = 0]
          /\ Receive(m, {Message("config", m.addr, m.id, m.secret)})
  /\ UNCHANGED <<peers, srvTick>>

NodeBeat(c, m) ==
  /\ For(m, c) /\ m.type = "serverBeat"
  /\ node' = [node EXCEPT ![c].age = 0]
  /\ Receive(m, {})
  /\ UNCHANGED <<peers, srvTick>>

NodeTerminate(c, m) ==
  /\ For(m, c) /\ m.type = "terminate"
  /\ node' = [node EXCEPT ![c].connected = FALSE]
  /\ Receive(m, {})
  /\ UNCHANGED <<peers, srvTick>>

(* Packets for a port nobody listens on. *)
Undeliverable(m) ==
  /\ m \in net /\ ~Up(m)
  /\ \A c \in Clients : ~For(m, c)
  /\ net' = net \ {m}
  /\ UNCHANGED <<peers, srvTick, node, faults>>

(* SIGTERM: the node says goodbye with whatever ID it has. *)
NodeShutdown(c) ==
  /\ c \in Stoppable /\ node[c].on
  /\ node' = [node EXCEPT ![c].on = FALSE]
  /\ net' = net \cup {FromNode("bye", c)}
  /\ UNCHANGED <<peers, srvTick, faults>>

(* A crash, or the exit that follows a config update, and the next start.  *)
NodeRestart(c) ==
  /\ c \in Stoppable /\ node[c].inc < MaxRestarts /\ faults < MaxFaults
  /\ node' = [node EXCEPT ![c] = NewNode(@.inc + 1)]
  /\ net' = net \cup {Hello(c, node[c].inc + 1)}
  /\ UNCHANGED <<peers, srvTick, faults>>

-----------------------------------------------------------------------------
Older(age) == IF age < MaxAge THEN age + 1 ELSE age

(* No tick is due and every datagram has arrived or been lost.             *)
TimePasses ==
  /\ net = {} /\ srvTick > 0
  /\ \A c \in Clients : node[c].on => node[c].tick > 0
  /\ srvTick' = srvTick - 1
  /\ peers' = [id \in IDs |->
                 IF Known(id) THEN [peers[id] EXCEPT !.age = Older(@)]
                 ELSE NoPeer]
  /\ node' = [c \in Clients |->
                IF node[c].on
                THEN [node[c] EXCEPT !.age = IF node[c].connected
                                             THEN Older(@) ELSE 0,
                                     !.tick = @ - 1]
                ELSE node[c]]
  /\ UNCHANGED <<net, faults>>

ServerReceives(m) ==
  \/ ServerHello(m) \/ ServerUnauthorized(m) \/ ServerBeat(m)
  \/ ServerConfig(m) \/ ServerBye(m)

NodeReceives(c, m) == NodeInit(c, m) \/ NodeBeat(c, m) \/ NodeTerminate(c, m)

Works ==
  \/ \E m \in net : ServerReceives(m) \/ Undeliverable(m)
  \/ \E c \in Clients, m \in net : NodeReceives(c, m)
  \/ ServerTick \/ (\E c \in Clients : NodeTick(c)) \/ TimePasses

Fails ==
  \/ \E m \in net : Lose(m)
  \/ ServerRestart
  \/ \E c \in Clients : NodeShutdown(c) \/ NodeRestart(c)

Next == Works \/ Fails

(* Time goes on, tickers fire and datagrams that are not lost arrive;      *)
(* nothing has to fail.                                                    *)
Spec == Init /\ [][Next]_vars
FairSpec == Spec /\ WF_vars(Works)

-----------------------------------------------------------------------------
Addrs == Clients \X Nat
Peer == [secret : Secrets, addr : Addrs, age : 0..MaxAge, hasConf : BOOLEAN]
Node == [on : BOOLEAN, inc : Nat, connected : BOOLEAN, id : 0..MaxPeerID,
         secret : Secrets \cup {0}, age : 0..MaxAge, tick : 0..Period]
Datagram == [type : {"hello", "config", "beat", "bye", "init", "serverBeat",
                     "terminate"},
             addr : Addrs, id : 0..MaxPeerID, secret : Secrets \cup {0}]

TypeOK ==
  /\ peers \in [IDs -> Peer \cup {NoPeer}]
  /\ srvTick \in 0..Period
  /\ node \in [Clients -> Node]
  /\ net \subseteq Datagram
  /\ faults \in 0..MaxFaults

(* IDs are reused as soon as the largest one is free again.  Still, a      *)
(* packet the server accepts for a peer was sent from that peer's address, *)
(* so no node keeps alive, configures or ends the session of another, nor  *)
(* that of its own earlier incarnation.                                    *)
AuthorizedByOwner ==
  \A m \in net : Up(m) /\ m.type # "hello" /\ Authorized(m)
                   => peers[m.id].addr = m.addr

(* Who holds a secret, and for which address: peers of the table, nodes    *)
(* and packets under way.                                                  *)
Holders ==
  {<<peers[id].secret, peers[id].addr>> : id \in IDs}
    \cup {<<node[c].secret, Addr(c)>> : c \in Clients}
    \cup {<<m.secret, m.addr>> : m \in net}

(* A secret belongs to one address wherever it is held: in a table that    *)
(* forgot the peer, in a node that was not told, in a packet that is late. *)
(* This is what makes AuthorizedByOwner inductive.                         *)
OneOwner ==
  \A h, k \in Holders : h[1] = k[1] /\ h[1] # 0 => h[2] = k[2]

(* Peer id of the table is the session its node believes in.               *)
Held(id) ==
  \E c \in Clients :
    /\ node[c].on /\ node[c].connected /\ peers[id].addr = Addr(c)
    /\ node[c].id = id /\ node[c].secret = peers[id].secret

(* Every start of a node that is not refused finds an ID: getNextPeerID    *)
(* wraps after the largest and may then give out an ID that is in use.     *)
AcceptedAddrs ==
  {a \in Clients \X (0..MaxRestarts) :
     a \notin Rejected /\ (a[1] \in Stoppable \/ a[2] = 0)}
IDsSuffice ==
  IsFiniteSet(AcceptedAddrs) /\ Cardinality(AcceptedAddrs) <= MaxPeerID + 1

(* As long as the network has lost and duplicated nothing and the server   *)
(* has not been restarted, a session lasts: whatever the other nodes do,   *)
(* only its own end disconnects a node.                                    *)
SessionLasts ==
  [][\A c \in Clients :
       /\ faults' = 0
       /\ node[c].connected /\ node'[c].inc = node[c].inc
       => node'[c].connected]_vars

Accepted(c) == node[c].on /\ Addr(c) \notin Rejected

(* A node that is running and not refused always gets connected again,     *)
(* after any loss, duplication and restart of either side.                 *)
AlwaysComesBack ==
  \A c \in Clients :
    []<>(node[c].connected \/ ~Accepted(c))

(* A peer of the table no node holds any more is removed: its node gone,   *)
(* restarted, terminated, or never told of it.                             *)
GhostsExpire ==
  \A id \in IDs : []<>(~Known(id) \/ Held(id))

(* Every node logs a second init as "Received duplicate init packet -      *)
(* ignoring": once losses, duplicates and restarts end, the session of a   *)
(* running node settles, whatever init packets went missing or came twice. *)
SessionSettles ==
  \A c \in Clients : <>[](node[c].connected \/ ~Accepted(c))

(* The server logs "Peer has not sent config, disconnecting": a peer       *)
(* whose config was lost does not stay in the table without one.           *)
ConfigInTime ==
  \A id \in IDs :
    Known(id) /\ ~peers[id].hasConf ~> (~Known(id) \/ peers[id].hasConf)
=============================================================================
