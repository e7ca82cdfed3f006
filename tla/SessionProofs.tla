--------------------------- MODULE SessionProofs ---------------------------
(* Proofs about Session, for every set of nodes, secrets and IDs and every *)
(* length of the periods: whatever is lost, doubled or restarted, a packet *)
(* is accepted for no session but that of its sender; and as long as       *)
(* nothing is, a session lasts until its node ends it.                     *)
EXTENDS Session, FiniteSetTheorems, TLAPS

(* A set of naturals that has an upper bound has a largest element: the    *)
(* one with the fewest above it.                                           *)
LEMMA LargestExists ==
  ASSUME NEW n \in Nat, NEW S \in SUBSET (0..n), S # {}
  PROVE  \E x \in S : \A y \in S : y <= x
<1> DEFINE Above(x) == {y \in S : y > x}
           T == {Above(x) : x \in S}
           Less == StrictSubsetOrdering(S)
<1>1. IsWellFoundedOn(Less, SUBSET S)
  <2>1. IsFiniteSet(0..n)
    BY FS_Interval
  <2>2. IsFiniteSet(S)
    BY <2>1, FS_Subset
  <2> QED
    BY <2>2, FS_FiniteSubsetsOfFinite, FS_StrictSubsetOrderingWellFounded
<1>2. T \subseteq SUBSET S /\ T # {}
  OBVIOUS
<1>3. \E A \in T : \A B \in T : <<B, A>> \notin Less
  <2> HIDE DEF T, Less
  <2> QED
    BY <1>1, <1>2, WFMin
<1>4. PICK x \in S : \A B \in T : <<B, Above(x)>> \notin Less
  BY <1>3
<1>5. ASSUME NEW y \in S, y > x PROVE FALSE
  <2>1. Above(y) \in T
    OBVIOUS
  <2>2. \A z \in S : z \in Int
    OBVIOUS
  <2>3. \A z \in S : z > y => z > x
    BY <1>5, <2>2
  <2>4. Above(y) \subseteq Above(x)
    BY <2>3
  <2>5. y \in Above(x) /\ y \notin Above(y)
    BY <1>5, <2>2
  <2>6. <<Above(y), Above(x)>> \in Less
    BY <2>4, <2>5 DEF StrictSubsetOrdering
  <2> QED
    BY <1>4, <2>1, <2>6
<1> QED
  <2>1. \A y \in S : ~ (y > x) /\ y \in Int /\ x \in Int
    BY <1>5
  <2> QED
    BY <2>1

(* The largest ID of the table, or 0.                                      *)
LEMMA LargestIDIs ==
  /\ LargestID \in IDs
  /\ LargestID = 0 \/ Known(LargestID)
  /\ \A id \in IDs : Known(id) => id <= LargestID
<1> USE TimesAssumption DEF IDs
<1> DEFINE S == {id \in IDs : id = 0 \/ Known(id)}
<1>1. S \in SUBSET (0..MaxPeerID) /\ 0 \in S
  OBVIOUS
<1>2. \E x \in S : \A y \in S : y <= x
  BY <1>1, LargestExists
<1>3. \E n \in IDs : /\ n = 0 \/ Known(n)
                    /\ \A id \in IDs : Known(id) => id <= n
  BY <1>2
<1> QED
  BY <1>3 DEF LargestID

(* The ID given to the next peer is an ID.                                 *)
LEMMA NextPeerIDType == NextPeerID \in IDs
BY LargestIDIs, TimesAssumption DEF NextPeerID, IDs

-----------------------------------------------------------------------------
(* The datagrams this program builds are datagrams.                        *)
LEMMA PacketTypes ==
  ASSUME TypeOK, NEW c \in Clients
  PROVE  /\ Addr(c) \in Addrs
         /\ \A type \in {"config", "beat", "bye"} :
              FromNode(type, c) \in Datagram
         /\ \A inc \in Nat : Hello(c, inc) \in Datagram
<1>1. node[c].inc \in Nat /\ node[c].id \in 0..MaxPeerID
        /\ node[c].secret \in Secrets \cup {0}
  BY DEF TypeOK, Node
<1>2. Addr(c) \in Addrs
  BY <1>1 DEF Addr, Addrs
<1>3. \A type \in {"config", "beat", "bye"} : FromNode(type, c) \in Datagram
  BY <1>1, <1>2 DEF FromNode, Message, Datagram
<1>4. \A inc \in Nat : Hello(c, inc) \in Datagram
  BY TimesAssumption DEF Hello, Message, Datagram, Addrs
<1> QED
  BY <1>2, <1>3, <1>4

(* A termination can be addressed to anyone.                               *)
LEMMA TerminateType ==
  ASSUME NEW addr \in Addrs PROVE Terminate(addr) \in Datagram
BY TimesAssumption DEF Terminate, Message, Datagram

(* Receiving a datagram adds its answers to the network and at most one    *)
(* fault.                                                                  *)
LEMMA ReceiveType ==
  ASSUME TypeOK, NEW m, NEW answers \in SUBSET Datagram, Receive(m, answers)
  PROVE  net' \subseteq Datagram /\ faults' \in 0..MaxFaults
BY FaultsAssumption DEF TypeOK, Receive, Fault

(* A peer of the table is a peer; its secret is not 0.                     *)
LEMMA KnownType ==
  ASSUME TypeOK, NEW id \in IDs, Known(id)
  PROVE  peers[id] \in Peer /\ peers[id].secret # 0
BY TimesAssumption DEF TypeOK, Known, Peer

(* The initial state is well typed and no secret has been given out.       *)
LEMMA InitInv == Init => TypeOK /\ OneOwner
<1> SUFFICES ASSUME Init PROVE TypeOK /\ OneOwner
  OBVIOUS
<1> USE TimesAssumption, FaultsAssumption DEF Init
<1>1. peers \in [IDs -> Peer \cup {NoPeer}] /\ srvTick \in 0..Period
        /\ faults \in 0..MaxFaults
  OBVIOUS
<1>2. node \in [Clients -> Node]
  BY DEF NewNode, Node, MaxAge
<1>3. net \subseteq Datagram
  BY DEF Hello, Message, Datagram, Addrs
<1>4. \A h \in Holders : h[1] = 0
  BY DEF Holders, NoPeer, NewNode, Hello, Message
<1> QED
  BY <1>1, <1>2, <1>3, <1>4 DEF TypeOK, OneOwner

(* Every step keeps the variables in their types.                          *)
LEMMA TypeStep == TypeOK /\ [Next]_vars => TypeOK'
<1> SUFFICES ASSUME TypeOK, [Next]_vars PROVE TypeOK'
  OBVIOUS
<1> USE TimesAssumption, FaultsAssumption
<1>1. ASSUME NEW m \in net, ServerHello(m) PROVE TypeOK'
  <2>1. m \in Datagram /\ m.addr \in Addrs
    BY DEF TypeOK, Datagram
  <2>2. CASE m.addr \in Rejected
    BY <1>1, <2>1, <2>2, TerminateType, ReceiveType DEF ServerHello, TypeOK
  <2>3. CASE m.addr \notin Rejected
    <3>1. PICK secret \in Secrets :
            /\ Receive(m, {Message("init", m.addr, NextPeerID, secret)})
            /\ peers' = [peers EXCEPT ![NextPeerID] = NewPeer(secret, m.addr)]
      BY <1>1, <2>3 DEF ServerHello, FreshSecrets
    <3>2. Message("init", m.addr, NextPeerID, secret) \in Datagram
      BY <2>1, NextPeerIDType DEF Message, Datagram, IDs
    <3>3. NewPeer(secret, m.addr) \in Peer
      BY <2>1 DEF NewPeer, Peer, MaxAge
    <3> QED
      BY <1>1, <3>1, <3>2, <3>3, ReceiveType DEF ServerHello, TypeOK
  <2> QED
    BY <2>2, <2>3
<1>2. ASSUME NEW m \in net, ServerUnauthorized(m) PROVE TypeOK'
  <2>1. Terminate(m.addr) \in Datagram
    BY TerminateType DEF TypeOK, Datagram
  <2> QED
    BY <1>2, <2>1, ReceiveType DEF ServerUnauthorized, TypeOK
<1>3. ASSUME NEW m \in net, ServerBeat(m) PROVE TypeOK'
  <2>1. m.id \in IDs /\ peers[m.id] \in Peer
    BY <1>3, KnownType DEF ServerBeat, Authorized
  <2>2. [peers[m.id] EXCEPT !.age = 0] \in Peer
    BY <2>1 DEF Peer, MaxAge
  <2> QED
    BY <1>3, <2>1, <2>2, ReceiveType DEF ServerBeat, TypeOK
<1>4. ASSUME NEW m \in net, ServerConfig(m) PROVE TypeOK'
  <2>1. m.id \in IDs /\ peers[m.id] \in Peer
    BY <1>4, KnownType DEF ServerConfig, Authorized
  <2>2. [peers[m.id] EXCEPT !.hasConf = TRUE] \in Peer
    BY <2>1 DEF Peer
  <2> QED
    BY <1>4, <2>1, <2>2, ReceiveType DEF ServerConfig, TypeOK
<1>5. ASSUME NEW m \in net, ServerBye(m) PROVE TypeOK'
  BY <1>5, ReceiveType DEF ServerBye, TypeOK
<1>6. ASSUME NEW m \in net, Undeliverable(m) PROVE TypeOK'
  BY <1>6 DEF Undeliverable, TypeOK
<1>7. ASSUME NEW c \in Clients, NEW m \in net, NodeInit(c, m) PROVE TypeOK'
  <2>1. m \in Datagram
    BY DEF TypeOK
  <2>2. Message("config", m.addr, m.id, m.secret) \in Datagram
    BY <2>1 DEF Message, Datagram
  <2>3. node' \in [Clients -> Node]
    <3>1. CASE node[c].connected
      BY <1>7, <3>1 DEF NodeInit, TypeOK
    <3>2. CASE ~node[c].connected
      <4>1. m.id \in 0..MaxPeerID /\ m.secret \in Secrets \cup {0}
              /\ 0 \in 0..MaxAge
        BY <2>1 DEF Datagram, MaxAge
      <4>2. [node[c] EXCEPT !.connected = TRUE, !.id = m.id,
                            !.secret = m.secret, !.age = 0] \in Node
        BY <4>1 DEF TypeOK, Node
      <4>3. node' = [node EXCEPT ![c] =
                       [node[c] EXCEPT !.connected = TRUE, !.id = m.id,
                                       !.secret = m.secret, !.age = 0]]
        BY <1>7, <3>2 DEF NodeInit, TypeOK
      <4> QED
        BY <4>2, <4>3 DEF TypeOK
    <3> QED
      BY <3>1, <3>2
  <2>4. net' \subseteq Datagram /\ faults' \in 0..MaxFaults
    BY <1>7, <2>2, ReceiveType DEF NodeInit
  <2> QED
    BY <1>7, <2>3, <2>4 DEF NodeInit, TypeOK
<1>8. ASSUME NEW c \in Clients, NEW m \in net, NodeBeat(c, m) PROVE TypeOK'
  <2>1. node' \in [Clients -> Node]
    BY <1>8 DEF NodeBeat, TypeOK, Node, MaxAge
  <2> QED
    BY <1>8, <2>1, ReceiveType DEF NodeBeat, TypeOK
<1>9. ASSUME NEW c \in Clients, NEW m \in net, NodeTerminate(c, m)
      PROVE TypeOK'
  <2>1. node' \in [Clients -> Node]
    BY <1>9 DEF NodeTerminate, TypeOK, Node
  <2> QED
    BY <1>9, <2>1, ReceiveType DEF NodeTerminate, TypeOK
<1>10. CASE ServerTick
  <2>1. \A id \in IDs : Known(id) => peers[id].addr \in Addrs
    BY KnownType DEF Peer
  <2>2. {Terminate(peers[id].addr) : id \in Dropped} \subseteq Datagram
    BY <2>1, TerminateType DEF Dropped
  <2>3. {Message("serverBeat", peers[id].addr, id, 0) : id \in Kept}
          \subseteq Datagram
    BY <2>1 DEF Kept, Message, Datagram, IDs
  <2>4. net' \subseteq Datagram
    BY <1>10, <2>2, <2>3 DEF ServerTick, TypeOK
  <2> QED
    BY <1>10, <2>4 DEF ServerTick, TypeOK
<1>11. ASSUME NEW c \in Clients, NodeTick(c) PROVE TypeOK'
  <2>1. node[c].inc \in Nat
    BY DEF TypeOK, Node
  <2>2. net' \subseteq Datagram
    BY <1>11, <2>1, PacketTypes DEF NodeTick, TypeOK
  <2>3. node' \in [Clients -> Node]
    <3>1. (node[c].connected /\ ~NodeDead(c)) \in BOOLEAN
      OBVIOUS
    <3>2. Period \in 0..Period
      OBVIOUS
    <3>3. \A up \in BOOLEAN :
            [node[c] EXCEPT !.tick = Period, !.connected = up] \in Node
      BY <3>2 DEF TypeOK, Node
    <3>4. node' = [node EXCEPT ![c] =
                     [node[c] EXCEPT !.tick = Period,
                        !.connected = node[c].connected /\ ~NodeDead(c)]]
      BY <1>11 DEF NodeTick, TypeOK
    <3> QED
      BY <3>1, <3>3, <3>4 DEF TypeOK
  <2> QED
    BY <1>11, <2>2, <2>3 DEF NodeTick, TypeOK
<1>12. CASE TimePasses
  <2>1. \A a \in 0..MaxAge : Older(a) \in 0..MaxAge
    BY DEF Older, MaxAge
  <2>2. peers' \in [IDs -> Peer \cup {NoPeer}]
    <3>1. ASSUME NEW id \in IDs, Known(id)
          PROVE  [peers[id] EXCEPT !.age = Older(@)] \in Peer
      BY <2>1, <3>1, KnownType DEF Peer
    <3> QED
      BY <1>12, <3>1 DEF TimePasses
  <2>3. node' \in [Clients -> Node]
    <3>1. ASSUME NEW c \in Clients, node[c].on
          PROVE  [node[c] EXCEPT !.age = IF node[c].connected
                                         THEN Older(@) ELSE 0,
                                 !.tick = @ - 1] \in Node
      <4>1. node[c].tick > 0
        BY <1>12, <3>1 DEF TimePasses
      <4>2. node[c] \in Node
        BY DEF TypeOK
      <4>3. node[c].tick - 1 \in 0..Period
        BY <4>1, <4>2 DEF Node
      <4>4. (IF node[c].connected THEN Older(node[c].age) ELSE 0)
              \in 0..MaxAge
        BY <2>1, <4>2 DEF Node, MaxAge
      <4> QED
        BY <4>2, <4>3, <4>4 DEF Node
    <3> QED
      BY <1>12, <3>1 DEF TimePasses, TypeOK
  <2>4. srvTick' \in 0..Period
    <3>1. srvTick' = srvTick - 1 /\ srvTick > 0
      BY <1>12 DEF TimePasses
    <3> QED
      BY <3>1 DEF TypeOK
  <2> QED
    BY <1>12, <2>2, <2>3, <2>4 DEF TimePasses, TypeOK
<1>13. ASSUME NEW m \in net, Lose(m) PROVE TypeOK'
  BY <1>13 DEF Lose, Fault, TypeOK
<1>14. CASE ServerRestart
  BY <1>14 DEF ServerRestart, Fault, TypeOK
<1>15. ASSUME NEW c \in Clients, NodeShutdown(c) PROVE TypeOK'
  <2>1. net' \subseteq Datagram
    BY <1>15, PacketTypes DEF NodeShutdown, TypeOK
  <2>2. node' \in [Clients -> Node]
    BY <1>15 DEF NodeShutdown, TypeOK, Node
  <2> QED
    BY <1>15, <2>1, <2>2 DEF NodeShutdown, TypeOK
<1>16. ASSUME NEW c \in Clients, NodeRestart(c) PROVE TypeOK'
  <2>1. node[c].inc + 1 \in Nat
    BY DEF TypeOK, Node
  <2>2. net' \subseteq Datagram
    BY <1>16, <2>1, PacketTypes DEF NodeRestart, TypeOK
  <2>3. NewNode(node[c].inc + 1) \in Node
    BY <2>1 DEF NewNode, Node, MaxAge
  <2> QED
    BY <1>16, <2>2, <2>3 DEF NodeRestart, TypeOK
<1>17. CASE UNCHANGED vars
  BY <1>17 DEF vars, TypeOK
<1> QED
  BY <1>1, <1>2, <1>3, <1>4, <1>5, <1>6, <1>7, <1>8, <1>9, <1>10, <1>11,
     <1>12, <1>13, <1>14, <1>15, <1>16, <1>17
     DEF Next, Works, Fails, ServerReceives, NodeReceives

-----------------------------------------------------------------------------
(* A secret that is not news: no secret at all, or one that was held for   *)
(* this address before.                                                    *)
Old(secret, addr) == secret = 0 \/ <<secret, addr>> \in Holders

(* What is held now is held.                                               *)
LEMMA HoldersAreOld ==
  /\ \A id \in IDs : Old(peers[id].secret, peers[id].addr)
  /\ \A c \in Clients : Old(node[c].secret, Addr(c))
  /\ \A m \in net : Old(m.secret, m.addr)
BY DEF Old, Holders

(* A step after which no holder is new keeps every secret with its owner.  *)
LEMMA NothingNew ==
  ASSUME OneOwner,
         \A id \in IDs : Old(peers'[id].secret, peers'[id].addr),
         \A c \in Clients : Old(node'[c].secret, <<c, node'[c].inc>>),
         \A m \in net' : Old(m.secret, m.addr)
  PROVE  OneOwner'
<1>1. \A h \in Holders' : h[1] = 0 \/ h \in Holders
  <2>1. ASSUME NEW id \in IDs
        PROVE  LET h == <<peers'[id].secret, peers'[id].addr>>
               IN h[1] = 0 \/ h \in Holders
    BY DEF Old
  <2>2. ASSUME NEW c \in Clients
        PROVE  LET h == <<node'[c].secret, <<c, node'[c].inc>>>>
               IN h[1] = 0 \/ h \in Holders
    BY DEF Old
  <2>3. ASSUME NEW m \in net'
        PROVE  LET h == <<m.secret, m.addr>> IN h[1] = 0 \/ h \in Holders
    BY DEF Old
  <2>4. Holders' = {<<peers'[id].secret, peers'[id].addr>> : id \in IDs}
          \cup {<<node'[c].secret, <<c, node'[c].inc>>>> : c \in Clients}
          \cup {<<m.secret, m.addr>> : m \in net'}
    BY DEF Holders, Addr, IDs
  <2> QED
    BY <2>1, <2>2, <2>3, <2>4
<1> QED
  BY <1>1 DEF OneOwner

(* What the answers to a packet add to the network.                        *)
LEMMA ReceiveOld ==
  ASSUME NEW m, NEW answers, Receive(m, answers),
         \A a \in answers : Old(a.secret, a.addr)
  PROVE  \A k \in net' : Old(k.secret, k.addr)
BY HoldersAreOld DEF Receive

(* What the other packets of this program carry.                           *)
LEMMA PacketsAreOld ==
  /\ \A addr : Old(Terminate(addr).secret, Terminate(addr).addr)
  /\ \A c, inc : Old(Hello(c, inc).secret, Hello(c, inc).addr)
  /\ \A c \in Clients : \A type :
       Old(FromNode(type, c).secret, FromNode(type, c).addr)
BY HoldersAreOld DEF Terminate, Hello, FromNode, Message, Old
(* Every step keeps a secret with one owner: only ServerHello gives one    *)
(* out, and nobody holds that one yet.                                     *)
LEMMA OwnerStep == TypeOK /\ OneOwner /\ [Next]_vars => OneOwner'
<1> SUFFICES ASSUME TypeOK, OneOwner, [Next]_vars PROVE OneOwner'
  OBVIOUS
<1> USE HoldersAreOld, PacketsAreOld
<1>1. ASSUME NEW m \in net, ServerHello(m) PROVE OneOwner'
  <2>1. CASE m.addr \in Rejected
    <3>1. \A k \in net' : Old(k.secret, k.addr)
      BY <1>1, <2>1, ReceiveOld DEF ServerHello
    <3> QED
      BY <1>1, <2>1, <3>1, NothingNew DEF ServerHello, Addr
  <2>2. CASE m.addr \notin Rejected
    <3>1. PICK secret \in FreshSecrets :
            /\ Receive(m, {Message("init", m.addr, NextPeerID, secret)})
            /\ peers' = [peers EXCEPT ![NextPeerID] = NewPeer(secret, m.addr)]
            /\ node' = node
      BY <1>1, <2>2 DEF ServerHello
    <3> DEFINE given == <<secret, m.addr>>
    <3>2. \A h \in Holders : h[1] # secret
      BY <3>1 DEF FreshSecrets, InUse, Holders
    <3>3. ASSUME NEW id \in IDs
          PROVE  \/ peers'[id] = peers[id]
                 \/ peers'[id] = NewPeer(secret, m.addr)
      BY <3>1 DEF TypeOK
    <3>4. {<<peers'[id].secret, peers'[id].addr>> : id \in IDs}
            \subseteq Holders \cup {given}
      BY <3>3 DEF NewPeer, Holders
    <3>5. {<<k.secret, k.addr>> : k \in net'} \subseteq Holders \cup {given}
      BY <3>1 DEF Receive, Message, Holders
    <3>6. Holders' \subseteq Holders \cup {given}
      BY <3>1, <3>4, <3>5 DEF Holders, Addr, IDs
    <3> QED
      BY <3>2, <3>6 DEF OneOwner
  <2> QED
    BY <2>1, <2>2
<1>2. ASSUME NEW m \in net, ServerUnauthorized(m) PROVE OneOwner'
  <2>1. \A k \in net' : Old(k.secret, k.addr)
    BY <1>2, ReceiveOld DEF ServerUnauthorized
  <2> QED
    BY <1>2, <2>1, NothingNew DEF ServerUnauthorized, Addr
<1>3. ASSUME NEW m \in net, ServerBeat(m) \/ ServerConfig(m) PROVE OneOwner'
  <2>1. \A k \in net' : Old(k.secret, k.addr)
    BY <1>3, ReceiveOld DEF ServerBeat, ServerConfig
  <2>2. \A id \in IDs : /\ peers'[id].secret = peers[id].secret
                        /\ peers'[id].addr = peers[id].addr
    BY <1>3 DEF ServerBeat, ServerConfig, TypeOK, Peer, NoPeer
  <2> QED
    BY <1>3, <2>1, <2>2, NothingNew DEF ServerBeat, ServerConfig, Addr
<1>4. ASSUME NEW m \in net, ServerBye(m) PROVE OneOwner'
  <2>1. \A k \in net' : Old(k.secret, k.addr)
    BY <1>4, ReceiveOld DEF ServerBye
  <2>2. \A id \in IDs : peers'[id] = peers[id] \/ peers'[id] = NoPeer
    BY <1>4 DEF ServerBye, TypeOK
  <2>3. \A id \in IDs : Old(peers'[id].secret, peers'[id].addr)
    BY <2>2 DEF NoPeer, Old
  <2> QED
    BY <1>4, <2>1, <2>3, NothingNew DEF ServerBye, Addr
<1>5. ASSUME NEW m \in net, Undeliverable(m) \/ Lose(m) PROVE OneOwner'
  BY <1>5, NothingNew DEF Undeliverable, Lose, Addr
<1>6. ASSUME NEW c \in Clients, NEW m \in net, NodeInit(c, m) PROVE OneOwner'
  <2>1. Old(m.secret, m.addr) /\ m.addr = <<c, node[c].inc>>
    BY <1>6 DEF NodeInit, For, Addr
  <2>2. \A k \in net' : Old(k.secret, k.addr)
    BY <1>6, <2>1, ReceiveOld DEF NodeInit, Message
  <2>3. ASSUME NEW d \in Clients
        PROVE  /\ node'[d].inc = node[d].inc
               /\ \/ node'[d].secret = node[d].secret
                  \/ d = c /\ node'[d].secret = m.secret
    BY <1>6 DEF NodeInit, TypeOK, Node
  <2>4. \A d \in Clients : Old(node'[d].secret, <<d, node'[d].inc>>)
    BY <2>1, <2>3 DEF Addr
  <2> QED
    BY <1>6, <2>2, <2>4, NothingNew DEF NodeInit
<1>7. ASSUME NEW c \in Clients, NEW m \in net,
             NodeBeat(c, m) \/ NodeTerminate(c, m)
      PROVE  OneOwner'
  <2>1. \A k \in net' : Old(k.secret, k.addr)
    BY <1>7, ReceiveOld DEF NodeBeat, NodeTerminate
  <2>2. \A d \in Clients : /\ node'[d].secret = node[d].secret
                           /\ node'[d].inc = node[d].inc
    BY <1>7 DEF NodeBeat, NodeTerminate, TypeOK, Node
  <2> QED
    BY <1>7, <2>1, <2>2, NothingNew DEF NodeBeat, NodeTerminate, Addr
<1>8. CASE ServerTick
  <2>1. \A id \in IDs : peers'[id] = peers[id] \/ peers'[id] = NoPeer
    BY <1>8 DEF ServerTick
  <2>2. \A id \in IDs : Old(peers'[id].secret, peers'[id].addr)
    BY <2>1 DEF NoPeer, Old
  <2>3. \A id : LET k == Message("serverBeat", peers[id].addr, id, 0)
                IN Old(k.secret, k.addr)
    BY DEF Message, Old
  <2>4. \A k \in net' : Old(k.secret, k.addr)
    BY <1>8, <2>3 DEF ServerTick
  <2> QED
    BY <1>8, <2>2, <2>4, NothingNew DEF ServerTick, Addr
<1>9. ASSUME NEW c \in Clients, NodeTick(c) PROVE OneOwner'
  <2>1. \A k \in net' : Old(k.secret, k.addr)
    BY <1>9 DEF NodeTick
  <2>2. \A d \in Clients : /\ node'[d].secret = node[d].secret
                           /\ node'[d].inc = node[d].inc
    BY <1>9 DEF NodeTick, TypeOK, Node
  <2> QED
    BY <1>9, <2>1, <2>2, NothingNew DEF NodeTick, Addr
<1>10. CASE TimePasses
  <2>1. ASSUME NEW id \in IDs
        PROVE  /\ peers'[id].secret = peers[id].secret
               /\ peers'[id].addr = peers[id].addr
    <3>1. CASE Known(id)
      BY <1>10, <3>1, KnownType DEF TimePasses, Peer
    <3>2. CASE ~Known(id)
      BY <1>10, <3>2 DEF TimePasses, Known
    <3> QED
      BY <3>1, <3>2
  <2>2. ASSUME NEW c \in Clients
        PROVE  /\ node'[c].secret = node[c].secret
               /\ node'[c].inc = node[c].inc
    BY <1>10 DEF TimePasses, TypeOK, Node
  <2> QED
    BY <1>10, <2>1, <2>2, NothingNew DEF TimePasses, Addr
<1>11. CASE ServerRestart
  <2>1. \A id \in IDs : Old(peers'[id].secret, peers'[id].addr)
    BY <1>11 DEF ServerRestart, NoPeer, Old
  <2> QED
    BY <1>11, <2>1, NothingNew DEF ServerRestart, Addr
<1>12. ASSUME NEW c \in Clients, NodeShutdown(c) PROVE OneOwner'
  <2>1. \A k \in net' : Old(k.secret, k.addr)
    BY <1>12 DEF NodeShutdown
  <2>2. \A d \in Clients : /\ node'[d].secret = node[d].secret
                           /\ node'[d].inc = node[d].inc
    BY <1>12 DEF NodeShutdown, TypeOK, Node
  <2> QED
    BY <1>12, <2>1, <2>2, NothingNew DEF NodeShutdown, Addr
<1>13. ASSUME NEW c \in Clients, NodeRestart(c) PROVE OneOwner'
  <2>1. \A k \in net' : Old(k.secret, k.addr)
    BY <1>13 DEF NodeRestart
  <2>2. \A d \in Clients : node'[d] = node[d] \/ node'[d].secret = 0
    BY <1>13 DEF NodeRestart, NewNode, TypeOK
  <2>3. \A d \in Clients : Old(node'[d].secret, <<d, node'[d].inc>>)
    BY <2>2 DEF Old, Addr
  <2> QED
    BY <1>13, <2>1, <2>3, NothingNew DEF NodeRestart
<1>14. CASE UNCHANGED vars
  BY <1>14, NothingNew DEF vars, Addr
<1> QED
  BY <1>1, <1>2, <1>3, <1>4, <1>5, <1>6, <1>7, <1>8, <1>9, <1>10, <1>11,
     <1>12, <1>13, <1>14
     DEF Next, Works, Fails, ServerReceives, NodeReceives

(* A packet the server accepts carries the secret of the peer it names, so *)
(* the two belong to one address.                                          *)
LEMMA OwnersAreAuthorized == TypeOK /\ OneOwner => AuthorizedByOwner
<1> SUFFICES ASSUME TypeOK, OneOwner, NEW m \in net, Authorized(m)
             PROVE  peers[m.id].addr = m.addr
  BY DEF AuthorizedByOwner
<1>1. m.id \in IDs /\ peers[m.id].secret = m.secret /\ m.secret # 0
  BY KnownType DEF Authorized
<1>2. <<m.secret, peers[m.id].addr>> \in Holders
  BY <1>1 DEF Holders
<1>3. <<m.secret, m.addr>> \in Holders
  BY DEF Holders
<1> QED
  BY <1>1, <1>2, <1>3 DEF OneOwner

-----------------------------------------------------------------------------
(* The table, the nodes and the datagrams stay what the code declares them *)
(* to be: the largest ID plus one, wrapped, is an ID, no age or ticker     *)
(* leaves its range.                                                       *)
THEOREM SessionTypeCorrect == Spec => []TypeOK
<1>1. Init => TypeOK
  BY InitInv
<1> QED
  BY <1>1, TypeStep, PTL DEF Spec

(* Whatever is lost, doubled or restarted, a secret the server gave out in *)
(* an init packet is held for one address only, by whoever holds it.       *)
THEOREM OneOwnerCorrect == Spec => []OneOwner
<1> QED
  BY InitInv, TypeStep, OwnerStep, PTL DEF Spec

(* A heartbeat, config or disconnect the server accepts for a peer comes   *)
(* from the address that peer was given its ID at, though IDs are reused.  *)
THEOREM AuthorizedByOwnerCorrect == Spec => []AuthorizedByOwner
<1> QED
  BY SessionTypeCorrect, OneOwnerCorrect, OwnersAreAuthorized, PTL
-----------------------------------------------------------------------------
(* Sessions last while nothing is lost or doubled and the server runs.     *)

Greets(addr) == \E m \in net : m.type = "hello" /\ m.addr = addr
(* The addresses the server has given an ID. *)
Greeted == {a \in AcceptedAddrs : a[2] <= node[a[1]].inc /\ ~Greets(a)}

PeerAt(id, addr) == Known(id) /\ peers[id].addr = addr
Owns(c, id, secret) == PeerAt(id, Addr(c)) /\ peers[id].secret = secret
UnderWay(types, c) == \E m \in net : m.type \in types /\ m.addr = Addr(c)

(* No packet and no peer is from a start of a node that is still to come.  *)
Past(addr) == addr[2] <= node[addr[1]].inc
AddressesInv ==
  /\ \A c \in Clients :
       /\ node[c].inc <= IF c \in Stoppable THEN MaxRestarts ELSE 0
       /\ node[c].connected => Addr(c) \notin Rejected
  /\ \A m \in net :
       /\ Past(m.addr)
       /\ m.type = "hello" => m.id = 0 /\ m.secret = 0
       /\ m.type = "init" => m.addr \notin Rejected
  /\ \A id \in IDs : Known(id) => Past(peers[id].addr)

(* No ID is larger than the number of sessions so far, and 0 is given out  *)
(* when there is no other left.                                            *)
IDsInv ==
  \A id \in IDs :
    Known(id) => /\ id <= Cardinality(Greeted)
                 /\ id = 0 => Cardinality(Greeted) >= MaxPeerID + 1

(* What is under way from and to node c: a hello, the init it is answered  *)
(* with, and then packets of that session.                                 *)
PacketsInv(c) ==
  \A m \in net :
    m.addr = Addr(c) =>
      /\ m.type \notin {"terminate", "bye"}
      /\ m.type = "hello" => ~node[c].connected
      /\ m.type = "init" => ~node[c].connected /\ Owns(c, m.id, m.secret)
      /\ m.type \in {"config", "beat"} =>
           node[c].connected /\ m.id = node[c].id /\ m.secret = node[c].secret

(* The server has one peer for node c at most, heard of it within a period *)
(* or is about to, and has its config or is about to get it.               *)
PeerInv(c) ==
  \A id \in IDs :
    PeerAt(id, Addr(c)) =>
      /\ \A other \in IDs : PeerAt(other, Addr(c)) => other = id
      /\ ~Greets(Addr(c))
      /\ peers[id].age <= Period
      /\ peers[id].age <= Period - node[c].tick \/ UnderWay({"beat"}, c)
      /\ ~peers[id].hasConf =>
           peers[id].age = 0 /\ UnderWay({"init", "config"}, c)

(* Node c is the peer it takes itself for and heard of the server within a *)
(* period, or it has just started and waits for the answer to its hello.   *)
NodeInv(c) ==
  IF node[c].connected
  THEN /\ Owns(c, node[c].id, node[c].secret)
       /\ node[c].age <= Period
       /\ node[c].age <= Period - srvTick \/ UnderWay({"serverBeat"}, c)
  ELSE /\ node[c].tick = Period
       /\ Greets(Addr(c)) \/ UnderWay({"init"}, c)

SessionInv(c) == PacketsInv(c) /\ PeerInv(c) /\ NodeInv(c)
LastingInv ==
  AddressesInv /\ IDsInv /\ \A c \in Clients : Accepted(c) => SessionInv(c)

(* Without faults a packet is received once. *)
LEMMA NoFaults ==
  ASSUME TypeOK, [Next]_vars, faults' = 0
  PROVE  faults = 0
<1>1. \A m, answers : Receive(m, answers) => faults' \in {faults, faults + 1}
  BY DEF Receive, Fault
<1>2. faults \in Nat
  BY FaultsAssumption DEF TypeOK
<1>3. faults' \in {faults, faults + 1}
  BY <1>1 DEF Next, Works, Fails, ServerReceives, NodeReceives, ServerHello,
     ServerUnauthorized, ServerBeat, ServerConfig, ServerBye, Undeliverable,
     NodeInit, NodeBeat, NodeTerminate, ServerTick, NodeTick, TimePasses,
     Lose, Fault, ServerRestart, NodeShutdown, NodeRestart, vars
<1> QED BY <1>2, <1>3

(* Without faults a datagram that is received is gone.                     *)
LEMMA ReceivedOnce ==
  ASSUME faults = 0, faults' = 0, NEW m, NEW answers, Receive(m, answers)
  PROVE  net' = (net \ {m}) \cup answers
BY DEF Receive, Fault

(* The fields of a datagram under way ...                                  *)
LEMMA NetType ==
  ASSUME TypeOK, NEW m \in net
  PROVE  /\ m \in Datagram /\ m.addr \in Addrs
         /\ m.addr[1] \in Clients /\ m.addr[2] \in Nat
         /\ m.addr = <<m.addr[1], m.addr[2]>> /\ m.id \in IDs
BY DEF TypeOK, Datagram, Addrs, IDs

(* ... of a peer of the table ...                                          *)
LEMMA PeerType ==
  ASSUME TypeOK, NEW id \in IDs, Known(id)
  PROVE  /\ peers[id] \in Peer /\ peers[id].addr \in Addrs
         /\ peers[id].addr[1] \in Clients /\ peers[id].addr[2] \in Nat
         /\ peers[id].addr = <<peers[id].addr[1], peers[id].addr[2]>>
BY KnownType DEF Peer, Addrs

(* ... and of a node.                                                      *)
LEMMA NodeType ==
  ASSUME TypeOK, NEW c \in Clients
  PROVE  /\ node[c] \in Node /\ Addr(c) = <<c, node[c].inc>>
         /\ node[c].inc \in Nat /\ node[c].on \in BOOLEAN
         /\ node[c].connected \in BOOLEAN /\ node[c].id \in IDs
         /\ node[c].tick \in 0..Period /\ node[c].age \in Nat
         /\ Addr(c) \in Addrs /\ Addr(c)[1] = c /\ Addr(c)[2] = node[c].inc
BY TimesAssumption DEF TypeOK, Node, Addr, Addrs, IDs, MaxAge

(* A step that leaves a node, its packets and its peers alone.             *)
LEMMA Untouched ==
  ASSUME TypeOK, NEW c \in Clients, SessionInv(c),
         node'[c] = node[c], srvTick' = srvTick,
         \A m \in net \cup net' : m.addr = Addr(c) => (m \in net' <=> m \in net),
         \A id \in IDs : \/ peers'[id] = peers[id]
                         \/ /\ ~PeerAt(id, Addr(c))
                            /\ peers'[id] = NoPeer \/ peers'[id].addr # Addr(c)
  PROVE  SessionInv(c)'
<1>1. Addr(c)' = Addr(c)
  BY DEF Addr
<1>2. \A id \in IDs : /\ PeerAt(id, Addr(c))' <=> PeerAt(id, Addr(c))
                      /\ PeerAt(id, Addr(c)) => peers'[id] = peers[id]
  BY <1>1 DEF PeerAt, Known
<1>3. Greets(Addr(c))' <=> Greets(Addr(c))
  BY <1>1 DEF Greets
<1>4. \A types : UnderWay(types, c)' <=> UnderWay(types, c)
  BY <1>1 DEF UnderWay
<1>5. \A id \in IDs : \A secret : Owns(c, id, secret) => Owns(c, id, secret)'
  BY <1>1, <1>2 DEF Owns
<1>6. PacketsInv(c)'
  BY <1>1, <1>5, NetType DEF SessionInv, PacketsInv
<1>7. PeerInv(c)'
  BY <1>1, <1>2, <1>3, <1>4 DEF SessionInv, PeerInv
<1>8. NodeInv(c)'
  BY <1>1, <1>3, <1>4, <1>5, NodeType DEF SessionInv, NodeInv
<1> QED BY <1>6, <1>7, <1>8 DEF SessionInv

(* A step in which no node starts again and all that is new is addressed   *)
(* from or to a start that was.                                            *)
LEMMA AddressesKept ==
  ASSUME TypeOK, AddressesInv,
         \A c \in Clients :
           /\ node'[c].inc = node[c].inc
           /\ node'[c].connected => node[c].connected \/ Addr(c) \notin Rejected,
         \A m \in net' \ net :
           /\ m.addr[1] \in Clients /\ Past(m.addr)
           /\ m.type = "hello" => m.id = 0 /\ m.secret = 0
           /\ m.type = "init" => m.addr \notin Rejected,
         \A id \in IDs : Known(id)' => \/ PeerAt(id, peers'[id].addr)
                                       \/ /\ peers'[id].addr[1] \in Clients
                                          /\ Past(peers'[id].addr)
  PROVE  AddressesInv'
<1>1. \A c \in Clients : Addr(c)' = Addr(c)
  BY DEF Addr
<1> DEFINE Met(addr) == addr[2] <= node'[addr[1]].inc
<1>2. \A addr : addr[1] \in Clients /\ Past(addr) => Met(addr)
  BY DEF Past
<1>3. \A m \in net' : /\ m.addr[1] \in Clients /\ Past(m.addr)
                      /\ m.type = "hello" => m.id = 0 /\ m.secret = 0
                      /\ m.type = "init" => m.addr \notin Rejected
  BY NetType DEF AddressesInv
<1>4. \A id \in IDs : Known(id)' => /\ peers'[id].addr[1] \in Clients
                                    /\ Past(peers'[id].addr)
  BY PeerType DEF AddressesInv, PeerAt
<1>5. \A m \in net' : Met(m.addr)
  BY <1>2, <1>3
<1>6. \A id \in IDs : Known(id)' => Met(peers'[id].addr)
  BY <1>2, <1>4
<1>7. \A c \in Clients :
        /\ node'[c].inc <= IF c \in Stoppable THEN MaxRestarts ELSE 0
        /\ node'[c].connected => Addr(c)' \notin Rejected
  BY <1>1 DEF AddressesInv
<1> QED BY <1>3, <1>5, <1>6, <1>7 DEF AddressesInv, IDs, Past

(* Every step names only starts of nodes that have been.                   *)
LEMMA AddressesStep ==
  ASSUME TypeOK, AddressesInv, [Next]_vars, faults = 0, faults' = 0
  PROVE  AddressesInv'
<1> USE TimesAssumption
<1>0. \A m \in net : /\ m.addr[1] \in Clients /\ Past(m.addr)
                     /\ m.type = "init" => m.addr \notin Rejected
  BY NetType DEF AddressesInv
<1>1. \A id \in IDs : Known(id) =>
        PeerAt(id, peers[id].addr) /\ peers[id].addr[1] \in Clients
                                   /\ Past(peers[id].addr)
  BY PeerType DEF AddressesInv, PeerAt
<1>2. \A c \in Clients : Addr(c)[1] = c /\ Past(Addr(c))
  BY NodeType DEF Past
<1>3. ASSUME NEW m \in net, ServerHello(m) PROVE AddressesInv'
  <2>1. CASE m.addr \in Rejected
    <3>1. net' = (net \ {m}) \cup {Terminate(m.addr)} /\ UNCHANGED <<node, peers>>
      BY <1>3, <2>1, ReceivedOnce DEF ServerHello
    <3> QED BY <1>0, <1>1, <3>1, AddressesKept DEF Terminate, Message, Known
  <2>2. CASE m.addr \notin Rejected
    <3>1. PICK secret \in Secrets :
            /\ net' = (net \ {m}) \cup
                        {Message("init", m.addr, NextPeerID, secret)}
            /\ peers' = [peers EXCEPT ![NextPeerID] = NewPeer(secret, m.addr)]
            /\ node' = node
      BY <1>3, <2>2, ReceivedOnce DEF ServerHello, FreshSecrets
    <3>2. \A id \in IDs : Known(id)' => \/ PeerAt(id, peers'[id].addr)
                                        \/ /\ peers'[id].addr[1] \in Clients
                                           /\ Past(peers'[id].addr)
      BY <1>0, <3>1, NextPeerIDType DEF TypeOK, NewPeer, PeerAt, Known
    <3>3. \A k \in net' \ net : /\ k.addr[1] \in Clients /\ Past(k.addr)
                                /\ k.type = "init" /\ k.addr \notin Rejected
      BY <1>0, <2>2, <3>1 DEF Message
    <3> QED BY <3>1, <3>2, <3>3, AddressesKept
  <2> QED BY <2>1, <2>2
<1>4. ASSUME NEW m \in net, ServerUnauthorized(m) PROVE AddressesInv'
  <2>1. net' = (net \ {m}) \cup {Terminate(m.addr)} /\ UNCHANGED <<node, peers>>
    BY <1>4, ReceivedOnce DEF ServerUnauthorized
  <2> QED BY <1>0, <1>1, <2>1, AddressesKept DEF Terminate, Message, Known
<1>5. ASSUME NEW m \in net, ServerBeat(m) \/ ServerConfig(m) \/ ServerBye(m)
      PROVE  AddressesInv'
  <2>1. net' \subseteq net /\ node' = node
    BY <1>5, ReceivedOnce DEF ServerBeat, ServerConfig, ServerBye
  <2>2. \A id \in IDs : Known(id)' => PeerAt(id, peers'[id].addr)
    <3>1. ASSUME NEW id \in IDs, Known(id)'
          PROVE  Known(id) /\ peers'[id].addr = peers[id].addr
      <4>1. Known(m.id) /\ m.id \in IDs /\ peers[m.id] \in Peer
        BY <1>5, KnownType DEF ServerBeat, ServerConfig, ServerBye, Authorized
      <4> QED BY <1>5, <3>1, <4>1 DEF ServerBeat, ServerConfig, ServerBye,
                                      TypeOK, Peer, Known
    <3> QED BY <3>1 DEF PeerAt
  <2> QED BY <2>1, <2>2, AddressesKept
<1>6. ASSUME NEW m \in net, Undeliverable(m) PROVE AddressesInv'
  BY <1>1, <1>6, AddressesKept DEF Undeliverable, Known
<1>7. ASSUME NEW c \in Clients, NEW m \in net, NodeInit(c, m)
      PROVE AddressesInv'
  <2>1. m.addr = Addr(c) /\ m.type = "init" /\ peers' = peers
    BY <1>7 DEF NodeInit, For
  <2>2. \A k \in net' \ net : k.addr = m.addr /\ k.type = "config"
    BY <1>7, ReceivedOnce DEF NodeInit, Message
  <2>3. \A d \in Clients :
          /\ node'[d].inc = node[d].inc
          /\ node'[d].connected => node[d].connected \/ d = c
    BY <1>7 DEF NodeInit, TypeOK, Node
  <2> QED BY <1>0, <1>1, <2>1, <2>2, <2>3, AddressesKept DEF Known
<1>8. ASSUME NEW c \in Clients, NEW m \in net,
             NodeBeat(c, m) \/ NodeTerminate(c, m)
      PROVE  AddressesInv'
  <2>1. net' \subseteq net /\ peers' = peers
    BY <1>8, ReceivedOnce DEF NodeBeat, NodeTerminate
  <2>2. \A d \in Clients : /\ node'[d].inc = node[d].inc
                           /\ node'[d].connected => node[d].connected
    BY <1>8 DEF NodeBeat, NodeTerminate, TypeOK, Node
  <2> QED BY <1>1, <2>1, <2>2, AddressesKept DEF Known
<1>9. CASE ServerTick
  <2>1. \A id \in IDs : peers'[id] = peers[id] \/ peers'[id] = NoPeer
    BY <1>9 DEF ServerTick
  <2>2. ASSUME NEW k \in net' \ net
        PROVE  /\ k.addr[1] \in Clients /\ Past(k.addr)
               /\ k.type \in {"terminate", "serverBeat"}
    <3>1. PICK id \in IDs : Known(id) /\ \/ k = Terminate(peers[id].addr)
                                         \/ k = Message("serverBeat",
                                                        peers[id].addr, id, 0)
      BY <1>9 DEF ServerTick, Dropped, Kept
    <3> QED BY <1>1, <3>1 DEF Terminate, Message
  <2>3. \A id \in IDs : Known(id)' => PeerAt(id, peers'[id].addr)
    BY <1>1, <2>1 DEF Known, NoPeer
  <2>4. node' = node
    BY <1>9 DEF ServerTick
  <2> QED BY <2>2, <2>3, <2>4, AddressesKept
<1>10. ASSUME NEW c \in Clients, NodeTick(c) PROVE AddressesInv'
  <2>1. \A k \in net' \ net : /\ k.addr = Addr(c) /\ k.type # "init"
                              /\ k.type = "hello" => k.id = 0 /\ k.secret = 0
    BY <1>10 DEF NodeTick, Hello, FromNode, Message, Addr
  <2>2. \A d \in Clients : /\ node'[d].inc = node[d].inc
                           /\ node'[d].connected => node[d].connected
    BY <1>10 DEF NodeTick, TypeOK, Node
  <2>3. peers' = peers
    BY <1>10 DEF NodeTick
  <2> QED BY <1>1, <1>2, <2>1, <2>2, <2>3, AddressesKept DEF Known
<1>11. CASE TimePasses
  <2>1. \A id \in IDs : Known(id)' => PeerAt(id, peers'[id].addr)
    <3> SUFFICES ASSUME NEW id \in IDs, Known(id)'
                 PROVE  PeerAt(id, peers'[id].addr)
      OBVIOUS
    <3>1. Known(id)
      BY <1>11 DEF TimePasses, Known
    <3>2. peers[id] \in Peer
      BY <3>1, PeerType
    <3> QED BY <1>11, <3>1, <3>2 DEF TimePasses, Peer, PeerAt
  <2>2. \A d \in Clients : /\ node'[d].inc = node[d].inc
                           /\ node'[d].connected = node[d].connected
    BY <1>11 DEF TimePasses, TypeOK, Node
  <2>3. net' = net
    BY <1>11 DEF TimePasses
  <2> QED BY <2>1, <2>2, <2>3, AddressesKept
<1>12. ASSUME NEW m \in net, Lose(m) PROVE AddressesInv'
  BY <1>12 DEF Lose, Fault
<1>13. CASE ServerRestart
  BY <1>13 DEF ServerRestart, Fault
<1>14. ASSUME NEW c \in Clients, NodeShutdown(c) PROVE AddressesInv'
  <2>1. \A k \in net' \ net : k.addr = Addr(c) /\ k.type = "bye"
    BY <1>14 DEF NodeShutdown, FromNode, Message
  <2>2. \A d \in Clients : /\ node'[d].inc = node[d].inc
                           /\ node'[d].connected = node[d].connected
    BY <1>14 DEF NodeShutdown, TypeOK, Node
  <2>3. peers' = peers
    BY <1>14 DEF NodeShutdown
  <2> QED BY <1>1, <1>2, <2>1, <2>2, <2>3, AddressesKept DEF Known
<1>15. ASSUME NEW c \in Clients, NodeRestart(c) PROVE AddressesInv'
  <2>1. /\ c \in Stoppable /\ node[c].inc < MaxRestarts
        /\ node' = [node EXCEPT ![c] = NewNode(node[c].inc + 1)]
        /\ net' = net \cup {Hello(c, node[c].inc + 1)} /\ peers' = peers
    BY <1>15 DEF NodeRestart
  <2>2. \A d \in Clients :
          IF d = c THEN node'[d] = NewNode(node[c].inc + 1)
                   ELSE node'[d] = node[d]
    BY <2>1 DEF TypeOK
  <2>3. \A d \in Clients : node[d].inc \in Nat /\ node[d].inc <= node'[d].inc
    BY <2>2, NodeType DEF NewNode
  <2> DEFINE Met(addr) == addr[2] <= node'[addr[1]].inc
  <2>4. \A addr : addr[1] \in Clients /\ addr[2] \in Nat /\ Past(addr)
                    => Met(addr)
    <3>1. \A d \in Clients : node'[d].inc \in Nat
      BY <2>2, NodeType DEF NewNode
    <3> QED BY <2>3, <3>1 DEF Past
  <2>5. \A m \in net' : /\ Met(m.addr)
                        /\ m.type = "hello" => m.id = 0 /\ m.secret = 0
                        /\ m.type = "init" => m.addr \notin Rejected
    <3>1. Met(<<c, node[c].inc + 1>>)
      BY <2>2, NodeType DEF NewNode
    <3>2. ASSUME NEW m \in net
          PROVE  /\ Met(m.addr)
                 /\ m.type = "hello" => m.id = 0 /\ m.secret = 0
                 /\ m.type = "init" => m.addr \notin Rejected
      BY <2>4, NetType DEF AddressesInv
    <3> QED BY <2>1, <3>1, <3>2 DEF Hello, Message
  <2>6. \A id \in IDs : Known(id)' => Met(peers'[id].addr)
    BY <2>1, <2>4, PeerType DEF AddressesInv, Known
  <2>7. ASSUME NEW d \in Clients
        PROVE  /\ node'[d].inc <= IF d \in Stoppable THEN MaxRestarts ELSE 0
               /\ node'[d].connected => Addr(d)' \notin Rejected
    <3>1. CASE d = c
      BY <2>1, <2>2, <3>1, NodeType, FaultsAssumption DEF NewNode
    <3>2. CASE d # c
      BY <2>2, <3>2 DEF AddressesInv, Addr
    <3> QED BY <3>1, <3>2
  <2> HIDE DEF Met
  <2> QED BY <2>5, <2>6, <2>7 DEF AddressesInv, IDs, Past, Met
<1>16. CASE UNCHANGED vars
  BY <1>1, <1>16, AddressesKept DEF vars, Known
<1> QED
  BY <1>3, <1>4, <1>5, <1>6, <1>7, <1>8, <1>9, <1>10, <1>11, <1>12, <1>13,
     <1>14, <1>15, <1>16
     DEF Next, Works, Fails, ServerReceives, NodeReceives

(* The greeted addresses can be counted.                                   *)
LEMMA GreetedCount ==
  ASSUME IDsSuffice
  PROVE  /\ IsFiniteSet(Greeted) /\ Cardinality(Greeted) \in Nat
         /\ IsFiniteSet(Greeted') /\ Cardinality(Greeted') \in Nat
<1>1. Greeted \in SUBSET AcceptedAddrs /\ Greeted' \in SUBSET AcceptedAddrs
  BY DEF Greeted, AcceptedAddrs
<1> QED BY <1>1, FS_Subset, FS_CardinalityType DEF IDsSuffice

(* An address that was greeted stays so unless it says hello again.        *)
LEMMA GreetedKept ==
  ASSUME TypeOK, TypeOK',
         \A c \in Clients : node[c].inc <= node'[c].inc,
         \A m \in net' \ net : m.type = "hello" => m.addr \notin Greeted
  PROVE  Greeted \subseteq Greeted'
<1>1. \A c \in Clients : node[c].inc \in Nat /\ node'[c].inc \in Nat
  BY DEF TypeOK, Node
<1>2. ASSUME NEW a \in Greeted PROVE a \in Greeted'
  <2>1. a \in AcceptedAddrs /\ a[1] \in Clients /\ a[2] \in Nat
    BY DEF Greeted, AcceptedAddrs
  <2>2. a[2] <= node'[a[1]].inc
    BY <1>1, <2>1 DEF Greeted
  <2>3. ~ \E m \in net' : m.type = "hello" /\ m.addr = a
    BY DEF Greeted, Greets
  <2> QED BY <2>1, <2>2, <2>3 DEF Greeted, Greets, AcceptedAddrs
<1> QED BY <1>2

(* The bound on the IDs survives a step that adds no peer.                 *)
LEMMA IDsKept ==
  ASSUME IDsSuffice, IDsInv, Greeted \subseteq Greeted',
         \A id \in IDs : Known(id)' => Known(id)
  PROVE  IDsInv'
<1>1. Cardinality(Greeted) <= Cardinality(Greeted')
  BY GreetedCount, FS_Subset
<1>2. \A id \in IDs : id \in Nat
  BY TimesAssumption DEF IDs
<1>3. MaxPeerID \in Nat
  BY TimesAssumption
<1> QED BY <1>1, <1>2, <1>3, GreetedCount DEF IDsInv, IDs

(* As long as there is a node to be greeted its ID is free.                *)
LEMMA NextIDFree ==
  ASSUME TypeOK, IDsSuffice, IDsInv, NEW a \in AcceptedAddrs, a \notin Greeted
  PROVE  /\ ~Known(NextPeerID)
         /\ NextPeerID <= Cardinality(Greeted) + 1
         /\ NextPeerID = 0 => Cardinality(Greeted) >= MaxPeerID
<1> DEFINE n == Cardinality(Greeted)
           l == LargestID
<1>1. n \in Nat /\ n + 1 <= MaxPeerID + 1
  <2>1. Greeted \cup {a} \in SUBSET AcceptedAddrs
    BY DEF Greeted
  <2>2. Cardinality(Greeted \cup {a}) = n + 1
    BY GreetedCount, FS_AddElement
  <2>3. Cardinality(Greeted \cup {a}) <= Cardinality(AcceptedAddrs)
    BY <2>1, FS_Subset DEF IDsSuffice
  <2>4. Cardinality(AcceptedAddrs) \in Nat
    BY FS_CardinalityType DEF IDsSuffice
  <2> QED BY <2>2, <2>3, <2>4, GreetedCount, TimesAssumption DEF IDsSuffice
<1>2. /\ l \in IDs /\ (l = 0 \/ Known(l))
      /\ \A id \in IDs : Known(id) => id <= l
      /\ NextPeerID = (l + 1) % (MaxPeerID + 1)
  BY LargestIDIs DEF NextPeerID
<1>3. \A id \in IDs : Known(id) => id <= n /\ (id = 0 => n >= MaxPeerID + 1)
  BY DEF IDsInv
<1> HIDE DEF n, l
<1>4. MaxPeerID \in Nat /\ IDs = 0..MaxPeerID
  BY TimesAssumption DEF IDs
<1>5. ~Known(0) /\ l <= n
  BY <1>1, <1>2, <1>3, <1>4
<1>6. CASE l < MaxPeerID
  <2>1. NextPeerID = l + 1 /\ l + 1 \in IDs
    BY <1>2, <1>4, <1>6
  <2>2. ~Known(l + 1)
    BY <1>2, <1>4, <2>1
  <2>3. l + 1 <= n + 1 /\ l + 1 # 0
    BY <1>1, <1>2, <1>4, <1>5
  <2> QED BY <2>1, <2>2, <2>3 DEF n
<1>7. CASE l = MaxPeerID
  <2>1. NextPeerID = 0
    BY <1>2, <1>4, <1>7
  <2>2. 0 <= n + 1 /\ n >= MaxPeerID
    BY <1>1, <1>5, <1>7
  <2> QED BY <1>5, <2>1, <2>2 DEF n
<1> QED BY <1>2, <1>4, <1>6, <1>7

(* What ServerHello does with the hello of a node that is not refused.     *)
LEMMA Greeting ==
  ASSUME TypeOK, LastingInv, IDsSuffice, faults = 0, faults' = 0,
         NEW m \in net, ServerHello(m), m.addr \notin Rejected
  PROVE  /\ m.addr \in AcceptedAddrs /\ m.addr \notin Greeted
         /\ ~Known(NextPeerID) /\ NextPeerID \in IDs
         /\ \A k \in net : k.type = "hello" /\ k.addr = m.addr => k = m
         /\ \E secret \in Secrets :
              /\ net' = (net \ {m}) \cup
                          {Message("init", m.addr, NextPeerID, secret)}
              /\ peers' = [peers EXCEPT ![NextPeerID] =
                             NewPeer(secret, m.addr)]
         /\ UNCHANGED <<srvTick, node>>
<1>1. m.addr \in AcceptedAddrs
  <2> DEFINE c == m.addr[1]
  <2>1. /\ c \in Clients /\ m.addr[2] \in Nat /\ m.addr = <<c, m.addr[2]>>
        /\ m.addr[2] <= node[c].inc /\ node[c].inc \in Nat
        /\ node[c].inc <= IF c \in Stoppable THEN MaxRestarts ELSE 0
    BY NetType, NodeType DEF LastingInv, AddressesInv, Past
  <2>2. m.addr[2] \in 0..MaxRestarts /\ (c \in Stoppable \/ m.addr[2] = 0)
    BY <2>1, FaultsAssumption
  <2> HIDE DEF c
  <2> QED BY <2>1, <2>2 DEF AcceptedAddrs, c
<1>2. m.addr \notin Greeted
  BY DEF ServerHello, Greeted, Greets
<1>3. ~Known(NextPeerID) /\ NextPeerID \in IDs
  BY <1>1, <1>2, NextIDFree, NextPeerIDType DEF LastingInv
<1>4. ASSUME NEW k \in net, k.type = "hello", k.addr = m.addr PROVE k = m
  <2>1. k.id = m.id /\ k.secret = m.secret /\ k.type = m.type
    BY <1>4 DEF ServerHello, LastingInv, AddressesInv
  <2>2. k \in Datagram /\ m \in Datagram
    BY NetType
  <2> QED BY <1>4, <2>1, <2>2 DEF Datagram
<1>5. PICK secret \in Secrets :
        /\ Receive(m, {Message("init", m.addr, NextPeerID, secret)})
        /\ peers' = [peers EXCEPT ![NextPeerID] = NewPeer(secret, m.addr)]
  BY DEF ServerHello, FreshSecrets
<1>6. net' = (net \ {m}) \cup {Message("init", m.addr, NextPeerID, secret)}
  BY <1>5, ReceivedOnce
<1> QED BY <1>1, <1>2, <1>3, <1>4, <1>5, <1>6 DEF ServerHello

(* A new peer takes an ID no larger than the number of sessions so far.    *)
LEMMA IDsGreeting ==
  ASSUME TypeOK, TypeOK', LastingInv, IDsSuffice, faults = 0, faults' = 0,
         NEW m \in net, ServerHello(m), m.addr \notin Rejected
  PROVE  IDsInv'
<1>1. /\ m.addr \in AcceptedAddrs /\ m.addr \notin Greeted
      /\ NextPeerID \in IDs
      /\ \A k \in net : k.type = "hello" /\ k.addr = m.addr => k = m
      /\ \E secret \in Secrets :
           /\ net' = (net \ {m}) \cup
                       {Message("init", m.addr, NextPeerID, secret)}
           /\ peers' = [peers EXCEPT ![NextPeerID] = NewPeer(secret, m.addr)]
      /\ node' = node
  BY Greeting
<1>2. Greeted \cup {m.addr} \subseteq Greeted'
  <2>1. \A k \in net' : k.type = "hello" => k \in net /\ k # m
    BY <1>1 DEF Message, ServerHello
  <2>2. Greeted \subseteq Greeted'
    <3>1. \A c \in Clients : node[c].inc <= node'[c].inc
      BY <1>1, NodeType
    <3> QED BY <2>1, <3>1, GreetedKept
  <2>3. ~ \E k \in net' : k.type = "hello" /\ k.addr = m.addr
    BY <1>1, <2>1
  <2>4. m.addr[2] <= node'[m.addr[1]].inc
    BY <1>1 DEF LastingInv, AddressesInv, Past
  <2>5. m.addr \in Greeted'
    BY <1>1, <2>3, <2>4 DEF Greeted, Greets, AcceptedAddrs
  <2> QED BY <2>2, <2>5
<1>3. Cardinality(Greeted) + 1 <= Cardinality(Greeted')
  <2>1. Cardinality(Greeted \cup {m.addr}) = Cardinality(Greeted) + 1
    BY <1>1, GreetedCount, FS_AddElement
  <2> QED BY <1>2, <2>1, GreetedCount, FS_Subset
<1>4. /\ NextPeerID <= Cardinality(Greeted) + 1
      /\ NextPeerID = 0 => Cardinality(Greeted) >= MaxPeerID
  BY <1>1, NextIDFree DEF LastingInv
<1>5. ASSUME NEW id \in IDs, Known(id)'
      PROVE  /\ id <= Cardinality(Greeted')
             /\ id = 0 => Cardinality(Greeted') >= MaxPeerID + 1
  <2>1. /\ Cardinality(Greeted) \in Nat /\ Cardinality(Greeted') \in Nat
        /\ MaxPeerID \in Nat /\ id \in Nat
    BY GreetedCount, TimesAssumption DEF IDs
  <2>2. CASE id = NextPeerID
    BY <1>3, <1>4, <2>1, <2>2
  <2>3. CASE id # NextPeerID
    <3>1. Known(id)
      BY <1>1, <1>5, <2>3 DEF Known, TypeOK
    <3> QED BY <1>3, <2>1, <3>1 DEF LastingInv, IDsInv
  <2> QED BY <2>2, <2>3
<1> QED BY <1>5 DEF IDsInv, IDs

(* Every step keeps the IDs below the number of sessions.                  *)
LEMMA IDsStep ==
  ASSUME TypeOK, LastingInv, IDsSuffice, [Next]_vars, faults = 0, faults' = 0
  PROVE  IDsInv'
<1> USE TimesAssumption
<1>0. TypeOK'
  BY TypeStep
<1>1. ASSUME NEW m \in net, ServerHello(m), m.addr \notin Rejected
      PROVE  IDsInv'
  BY <1>0, <1>1, IDsGreeting
<1>2. ASSUME \A c \in Clients : node[c].inc <= node'[c].inc,
             \A m \in net' \ net : m.type = "hello" => m.addr \notin Greeted,
             \A id \in IDs : Known(id)' => Known(id)
      PROVE  IDsInv'
  BY <1>0, <1>2, GreetedKept, IDsKept DEF LastingInv
<1>3. \A c \in Clients : node[c].inc \in Nat
  BY NodeType
<1>4. ASSUME NEW m \in net, ServerHello(m), m.addr \in Rejected
      PROVE  IDsInv'
  <2>1. /\ net' = (net \ {m}) \cup {Terminate(m.addr)}
        /\ UNCHANGED <<node, peers>>
    BY <1>4, ReceivedOnce DEF ServerHello
  <2> QED BY <1>2, <1>3, <2>1 DEF Terminate, Message, Known
<1>5. ASSUME NEW m \in net, ServerUnauthorized(m) PROVE IDsInv'
  <2>1. /\ net' = (net \ {m}) \cup {Terminate(m.addr)}
        /\ UNCHANGED <<node, peers>>
    BY <1>5, ReceivedOnce DEF ServerUnauthorized
  <2> QED BY <1>2, <1>3, <2>1 DEF Terminate, Message, Known
<1>6. ASSUME NEW m \in net, ServerBeat(m) \/ ServerConfig(m) \/ ServerBye(m)
      PROVE  IDsInv'
  <2>1. net' \subseteq net /\ node' = node
    BY <1>6, ReceivedOnce DEF ServerBeat, ServerConfig, ServerBye
  <2>2. \A id \in IDs : Known(id)' => Known(id)
    <3>1. Known(m.id) /\ m.id \in IDs
      BY <1>6 DEF ServerBeat, ServerConfig, ServerBye, Authorized
    <3> QED BY <1>6, <3>1 DEF ServerBeat, ServerConfig, ServerBye, TypeOK, Known
  <2> QED BY <1>2, <1>3, <2>1, <2>2
<1>7. ASSUME NEW m \in net, Undeliverable(m) PROVE IDsInv'
  BY <1>2, <1>3, <1>7 DEF Undeliverable, Known
<1>8. ASSUME NEW c \in Clients, NEW m \in net, NodeReceives(c, m)
      PROVE  IDsInv'
  <2>1. \A k \in net' \ net : k.type = "config"
    BY <1>8, ReceivedOnce
       DEF NodeReceives, NodeInit, NodeBeat, NodeTerminate, Message
  <2>2. \A d \in Clients : node'[d].inc = node[d].inc
    BY <1>8 DEF NodeReceives, NodeInit, NodeBeat, NodeTerminate, TypeOK, Node
  <2>3. peers' = peers
    BY <1>8 DEF NodeReceives, NodeInit, NodeBeat, NodeTerminate
  <2> QED BY <1>2, <1>3, <2>1, <2>2, <2>3 DEF Known
<1>9. CASE ServerTick
  <2>1. \A k \in net' \ net : k.type \in {"terminate", "serverBeat"}
    BY <1>9 DEF ServerTick, Terminate, Message
  <2> QED BY <1>2, <1>3, <1>9, <2>1 DEF ServerTick, Known
<1>10. ASSUME NEW c \in Clients, NodeTick(c) PROVE IDsInv'
  <2>1. \A d \in Clients : node'[d].inc = node[d].inc
    BY <1>10 DEF NodeTick, TypeOK, Node
  <2>2. Addr(c) \in Greeted => node[c].connected
    <3> SUFFICES ASSUME Addr(c) \in Greeted, ~node[c].connected PROVE FALSE
      OBVIOUS
    <3>1. Accepted(c)
      BY <1>10 DEF NodeTick, Accepted, Greeted, AcceptedAddrs
    <3>2. node[c].tick = Period
      BY <3>1 DEF LastingInv, SessionInv, NodeInv
    <3> QED BY <1>10, <3>2 DEF NodeTick
  <2>3. \A k \in net' \ net :
          k.type = "hello" => k.addr = Addr(c) /\ ~node[c].connected
    BY <1>10, NodeType DEF NodeTick, Hello, FromNode, Message
  <2>4. peers' = peers
    BY <1>10 DEF NodeTick
  <2> QED BY <1>2, <1>3, <2>1, <2>2, <2>3, <2>4 DEF Known
<1>11. CASE TimePasses
  <2>1. \A d \in Clients : node'[d].inc = node[d].inc
    BY <1>11 DEF TimePasses, TypeOK, Node
  <2>2. \A id \in IDs : Known(id)' => Known(id)
    BY <1>11 DEF TimePasses, Known
  <2>3. net' = net
    BY <1>11 DEF TimePasses
  <2> QED BY <1>2, <1>3, <2>1, <2>2, <2>3
<1>12. ASSUME NEW m \in net, Lose(m) PROVE IDsInv'
  BY <1>12 DEF Lose, Fault
<1>13. CASE ServerRestart
  BY <1>13 DEF ServerRestart, Fault
<1>14. ASSUME NEW c \in Clients, NodeShutdown(c) PROVE IDsInv'
  <2>1. \A d \in Clients : node'[d].inc = node[d].inc
    BY <1>14 DEF NodeShutdown, TypeOK, Node
  <2>2. \A k \in net' \ net : k.type = "bye"
    BY <1>14 DEF NodeShutdown, FromNode, Message
  <2> QED BY <1>2, <1>3, <1>14, <2>1, <2>2 DEF NodeShutdown, Known
<1>15. ASSUME NEW c \in Clients, NodeRestart(c) PROVE IDsInv'
  <2>1. \A d \in Clients : node[d].inc <= node'[d].inc
    BY <1>3, <1>15 DEF NodeRestart, NewNode, TypeOK
  <2>2. <<c, node[c].inc + 1>> \notin Greeted
    BY <1>3 DEF Greeted
  <2>3. \A k \in net' \ net : k.addr = <<c, node[c].inc + 1>>
    BY <1>15 DEF NodeRestart, Hello, Message
  <2> QED BY <1>2, <1>15, <2>1, <2>2, <2>3 DEF NodeRestart, Known
<1>16. CASE UNCHANGED vars
  BY <1>2, <1>3, <1>16 DEF vars, Known
<1> QED
  BY <1>1, <1>4, <1>5, <1>6, <1>7, <1>8, <1>9, <1>10, <1>11, <1>12, <1>13,
     <1>14, <1>15, <1>16
     DEF Next, Works, Fails, ServerReceives

(* The server answers the hello of node c: c has one peer, and its init is *)
(* under way.                                                              *)
LEMMA GreetedSession ==
  ASSUME TypeOK, LastingInv, IDsSuffice, faults = 0, faults' = 0,
         NEW c \in Clients, Accepted(c),
         NEW m \in net, ServerHello(m), m.addr = Addr(c)
  PROVE  SessionInv(c)'
<1>1. PICK id \in IDs, secret \in Secrets :
        /\ ~Known(id)
        /\ net' = (net \ {m}) \cup {Message("init", m.addr, id, secret)}
        /\ peers' = [peers EXCEPT ![id] = NewPeer(secret, m.addr)]
  BY Greeting DEF Accepted
<1> DEFINE init == Message("init", m.addr, id, secret)
<1>2. /\ \A k \in net : k.type = "hello" /\ k.addr = m.addr => k = m
      /\ UNCHANGED <<srvTick, node>>
  BY Greeting DEF Accepted
<1>3. Addr(c)' = Addr(c) /\ m.type = "hello"
  BY <1>2 DEF Addr, ServerHello
<1>4. /\ ~node[c].connected /\ node[c].tick = Period
      /\ \A k \in IDs : ~PeerAt(k, Addr(c))
  BY <1>3 DEF LastingInv, SessionInv, PacketsInv, PeerInv, NodeInv, Greets
<1>5. \A k \in IDs : PeerAt(k, Addr(c))' => k = id
  BY <1>1, <1>3, <1>4 DEF PeerAt, Known, TypeOK
<1>6. peers'[id] = NewPeer(secret, Addr(c))
  BY <1>1 DEF TypeOK
<1>7. Owns(c, id, secret)'
  BY <1>3, <1>6, TimesAssumption DEF Owns, PeerAt, Known, NewPeer, NoPeer
<1>8. /\ init \in net' /\ init.type = "init" /\ init.addr = Addr(c)
      /\ init.id = id /\ init.secret = secret
  BY <1>1 DEF Message
<1> HIDE DEF init
<1>9. UnderWay({"init"}, c)' /\ UnderWay({"init", "config"}, c)'
  BY <1>3, <1>8 DEF UnderWay
<1>10. ASSUME NEW k \in net', k.addr = Addr(c)
       PROVE  k = init \/ k.type = "serverBeat"
  <2> SUFFICES ASSUME k \in net, k # m PROVE k.type = "serverBeat"
    BY <1>1 DEF init
  <2>1. k.type # "hello"
    BY <1>2, <1>10
  <2>2. k.type \notin {"init", "config", "beat", "bye", "terminate"}
    BY <1>4, <1>10, NetType DEF LastingInv, SessionInv, PacketsInv, Owns
  <2> QED BY <2>1, <2>2, NetType DEF Datagram
<1>11. ~Greets(Addr(c))'
  BY <1>3, <1>8, <1>10 DEF Greets
<1>12. PacketsInv(c)'
  BY <1>2, <1>3, <1>4, <1>7, <1>8, <1>10 DEF PacketsInv
<1>13. PeerInv(c)'
  BY <1>2, <1>3, <1>4, <1>5, <1>6, <1>9, <1>11, TimesAssumption
     DEF PeerInv, NewPeer, IDs
<1>14. NodeInv(c)'
  BY <1>2, <1>4, <1>9 DEF NodeInv
<1> QED BY <1>12, <1>13, <1>14 DEF SessionInv

(* A packet the server accepts is for the peer of its sender.              *)
LEMMA AcceptedPacket ==
  ASSUME TypeOK, OneOwner, NEW m \in net, Authorized(m), Up(m),
         m.type # "hello"
  PROVE  m.id \in IDs /\ PeerAt(m.id, m.addr) /\ peers[m.id] \in Peer
BY OwnersAreAuthorized, KnownType
   DEF AuthorizedByOwner, PeerAt, Authorized

(* A heartbeat or the config of node c arrives.                            *)
LEMMA HeardSession ==
  ASSUME TypeOK, OneOwner, LastingInv, faults = 0, faults' = 0,
         NEW c \in Clients, Accepted(c),
         NEW m \in net, ServerBeat(m) \/ ServerConfig(m), m.addr = Addr(c)
  PROVE  SessionInv(c)'
<1>1. /\ node' = node /\ srvTick' = srvTick /\ net' = net \ {m}
      /\ m.type \in {"beat", "config"}
  BY ReceivedOnce DEF ServerBeat, ServerConfig
<1>2. m.id \in IDs /\ PeerAt(m.id, Addr(c)) /\ peers[m.id] \in Peer
  BY AcceptedPacket DEF ServerBeat, ServerConfig, Up
<1>3. SessionInv(c) /\ Addr(c)' = Addr(c)
  BY <1>1 DEF LastingInv, Addr
<1>4. node[c].connected
  BY <1>1, <1>3 DEF SessionInv, PacketsInv
<1>5. \A id \in IDs : /\ id # m.id => peers'[id] = peers[id]
                      /\ peers'[id].addr = peers[id].addr
                      /\ peers'[id].secret = peers[id].secret
  BY <1>2 DEF ServerBeat, ServerConfig, TypeOK, Peer
<1>6. \A id \in IDs : PeerAt(id, Addr(c)) => id = m.id
  BY <1>2, <1>3 DEF SessionInv, PeerInv
<1>7. Known(m.id)'
  BY <1>2, <1>5, TimesAssumption DEF Known, NoPeer, Peer
<1>8. \A id \in IDs : PeerAt(id, Addr(c))' <=> PeerAt(id, Addr(c))
  BY <1>2, <1>3, <1>5, <1>7 DEF PeerAt, Known
<1>9. \A id \in IDs : \A secret : Owns(c, id, secret) => Owns(c, id, secret)'
  BY <1>3, <1>5, <1>8 DEF Owns
<1>10. ~Greets(Addr(c))'
  BY <1>1, <1>2, <1>3 DEF SessionInv, PeerInv, Greets
<1>11. \A types : m.type \notin types /\ UnderWay(types, c)
                    => UnderWay(types, c)'
  BY <1>1, <1>3 DEF UnderWay
<1>12. PacketsInv(c)'
  BY <1>1, <1>3, <1>9, NetType DEF SessionInv, PacketsInv
<1>13. NodeInv(c)'
  BY <1>1, <1>3, <1>4, <1>9, <1>11, NodeType DEF SessionInv, NodeInv
<1>14. PeerInv(c)'
  <2>1. CASE ServerBeat(m)
    <3>1. /\ peers'[m.id].age = 0 /\ peers'[m.id].hasConf = peers[m.id].hasConf
          /\ m.type = "beat"
      BY <1>2, <2>1 DEF ServerBeat, TypeOK, Peer
    <3>2. 0 <= Period /\ 0 <= Period - node[c].tick
      BY NodeType, TimesAssumption
    <3>3. ~peers[m.id].hasConf => UnderWay({"init", "config"}, c)'
      BY <1>2, <1>3, <1>11, <3>1 DEF SessionInv, PeerInv
    <3> QED BY <1>1, <1>3, <1>6, <1>8, <1>10, <3>1, <3>2, <3>3 DEF PeerInv
  <2>2. CASE ServerConfig(m)
    <3>1. /\ peers'[m.id].age = peers[m.id].age /\ peers'[m.id].hasConf
          /\ m.type = "config"
      BY <1>2, <2>2 DEF ServerConfig, TypeOK, Peer
    <3>2. UnderWay({"beat"}, c) => UnderWay({"beat"}, c)'
      BY <1>11, <3>1
    <3> QED BY <1>1, <1>2, <1>3, <1>6, <1>8, <1>10, <3>1, <3>2
            DEF SessionInv, PeerInv
  <2> QED BY <2>1, <2>2
<1> QED BY <1>12, <1>13, <1>14 DEF SessionInv

(* Node c gets the answer to its hello and sends its config.               *)
LEMMA JoinedSession ==
  ASSUME TypeOK, LastingInv, faults = 0, faults' = 0,
         NEW c \in Clients, Accepted(c), NEW m \in net, NodeInit(c, m)
  PROVE  SessionInv(c)'
<1> DEFINE config == Message("config", m.addr, m.id, m.secret)
<1>1. SessionInv(c) /\ m.addr = Addr(c) /\ m.type = "init" /\ m \in Datagram
  BY NetType DEF LastingInv, NodeInit, For
<1>2. ~node[c].connected /\ Owns(c, m.id, m.secret) /\ m.id \in IDs
  BY <1>1, NetType DEF SessionInv, PacketsInv
<1>3. /\ net' = (net \ {m}) \cup {config}
      /\ peers' = peers /\ srvTick' = srvTick
      /\ node' = [node EXCEPT ![c].connected = TRUE, ![c].id = m.id,
                              ![c].secret = m.secret, ![c].age = 0]
  BY <1>2, ReceivedOnce DEF NodeInit
<1>4. /\ node'[c].connected /\ node'[c].id = m.id
      /\ node'[c].secret = m.secret /\ node'[c].age = 0
      /\ node'[c].tick = node[c].tick /\ node'[c].inc = node[c].inc
  BY <1>3 DEF TypeOK, Node
<1>5. Addr(c)' = Addr(c)
  BY <1>4 DEF Addr
<1>6. \A id \in IDs : PeerAt(id, Addr(c))' <=> PeerAt(id, Addr(c))
  BY <1>3, <1>5 DEF PeerAt, Known
<1>7. Owns(c, m.id, m.secret)'
  BY <1>2, <1>3, <1>5, <1>6 DEF Owns
<1>8. PeerAt(m.id, Addr(c)) /\ ~Greets(Addr(c))
  BY <1>1, <1>2 DEF Owns, SessionInv, PeerInv
<1>9. ~Greets(Addr(c))'
  BY <1>3, <1>5, <1>8 DEF Greets, Message
<1>10. UnderWay({"init", "config"}, c)'
  <2>1. config \in net' /\ config.type = "config" /\ config.addr = Addr(c)
    BY <1>1, <1>3 DEF Message
  <2> HIDE DEF config
  <2> QED BY <1>5, <2>1 DEF UnderWay
<1>11. UnderWay({"beat"}, c) => UnderWay({"beat"}, c)'
  BY <1>1, <1>3, <1>5 DEF UnderWay
<1>12. PacketsInv(c)'
  <2>1. ASSUME NEW k \in net, k # m, k.addr = Addr(c)
        PROVE  k.type = "serverBeat"
    <3>1. k.type # "init"
      <4> SUFFICES ASSUME k.type = "init" PROVE k = m
        BY <2>1
      <4>1. Owns(c, k.id, k.secret) /\ k.id \in IDs
        BY <1>1, <2>1, NetType DEF SessionInv, PacketsInv
      <4>2. k.id = m.id
        BY <1>1, <1>8, <4>1, <1>2 DEF Owns, SessionInv, PeerInv
      <4>3. k.secret = m.secret
        BY <1>2, <4>1, <4>2 DEF Owns
      <4> QED BY <1>1, <2>1, <4>2, <4>3, NetType DEF Datagram
    <3>2. k.type \notin {"hello", "config", "beat", "bye", "terminate"}
      BY <1>1, <1>2, <1>8, <2>1 DEF SessionInv, PacketsInv, Greets
    <3> QED BY <3>1, <3>2, NetType DEF Datagram
  <2>2. ASSUME NEW k \in net', k.addr = Addr(c)
        PROVE  k = config \/ k.type = "serverBeat"
    BY <1>3, <2>1, <2>2
  <2> QED BY <1>4, <1>5, <2>2 DEF PacketsInv, Message
<1>13. PeerInv(c)'
  BY <1>1, <1>3, <1>4, <1>5, <1>6, <1>9, <1>10, <1>11 DEF SessionInv, PeerInv
<1>14. NodeInv(c)'
  <2>1. 0 <= Period /\ 0 <= Period - srvTick
    BY TimesAssumption DEF TypeOK
  <2> QED BY <1>3, <1>4, <1>7, <2>1 DEF NodeInv
<1> QED BY <1>12, <1>13, <1>14 DEF SessionInv

(* A heartbeat of the server reaches node c.                               *)
LEMMA AliveSession ==
  ASSUME TypeOK, LastingInv, faults = 0, faults' = 0,
         NEW c \in Clients, Accepted(c), NEW m \in net, NodeBeat(c, m)
  PROVE  SessionInv(c)'
<1>1. SessionInv(c) /\ m.type = "serverBeat"
  BY DEF LastingInv, NodeBeat
<1>2. /\ net' = net \ {m} /\ peers' = peers /\ srvTick' = srvTick
      /\ node' = [node EXCEPT ![c].age = 0]
  BY ReceivedOnce DEF NodeBeat
<1>3. /\ node'[c].connected = node[c].connected /\ node'[c].id = node[c].id
      /\ node'[c].secret = node[c].secret /\ node'[c].age = 0
      /\ node'[c].tick = node[c].tick /\ node'[c].inc = node[c].inc
  BY <1>2 DEF TypeOK, Node
<1>4. Addr(c)' = Addr(c)
  BY <1>3 DEF Addr
<1>5. \A id \in IDs : PeerAt(id, Addr(c))' <=> PeerAt(id, Addr(c))
  BY <1>2, <1>4 DEF PeerAt, Known
<1>6. \A id \in IDs : \A secret : Owns(c, id, secret) => Owns(c, id, secret)'
  BY <1>2, <1>4, <1>5 DEF Owns
<1>7. Greets(Addr(c))' <=> Greets(Addr(c))
  BY <1>1, <1>2, <1>4 DEF Greets
<1>8. \A types : "serverBeat" \notin types
                   => (UnderWay(types, c) => UnderWay(types, c)')
  BY <1>1, <1>2, <1>4 DEF UnderWay
<1>9. PacketsInv(c)'
  BY <1>1, <1>2, <1>3, <1>4, <1>6, NetType DEF SessionInv, PacketsInv
<1>10. PeerInv(c)'
  <2>1. /\ UnderWay({"beat"}, c) => UnderWay({"beat"}, c)'
        /\ UnderWay({"init", "config"}, c) => UnderWay({"init", "config"}, c)'
    BY <1>8
  <2> QED BY <1>1, <1>2, <1>3, <1>4, <1>5, <1>7, <2>1 DEF SessionInv, PeerInv
<1>11. NodeInv(c)'
  <2>1. 0 <= Period /\ 0 <= Period - srvTick
    BY TimesAssumption DEF TypeOK
  <2>2. UnderWay({"init"}, c) => UnderWay({"init"}, c)'
    BY <1>8
  <2> QED BY <1>1, <1>2, <1>3, <1>4, <1>6, <1>7, <2>1, <2>2, NodeType
          DEF SessionInv, NodeInv
<1> QED BY <1>9, <1>10, <1>11 DEF SessionInv

(* A tick of the server drops no peer of a session and tells it so.        *)
LEMMA ServedSession ==
  ASSUME TypeOK, LastingInv, Period <= DeadAge,
         NEW c \in Clients, Accepted(c), ServerTick
  PROVE  SessionInv(c)'
<1>1. /\ SessionInv(c) /\ node' = node /\ srvTick = 0 /\ srvTick' = Period
      /\ Addr(c)' = Addr(c)
  BY DEF LastingInv, ServerTick, Addr
<1>2. ASSUME NEW id \in IDs, PeerAt(id, Addr(c)) PROVE id \in Kept
  <2>1. /\ Known(id) /\ peers[id].age <= Period
        /\ ~peers[id].hasConf => peers[id].age = 0
    BY <1>1, <1>2 DEF SessionInv, PeerInv, PeerAt
  <2>2. peers[id].age \in Nat
    BY <2>1, PeerType, TimesAssumption DEF Peer, MaxAge
  <2>3. ~Dead(id) /\ ~NoConfig(id)
    BY <2>1, <2>2, TimesAssumption DEF Dead, NoConfig
  <2> QED BY <2>1, <2>3 DEF Kept, Dropped
<1>3. \A id \in IDs : /\ PeerAt(id, Addr(c)) => peers'[id] = peers[id]
                      /\ PeerAt(id, Addr(c))' => PeerAt(id, Addr(c))
  BY <1>1, <1>2 DEF ServerTick, Kept, PeerAt, Known
<1>4. \A id \in IDs : PeerAt(id, Addr(c)) => PeerAt(id, Addr(c))'
  BY <1>1, <1>3 DEF PeerAt, Known
<1>5. \A id \in IDs : \A secret : Owns(c, id, secret) => Owns(c, id, secret)'
  BY <1>3, <1>4 DEF Owns
<1>6. ASSUME NEW k \in net' \ net, k.addr = Addr(c) PROVE k.type = "serverBeat"
  <2>1. PICK id \in IDs :
          \/ id \in Dropped /\ k = Terminate(peers[id].addr)
          \/ id \in Kept /\ k = Message("serverBeat", peers[id].addr, id, 0)
    BY <1>6 DEF ServerTick, Dropped, Kept
  <2>2. CASE id \in Dropped /\ k = Terminate(peers[id].addr)
    <3>1. PeerAt(id, Addr(c))
      BY <1>6, <2>2 DEF Terminate, Message, PeerAt, Dropped
    <3> QED BY <1>2, <2>2, <3>1 DEF Kept
  <2>3. CASE k = Message("serverBeat", peers[id].addr, id, 0)
    BY <2>3 DEF Message
  <2> QED BY <2>1, <2>2, <2>3
<1>7. net \subseteq net'
  BY DEF ServerTick
<1>8. Greets(Addr(c))' <=> Greets(Addr(c))
  BY <1>1, <1>6, <1>7 DEF Greets
<1>9. \A types : UnderWay(types, c) => UnderWay(types, c)'
  BY <1>1, <1>7 DEF UnderWay
<1>10. PacketsInv(c)'
  <2>1. ASSUME NEW k \in net, k.addr = Addr(c)
        PROVE  /\ k.type \notin {"terminate", "bye"}
               /\ k.type = "hello" => ~node[c].connected
               /\ k.type = "init" =>
                    ~node[c].connected /\ Owns(c, k.id, k.secret)'
               /\ k.type \in {"config", "beat"} =>
                    /\ node[c].connected /\ k.id = node[c].id
                    /\ k.secret = node[c].secret
    BY <1>1, <1>5, <2>1, NetType DEF SessionInv, PacketsInv
  <2> QED BY <1>1, <1>6, <2>1 DEF PacketsInv
<1>11. PeerInv(c)'
  BY <1>1, <1>3, <1>4, <1>8, <1>9 DEF SessionInv, PeerInv
<1>12. NodeInv(c)'
  <2>1. CASE node[c].connected
    <3>1. Owns(c, node[c].id, node[c].secret) /\ node[c].id \in IDs
      BY <1>1, <2>1, NodeType DEF SessionInv, NodeInv
    <3>2. node[c].id \in Kept /\ peers[node[c].id].addr = Addr(c)
      BY <1>2, <3>1 DEF Owns, PeerAt
    <3>3. UnderWay({"serverBeat"}, c)'
      <4>1. Message("serverBeat", peers[node[c].id].addr, node[c].id, 0) \in net'
        BY <3>1, <3>2 DEF ServerTick
      <4> QED BY <1>1, <3>2, <4>1 DEF UnderWay, Message
    <3> QED BY <1>1, <1>5, <2>1, <3>1, <3>3 DEF SessionInv, NodeInv
  <2>2. CASE ~node[c].connected
    BY <1>1, <1>8, <1>9, <2>2 DEF SessionInv, NodeInv
  <2> QED BY <2>1, <2>2
<1> QED BY <1>10, <1>11, <1>12 DEF SessionInv

(* A tick of node c finds it connected: it heard of the server in time and *)
(* sends a heartbeat.                                                      *)
LEMMA TickedSession ==
  ASSUME TypeOK, LastingInv, Period <= DeadAge,
         NEW c \in Clients, Accepted(c), NodeTick(c)
  PROVE  SessionInv(c)' /\ node[c].connected /\ node'[c].connected
<1>1. SessionInv(c) /\ node[c].tick = 0 /\ Period > 0
  BY TimesAssumption DEF LastingInv, NodeTick
<1>2. node[c].connected /\ ~NodeDead(c)
  BY <1>1, NodeType, TimesAssumption DEF SessionInv, NodeInv, NodeDead
<1>3. /\ net' = net \cup {FromNode("beat", c)}
      /\ peers' = peers /\ srvTick' = srvTick
      /\ node' = [node EXCEPT ![c].tick = Period,
                              ![c].connected = @ /\ ~NodeDead(c)]
  BY <1>2 DEF NodeTick
<1>4. /\ node'[c].connected /\ node'[c].id = node[c].id
      /\ node'[c].secret = node[c].secret /\ node'[c].age = node[c].age
      /\ node'[c].tick = Period /\ node'[c].inc = node[c].inc
  BY <1>2, <1>3 DEF TypeOK, Node
<1>5. Addr(c)' = Addr(c)
  BY <1>4 DEF Addr
<1>6. \A id \in IDs : PeerAt(id, Addr(c))' <=> PeerAt(id, Addr(c))
  BY <1>3, <1>5 DEF PeerAt, Known
<1>7. \A id \in IDs : \A secret : Owns(c, id, secret) => Owns(c, id, secret)'
  BY <1>3, <1>5, <1>6 DEF Owns
<1>8. Greets(Addr(c))' => Greets(Addr(c))
  BY <1>3, <1>5 DEF Greets, FromNode, Message
<1>9. \A types : UnderWay(types, c) => UnderWay(types, c)'
  BY <1>3, <1>5 DEF UnderWay
<1>10. UnderWay({"beat"}, c)'
  <2> DEFINE beat == FromNode("beat", c)
  <2>1. beat \in net' /\ beat.type = "beat" /\ beat.addr = Addr(c)
    BY <1>3 DEF FromNode, Message
  <2> HIDE DEF beat
  <2> QED BY <1>5, <2>1 DEF UnderWay
<1>11. PacketsInv(c)'
  <2>1. \A k \in net : k.addr = Addr(c) =>
          /\ k.type \notin {"terminate", "bye", "hello", "init"}
          /\ k.type \in {"config", "beat"} =>
               k.id = node[c].id /\ k.secret = node[c].secret
    BY <1>1, <1>2 DEF SessionInv, PacketsInv
  <2> QED BY <1>3, <1>4, <1>5, <2>1 DEF PacketsInv, FromNode, Message
<1>12. PeerInv(c)'
  BY <1>1, <1>3, <1>5, <1>6, <1>8, <1>9, <1>10 DEF SessionInv, PeerInv
<1>13. NodeInv(c)'
  <2>1. Owns(c, node[c].id, node[c].secret)' /\ node[c].age <= Period
    BY <1>1, <1>2, <1>4, <1>7, NodeType DEF SessionInv, NodeInv
  <2>2. \/ node[c].age <= Period - srvTick
        \/ UnderWay({"serverBeat"}, c)'
    BY <1>1, <1>2, <1>9 DEF SessionInv, NodeInv
  <2> QED BY <1>3, <1>4, <2>1, <2>2 DEF NodeInv
<1> QED BY <1>2, <1>4, <1>11, <1>12, <1>13 DEF SessionInv

(* Time passes when every packet has arrived: node c is connected and the  *)
(* server has its config.                                                  *)
LEMMA PassedSession ==
  ASSUME TypeOK, LastingInv, Period <= DeadAge,
         NEW c \in Clients, Accepted(c), TimePasses
  PROVE  SessionInv(c)'
<1>1. /\ SessionInv(c) /\ net = {} /\ net' = {} /\ srvTick > 0
      /\ srvTick' = srvTick - 1 /\ node[c].tick > 0
  BY DEF LastingInv, TimePasses, Accepted
<1>2. ~Greets(Addr(c)) /\ \A types : ~UnderWay(types, c)
  BY <1>1 DEF Greets, UnderWay
<1>3. /\ node[c].connected /\ Owns(c, node[c].id, node[c].secret)
      /\ node[c].age <= Period - srvTick
  BY <1>1, <1>2 DEF SessionInv, NodeInv
<1>4. /\ Period \in Nat /\ DeadAge \in Nat /\ srvTick \in Nat
      /\ node[c].age \in Nat /\ node[c].tick \in Nat
  BY NodeType, TimesAssumption DEF TypeOK
<1>5. \A a \in Nat : a <= Period => Older(a) \in {a, a + 1}
  BY DEF Older
<1>6. /\ node'[c].connected /\ node'[c].id = node[c].id
      /\ node'[c].secret = node[c].secret /\ node'[c].inc = node[c].inc
      /\ node'[c].age = Older(node[c].age) /\ node'[c].tick = node[c].tick - 1
  BY <1>3 DEF TimePasses, Accepted, TypeOK, Node
<1>7. Addr(c)' = Addr(c)
  BY <1>6 DEF Addr
<1>8. ASSUME NEW id \in IDs
      PROVE  /\ peers'[id].secret = peers[id].secret
             /\ Known(id)' <=> Known(id)
             /\ peers'[id].addr = peers[id].addr
             /\ peers'[id].hasConf = peers[id].hasConf
             /\ Known(id) => peers'[id].age = Older(peers[id].age)
  <2>1. CASE Known(id)
    <3>1. peers'[id] = [peers[id] EXCEPT !.age = Older(@)]
      BY <2>1 DEF TimePasses
    <3>2. peers[id] \in Peer /\ peers[id].secret # 0
      BY <2>1, KnownType
    <3> QED BY <2>1, <3>1, <3>2 DEF Peer, Known, NoPeer
  <2>2. CASE ~Known(id)
    BY <2>2 DEF TimePasses, Known
  <2> QED BY <2>1, <2>2
<1>9. \A id \in IDs : PeerAt(id, Addr(c))' <=> PeerAt(id, Addr(c))
  BY <1>7, <1>8 DEF PeerAt
<1>10. PacketsInv(c)'
  BY <1>1 DEF PacketsInv
<1>11. PeerInv(c)'
  <2> SUFFICES ASSUME NEW id \in IDs, PeerAt(id, Addr(c))
               PROVE  /\ \A other \in IDs : PeerAt(other, Addr(c)) => other = id
                      /\ peers'[id].age <= Period
                      /\ peers'[id].age <= Period - node'[c].tick
                      /\ peers'[id].hasConf
    <3>1. ~Greets(Addr(c))'
      BY <1>1 DEF Greets
    <3> QED BY <1>7, <1>9, <3>1 DEF PeerInv, IDs
  <2>1. /\ \A other \in IDs : PeerAt(other, Addr(c)) => other = id
        /\ peers[id].age <= Period - node[c].tick
        /\ peers[id].hasConf
    BY <1>1, <1>2 DEF SessionInv, PeerInv
  <2>2. peers[id].age \in Nat /\ Known(id)
    BY PeerType, TimesAssumption DEF PeerAt, Peer, MaxAge
  <2>3. peers'[id].age \in {peers[id].age, peers[id].age + 1}
    BY <1>4, <1>5, <1>8, <2>1, <2>2
  <2> QED BY <1>1, <1>4, <1>6, <1>8, <2>1, <2>2, <2>3
<1>12. NodeInv(c)'
  <2>1. Owns(c, node[c].id, node[c].secret)'
    BY <1>3, <1>6, <1>7, <1>8, <1>9, NodeType DEF Owns
  <2>2. node'[c].age \in {node[c].age, node[c].age + 1}
    BY <1>1, <1>3, <1>4, <1>5, <1>6
  <2>3. node'[c].age <= Period /\ node'[c].age <= Period - srvTick'
    BY <1>1, <1>3, <1>4, <2>2
  <2> QED BY <1>6, <2>1, <2>3 DEF NodeInv
<1> QED BY <1>10, <1>11, <1>12 DEF SessionInv

(* Node c starts again from an address no packet and no peer has yet.      *)
LEMMA RestartedSession ==
  ASSUME TypeOK, LastingInv, NEW c \in Clients, NodeRestart(c)
  PROVE  SessionInv(c)'
<1>1. /\ node'[c] = NewNode(node[c].inc + 1) /\ peers' = peers
      /\ net' = net \cup {Hello(c, node[c].inc + 1)}
  BY DEF NodeRestart, TypeOK
<1>2. Addr(c)' = <<c, node[c].inc + 1>> /\ node[c].inc \in Nat
  <2>1. node'[c].inc = node[c].inc + 1
    BY <1>1 DEF NewNode
  <2> QED BY <2>1, NodeType DEF Addr
<1>3. ~Past(Addr(c)')
  BY <1>2 DEF Past
<1>4. \A m \in net : m.addr # Addr(c)'
  BY <1>3 DEF LastingInv, AddressesInv
<1>5. \A id \in IDs : ~PeerAt(id, Addr(c))'
  BY <1>1, <1>3 DEF LastingInv, AddressesInv, PeerAt, Known
<1>6. PacketsInv(c)'
  BY <1>1, <1>4 DEF PacketsInv, Hello, Message, NewNode
<1>7. PeerInv(c)'
  BY <1>5 DEF PeerInv, IDs
<1>8. NodeInv(c)'
  <2> DEFINE hello == Hello(c, node[c].inc + 1)
  <2>1. hello \in net' /\ hello.type = "hello" /\ hello.addr = Addr(c)'
    BY <1>1, <1>2 DEF Hello, Message
  <2>2. ~node'[c].connected /\ node'[c].tick = Period
    BY <1>1 DEF NewNode
  <2> HIDE DEF hello
  <2> QED BY <2>1, <2>2 DEF NodeInv, Greets
<1> QED BY <1>6, <1>7, <1>8 DEF SessionInv

(* What node c does to the rest of the system, and the rest to node c.     *)
LEMMA SessionStep ==
  ASSUME TypeOK, OneOwner, LastingInv, IDsSuffice, Period <= DeadAge,
         [Next]_vars, faults = 0, faults' = 0,
         NEW c \in Clients, Accepted(c)'
  PROVE  SessionInv(c)'
<1>1. ASSUME NodeRestart(c) PROVE SessionInv(c)'
  BY <1>1, RestartedSession
<1> SUFFICES ASSUME ~NodeRestart(c) PROVE SessionInv(c)'
  BY <1>1
<1>2. Accepted(c)
  <2>1. ASSUME NEW d \in Clients, NEW m \in net, NodeReceives(d, m)
        PROVE  node'[c].inc = node[c].inc /\ node'[c].on = node[c].on
    BY <2>1 DEF NodeReceives, NodeInit, NodeBeat, NodeTerminate, TypeOK, Node
  <2>2. ASSUME NEW d \in Clients, NodeTick(d)
        PROVE  node'[c].inc = node[c].inc /\ node'[c].on = node[c].on
    BY <2>2 DEF NodeTick, TypeOK, Node
  <2>3. ASSUME NEW d \in Clients, NodeShutdown(d)
        PROVE  node'[c].inc = node[c].inc /\ (node'[c].on => node[c].on)
    BY <2>3 DEF NodeShutdown, TypeOK, Node
  <2>4. ASSUME NEW d \in Clients, NodeRestart(d)
        PROVE  node'[c] = node[c]
    BY <2>4 DEF NodeRestart, TypeOK
  <2>5. ASSUME TimePasses
        PROVE  node'[c].inc = node[c].inc /\ node'[c].on = node[c].on
    BY <2>5 DEF TimePasses, TypeOK, Node
  <2>6. node'[c].inc = node[c].inc /\ (node'[c].on => node[c].on)
    BY <2>1, <2>2, <2>3, <2>4, <2>5
       DEF Next, Works, Fails, ServerReceives, ServerHello,
       ServerUnauthorized, ServerBeat, ServerConfig, ServerBye, Undeliverable,
       ServerTick, Lose, ServerRestart, vars
  <2> QED BY <2>6 DEF Accepted, Addr
<1>3. SessionInv(c) /\ PacketsInv(c)
  BY <1>2 DEF LastingInv, SessionInv
<1>4. \A d \in Clients : d # c => Addr(d) # Addr(c)
  BY DEF Addr
<1>5. ASSUME NEW m \in net, ServerHello(m) PROVE SessionInv(c)'
  <2>1. CASE m.addr = Addr(c)
    BY <1>2, <1>5, <2>1, GreetedSession
  <2>2. CASE m.addr # Addr(c) /\ m.addr \in Rejected
    <3>1. /\ net' = (net \ {m}) \cup {Terminate(m.addr)}
          /\ UNCHANGED <<peers, node, srvTick>>
      BY <1>5, <2>2, ReceivedOnce DEF ServerHello
    <3> QED BY <1>3, <2>2, <3>1, Untouched DEF Terminate, Message
  <2>3. CASE m.addr # Addr(c) /\ m.addr \notin Rejected
    <3>1. PICK id \in IDs, secret \in Secrets :
            /\ ~Known(id) /\ UNCHANGED <<srvTick, node>>
            /\ net' = (net \ {m}) \cup {Message("init", m.addr, id, secret)}
            /\ peers' = [peers EXCEPT ![id] = NewPeer(secret, m.addr)]
      BY <1>5, <2>3, Greeting
    <3>2. \A k \in IDs : \/ peers'[k] = peers[k]
                         \/ /\ ~PeerAt(k, Addr(c))
                            /\ peers'[k].addr # Addr(c)
      BY <2>3, <3>1 DEF TypeOK, PeerAt, NewPeer
    <3>3. \A k \in net \cup net' :
            k.addr = Addr(c) => (k \in net' <=> k \in net)
      BY <2>3, <3>1 DEF Message
    <3> QED BY <1>3, <3>1, <3>2, <3>3, Untouched
  <2> QED BY <2>1, <2>2, <2>3
<1>6. ASSUME NEW m \in net, ServerUnauthorized(m) PROVE SessionInv(c)'
  <2>1. m.addr # Addr(c)
    <3> SUFFICES ASSUME m.addr = Addr(c) PROVE FALSE
      OBVIOUS
    <3>1. /\ node[c].connected
          /\ m.id = node[c].id /\ m.secret = node[c].secret
      BY <1>3, <1>6 DEF ServerUnauthorized, PacketsInv
    <3>2. Owns(c, m.id, m.secret)
      BY <1>3, <3>1 DEF SessionInv, NodeInv
    <3> QED BY <1>6, <3>2, NetType DEF ServerUnauthorized, Authorized,
                                       Owns, PeerAt
  <2>2. /\ net' = (net \ {m}) \cup {Terminate(m.addr)}
        /\ UNCHANGED <<peers, node, srvTick>>
    BY <1>6, ReceivedOnce DEF ServerUnauthorized
  <2> QED BY <1>3, <2>1, <2>2, Untouched DEF Terminate, Message
<1>7. ASSUME NEW m \in net, ServerBeat(m) \/ ServerConfig(m)
      PROVE  SessionInv(c)'
  <2>1. CASE m.addr = Addr(c)
    BY <1>2, <1>7, <2>1, HeardSession
  <2>2. CASE m.addr # Addr(c)
    <3>1. m.id \in IDs /\ PeerAt(m.id, m.addr) /\ peers[m.id] \in Peer
      BY <1>7, AcceptedPacket DEF ServerBeat, ServerConfig, Up
    <3>2. net' = net \ {m} /\ UNCHANGED <<node, srvTick>>
      BY <1>7, ReceivedOnce DEF ServerBeat, ServerConfig
    <3>3. \A id \in IDs : id # m.id => peers'[id] = peers[id]
      BY <1>7 DEF ServerBeat, ServerConfig, TypeOK
    <3>4. peers'[m.id].addr = m.addr /\ ~PeerAt(m.id, Addr(c))
      BY <1>7, <2>2, <3>1 DEF ServerBeat, ServerConfig, TypeOK, Peer, PeerAt
    <3> QED BY <1>3, <2>2, <3>2, <3>3, <3>4, Untouched
  <2> QED BY <2>1, <2>2
<1>8. ASSUME NEW m \in net, ServerBye(m) PROVE SessionInv(c)'
  <2>1. m.addr # Addr(c)
    BY <1>3, <1>8 DEF ServerBye, PacketsInv
  <2>2. m.id \in IDs /\ PeerAt(m.id, m.addr)
    BY <1>8, AcceptedPacket DEF ServerBye, Up
  <2>3. /\ net' = net \ {m} /\ UNCHANGED <<node, srvTick>>
        /\ peers' = [peers EXCEPT ![m.id] = NoPeer]
    BY <1>8, ReceivedOnce DEF ServerBye
  <2>4. \A id \in IDs : \/ peers'[id] = peers[id]
                        \/ ~PeerAt(id, Addr(c)) /\ peers'[id] = NoPeer
    BY <2>1, <2>2, <2>3 DEF TypeOK, PeerAt
  <2> QED BY <1>3, <2>1, <2>3, <2>4, Untouched
<1>9. ASSUME NEW m \in net, Undeliverable(m) PROVE SessionInv(c)'
  <2>1. m.addr # Addr(c)
    BY <1>2, <1>9 DEF Undeliverable, For, Accepted
  <2> QED BY <1>3, <1>9, <2>1, Untouched DEF Undeliverable
<1>10. ASSUME NEW d \in Clients, NEW m \in net, NodeReceives(d, m)
       PROVE  SessionInv(c)'
  <2>1. CASE d # c
    <3>1. m.addr = Addr(d) /\ m.addr # Addr(c)
      BY <1>4, <1>10, <2>1
         DEF NodeReceives, NodeInit, NodeBeat, NodeTerminate, For
    <3>2. node'[c] = node[c] /\ UNCHANGED <<peers, srvTick>>
      BY <1>10, <2>1
         DEF NodeReceives, NodeInit, NodeBeat, NodeTerminate, TypeOK
    <3>3. \A k \in net \cup net' :
            k.addr = Addr(c) => (k \in net' <=> k \in net)
      BY <1>10, <3>1, ReceivedOnce
         DEF NodeReceives, NodeInit, NodeBeat, NodeTerminate, Message
    <3> QED BY <1>3, <3>2, <3>3, Untouched
  <2>2. CASE d = c
    <3>1. ~NodeTerminate(c, m)
      BY <1>3 DEF NodeTerminate, For, PacketsInv
    <3> QED BY <1>2, <1>10, <2>2, <3>1, JoinedSession, AliveSession
            DEF NodeReceives
  <2> QED BY <2>1, <2>2
<1>11. CASE ServerTick
  BY <1>2, <1>11, ServedSession
<1>12. ASSUME NEW d \in Clients, NodeTick(d) PROVE SessionInv(c)'
  <2>1. CASE d # c
    <3>1. node'[c] = node[c] /\ UNCHANGED <<peers, srvTick>>
      BY <1>12, <2>1 DEF NodeTick, TypeOK
    <3>2. \A k \in net' : k \in net \/ k.addr = Addr(d)
      BY <1>12 DEF NodeTick, Hello, FromNode, Message, Addr
    <3>3. net \subseteq net'
      BY <1>12 DEF NodeTick
    <3> QED BY <1>3, <1>4, <2>1, <3>1, <3>2, <3>3, Untouched
  <2>2. CASE d = c
    BY <1>2, <1>12, <2>2, TickedSession
  <2> QED BY <2>1, <2>2
<1>13. CASE TimePasses
  BY <1>2, <1>13, PassedSession
<1>14. ASSUME NEW m \in net, Lose(m) PROVE SessionInv(c)'
  BY <1>14 DEF Lose, Fault
<1>15. CASE ServerRestart
  BY <1>15 DEF ServerRestart, Fault
<1>16. ASSUME NEW d \in Clients, NodeShutdown(d) PROVE SessionInv(c)'
  <2>1. d # c
    BY <1>16 DEF NodeShutdown, Accepted, TypeOK, Node
  <2>2. /\ node'[c] = node[c] /\ UNCHANGED <<peers, srvTick>>
        /\ net' = net \cup {FromNode("bye", d)}
    BY <1>16, <2>1 DEF NodeShutdown, TypeOK
  <2> QED BY <1>3, <1>4, <2>1, <2>2, Untouched DEF FromNode, Message
<1>17. ASSUME NEW d \in Clients, NodeRestart(d) PROVE SessionInv(c)'
  <2>1. d # c
    BY <1>17
  <2>2. /\ node'[c] = node[c] /\ UNCHANGED <<peers, srvTick>>
        /\ net' = net \cup {Hello(d, node[d].inc + 1)}
    BY <1>17, <2>1 DEF NodeRestart, TypeOK
  <2>3. Hello(d, node[d].inc + 1).addr # Addr(c)
    BY <2>1 DEF Hello, Message, Addr
  <2> QED BY <1>3, <2>2, <2>3, Untouched
<1>18. CASE UNCHANGED vars
  BY <1>3, <1>18, Untouched DEF vars
<1> QED
  BY <1>5, <1>6, <1>7, <1>8, <1>9, <1>10, <1>11, <1>12, <1>13, <1>14, <1>15,
     <1>16, <1>17, <1>18 DEF Next, Works, Fails, ServerReceives

(* At first every node has sent its hello and the table is empty.          *)
LEMMA LastingInit == Init => LastingInv
<1> SUFFICES ASSUME Init PROVE LastingInv
  OBVIOUS
<1> USE DEF Init
<1>1. \A c \in Clients : /\ node[c] = NewNode(0) /\ Addr(c) = <<c, 0>>
                         /\ Hello(c, 0) \in net
  BY DEF Addr, NewNode
<1>2. \A id \in IDs : ~Known(id)
  BY DEF Known
<1>3. \A m \in net : /\ m.type = "hello" /\ m.id = 0 /\ m.secret = 0
                     /\ m.addr[1] \in Clients /\ m.addr[2] = 0
  BY DEF Hello, Message
<1>4. AddressesInv
  <2>1. \A c \in Clients : node[c].inc = 0 /\ ~node[c].connected
    BY <1>1 DEF NewNode
  <2>2. \A m \in net : Past(m.addr)
    BY <1>3, <2>1 DEF Past
  <2> QED BY <1>2, <1>3, <2>1, <2>2, FaultsAssumption DEF AddressesInv
<1>5. IDsInv
  BY <1>2 DEF IDsInv
<1>6. ASSUME NEW c \in Clients PROVE SessionInv(c)
  <2>1. ~node[c].connected /\ node[c].tick = Period
    BY <1>1 DEF NewNode
  <2>2. Greets(Addr(c))
    <3>1. Hello(c, 0).type = "hello" /\ Hello(c, 0).addr = Addr(c)
      BY <1>1 DEF Hello, Message
    <3> QED BY <1>1, <3>1 DEF Greets
  <2>3. PacketsInv(c)
    BY <1>3, <2>1 DEF PacketsInv
  <2>4. PeerInv(c)
    BY <1>2 DEF PeerInv, PeerAt
  <2> QED BY <2>1, <2>2, <2>3, <2>4 DEF SessionInv, NodeInv
<1> QED BY <1>4, <1>5, <1>6 DEF LastingInv

(* Until the first fault every step keeps the sessions in order.           *)
LEMMA LastingStep ==
  ASSUME TypeOK, OneOwner, faults = 0 => LastingInv, IDsSuffice,
         Period <= DeadAge, [Next]_vars
  PROVE  (faults = 0 => LastingInv)'
<1> SUFFICES ASSUME faults' = 0 PROVE LastingInv'
  OBVIOUS
<1>1. faults = 0 /\ LastingInv
  BY NoFaults
<1>2. AddressesInv' /\ IDsInv'
  BY <1>1, AddressesStep, IDsStep DEF LastingInv
<1>3. \A c \in Clients : Accepted(c)' => SessionInv(c)'
  BY <1>1, SessionStep
<1> QED BY <1>2, <1>3 DEF LastingInv

(* A node is disconnected by a terminate or by the silence of the server.  *)
LEMMA LastsStep ==
  ASSUME TypeOK, LastingInv, Period <= DeadAge, [Next]_vars,
         faults = 0, faults' = 0, NEW c \in Clients,
         node[c].connected, node'[c].inc = node[c].inc
  PROVE  node'[c].connected
<1>1. Addr(c) \notin Rejected
  BY DEF LastingInv, AddressesInv
<1>2. ASSUME NodeTick(c) PROVE node'[c].connected
  <2>1. Accepted(c)
    BY <1>1, <1>2 DEF NodeTick, Accepted
  <2> QED BY <1>2, <2>1, TickedSession
<1>3. ASSUME NEW m \in net, NodeTerminate(c, m) PROVE FALSE
  <2>1. Accepted(c)
    BY <1>1, <1>3 DEF NodeTerminate, For, Accepted
  <2> QED BY <1>3, <2>1 DEF NodeTerminate, For, LastingInv, SessionInv,
                            PacketsInv
<1>4. ASSUME NEW d \in Clients, NEW m \in net, NodeReceives(d, m)
      PROVE  node'[c].connected
  BY <1>3, <1>4 DEF NodeReceives, NodeInit, NodeBeat, NodeTerminate,
                    TypeOK, Node
<1>5. ASSUME NEW d \in Clients, NodeTick(d) PROVE node'[c].connected
  BY <1>2, <1>5 DEF NodeTick, TypeOK
<1>6. ASSUME NEW d \in Clients, NodeRestart(d) PROVE node'[c].connected
  BY <1>6, NodeType DEF NodeRestart, NewNode, TypeOK
<1> QED
  BY <1>4, <1>5, <1>6
     DEF Next, Works, Fails, ServerReceives, ServerHello, ServerUnauthorized,
     ServerBeat, ServerConfig, ServerBye, Undeliverable, ServerTick,
     TimePasses, Lose, ServerRestart, NodeShutdown, vars, TypeOK, Node

(* If neither side's heartbeats are further apart than the silence it      *)
(* bears, and there are IDs for all starts of all nodes, then as long as   *)
(* no datagram is lost or doubled and the server is not restarted only its *)
(* own end disconnects a node, whatever the others do and whenever their   *)
(* IDs are given out again.                                                *)
THEOREM SessionLastsCorrect ==
  ASSUME Period <= DeadAge, IDsSuffice
  PROVE  Spec => SessionLasts
<1> DEFINE Inv == TypeOK /\ OneOwner /\ (faults = 0 => LastingInv)
<1>1. Init => Inv
  BY InitInv, LastingInit
<1>2. Inv /\ [Next]_vars => Inv'
  BY TypeStep, OwnerStep, LastingStep
<1>3. Inv /\ [Next]_vars =>
        [\A c \in Clients :
           /\ faults' = 0
           /\ node[c].connected /\ node'[c].inc = node[c].inc
           => node'[c].connected]_vars
  <2> SUFFICES ASSUME Inv, [Next]_vars, NEW c \in Clients, faults' = 0,
                      node[c].connected, node'[c].inc = node[c].inc
               PROVE  node'[c].connected
    OBVIOUS
  <2>1. faults = 0 /\ LastingInv
    BY NoFaults
  <2> QED BY <2>1, LastsStep
<1> HIDE DEF Inv
<1> QED BY <1>1, <1>2, <1>3, PTL DEF Spec, SessionLasts

=============================================================================
