------------------------- MODULE ConfigUpdateProofs -------------------------
(***************************************************************************)
(* What holds of the config update path for any settings, requests, peer   *)
(* IDs and bounds.                                                         *)
(***************************************************************************)
EXTENDS ConfigUpdate, TLAPS

LEMMA ReportType ==
  ASSUME NEW id \in IDs, NEW s \in Sessions, NEW c \in Configs, NEW b \in BOOLEAN
  PROVE  Report(id, s, c, b) \in Message
BY SMT DEF Report, Message

LEMMA UpdateType ==
  ASSUME NEW k \in Keys, NEW v \in Values
  PROVE  Update(k, v) \in Message
BY SMT DEF Update, Message

LEMMA InputType ==
  ASSUME NEW e \in Inputs
  PROVE  e[1] \in Keys /\ e[2] \in Values
BY ConfigAssumption

LEMMA SessionNumbers ==
  /\ 0 \in Sessions
  /\ \A s \in Sessions : s \in Nat /\ (s < MaxSessions => s + 1 \in Sessions)
BY ConfigAssumption DEF Sessions

Handler == [at : {"idle", "send", "clear", "record"}, id : IDs \cup {0},
            session : Sessions, boot : Sessions, key : Keys, value : Values]
Peer == [session : Sessions, boot : Sessions, hasConf : BOOLEAN, view : Configs]
Process == [boot : Sessions, id : IDs \cup {0}, session : Sessions,
            due : BOOLEAN, config : Configs]

LEMMA GotoType ==
  ASSUME handlers \in [Handlers -> Handler], NEW h \in Handlers,
         NEW l \in {"clear", "record"}, Goto(h, l)
  PROVE  handlers' \in [Handlers -> Handler]
BY DEF Goto, Handler

LEMMA NoPeerType ==
  NoPeer \in Peer
BY ConfigAssumption, SessionNumbers DEF NoPeer, Peer

LEMMA NoEditType ==
  NoEdit \in Handler
<1>2. (CHOOSE k \in Keys : TRUE) \in Keys /\ (CHOOSE v \in Values : TRUE) \in Values
  BY ConfigAssumption
<1> QED
  BY <1>2, SessionNumbers DEF NoEdit, Handler

LEMMA PeerExcept ==
  ASSUME NEW p \in Peer
  PROVE  [p EXCEPT !.hasConf = FALSE] \in Peer
BY DEF Peer

LEMMA ConfigExcept ==
  ASSUME NEW c \in Configs, NEW k \in Keys, NEW v \in Values
  PROVE  [c EXCEPT ![k] = v] \in Configs
BY DEF Configs

-----------------------------------------------------------------------------
LEMMA InitInv ==
  Init => TypeOK /\ BootInv /\ SessionInv /\ EditInv /\ DropInv
<1> SUFFICES ASSUME Init PROVE TypeOK /\ BootInv /\ SessionInv /\ EditInv /\ DropInv
  OBVIOUS
<1>1. TypeOK
  <2>1. peers \in [IDs -> Peer] /\ handlers \in [Handlers -> Handler]
    BY NoPeerType, NoEditType DEF Init
  <2>2. node \in Process /\ sessions \in Sessions
    BY ConfigAssumption, SessionNumbers DEF Init, Process
  <2>3. \A id \in IDs : peers[id] = NoPeer
    BY DEF Init
  <2>4. edits \in 0..MaxEdits /\ faults \in 0..MaxFaults
    BY ConfigAssumption DEF Init
  <2>5. net = {} /\ file \in Configs /\ hasty = FALSE /\ overtaken = FALSE
    BY ConfigAssumption DEF Init
  <2> QED
    BY <2>1, <2>2, <2>3, <2>4, <2>5 DEF TypeOK, Peer, Handler, Process
<1>2. BootInv
  BY ConfigAssumption DEF Init, BootInv, Connected, Known, NoPeer, NoEdit
<1>3. SessionInv
  BY DEF Init, SessionInv, Known, Connected, NoPeer, NoEdit
<1>4. EditInv
  BY ConfigAssumption DEF Init, EditInv, Up, NoEdit
<1>5. DropInv
  BY DEF Init, DropInv, InTable, Connected
<1> QED
  BY <1>1, <1>2, <1>3, <1>4, <1>5

LEMMA TypePreserved ==
  TypeOK /\ BootInv /\ SessionInv /\ [Next]_vars => TypeOK'
<1> SUFFICES ASSUME TypeOK, BootInv, SessionInv, [Next]_vars PROVE TypeOK'
  OBVIOUS
<1> USE DEF TypeOK, Peer, Handler, Process
<1>1. ASSUME NEW h \in Handlers, NEW id \in IDs, NEW k \in Keys, NEW v \in Values,
             ApplyNodeConfigUpdate(h, id, k, v)
      PROVE  TypeOK'
  <2>1. edits' \in 0..MaxEdits /\ hasty' \in BOOLEAN
    BY <1>1, ConfigAssumption DEF ApplyNodeConfigUpdate, Begin, InHurry
  <2>2. handlers' \in [Handlers -> Handler]
    BY <1>1 DEF ApplyNodeConfigUpdate, Begin
  <2> QED
    BY <1>1, <2>1, <2>2 DEF ApplyNodeConfigUpdate, Begin, client, Known
<1>2. ASSUME NEW h \in Handlers, SendUpdate(h) PROVE TypeOK'
  <2>1. Update(handlers[h].key, handlers[h].value) \in Message
    BY UpdateType
  <2> QED
    BY <1>2, <2>1 DEF SendUpdate, Goto, client, Known
<1>3. ASSUME NEW h \in Handlers, SendFails(h) PROVE TypeOK'
  BY <1>3, NoEditType, ConfigAssumption DEF SendFails, Finish, Fault, client, Known
<1>4. ASSUME NEW h \in Handlers, ClearHasSentConf(h) PROVE TypeOK'
  <2>1. \A id \in IDs : ~Known(id)' => peers'[id] = NoPeer
    BY <1>4 DEF ClearHasSentConf, Known, BootInv
  <2>2. peers' \in [IDs -> Peer]
    <3>1. \A id \in IDs : [peers[id] EXCEPT !.hasConf = FALSE] \in Peer
      BY PeerExcept
    <3> QED
      BY <1>4, <3>1 DEF ClearHasSentConf
  <2> QED
    BY <1>4, <2>1, <2>2, GotoType DEF ClearHasSentConf, client
<1>5. ASSUME NEW h \in Handlers, RecordUpdate(h) PROVE TypeOK'
  <2> DEFINE e == handlers[h]
  <2>1. peers' \in [IDs -> Peer]
    <3>1. \A id \in IDs : [peers[id].view EXCEPT ![e.key] = e.value] \in Configs
      BY ConfigExcept
    <3> QED
      BY <1>5, <3>1 DEF RecordUpdate, Record
  <2>2. \A id \in IDs : ~Known(id)' => peers'[id] = NoPeer
    BY <1>5 DEF RecordUpdate, Record, Known
  <2>3. handlers' \in [Handlers -> Handler]
    BY <1>5, NoEditType DEF RecordUpdate, Record, Finish
  <2> QED
    BY <1>5, <2>1, <2>2, <2>3 DEF RecordUpdate, Record, client
<1>6. ASSUME NEW m \in net, ReceiveReport(m) PROVE TypeOK'
  <2>1. m.id \in IDs /\ m.config \in Configs
    BY <1>6 DEF ReceiveReport, Message
  <2>2. Known(m.id)
    BY <1>6 DEF ReceiveReport, SessionInv
  <2> QED
    BY <1>6, <2>1, <2>2 DEF ReceiveReport, Known, client
<1>7. ASSUME NEW m \in net, UpdateConfigEntry(m) PROVE TypeOK'
  <2> DEFINE c == Taken(m)
  <2>1. m.key \in Keys /\ m.value \in Values
    BY <1>7 DEF UpdateConfigEntry, TakeUpdate, Message
  <2>2. c \in Configs
    BY <2>1, ConfigExcept DEF Taken
  <2>3. InTable => Report(node.id, node.session, c, FALSE) \in Message
    BY <2>2, ReportType DEF InTable, Connected
  <2>4. net' \subseteq Message
    BY <1>7, <2>3 DEF UpdateConfigEntry, TakeUpdate
  <2>5. faults' \in 0..MaxFaults /\ file' \in Configs
    BY <1>7, <2>2, ConfigAssumption DEF UpdateConfigEntry, TakeUpdate, Fault
  <2>6. node' \in Process
    BY <1>7, <2>2 DEF UpdateConfigEntry, TakeUpdate
  <2> QED
    BY <1>7, <2>4, <2>5, <2>6 DEF UpdateConfigEntry, TakeUpdate, server, Known
<1>8. ASSUME NEW m \in net, Lose(m) PROVE TypeOK'
  BY <1>8, ConfigAssumption DEF Lose, Fault, server, client, Known
<1>9. ASSUME NEW id \in IDs, Connect(id) PROVE TypeOK'
  <2>1. sessions + 1 \in Sessions /\ node.boot \in Sessions
    BY <1>9, ConfigAssumption DEF Connect, SessionsLeft, Sessions
  <2>2. Report(id, sessions + 1, node.config, TRUE) \in Message
    BY <2>1, ReportType
  <2>3. sessions + 1 # 0
    BY ConfigAssumption DEF Sessions
  <2>4. peers' \in [IDs -> Peer]
    BY <1>9, <2>1, NoPeerType DEF Connect
  <2>5. \A i \in IDs : ~Known(i)' => peers'[i] = NoPeer
    BY <1>9, <2>3, NoPeerType DEF Connect, Known, NoPeer
  <2>6. node' \in Process
    BY <1>9, <2>1 DEF Connect
  <2>7. overtaken' \in BOOLEAN
    BY <1>9 DEF Connect
  <2> QED
    BY <1>9, <2>1, <2>2, <2>4, <2>5, <2>6, <2>7 DEF Connect
<1>10. ASSUME NEW id \in IDs, HeartbeatTimeout(id) \/ ConfigTimeout(id) PROVE TypeOK'
  BY <1>10, NoPeerType
     DEF HeartbeatTimeout, ConfigTimeout, Remove, WithoutReports, client, Known
<1>11. ASSUME NodeStart PROVE TypeOK'
  <2>1. sessions + 1 \in Sessions
    BY <1>11, ConfigAssumption DEF NodeStart, SessionsLeft, Sessions
  <2>2. file' \in Configs /\ faults' \in 0..MaxFaults
    BY <1>11, ConfigAssumption DEF NodeStart, Fault
  <2>3. node' \in Process
    BY <1>11, <2>1, <2>2 DEF NodeStart
  <2> QED
    BY <1>11, <2>2, <2>3 DEF NodeStart, server, Known
<1>12. ASSUME RestartDue PROVE TypeOK'
  <2>1. \A m \in net : m.type = "update" => Taken(m) \in Configs
    BY ConfigExcept DEF Taken, Message
  <2>2. file' \in Configs /\ faults' \in 0..MaxFaults
    BY <1>12, <2>1, ConfigAssumption DEF RestartDue, Fault
  <2>3. node' \in Process
    BY <1>12, SessionNumbers DEF RestartDue, Down
  <2> QED
    BY <1>12, <2>2, <2>3 DEF RestartDue, WithoutUpdates, server, Known
<1>13. ASSUME Shutdown PROVE TypeOK'
  <2>1. \A id \in IDs : ~Known(id)' => peers'[id] = NoPeer
    BY <1>13 DEF Shutdown, Known
  <2>2. peers' \in [IDs -> Peer]
    BY <1>13, NoPeerType DEF Shutdown
  <2>3. node' \in Process
    BY <1>13, SessionNumbers DEF Shutdown, Down
  <2> QED
    BY <1>13, <2>1, <2>2, <2>3, ConfigAssumption
       DEF Shutdown, Fault, WithoutUpdates, WithoutReports
<1>14. ASSUME Terminated PROVE TypeOK'
  BY <1>14, SessionNumbers DEF Terminated, server, Known
<1>15. CASE UNCHANGED vars
  BY <1>15 DEF vars, server, client, Known
<1> QED
  BY <1>1, <1>2, <1>3, <1>4, <1>5, <1>6, <1>7, <1>8, <1>9, <1>10, <1>11, <1>12,
     <1>13, <1>14, <1>15, InputType DEF Next, HandlerStep, Arrive, NodeStep

-----------------------------------------------------------------------------
(* A new boot or session is one nobody has seen. *)

LEMMA BootPreserved ==
  TypeOK /\ BootInv /\ SessionInv /\ [Next]_vars => BootInv'
<1> SUFFICES ASSUME TypeOK, BootInv, SessionInv, [Next]_vars PROVE BootInv'
  OBVIOUS
<1>0. /\ sessions \in Nat
      /\ \A id \in IDs : peers[id].session \in Nat /\ peers[id].boot \in Nat
      /\ \A h \in Handlers :
           handlers[h].session \in Nat /\ handlers[h].boot \in Nat
      /\ node.boot \in Nat /\ node.session \in Nat
  BY ConfigAssumption DEF TypeOK, Sessions
<1>1. ASSUME NEW h \in Handlers, NEW id \in IDs, NEW k \in Keys, NEW v \in Values,
             ApplyNodeConfigUpdate(h, id, k, v)
      PROVE  BootInv'
  <2>1. \A g \in Handlers :
          /\ handlers'[g].session <= sessions /\ handlers'[g].boot <= sessions
          /\ handlers'[g].at # "idle" =>
               handlers'[g].session # 0 /\ handlers'[g].boot # 0
    BY <1>1, <1>0 DEF ApplyNodeConfigUpdate, Begin, BootInv, TypeOK, Known
  <2>2. UNCHANGED <<peers, net, client, sessions>>
    BY <1>1 DEF ApplyNodeConfigUpdate, Begin
  <2> QED
    BY <2>1, <2>2 DEF BootInv, client, Up, Connected, Known
<1>2. ASSUME NEW h \in Handlers, SendUpdate(h) PROVE BootInv'
  BY <1>2, <1>0 DEF SendUpdate, Goto, BootInv, TypeOK, client, Up, Connected,
                    Known, Update
<1>3. ASSUME NEW h \in Handlers, SendFails(h) PROVE BootInv'
  BY <1>3, <1>0 DEF SendFails, Finish, NoEdit, BootInv, TypeOK, client, Up,
                    Connected, Known
<1>4. ASSUME NEW h \in Handlers, ClearHasSentConf(h) \/ RecordUpdate(h) PROVE BootInv'
  <2>1. \A id \in IDs : /\ peers'[id].session = peers[id].session
                        /\ peers'[id].boot = peers[id].boot
    BY <1>4 DEF ClearHasSentConf, RecordUpdate, Record, TypeOK
  <2>2. \A g \in Handlers :
          /\ handlers'[g].session <= sessions /\ handlers'[g].boot <= sessions
          /\ handlers'[g].at # "idle" =>
               handlers'[g].session # 0 /\ handlers'[g].boot # 0
    BY <1>4, <1>0 DEF ClearHasSentConf, RecordUpdate, Record, Goto, Finish,
                      NoEdit, BootInv, TypeOK
  <2>3. UNCHANGED <<net, client, sessions>>
    BY <1>4 DEF ClearHasSentConf, RecordUpdate, Record
  <2> QED
    BY <2>1, <2>2, <2>3 DEF BootInv, client, Up, Connected, Known
<1>5. ASSUME NEW m \in net, ReceiveReport(m) \/ Lose(m) PROVE BootInv'
  <2>1. \A id \in IDs : /\ peers'[id].session = peers[id].session
                        /\ peers'[id].boot = peers[id].boot
    BY <1>5 DEF ReceiveReport, Lose, server, TypeOK
  <2>2. net' \subseteq net /\ UNCHANGED <<handlers, client, sessions>>
    BY <1>5 DEF ReceiveReport, Lose, server
  <2> QED
    BY <2>1, <2>2 DEF BootInv, client, Up, Connected, Known
<1>6. ASSUME NEW m \in net, UpdateConfigEntry(m) PROVE BootInv'
  <2>1. /\ node'.boot = node.boot /\ node'.id = node.id
        /\ node'.session = node.session /\ Up
    BY <1>6 DEF UpdateConfigEntry, TakeUpdate, TypeOK
  <2> QED
    BY <1>6, <2>1 DEF UpdateConfigEntry, TakeUpdate, BootInv, server, Up,
                      Connected, Known
<1>7. ASSUME NEW id \in IDs, Connect(id) PROVE BootInv'
  <2>1. /\ node.boot <= sessions + 1 /\ Up /\ id # 0
        /\ sessions' = sessions + 1 /\ sessions' # 0
    BY <1>7, <1>0, ConfigAssumption DEF Connect, BootInv
  <2>2. /\ node'.boot = node.boot /\ node'.id = id /\ node'.due = node.due
        /\ node'.session = sessions'
    BY <1>7, <2>1 DEF Connect, TypeOK
  <2>3. \A i \in IDs :
          /\ peers'[i].session <= sessions' /\ peers'[i].boot <= sessions'
          /\ Known(i)' => peers'[i].boot # 0
    <3> TAKE i \in IDs
    <3>1. CASE i = id
      BY <1>7, <2>1, <3>1, <1>0 DEF Connect, TypeOK, NoPeer, Up, Known
    <3>2. CASE i # id
      BY <1>7, <2>1, <3>2, <1>0 DEF Connect, TypeOK, BootInv, Known
    <3> QED
      BY <3>1, <3>2
  <2>4. \A h \in Handlers :
          handlers[h].session <= sessions' /\ handlers[h].boot <= sessions'
    BY <2>1, <1>0 DEF BootInv
  <2>5. handlers' = handlers /\ \A m \in net' : m.type = "update" => Up'
    BY <1>7, <2>1, <2>2 DEF Connect, Up
  <2> QED
    BY <2>1, <2>2, <2>3, <2>4, <2>5, <1>0 DEF BootInv, Up, Connected
<1>8. ASSUME NEW id \in IDs, HeartbeatTimeout(id) \/ ConfigTimeout(id)
      PROVE  BootInv'
  BY <1>8, <1>0 DEF HeartbeatTimeout, ConfigTimeout, Remove, WithoutReports,
       NoPeer, BootInv, TypeOK, client, Up, Connected, Known
<1>9. ASSUME NodeStart PROVE BootInv'
  BY <1>9, <1>0 DEF NodeStart, BootInv, TypeOK, server, Up, Connected, Known
<1>10. ASSUME RestartDue PROVE BootInv'
  BY <1>10, <1>0 DEF RestartDue, Down, WithoutUpdates, BootInv, TypeOK, server,
       Up, Connected, Known
<1>11. ASSUME Shutdown PROVE BootInv'
  BY <1>11, <1>0 DEF Shutdown, Down, WithoutUpdates, BootInv, TypeOK, NoPeer,
       Up, Connected, Known
<1>12. ASSUME Terminated PROVE BootInv'
  BY <1>12, <1>0 DEF Terminated, BootInv, TypeOK, server, Up, Connected, Known
<1>13. CASE UNCHANGED vars
  BY <1>13 DEF vars, server, client, BootInv, Up, Connected, Known
<1> QED
  BY <1>1, <1>2, <1>3, <1>4, <1>5, <1>6, <1>7, <1>8, <1>9, <1>10, <1>11, <1>12,
     <1>13, InputType DEF Next, HandlerStep, Arrive, NodeStep

-----------------------------------------------------------------------------
(* A session is one entry, one boot and one ID. *)

LEMMA SessionPreserved ==
  TypeOK /\ BootInv /\ SessionInv /\ [Next]_vars => SessionInv'
<1> SUFFICES ASSUME TypeOK, BootInv, SessionInv, [Next]_vars PROVE SessionInv'
  OBVIOUS
<1>0. /\ sessions \in Nat
      /\ \A id \in IDs : peers[id].session \in Nat /\ peers[id].boot \in Nat
      /\ \A h \in Handlers :
           handlers[h].session \in Nat /\ handlers[h].boot \in Nat
      /\ node.boot \in Nat /\ node.session \in Nat
      /\ \A m \in net : m.type = "config" => m.id \in IDs
  BY ConfigAssumption DEF TypeOK, Sessions, Message
<1>1. ASSUME NEW h \in Handlers, NEW id \in IDs, NEW k \in Keys, NEW v \in Values,
             ApplyNodeConfigUpdate(h, id, k, v)
      PROVE  SessionInv'
  <2>1. /\ handlers'[h].session = peers[id].session
        /\ handlers'[h].boot = peers[id].boot
        /\ \A g \in Handlers : g # h => handlers'[g] = handlers[g]
    BY <1>1 DEF ApplyNodeConfigUpdate, Begin, TypeOK
  <2>2. UNCHANGED <<peers, net, client, sessions>>
    BY <1>1 DEF ApplyNodeConfigUpdate, Begin
  <2>3. \A i \in IDs, g \in Handlers :
          Known(i) /\ handlers'[g].session = peers[i].session
            => handlers'[g].boot = peers[i].boot
    BY <2>1 DEF SessionInv
  <2>4. Connected => \A g \in Handlers : handlers'[g].session = node.session
                       => handlers'[g].boot = node.boot
    BY <2>1 DEF SessionInv
  <2> QED
    BY <2>2, <2>3, <2>4 DEF SessionInv, client, Known, Connected
<1>2. ASSUME NEW h \in Handlers, SendUpdate(h) PROVE SessionInv'
  <2>1. \A g \in Handlers : /\ handlers'[g].session = handlers[g].session
                           /\ handlers'[g].boot = handlers[g].boot
    BY <1>2 DEF SendUpdate, Goto, TypeOK
  <2>2. \A m \in net' : m.type = "config" => m \in net
    BY <1>2 DEF SendUpdate, Update
  <2> QED
    BY <1>2, <2>1, <2>2 DEF SendUpdate, SessionInv, client, Known, Connected
<1>3. ASSUME NEW h \in Handlers, SendFails(h) PROVE SessionInv'
  <2>1. \A g \in Handlers : handlers'[g] = NoEdit \/ handlers'[g] = handlers[g]
    BY <1>3 DEF SendFails, Finish, TypeOK
  <2>2. NoEdit.session = 0 /\ (Connected => node.session # 0)
    BY DEF NoEdit, BootInv
  <2>3. UNCHANGED <<peers, net, client>>
    BY <1>3 DEF SendFails
  <2> QED
    BY <1>0, <2>1, <2>2, <2>3 DEF SessionInv, client, Known, Connected
<1>4. ASSUME NEW h \in Handlers, ClearHasSentConf(h) \/ RecordUpdate(h)
      PROVE  SessionInv'
  <2>1. \A id \in IDs : /\ peers'[id].session = peers[id].session
                        /\ peers'[id].boot = peers[id].boot
    BY <1>4 DEF ClearHasSentConf, RecordUpdate, Record, TypeOK
  <2>2. \A g \in Handlers :
          \/ handlers'[g].session = 0
          \/ /\ handlers'[g].session = handlers[g].session
             /\ handlers'[g].boot = handlers[g].boot
    BY <1>4 DEF ClearHasSentConf, RecordUpdate, Record, Goto, Finish, NoEdit,
                TypeOK
  <2>3. UNCHANGED <<net, client, sessions>>
    BY <1>4 DEF ClearHasSentConf, RecordUpdate, Record
  <2>4. Connected => node.session # 0
    BY DEF BootInv
  <2> QED
    BY <1>0, <2>1, <2>2, <2>3, <2>4 DEF SessionInv, client, Known, Connected
<1>5. ASSUME NEW m \in net, ReceiveReport(m) \/ Lose(m) PROVE SessionInv'
  <2>1. \A id \in IDs : /\ peers'[id].session = peers[id].session
                        /\ peers'[id].boot = peers[id].boot
    BY <1>5 DEF ReceiveReport, Lose, server, TypeOK
  <2>2. net' \subseteq net /\ UNCHANGED <<handlers, client, sessions>>
    BY <1>5 DEF ReceiveReport, Lose, server
  <2> QED
    BY <1>0, <2>1, <2>2 DEF SessionInv, client, Known, Connected
<1>6. ASSUME NEW m \in net, UpdateConfigEntry(m) PROVE SessionInv'
  <2>1. /\ node'.boot = node.boot /\ node'.id = node.id
        /\ node'.session = node.session
    BY <1>6 DEF UpdateConfigEntry, TakeUpdate, TypeOK
  <2>2. \A n \in net' : n.type = "config" =>
          \/ n \in net
          \/ n.id = node.id /\ n.session = node.session /\ InTable
    <3> DEFINE r == Report(node.id, node.session, Taken(m), FALSE)
    <3>1. net' = (net \ {m}) \cup {q \in {r} : InTable}
      BY <1>6 DEF UpdateConfigEntry, TakeUpdate
    <3>2. r.id = node.id /\ r.session = node.session
      BY DEF Report
    <3> HIDE DEF r
    <3> QED
      BY <3>1, <3>2
  <2>3. InTable => Known(node.id)
    BY DEF InTable, Known, BootInv
  <2>4. UNCHANGED server
    BY <1>6 DEF UpdateConfigEntry, TakeUpdate
  <2> QED
    BY <2>1, <2>2, <2>3, <2>4 DEF SessionInv, server, Known, Connected, InTable
<1>7. ASSUME NEW id \in IDs, Connect(id) PROVE SessionInv'
  <2>1. /\ ~Known(id) /\ id # 0 /\ sessions' = sessions + 1 /\ sessions' # 0
    BY <1>7, <1>0, ConfigAssumption DEF Connect, NextPeerID
  <2>2. /\ node'.boot = node.boot /\ node'.id = id
        /\ node'.session = sessions + 1
    BY <1>7 DEF Connect, TypeOK
  <2>3. /\ peers'[id].session = sessions + 1 /\ peers'[id].boot = node.boot
        /\ \A i \in IDs : i # id => peers'[i] = peers[i]
    BY <1>7 DEF Connect, TypeOK, NoPeer
  <2>4. \A i \in IDs : peers[i].session # sessions + 1
    BY <1>0 DEF BootInv
  <2>5. \A h \in Handlers : handlers[h].session # sessions + 1
    BY <1>0 DEF BootInv
  <2>6. handlers' = handlers
    BY <1>7 DEF Connect
  <2>7. \A m \in net' : m.type = "config" =>
          \/ m \in net
          \/ m.id = id /\ m.session = sessions + 1
    <3> DEFINE r == Report(id, sessions + 1, node.config, TRUE)
    <3>1. net' = net \cup {r}
      BY <1>7 DEF Connect
    <3>2. r.id = id /\ r.session = sessions + 1
      BY DEF Report
    <3> QED
      BY <3>1, <3>2
  <2>8. \A i, j \in IDs :
          Known(i)' /\ peers'[i].session = peers'[j].session => i = j
    BY <2>3, <2>4 DEF SessionInv, Known
  <2>9. \A m \in net' :
          m.type = "config" => Known(m.id)' /\ peers'[m.id].session = m.session
    BY <1>0, <2>1, <2>3, <2>7 DEF SessionInv, Known
  <2>10. \A i \in IDs, h \in Handlers :
           Known(i)' /\ handlers'[h].session = peers'[i].session
             => handlers'[h].boot = peers'[i].boot
    BY <2>3, <2>5, <2>6 DEF SessionInv, Known
  <2>11. /\ \A i \in IDs : peers'[i].session = node'.session
              => i = node'.id /\ peers'[i].boot = node'.boot
         /\ \A h \in Handlers : handlers'[h].session = node'.session
              => handlers'[h].boot = node'.boot
    BY <2>2, <2>3, <2>4, <2>5, <2>6
  <2> QED
    BY <2>8, <2>9, <2>10, <2>11 DEF SessionInv
<1>8. ASSUME NEW id \in IDs, HeartbeatTimeout(id) \/ ConfigTimeout(id)
      PROVE  SessionInv'
  <2>1. /\ peers'[id] = NoPeer
        /\ \A i \in IDs : i # id => peers'[i] = peers[i]
    BY <1>8 DEF HeartbeatTimeout, ConfigTimeout, Remove, TypeOK
  <2>2. \A m \in net' :
          m \in net /\ (m.type = "config" => m.session # peers[id].session)
    BY <1>8 DEF HeartbeatTimeout, ConfigTimeout, Remove, WithoutReports
  <2>3. UNCHANGED <<handlers, client>>
    BY <1>8 DEF HeartbeatTimeout, ConfigTimeout, Remove
  <2>4. Connected => node.session # 0
    BY DEF BootInv
  <2>5. NoPeer.session = 0 /\ ~Known(id)'
    BY <2>1 DEF NoPeer, Known
  <2>6. \A m \in net' : m.type = "config" => m.id # id
    BY <2>2 DEF SessionInv
  <2> QED
    BY <1>0, <2>1, <2>2, <2>3, <2>4, <2>5, <2>6
       DEF SessionInv, client, Known, Connected
<1>9. ASSUME NodeStart PROVE SessionInv'
  <2>1. ~Connected /\ node'.id = node.id /\ node'.session = node.session
    BY <1>9 DEF NodeStart, BootInv, TypeOK
  <2> QED
    BY <1>9, <2>1 DEF NodeStart, SessionInv, server, Known, Connected
<1>10. ASSUME RestartDue PROVE SessionInv'
  <2>1. node'.id = 0 /\ net' \subseteq net /\ UNCHANGED server
    BY <1>10 DEF RestartDue, Down, WithoutUpdates, TypeOK
  <2> QED
    BY <2>1 DEF SessionInv, server, Known, Connected
<1>11. ASSUME Shutdown PROVE SessionInv'
  <2>1. node'.id = 0 /\ UNCHANGED handlers
    BY <1>11 DEF Shutdown, Down, TypeOK
  <2>2. \A i \in IDs : IF InTable /\ i = node.id THEN peers'[i] = NoPeer
                       ELSE peers'[i] = peers[i]
    BY <1>11 DEF Shutdown
  <2>3. \A m \in net' :
          m \in net /\ (m.type = "config" => m.session # node.session)
    BY <1>11 DEF Shutdown, WithoutReports
  <2>4. \A m \in net' : m.type = "config" => ~(InTable /\ m.id = node.id)
    BY <2>3 DEF SessionInv, InTable
  <2>5. NoPeer.session = 0
    BY DEF NoPeer
  <2> QED
    BY <1>0, <2>1, <2>2, <2>3, <2>4, <2>5 DEF SessionInv, Known, Connected
<1>12. ASSUME Terminated PROVE SessionInv'
  <2>1. node'.id = 0 /\ UNCHANGED <<server, net>>
    BY <1>12 DEF Terminated, TypeOK
  <2> QED
    BY <2>1 DEF SessionInv, server, Known, Connected
<1>13. CASE UNCHANGED vars
  BY <1>13 DEF vars, server, client, SessionInv, Known, Connected
<1> QED
  BY <1>1, <1>2, <1>3, <1>4, <1>5, <1>6, <1>7, <1>8, <1>9, <1>10, <1>11, <1>12,
     <1>13, InputType DEF Next, HandlerStep, Arrive, NodeStep

-----------------------------------------------------------------------------
(* Without a hasty edit, the one that is pending fits the node.            *)

LEMMA EditPreserved ==
  TypeOK /\ BootInv /\ EditInv /\ [Next]_vars => EditInv'
<1> SUFFICES ASSUME TypeOK, BootInv, EditInv, [Next]_vars, ~hasty' PROVE EditInv'
  BY DEF EditInv
<1>0. hasty \in BOOLEAN /\ sessions \in Nat /\ node.boot \in Nat
  BY ConfigAssumption DEF TypeOK, Sessions
<1>1. ASSUME NEW h \in Handlers, NEW id \in IDs, NEW k \in Keys, NEW v \in Values,
             ApplyNodeConfigUpdate(h, id, k, v)
      PROVE  EditInv'
  <2>1. ~hasty /\ ~InHurry(id)
    BY <1>1, <1>0 DEF ApplyNodeConfigUpdate, Begin
  <2>2. /\ handlers'[h].key = k /\ handlers'[h].value = v
        /\ \A g \in Handlers : g # h => handlers'[g].at = "idle"
    BY <1>1, <2>1 DEF ApplyNodeConfigUpdate, Begin, InHurry, TypeOK
  <2>3. UNCHANGED <<net, client>> /\ \A m \in net : m.type # "update"
    BY <1>1, <2>1 DEF ApplyNodeConfigUpdate, Begin, InHurry
  <2>4. Valid([node.config EXCEPT ![k] = v])
    BY <1>1, <2>1 DEF ApplyNodeConfigUpdate, InHurry
  <2>5. Fits(handlers[h])'
    BY <2>2, <2>3, <2>4 DEF Fits, client
  <2> QED
    BY <2>1, <2>2, <2>3, <2>5 DEF EditInv, client, Up
<1>2. ASSUME NEW h \in Handlers, SendUpdate(h) PROVE EditInv'
  <2> DEFINE u == Update(handlers[h].key, handlers[h].value)
  <2>1. ~hasty /\ UNCHANGED client /\ handlers[h].at = "send"
    BY <1>2 DEF SendUpdate
  <2>2. /\ handlers'[h].at = "clear"
        /\ \A g \in Handlers : g # h => handlers'[g] = handlers[g]
    BY <1>2 DEF SendUpdate, Goto, TypeOK
  <2>3. \A g \in Handlers : g # h => handlers[g].at = "idle"
    BY <2>1 DEF EditInv
  <2>4. u.type = "update" /\ u.key = handlers[h].key /\ u.value = handlers[h].value
    BY DEF Update
  <2>5. handlers[h].boot = node.boot => Fits(u)
    BY <2>1, <2>4 DEF EditInv, Fits
  <2>6. \A m \in net' : m.type = "update" => m = u /\ handlers[h].boot = node.boot
    BY <1>2, <2>1 DEF SendUpdate, EditInv
  <2> HIDE DEF u
  <2>7. \A m \in net' : m.type = "update" => Fits(m)'
    BY <2>1, <2>5, <2>6 DEF Fits, client
  <2> QED
    BY <2>1, <2>2, <2>3, <2>6, <2>7 DEF EditInv, client, Up
<1>3. ASSUME NEW h \in Handlers,
             SendFails(h) \/ ClearHasSentConf(h) \/ RecordUpdate(h)
      PROVE  EditInv'
  <2>1. ~hasty /\ UNCHANGED <<net, client>>
    BY <1>3 DEF SendFails, ClearHasSentConf, RecordUpdate, Record
  <2>2. /\ handlers'[h].at # "send" /\ handlers[h].at # "idle"
        /\ \A g \in Handlers : g # h => handlers'[g] = handlers[g]
    BY <1>3 DEF SendFails, ClearHasSentConf, RecordUpdate, Record, Goto, Finish,
                NoEdit, TypeOK
  <2>3. \A g \in Handlers : g # h => handlers'[g].at = "idle"
    BY <2>1, <2>2 DEF EditInv
  <2> QED
    BY <2>1, <2>2, <2>3 DEF EditInv, client, Up, Fits
<1>4. ASSUME NEW m \in net, ReceiveReport(m) \/ Lose(m) PROVE EditInv'
  <2>1. ~hasty /\ net' \subseteq net /\ UNCHANGED <<handlers, client>>
    BY <1>4 DEF ReceiveReport, Lose, server
  <2> QED
    BY <2>1 DEF EditInv, client, Up, Fits
<1>5. ASSUME NEW m \in net, UpdateConfigEntry(m) PROVE EditInv'
  <2> DEFINE c == Taken(m)
             r == Report(node.id, node.session, c, FALSE)
  <2>1. ~hasty /\ UNCHANGED server /\ m.type = "update"
    BY <1>5 DEF UpdateConfigEntry, TakeUpdate, server
  <2>2. Valid(c)
    BY <2>1 DEF EditInv, Fits, Taken
  <2>3. node'.config = c /\ file' \in {c, file, Default}
    BY <1>5 DEF UpdateConfigEntry, TakeUpdate, TypeOK
  <2>4. r.type = "config"
    BY DEF Report
  <2> HIDE DEF r, c
  <2>5. net' = (net \ {m}) \cup {q \in {r} : InTable}
    BY <1>5 DEF UpdateConfigEntry, TakeUpdate, r, c
  <2>6. \A n \in net' : n.type # "update"
    BY <2>1, <2>4, <2>5 DEF EditInv
  <2>7. \A h \in Handlers : handlers[h].at # "send"
    BY <2>1 DEF EditInv
  <2>8. Valid(file)
    BY <2>1 DEF EditInv
  <2> QED
    BY <2>1, <2>2, <2>3, <2>6, <2>7, <2>8, ConfigAssumption DEF EditInv, server
<1>6. ASSUME NEW id \in IDs, Connect(id) PROVE EditInv'
  <2> DEFINE r == Report(id, sessions + 1, node.config, TRUE)
  <2>1. /\ ~hasty /\ UNCHANGED <<handlers, file>>
        /\ node'.config = node.config /\ node'.boot = node.boot
    BY <1>6 DEF Connect, TypeOK
  <2>2. r.type = "config"
    BY DEF Report
  <2> HIDE DEF r
  <2>3. net' = net \cup {r}
    BY <1>6 DEF Connect, r
  <2>4. \A n \in net' : n.type = "update" => n \in net
    BY <2>2, <2>3
  <2> QED
    BY <2>1, <2>4 DEF EditInv, Up, Fits
<1>7. ASSUME NEW id \in IDs, HeartbeatTimeout(id) \/ ConfigTimeout(id)
      PROVE  EditInv'
  <2>1. ~hasty /\ net' \subseteq net /\ UNCHANGED <<handlers, client>>
    BY <1>7 DEF HeartbeatTimeout, ConfigTimeout, Remove, WithoutReports
  <2> QED
    BY <2>1 DEF EditInv, client, Up, Fits
<1>8. ASSUME NodeStart PROVE EditInv'
  <2>1. /\ ~hasty /\ ~Up /\ Valid(file') /\ UNCHANGED <<handlers, net>>
        /\ node'.boot = sessions + 1 /\ node'.config = file'
    BY <1>8 DEF NodeStart, server, TypeOK
  <2>2. \A h \in Handlers : handlers[h].boot # sessions + 1
    BY <1>0, ConfigAssumption DEF BootInv, TypeOK, Sessions
  <2>3. \A m \in net : m.type # "update"
    BY <2>1 DEF BootInv
  <2> QED
    BY <2>1, <2>2, <2>3 DEF EditInv
<1>9. ASSUME RestartDue \/ Shutdown PROVE EditInv'
  <2>1. /\ ~hasty /\ UNCHANGED handlers
        /\ node'.boot = 0 /\ \A m \in net' : m.type # "update"
    BY <1>9 DEF RestartDue, Shutdown, Down, WithoutUpdates, server, TypeOK
  <2>2. \A h \in Handlers : handlers[h].at = "send" => handlers[h].boot # 0
    BY DEF BootInv
  <2>3. Valid(file) /\ Valid(Default)
        /\ \A m \in net : m.type = "update" => Valid(Taken(m))
    BY <2>1, ConfigAssumption DEF EditInv, Fits, Taken
  <2>4. \/ file' \in {file, Default}
        \/ \E m \in net : m.type = "update" /\ file' = Taken(m)
    BY <1>9 DEF RestartDue, Shutdown
  <2> QED
    BY <2>1, <2>2, <2>3, <2>4 DEF EditInv, Up
<1>10. ASSUME Terminated PROVE EditInv'
  <2>1. /\ ~hasty /\ UNCHANGED <<handlers, file, net>>
        /\ node'.config = node.config /\ node'.boot = node.boot
    BY <1>10 DEF Terminated, server, TypeOK
  <2> QED
    BY <2>1 DEF EditInv, Up, Fits
<1>11. CASE UNCHANGED vars
  BY <1>11 DEF vars, server, client, EditInv, Up, Fits
<1> QED
  BY <1>1, <1>2, <1>3, <1>4, <1>5, <1>6, <1>7, <1>8, <1>9, <1>10, <1>11,
     InputType DEF Next, HandlerStep, Arrive, NodeStep

-----------------------------------------------------------------------------
(* As long as nothing was lost, a session without a config has one coming. *)

LEMMA DropPreserved ==
  TypeOK /\ BootInv /\ SessionInv /\ DropInv /\ [Next]_vars => DropInv'
<1> SUFFICES ASSUME TypeOK, BootInv, SessionInv, DropInv, [Next]_vars,
                    faults' = 0, InTable', ~node'.due
             PROVE  /\ ~peers'[node'.id].hasConf => (UpdateComing \/ HelloComing)'
                    /\ \A h \in Handlers :
                         /\ handlers'[h].at = "clear"
                         /\ handlers'[h].session = node'.session
                         => UpdateComing'
  BY DEF DropInv
<1> DEFINE Goal == /\ ~peers'[node'.id].hasConf => (UpdateComing \/ HelloComing)'
                   /\ \A h \in Handlers :
                        /\ handlers'[h].at = "clear"
                        /\ handlers'[h].session = node'.session
                        => UpdateComing'
<1>0. faults \in Nat /\ sessions \in Nat
  BY ConfigAssumption DEF TypeOK, Sessions
<1>1. ASSUME NEW h \in Handlers, NEW id \in IDs, NEW k \in Keys, NEW v \in Values,
             ApplyNodeConfigUpdate(h, id, k, v)
      PROVE  Goal
  <2>1. /\ handlers'[h].at = "send"
        /\ \A g \in Handlers : g # h => handlers'[g] = handlers[g]
    BY <1>1 DEF ApplyNodeConfigUpdate, Begin, TypeOK
  <2>2. UNCHANGED <<peers, net, node, faults>>
    BY <1>1 DEF ApplyNodeConfigUpdate, Begin, client
  <2> QED
    BY <2>1, <2>2 DEF DropInv, UpdateComing, HelloComing, InTable, Connected
<1>2. ASSUME NEW h \in Handlers, SendUpdate(h) PROVE Goal
  <2> DEFINE u == Update(handlers[h].key, handlers[h].value)
  <2>1. UNCHANGED <<peers, node, faults>> /\ InTable /\ ~node.due
    BY <1>2 DEF SendUpdate, client, InTable, Connected
  <2>2. /\ handlers'[h].session = handlers[h].session
        /\ \A g \in Handlers : g # h => handlers'[g] = handlers[g]
    BY <1>2 DEF SendUpdate, Goto, TypeOK
  <2>3. u.type = "update"
    BY DEF Update
  <2> HIDE DEF u
  <2>4. net' = net \cup {q \in {u} : handlers[h].boot = node.boot}
    BY <1>2 DEF SendUpdate, u
  <2>5. handlers[h].session = node.session => handlers[h].boot = node.boot
    BY <2>1 DEF SessionInv, InTable
  <2>6. handlers[h].session = node.session => UpdateComing'
    BY <2>3, <2>4, <2>5 DEF UpdateComing
  <2>7. /\ UpdateComing => UpdateComing'
        /\ HelloComing => HelloComing'
    BY <2>1, <2>4 DEF UpdateComing, HelloComing
  <2> QED
    BY <2>1, <2>2, <2>6, <2>7 DEF DropInv
<1>3. ASSUME NEW h \in Handlers, ClearHasSentConf(h) PROVE Goal
  <2>1. UNCHANGED <<net, node, faults>>
    BY <1>3 DEF ClearHasSentConf, client
  <2>2. \A id \in IDs : peers'[id].session = peers[id].session
    BY <1>3 DEF ClearHasSentConf, TypeOK
  <2>3. node.id \in IDs /\ InTable
    BY <2>1, <2>2 DEF InTable, Connected, TypeOK
  <2>4. \/ handlers[h].session = node.session /\ handlers[h].at = "clear"
        \/ peers'[node.id] = peers[node.id]
    BY <1>3, <2>3 DEF ClearHasSentConf, InTable
  <2>5. /\ handlers'[h].at = "record"
        /\ \A g \in Handlers : g # h => handlers'[g] = handlers[g]
    BY <1>3 DEF ClearHasSentConf, Goto, TypeOK
  <2> QED
    BY <2>1, <2>3, <2>4, <2>5 DEF DropInv, UpdateComing, HelloComing
<1>4. ASSUME NEW h \in Handlers, RecordUpdate(h) PROVE Goal
  <2>1. UNCHANGED <<net, node, faults>>
    BY <1>4 DEF RecordUpdate, Record, client
  <2>2. \A id \in IDs : /\ peers'[id].session = peers[id].session
                        /\ peers'[id].hasConf = peers[id].hasConf
    BY <1>4 DEF RecordUpdate, Record, TypeOK
  <2>3. node.id \in IDs /\ InTable
    BY <2>1, <2>2 DEF InTable, Connected, TypeOK
  <2>4. /\ handlers'[h].at = "idle"
        /\ \A g \in Handlers : g # h => handlers'[g] = handlers[g]
    BY <1>4 DEF RecordUpdate, Record, Finish, NoEdit, TypeOK
  <2> QED
    BY <2>1, <2>2, <2>3, <2>4 DEF DropInv, UpdateComing, HelloComing
<1>5. ASSUME NEW h \in Handlers, SendFails(h) PROVE Goal
  BY <1>5, <1>0 DEF SendFails, Fault
<1>6. ASSUME NEW m \in net, ReceiveReport(m) PROVE Goal
  <2>1. UNCHANGED <<handlers, node, faults>> /\ net' = net \ {m}
    BY <1>6 DEF ReceiveReport, client
  <2>2. m.type = "config" /\ m.id \in IDs /\ peers[m.id].session = m.session
    BY <1>6 DEF ReceiveReport, TypeOK, Message, SessionInv
  <2>3. \A id \in IDs : peers'[id].session = peers[id].session
    BY <1>6 DEF ReceiveReport, TypeOK
  <2>4. node.id \in IDs /\ InTable
    BY <2>1, <2>3 DEF InTable, Connected, TypeOK
  <2>5. UpdateComing => UpdateComing'
    BY <2>1, <2>2 DEF UpdateComing
  <2>6. CASE m.id = node.id
    <3>1. peers'[node.id].hasConf
      BY <1>6, <2>2, <2>6 DEF ReceiveReport, TypeOK
    <3> QED
      BY <2>1, <2>4, <2>5, <3>1 DEF DropInv
  <2>7. CASE m.id # node.id
    <3>1. m.session # node.session
      BY <2>2, <2>4, <2>7 DEF SessionInv, InTable
    <3>2. HelloComing => HelloComing'
      BY <2>1, <3>1 DEF HelloComing
    <3>3. peers'[node.id] = peers[node.id]
      BY <1>6, <2>4, <2>7 DEF ReceiveReport, TypeOK
    <3> QED
      BY <2>1, <2>4, <2>5, <3>2, <3>3 DEF DropInv
  <2> QED
    BY <2>6, <2>7
<1>7. ASSUME NEW m \in net, Lose(m) PROVE Goal
  BY <1>7, <1>0 DEF Lose, Fault
<1>8. ASSUME NEW m \in net, UpdateConfigEntry(m) PROVE Goal
  BY <1>8 DEF UpdateConfigEntry, TakeUpdate, TypeOK
<1>9. ASSUME NEW id \in IDs, Connect(id) PROVE Goal
  <2> DEFINE r == Report(id, sessions + 1, node.config, TRUE)
  <2>1. node'.session = sessions + 1 /\ handlers' = handlers
    BY <1>9 DEF Connect, TypeOK
  <2>2. r.type = "config" /\ r.session = sessions + 1 /\ r.hello
    BY DEF Report
  <2> HIDE DEF r
  <2>3. r \in net'
    BY <1>9 DEF Connect, r
  <2>4. HelloComing'
    BY <2>1, <2>2, <2>3 DEF HelloComing
  <2>5. \A h \in Handlers : handlers[h].session # sessions + 1
    BY <1>0, ConfigAssumption DEF BootInv, TypeOK, Sessions
  <2> QED
    BY <2>1, <2>4, <2>5
<1>10. ASSUME NEW id \in IDs, HeartbeatTimeout(id) \/ ConfigTimeout(id) PROVE Goal
  <2>1. UNCHANGED <<handlers, node, faults>>
    BY <1>10 DEF HeartbeatTimeout, ConfigTimeout, Remove, client
  <2>2. /\ peers'[id] = NoPeer
        /\ \A i \in IDs : i # id => peers'[i] = peers[i]
    BY <1>10 DEF HeartbeatTimeout, ConfigTimeout, Remove, TypeOK
  <2>3. node.id \in IDs /\ node.session # 0
    BY <2>1 DEF InTable, Connected, TypeOK, BootInv
  <2>4. node.id # id /\ InTable /\ peers'[node.id] = peers[node.id]
    BY <2>1, <2>2, <2>3 DEF InTable, Connected, NoPeer
  <2>5. peers[id].session # node.session
    BY <2>3, <2>4, <1>10 DEF SessionInv, InTable
  <2>6. /\ UpdateComing => UpdateComing'
        /\ HelloComing => HelloComing'
    <3>1. net' = WithoutReports(peers[id].session)
      BY <1>10 DEF HeartbeatTimeout, ConfigTimeout, Remove
    <3> QED
      BY <2>1, <2>5, <3>1 DEF UpdateComing, HelloComing, WithoutReports
  <2> QED
    BY <2>1, <2>4, <2>6 DEF DropInv
<1>11. ASSUME NodeStart PROVE Goal
  BY <1>11 DEF NodeStart, BootInv, InTable, Connected, Up, TypeOK
<1>12. ASSUME RestartDue \/ Shutdown \/ Terminated PROVE Goal
  BY <1>12 DEF RestartDue, Shutdown, Terminated, Down, InTable, Connected, TypeOK
<1>13. CASE UNCHANGED vars
  BY <1>13 DEF vars, server, client, DropInv, UpdateComing, HelloComing,
               InTable, Connected
<1>14. Goal
  BY <1>1, <1>2, <1>3, <1>4, <1>5, <1>6, <1>7, <1>8, <1>9, <1>10, <1>11, <1>12,
     <1>13, InputType DEF Next, HandlerStep, Arrive, NodeStep
<1> QED
  BY <1>14

-----------------------------------------------------------------------------
LEMMA Invariance ==
  Spec => [](TypeOK /\ BootInv /\ SessionInv /\ EditInv /\ DropInv)
<1>1. TypeOK /\ BootInv /\ SessionInv /\ EditInv /\ DropInv /\ [Next]_vars
        => (TypeOK /\ BootInv /\ SessionInv /\ EditInv /\ DropInv)'
  BY TypePreserved, BootPreserved, SessionPreserved, EditPreserved, DropPreserved
<1> QED
  BY InitInv, <1>1, PTL DEF Spec

(* Every state of the config update path is well typed, and an entry of the*)
(* server's table that is not a peer's is empty: RecordUpdate creates none.*)
THEOREM ConfigTypeCorrect == Spec => []TypeOK
BY Invariance, PTL

(* An edit made only when the one before has come back never leaves a node *)
(* with a config it refuses to start with, whatever is lost, whichever of  *)
(* the two processes of the node it reaches, and however often the table   *)
(* changes: applyNodeConfigUpdate's validation is enough then.             *)
THEOREM StaysStartableCorrect == Spec => []StaysStartable
<1>1. EditInv => StaysStartable
  BY DEF EditInv, StaysStartable
<1> QED
  BY Invariance, <1>1, PTL

(* If nothing was lost, heartbeatLoop ends a live session for want of a    *)
(* config only if an update has reached its node or is about to, although  *)
(* updatePeerConfig clears HasSentConf after the send and a report may be  *)
(* taken before that, or be late: the restart ends such a session anyway.  *)
THEOREM OnlyEditsDropCorrect == Spec => OnlyEditsDrop
<1>1. TypeOK /\ DropInv /\ [Next]_vars =>
        [\A id \in IDs : ConfigTimeout(id) /\ InTable /\ id = node.id
           => faults > 0 \/ node.due \/ UpdateComing]_vars
  <2> SUFFICES ASSUME TypeOK, DropInv, NEW id \in IDs, ConfigTimeout(id),
                      InTable, id = node.id, faults = 0, ~node.due
               PROVE  UpdateComing
    BY ConfigAssumption DEF TypeOK
  <2>1. ~peers[node.id].hasConf
    BY DEF ConfigTimeout
  <2>2. ~HelloComing
    BY DEF ConfigTimeout, HelloComing, InTable
  <2> QED
    BY <2>1, <2>2 DEF DropInv
<1> QED
  BY Invariance, <1>1, PTL DEF Spec, OnlyEditsDrop
=============================================================================
