------------------------- MODULE ReassemblerProofs -------------------------
(***************************************************************************)
(* Proofs about Reassembler, for any senders, sizes of messages, timeout,  *)
(* delay and number of copies, and any number of message IDs that do not   *)
(* come round within a delay and a timeout.                                *)
(***************************************************************************)
EXTENDS Reassembler, TLAPS

USE TimesAssumption, BoundsAssumption

-----------------------------------------------------------------------------
(* The type invariant. *)

(* The counter never gives out the ID 0.                                   *)
LEMMA NextIDType ==
  ASSUME NEW s \in Senders, counter \in [Senders -> 0..MaxMessageID]
  PROVE  NextMessageID(s) \in 1..MaxMessageID
BY DEF NextMessageID

(* What Push makes of the table, and of what arrived. *)
LEMMA PushType ==
  ASSUME TypeOK, NEW d \in net, d.msg.id # 0,
         NEW k, k = <<d.msg.from, d.msg.id>>,
         NEW a, a = Store(AssemblyFor(k, d.msg.count), d)
  PROVE  /\ k \in Keys
         /\ Cleanup \in [Keys -> Assembly]
         /\ AssemblyFor(k, d.msg.count) \in Assembly
         /\ a \in Assembly
         /\ a.count = d.msg.count
         /\ Filed(k, a) \in [Keys -> Assembly]
<1>0. d \in Datagram /\ d.msg \in Message /\ now \in Nat
  BY DEF TypeOK, Datagram
<1>1. k \in Keys
  BY <1>0 DEF Keys, Message
<1>2. NoAssembly \in Assembly
  BY DEF NoAssembly, Assembly
<1>3. Cleanup \in [Keys -> Assembly]
  BY <1>2 DEF TypeOK, Cleanup
<1>4. AssemblyFor(k, d.msg.count) \in Assembly
  BY <1>0, <1>1, <1>3 DEF AssemblyFor, Assembly, Message
<1>5. AssemblyFor(k, d.msg.count).count = d.msg.count
  BY DEF AssemblyFor
<1>6. [msg |-> d.msg, index |-> d.index] \in Fragment
  BY <1>0 DEF Datagram, Fragment
<1>7. a \in Assembly /\ a.count = d.msg.count
  BY <1>4, <1>5, <1>6 DEF Store, Assembly
<1>8. Filed(k, a) \in [Keys -> Assembly]
  BY <1>1, <1>2, <1>3, <1>7 DEF Filed
<1> QED BY <1>1, <1>3, <1>4, <1>7, <1>8

(* The fragments of a message are datagrams.                               *)
LEMMA DatagramsType ==
  ASSUME NEW m \in Message
  PROVE  Datagrams(m) \subseteq Datagram
BY DEF Datagrams, Datagram, Message

(* Every step keeps the variables in their types.                          *)
LEMMA TypeStep == TypeOK /\ [Next]_vars => TypeOK'
<1> SUFFICES ASSUME TypeOK, [Next]_vars PROVE TypeOK'
  OBVIOUS
<1> USE DEF TypeOK
<1>1. ASSUME NEW s \in Senders, SendWhole(s) PROVE TypeOK'
  <2> DEFINE m == [from |-> s, inc |-> inc[s], id |-> 0, count |-> 1,
                   at |-> now]
  <2>1. m \in Message
    BY <1>1 DEF SendWhole, Message
  <2>2. \A d \in Datagrams(m) : d.msg.id = 0 /\ d.msg.count = 1
    BY DEF Datagrams
  <2>3. net' = net \cup Datagrams(m)
    BY <1>1 DEF SendWhole
  <2> QED BY <1>1, <2>1, <2>2, <2>3, DatagramsType DEF SendWhole
<1>2. ASSUME NEW s \in Senders, NEW count \in Counts, SendFragments(s, count)
      PROVE  TypeOK'
  <2> DEFINE m == [from |-> s, inc |-> inc[s], id |-> NextMessageID(s),
                   count |-> count, at |-> now]
  <2>0. NextMessageID(s) \in 1..MaxMessageID
    BY NextIDType
  <2>1. m \in Message
    BY <2>0 DEF Message
  <2>2. \A d \in Datagrams(m) : d.msg.id # 0 /\ d.msg.count # 1
    BY <1>2, <2>0 DEF Datagrams, SendFragments
  <2>3. net' = net \cup Datagrams(m)
    BY <1>2 DEF SendFragments
  <2>4. counter' \in [Senders -> 0..MaxMessageID]
    BY <1>2, <2>0 DEF SendFragments
  <2>5. net' \subseteq Datagram
    BY <2>1, <2>3, DatagramsType
  <2>6. \A d \in net' : d.msg.id = 0 <=> d.msg.count = 1
    BY <2>2, <2>3
  <2> QED BY <1>2, <2>4, <2>5, <2>6 DEF SendFragments
<1>3. ASSUME NEW s \in Senders, SendElsewhere(s) PROVE TypeOK'
  BY <1>3, NextIDType DEF SendElsewhere
<1>4. ASSUME NEW s \in Senders, SenderRestart(s) PROVE TypeOK'
  BY <1>4 DEF SenderRestart
<1>5. ASSUME NEW d \in net, Push(d) PROVE TypeOK'
  <2>0. d \in Datagram
    OBVIOUS
  <2>1. UNCHANGED <<now, sender>> /\ net' \subseteq net
    BY <1>5 DEF Push
  <2>2. received' \subseteq [datagram : Datagram, time : Nat]
    BY <1>5, <2>0 DEF Push
  <2>3. CASE d.msg.id = 0
    <3>1. [msg |-> d.msg, index |-> 0] \in Fragment
      BY <2>0 DEF Datagram, Fragment
    <3> QED BY <1>5, <2>0, <2>1, <2>2, <2>3, <3>1 DEF Push, PushWhole, sender
  <2>4. CASE d.msg.id # 0
    <3> DEFINE k == <<d.msg.from, d.msg.id>>
               a == Store(AssemblyFor(k, d.msg.count), d)
    <3>1. a \in Assembly /\ Filed(k, a) \in [Keys -> Assembly]
      BY <2>4, PushType
    <3>2. /\ table' = Filed(k, a)
          /\ delivered' \subseteq
               delivered \cup {[by |-> d, fragments |-> a.fragments]}
      BY <1>5, <2>4 DEF Push, PushFragment
    <3>3. a.fragments \in SUBSET Fragment
      BY <3>1 DEF Assembly
    <3> QED BY <2>0, <2>1, <2>2, <3>1, <3>2, <3>3 DEF sender
  <2> QED BY <2>3, <2>4
<1>6. CASE TimePasses
  BY <1>6 DEF TimePasses, sender
<1>7. CASE UNCHANGED vars
  BY <1>7 DEF vars, sender
<1> QED BY <1>1, <1>2, <1>3, <1>4, <1>5, <1>6, <1>7 DEF Next

-----------------------------------------------------------------------------
(* The inductive invariant.  Sending moves the counter on by one and the   *)
(* clock by at least one, so a message with the ID that is given out now   *)
(* was sent a whole round of messages ago.                                 *)
LEMMA NextIDSince ==
  ASSUME NEW s \in Senders, counter \in [Senders -> 0..MaxMessageID],
         counter' = [counter EXCEPT ![s] = NextMessageID(s)]
  PROVE  /\ \A id \in 1..MaxMessageID : Since(id, s)' <= Since(id, s) + 1
         /\ Since(NextMessageID(s), s) = MaxMessageID - 1
         /\ \A id \in 1..MaxMessageID : id = NextMessageID(s) => Since(id, s)' = 0
         /\ \A t \in Senders \ {s} : counter'[t] = counter[t]
<1> DEFINE c == counter[s]
<1>1. c \in 0..MaxMessageID /\ counter'[s] = NextMessageID(s)
  OBVIOUS
<1>2. NextMessageID(s) = IF c = MaxMessageID THEN 1 ELSE c + 1
  BY DEF NextMessageID
<1>3. Since(NextMessageID(s), s) = MaxMessageID - 1
  BY <1>1, <1>2 DEF Since
<1>4. ASSUME NEW id \in 1..MaxMessageID, id = NextMessageID(s)
      PROVE  Since(id, s)' = 0
  BY <1>1, <1>4 DEF Since
<1>5. ASSUME NEW id \in 1..MaxMessageID
      PROVE  Since(id, s)' <= Since(id, s) + 1
  <2>1. Since(id, s) = IF id <= c THEN c - id ELSE c - id + MaxMessageID
    BY DEF Since
  <2>2. Since(id, s)' = IF id <= NextMessageID(s) THEN NextMessageID(s) - id
                        ELSE NextMessageID(s) - id + MaxMessageID
    BY <1>1 DEF Since
  <2> QED BY <1>1, <1>2, <2>1, <2>2
<1>6. \A t \in Senders \ {s} : counter'[t] = counter[t]
  OBVIOUS
<1> QED BY <1>3, <1>4, <1>5, <1>6

(* Whatever is about is a message.                                         *)
LEMMA LiveType == TypeOK => Live \subseteq Message
BY DEF TypeOK, Live, Datagram, Assembly, Fragment

(* One message more, and the ID drawn for it or for another peer.          *)
LEMMA DrawStep ==
  ASSUME TypeOK, SentInv, RoundInv, NEW s \in Senders, lastSent[s] < now,
         UNCHANGED <<now, inc>>,
         lastSent' = [lastSent EXCEPT ![s] = now],
         counter' = [counter EXCEPT ![s] = NextMessageID(s)],
         \A m \in Live' \ Live :
           m.from = s /\ m.inc = inc[s] /\ m.at = now /\ m.id = NextMessageID(s),
         \A m, n \in Live' \ Live : m = n
  PROVE  SentInv' /\ RoundInv'
<1>0. /\ Live \subseteq Message /\ now \in Nat
      /\ counter \in [Senders -> 0..MaxMessageID]
      /\ inc \in [Senders -> Nat]
      /\ lastSent \in [Senders -> Nat \cup {-1}]
  BY LiveType DEF TypeOK
<1>1. NextMessageID(s) \in 1..MaxMessageID
  BY <1>0, NextIDType
<1>2. /\ \A id \in 1..MaxMessageID : Since(id, s)' <= Since(id, s) + 1
      /\ Since(NextMessageID(s), s) = MaxMessageID - 1
      /\ \A id \in 1..MaxMessageID : id = NextMessageID(s) => Since(id, s)' = 0
      /\ \A t \in Senders \ {s} : counter'[t] = counter[t]
  BY <1>0, NextIDSince
<1>3. counter'[s] = NextMessageID(s) /\ lastSent'[s] = now
  BY <1>0
<1>4. \A t \in Senders \ {s} : lastSent'[t] = lastSent[t]
                               /\ \A id \in Nat : Since(id, t)' = Since(id, t)
  BY <1>0, <1>2 DEF Since
<1>5. \A m \in Live : m.at <= now - 1 \/ m.from # s
  BY <1>0 DEF SentInv, Message
<1>6. SentInv'
  <2>1. \A t \in Senders : lastSent'[t] <= now'
    BY <1>0, <1>3, <1>4 DEF SentInv
  <2>2. ASSUME NEW m \in Live
        PROVE  /\ m.at <= lastSent'[m.from] /\ m.inc <= inc'[m.from]
               /\ m.id # 0 /\ m.inc = inc'[m.from]
                    => lastSent'[m.from] - m.at >= Since(m.id, m.from)'
    <3>1. m \in Message /\ m.at \in Nat
      BY <1>0 DEF Message
    <3>2. CASE m.from = s
      <4>1. m.id # 0 => m.id \in 1..MaxMessageID
        BY <3>1 DEF Message
      <4>2. m.id # 0 => Since(m.id, s) \in Int /\ Since(m.id, s)' \in Int
        BY <1>0, <1>1, <1>3, <4>1 DEF Since
      <4>3. m.id # 0 => Since(m.id, s)' <= Since(m.id, s) + 1
        BY <1>2, <4>1
      <4>4. now - m.at >= lastSent[s] - m.at + 1
        BY <1>0, <3>1
      <4>5. m.id # 0 /\ m.inc = inc[s] => lastSent[s] - m.at >= Since(m.id, s)
        BY <3>2 DEF SentInv
      <4>6. m.id # 0 /\ m.inc = inc[s] => now - m.at >= Since(m.id, s)'
        BY <1>0, <3>1, <4>2, <4>3, <4>4, <4>5
      <4>7. m.at <= now /\ m.inc <= inc[s]
        BY <1>0, <3>1, <3>2, <1>5 DEF SentInv
      <4> QED BY <1>3, <3>2, <4>6, <4>7
    <3>3. CASE m.from # s
      BY <1>4, <3>1, <3>3 DEF SentInv, Message
    <3> QED BY <3>2, <3>3
  <2>3. ASSUME NEW m \in Live' \ Live
        PROVE  /\ m.at <= lastSent'[m.from] /\ m.inc <= inc'[m.from]
               /\ m.id # 0 /\ m.inc = inc'[m.from]
                    => lastSent'[m.from] - m.at >= Since(m.id, m.from)'
    <3>1. m.from = s /\ m.inc = inc[s] /\ m.at = now /\ m.id = NextMessageID(s)
      BY <2>3
    <3>2. Since(m.id, s)' = 0
      BY <1>1, <1>2, <3>1
    <3> QED BY <1>0, <1>3, <3>1, <3>2
  <2> QED BY <2>1, <2>2, <2>3 DEF SentInv
<1>7. RoundInv'
  <2>1. ASSUME NEW m \in Live' \ Live, NEW n \in Live, n.from = s,
               n.inc = inc[s], n.id = m.id
        PROVE  m.at - n.at >= MaxMessageID
    <3>1. lastSent[s] - n.at >= MaxMessageID - 1
      BY <1>1, <1>2, <2>1 DEF SentInv
    <3> QED BY <1>0, <2>1, <3>1 DEF Message
  <2>2. ASSUME NEW m \in Live', NEW n \in Live',
               m.from = n.from, m.inc = n.inc, m.id = n.id, m.id # 0
        PROVE  \/ m = n
               \/ m.at - n.at >= MaxMessageID
               \/ n.at - m.at >= MaxMessageID
    <3>1. CASE m \in Live /\ n \in Live
      BY <2>2, <3>1 DEF RoundInv
    <3>2. CASE m \notin Live /\ n \notin Live
      BY <2>2, <3>2
    <3>3. CASE m \in Live /\ n \notin Live
      BY <2>1, <2>2, <3>3
    <3>4. CASE m \notin Live /\ n \in Live
      BY <2>1, <2>2, <3>4
    <3> QED BY <3>1, <3>2, <3>3, <3>4
  <2> QED BY <2>2 DEF RoundInv
<1> QED BY <1>6, <1>7

(* A step that sends nothing keeps the IDs a round apart.                  *)
LEMMA FewerLive ==
  ASSUME TypeOK, SentInv, RoundInv, Live' \subseteq Live, UNCHANGED sender,
         now' \in Nat, now <= now'
  PROVE  SentInv' /\ RoundInv'
<1>1. /\ Live \subseteq Message
      /\ counter' = counter /\ inc' = inc /\ lastSent' = lastSent
      /\ now \in Nat /\ lastSent \in [Senders -> Nat \cup {-1}]
  BY LiveType DEF sender, TypeOK
<1>2. \A id, s : Since(id, s)' = Since(id, s)
  BY <1>1 DEF Since
<1>3. \A s \in Senders : lastSent[s] <= now'
  BY <1>1 DEF SentInv
<1>4. SentInv'
  BY <1>1, <1>2, <1>3 DEF SentInv
<1>5. RoundInv'
  BY <1>1 DEF RoundInv
<1> QED BY <1>4, <1>5

(* Sending a message does not touch what has arrived already. *)
LEMMA SendKeeps ==
  ASSUME TypeOK, NetInv, TableInv, Whole,
         UNCHANGED <<now, table, received, delivered>>,
         NEW m \in Message, m.at = now, net' = net \cup Datagrams(m)
  PROVE  /\ NetInv' /\ TableInv' /\ Whole'
         /\ Live' \subseteq Live \cup {m}
<1>1. \A d \in Datagrams(m) : d.msg = m /\ d.index \in 0..m.count - 1
  BY DEF Datagrams
<1>2. NetInv'
  BY <1>1 DEF NetInv, TypeOK, Message
<1>3. TableInv' /\ Whole'
  BY DEF TableInv, Whole
<1>4. Live' \subseteq Live \cup {m}
  BY <1>1 DEF Live
<1> QED BY <1>2, <1>3, <1>4

(* Push joins fragments of one message only: what the assembly holds was   *)
(* sent less than a delay and a timeout ago, and so was the new fragment.  *)
LEMMA StoreUnmixed ==
  ASSUME TypeOK, SentInv, RoundInv, NetInv, TableInv,
         NEW d \in net, d.msg.id # 0,
         NEW k, k = <<d.msg.from, d.msg.id>>,
         NEW a, a = Store(AssemblyFor(k, d.msg.count), d)
  PROVE  /\ a.createdAt <= now
         /\ Unmixed(a.fragments)
         /\ \A f \in AssemblyFor(k, d.msg.count).fragments :
              f.msg.inc = d.msg.inc => f.msg = d.msg
         /\ {f.msg : f \in a.fragments} \subseteq Live
         /\ \A f \in a.fragments :
              /\ f.msg.from = k[1] /\ f.msg.id = k[2]
              /\ f.msg.count = a.count
              /\ a.createdAt <= f.msg.at + Lifetime
<1> DEFINE b == AssemblyFor(k, d.msg.count)
           g == [msg |-> d.msg, index |-> d.index]
<1>0. /\ k \in Keys /\ Cleanup \in [Keys -> Assembly]
      /\ b \in Assembly /\ a \in Assembly /\ a.count = d.msg.count
  BY PushType
<1>1. /\ d \in Datagram /\ d.msg \in Message /\ now \in Nat
      /\ Live \subseteq Message /\ d.msg \in Live
      /\ d.msg.count \in Nat /\ d.msg.count # 0 /\ d.msg.at \in Nat
  BY LiveType DEF TypeOK, Datagram, Live, Message
<1>2. /\ b.createdAt \in Nat /\ b.createdAt <= now
      /\ b.count = d.msg.count
      /\ b.fragments = {} \/ (b = table[k] /\ ~Expired(table[k]))
  <2>1. CASE Cleanup[k].count = d.msg.count
    <3>1. Cleanup[k] = table[k] /\ ~Expired(table[k])
      BY <1>0, <1>1, <2>1 DEF Cleanup, NoAssembly
    <3>2. b = table[k]
      BY <2>1, <3>1 DEF AssemblyFor
    <3> QED BY <1>0, <2>1, <3>1, <3>2 DEF TableInv, Assembly
  <2>2. CASE Cleanup[k].count # d.msg.count
    <3>1. b = [createdAt |-> now, count |-> d.msg.count, fragments |-> {}]
      BY <2>2 DEF AssemblyFor
    <3> QED BY <1>1, <3>1
  <2> QED BY <2>1, <2>2
<1>3. \A f \in b.fragments :
        /\ f.msg \in Live /\ f.msg \in Message
        /\ f.msg.from = k[1] /\ f.msg.id = k[2] /\ f.msg.count = d.msg.count
        /\ b.createdAt <= f.msg.at + Lifetime
        /\ now - b.createdAt <= Timeout
        /\ f.msg.at <= now
  <2> SUFFICES ASSUME NEW f \in b.fragments
               PROVE  /\ f.msg \in Live /\ f.msg \in Message
                      /\ f.msg.from = k[1] /\ f.msg.id = k[2]
                      /\ f.msg.count = d.msg.count
                      /\ b.createdAt <= f.msg.at + Lifetime
                      /\ now - b.createdAt <= Timeout
                      /\ f.msg.at <= now
    OBVIOUS
  <2>1. b = table[k] /\ ~Expired(table[k])
    BY <1>2
  <2>2. f.msg \in Live /\ f.msg \in Message
    BY <1>0, <1>1, <2>1 DEF Live
  <2>3. now - b.createdAt <= Timeout
    BY <1>1, <1>2, <2>1 DEF Expired
  <2>4. f.msg.at <= now
    <3>1. f.msg.from \in Senders /\ f.msg.at \in Nat
      BY <2>2 DEF Message
    <3>2. f.msg.at <= lastSent[f.msg.from] /\ lastSent[f.msg.from] <= now
      BY <2>2, <3>1 DEF SentInv
    <3>3. lastSent[f.msg.from] \in Int
      BY <3>1 DEF TypeOK
    <3> QED BY <1>1, <3>1, <3>2, <3>3
  <2> QED BY <1>0, <1>2, <2>1, <2>2, <2>3, <2>4 DEF TableInv
<1>4. \A f \in b.fragments : f.msg.inc = d.msg.inc => f.msg = d.msg
  <2> SUFFICES ASSUME NEW f \in b.fragments, f.msg.inc = d.msg.inc,
                      f.msg # d.msg
               PROVE  FALSE
    OBVIOUS
  <2>1. f.msg.from = d.msg.from /\ f.msg.id = d.msg.id
    BY <1>3
  <2>2. \/ f.msg.at - d.msg.at >= MaxMessageID
        \/ d.msg.at - f.msg.at >= MaxMessageID
    BY <1>1, <1>3, <2>1 DEF RoundInv
  <2>3. d.msg.at + Lifetime >= now /\ d.msg.at <= now
    <3>1. d.msg.from \in Senders
      BY <1>1 DEF Message
    <3>2. d.msg.at <= lastSent[d.msg.from] /\ lastSent[d.msg.from] <= now
      BY <1>1, <3>1 DEF SentInv
    <3>3. lastSent[d.msg.from] \in Int
      BY <3>1 DEF TypeOK
    <3> QED BY <1>1, <3>2, <3>3 DEF NetInv
  <2>4. f.msg.at \in Nat
    BY <1>3 DEF Message
  <2> QED BY <1>1, <1>2, <1>3, <2>2, <2>3, <2>4
<1>5. Unmixed(b.fragments)
  BY <1>0, <1>2 DEF TableInv, Unmixed
<1>6. a.createdAt = b.createdAt /\ a.fragments \subseteq b.fragments \cup {g}
  BY <1>0 DEF Store, Assembly
<1>7. Unmixed(a.fragments)
  BY <1>4, <1>5, <1>6 DEF Unmixed
<1>8. d.msg.from = k[1] /\ d.msg.id = k[2] /\ b.createdAt <= d.msg.at + Lifetime
  BY <1>1, <1>2 DEF NetInv
<1> QED BY <1>0, <1>1, <1>2, <1>3, <1>4, <1>6, <1>7, <1>8

(* Push keeps assemblies unmixed.                                          *)
LEMMA PushStep ==
  ASSUME TypeOK, ReassemblyInv, NEW d \in net, Push(d)
  PROVE  ReassemblyInv'
<1> USE DEF ReassemblyInv
<1>0. /\ d \in Datagram /\ d.msg \in Message /\ now \in Nat /\ now' = now
      /\ UNCHANGED sender /\ net' = net \ {d} /\ d.msg \in Live
      /\ received' = received \cup {[datagram |-> d, time |-> now]}
  BY DEF TypeOK, Datagram, Push, Live
<1>1. NetInv'
  BY <1>0 DEF NetInv
<1>2. CASE d.msg.id = 0
  <2>1. /\ table' = table
        /\ delivered' = delivered \cup
             {[by |-> d, fragments |-> {[msg |-> d.msg, index |-> 0]}]}
    BY <1>2 DEF Push, PushWhole
  <2>2. Live' \subseteq Live
    BY <1>0, <2>1 DEF Live
  <2>3. TableInv'
    BY <1>0, <2>1 DEF TableInv
  <2>4. d.msg.count = 1
    BY <1>2 DEF TypeOK
  <2>5. Whole'
    <3> DEFINE one == {[msg |-> d.msg, index |-> 0]}
    <3>1. 0..d.msg.count - 1 = {0} /\ {f.index : f \in one} = {0}
      BY <2>4
    <3>2. \A f, g \in one : f.msg.from = g.msg.from /\ f.msg = g.msg
      OBVIOUS
    <3> HIDE DEF one
    <3> QED BY <2>1, <3>1, <3>2 DEF Whole, one
  <2> QED BY <1>0, <1>1, <2>2, <2>3, <2>5, FewerLive
<1>3. CASE d.msg.id # 0
  <2> DEFINE k == <<d.msg.from, d.msg.id>>
             a == Store(AssemblyFor(k, d.msg.count), d)
  <2>1. /\ k \in Keys /\ Cleanup \in [Keys -> Assembly]
        /\ a \in Assembly /\ a.count = d.msg.count
    BY <1>3, PushType
  <2>2. /\ a.createdAt <= now
        /\ Unmixed(a.fragments)
        /\ {f.msg : f \in a.fragments} \subseteq Live
        /\ \A f \in a.fragments :
             /\ f.msg.from = k[1] /\ f.msg.id = k[2]
             /\ f.msg.count = a.count
             /\ a.createdAt <= f.msg.at + Lifetime
    BY <1>3, StoreUnmixed
  <2>3. /\ table' = Filed(k, a)
        /\ delivered' = IF Complete(a)
                        THEN delivered \cup
                               {[by |-> d, fragments |-> a.fragments]}
                        ELSE delivered
    BY <1>3 DEF Push, PushFragment
  <2>4. \A j \in Keys : \/ table'[j] = table[j] \/ table'[j] = NoAssembly
                        \/ j = k /\ table'[j] = a
    BY <2>1, <2>3 DEF Filed, Cleanup
  <2>5. NoAssembly.fragments = {} /\ NoAssembly.createdAt = 0
    BY DEF NoAssembly
  <2>6. TableInv'
    <3> SUFFICES ASSUME NEW j \in Keys
                 PROVE  /\ table'[j].createdAt <= now
                        /\ Unmixed(table'[j].fragments)
                        /\ \A f \in table'[j].fragments :
                             /\ f.msg.from = j[1] /\ f.msg.id = j[2]
                             /\ f.msg.count = table'[j].count
                             /\ table'[j].createdAt <= f.msg.at + Lifetime
      BY <1>0 DEF TableInv, Unmixed
    <3>1. CASE table'[j] = table[j]
      BY <3>1 DEF TableInv
    <3>2. CASE table'[j] = NoAssembly
      BY <1>0, <2>5, <3>2 DEF Unmixed
    <3>3. CASE j = k /\ table'[j] = a
      BY <2>2, <3>3
    <3> QED BY <2>4, <3>1, <3>2, <3>3
  <2>7. Live' \subseteq Live
    <3> SUFFICES ASSUME NEW m \in Live' PROVE m \in Live
      OBVIOUS
    <3>1. CASE m \in {e.msg : e \in net'}
      BY <1>0, <3>1 DEF Live
    <3>2. CASE \E j \in Keys : m \in {f.msg : f \in table'[j].fragments}
      <4>1. PICK j \in Keys : m \in {f.msg : f \in table'[j].fragments}
        BY <3>2
      <4>2. CASE table'[j] = table[j]
        BY <4>1, <4>2 DEF Live
      <4>3. CASE table'[j] = NoAssembly
        BY <2>5, <4>1, <4>3
      <4>4. CASE j = k /\ table'[j] = a
        BY <2>2, <4>1, <4>4
      <4> QED BY <2>4, <4>2, <4>3, <4>4
    <3>3. CASE m \in {r.datagram.msg : r \in received'}
      BY <1>0, <3>3 DEF Live
    <3> QED BY <3>1, <3>2, <3>3 DEF Live
  <2>8. Whole'
    <3> SUFFICES ASSUME Complete(a)
                 PROVE  /\ {f.index : f \in a.fragments} = 0..d.msg.count - 1
                        /\ \A f, g \in a.fragments :
                             /\ f.msg.from = g.msg.from
                             /\ f.msg.inc = g.msg.inc => f.msg = g.msg
      BY <2>3 DEF Whole
    <3> QED BY <2>1, <2>2 DEF Complete, Unmixed
  <2> QED BY <1>0, <1>1, <2>6, <2>7, <2>8, FewerLive
<1> QED BY <1>2, <1>3

(* Every step keeps the invariant.                                         *)
LEMMA InvStep == TypeOK /\ ReassemblyInv /\ [Next]_vars => ReassemblyInv'
<1> SUFFICES ASSUME TypeOK, ReassemblyInv, [Next]_vars
             PROVE  ReassemblyInv'
  OBVIOUS
<1> USE DEF ReassemblyInv
<1>0. /\ now \in Nat /\ Live \subseteq Message
      /\ inc \in [Senders -> Nat] /\ counter \in [Senders -> 0..MaxMessageID]
      /\ lastSent \in [Senders -> Nat \cup {-1}]
  BY LiveType DEF TypeOK
<1>1. ASSUME NEW s \in Senders, SendWhole(s) PROVE ReassemblyInv'
  <2> DEFINE m == [from |-> s, inc |-> inc[s], id |-> 0, count |-> 1,
                   at |-> now]
  <2>1. m \in Message /\ m.at = now /\ m.id = 0 /\ m.from = s
    BY <1>0, <1>1 DEF SendWhole, Message
  <2>2. net' = net \cup Datagrams(m)
    BY <1>1 DEF SendWhole
  <2>3. NetInv' /\ TableInv' /\ Whole' /\ Live' \subseteq Live \cup {m}
    BY <1>1, <2>1, <2>2, SendKeeps DEF SendWhole
  <2>4. /\ lastSent' = [lastSent EXCEPT ![s] = now] /\ lastSent[s] < now
        /\ now' = now /\ inc' = inc /\ counter' = counter
    BY <1>1 DEF SendWhole
  <2>5. \A id, t : Since(id, t)' = Since(id, t)
    BY <2>4 DEF Since
  <2>6. \A t \in Senders : lastSent'[t] <= now' /\ lastSent[t] <= lastSent'[t]
    BY <1>0, <2>4 DEF SentInv
  <2>7. SentInv'
    <3>1. ASSUME NEW n \in Live, n.id = 0 \/ n.id # 0
          PROVE  /\ n.at <= lastSent'[n.from] /\ n.inc <= inc'[n.from]
                 /\ n.id # 0 /\ n.inc = inc'[n.from]
                      => lastSent'[n.from] - n.at >= Since(n.id, n.from)'
      <4>1. /\ n.from \in Senders /\ n.at \in Nat /\ n.inc \in Nat
            /\ n.id \in 0..MaxMessageID
        BY <1>0 DEF Message
      <4>2. Since(n.id, n.from) \in Int
        BY <1>0, <4>1 DEF Since
      <4>3. lastSent'[n.from] \in Int /\ lastSent[n.from] \in Int
        BY <1>0, <2>4, <4>1
      <4>4. lastSent[n.from] <= lastSent'[n.from]
        BY <2>6, <4>1
      <4>5. /\ n.at <= lastSent[n.from] /\ n.inc <= inc[n.from]
            /\ n.id # 0 /\ n.inc = inc[n.from]
                 => lastSent[n.from] - n.at >= Since(n.id, n.from)
        BY DEF SentInv
      <4> QED BY <2>4, <2>5, <4>1, <4>2, <4>3, <4>4, <4>5
    <3>2. /\ m.at <= lastSent'[m.from] /\ m.inc <= inc'[m.from]
      BY <1>0, <2>1, <2>4
    <3> QED BY <2>1, <2>3, <2>6, <3>1, <3>2 DEF SentInv
  <2>8. RoundInv'
    BY <2>1, <2>3 DEF RoundInv
  <2> QED BY <2>3, <2>7, <2>8
<1>2. ASSUME NEW s \in Senders, NEW count \in Counts, SendFragments(s, count)
      PROVE  ReassemblyInv'
  <2> DEFINE m == [from |-> s, inc |-> inc[s], id |-> NextMessageID(s),
                   count |-> count, at |-> now]
  <2>1. m \in Message /\ m.at = now
    BY <1>0, NextIDType DEF Message
  <2>2. /\ net' = net \cup Datagrams(m)
        /\ lastSent' = [lastSent EXCEPT ![s] = now] /\ lastSent[s] < now
        /\ counter' = [counter EXCEPT ![s] = NextMessageID(s)]
        /\ UNCHANGED <<now, inc, table, received, delivered>>
    BY <1>2 DEF SendFragments
  <2>3. NetInv' /\ TableInv' /\ Whole' /\ Live' \subseteq Live \cup {m}
    BY <2>1, <2>2, SendKeeps
  <2>4. /\ \A n \in Live' \ Live :
             n.from = s /\ n.inc = inc[s] /\ n.at = now
               /\ n.id = NextMessageID(s)
        /\ \A n, o \in Live' \ Live : n = o
    BY <2>3
  <2>5. SentInv' /\ RoundInv'
    BY <2>2, <2>4, DrawStep
  <2> QED BY <2>3, <2>5
<1>3. ASSUME NEW s \in Senders, SendElsewhere(s) PROVE ReassemblyInv'
  <2>1. /\ lastSent' = [lastSent EXCEPT ![s] = now] /\ lastSent[s] < now
        /\ counter' = [counter EXCEPT ![s] = NextMessageID(s)]
        /\ UNCHANGED <<now, inc, net, table, received, delivered>>
    BY <1>3 DEF SendElsewhere
  <2>2. NetInv' /\ TableInv' /\ Whole' /\ Live' = Live
    BY <2>1 DEF NetInv, TableInv, Whole, Live
  <2>3. SentInv' /\ RoundInv'
    BY <2>1, <2>2, DrawStep
  <2> QED BY <2>2, <2>3
<1>4. ASSUME NEW s \in Senders, SenderRestart(s) PROVE ReassemblyInv'
  <2>1. /\ inc' = [inc EXCEPT ![s] = @ + 1]
        /\ counter' = [counter EXCEPT ![s] = 0]
        /\ UNCHANGED <<now, lastSent, net, table, received, delivered>>
    BY <1>4 DEF SenderRestart
  <2>2. NetInv' /\ TableInv' /\ Whole' /\ Live' = Live
    BY <2>1 DEF NetInv, TableInv, Whole, Live
  <2>3. RoundInv'
    BY <2>2 DEF RoundInv
  <2>4. SentInv'
    <3> SUFFICES ASSUME NEW m \in Live
                 PROVE  /\ m.at <= lastSent[m.from] /\ m.inc <= inc'[m.from]
                        /\ m.id # 0 /\ m.inc = inc'[m.from]
                             => lastSent[m.from] - m.at >= Since(m.id, m.from)'
      BY <2>1, <2>2 DEF SentInv
    <3>1. m.from \in Senders /\ m.inc \in Nat /\ m.inc <= inc[m.from]
      BY <1>0 DEF SentInv, Message
    <3>2. CASE m.from = s
      <4>1. m.inc < inc'[m.from]
        BY <1>0, <2>1, <3>1, <3>2
      <4> QED BY <1>0, <2>1, <3>1, <4>1 DEF SentInv
    <3>3. CASE m.from # s
      <4>1. inc'[m.from] = inc[m.from] /\ counter'[m.from] = counter[m.from]
        BY <1>0, <2>1, <3>1, <3>3
      <4>2. Since(m.id, m.from)' = Since(m.id, m.from)
        BY <4>1 DEF Since
      <4> QED BY <4>1, <4>2 DEF SentInv
    <3> QED BY <3>2, <3>3
  <2> QED BY <2>2, <2>3, <2>4
<1>5. ASSUME NEW d \in net, Push(d) PROVE ReassemblyInv'
  BY <1>5, PushStep
<1>6. CASE TimePasses
  <2>1. /\ now' = now + 1 /\ UNCHANGED <<sender, table>>
        /\ net' = {d \in net : d.msg.at + Lifetime >= now'}
        /\ received' \subseteq received /\ delivered' \subseteq delivered
    BY <1>6 DEF TimePasses, Fresh
  <2>2. Live' \subseteq Live
    BY <2>1 DEF Live
  <2>3. NetInv'
    BY <2>1 DEF NetInv
  <2>4. TableInv'
    <3>1. \A k \in Keys : table[k].createdAt \in Nat
      BY DEF TypeOK, Assembly
    <3> QED BY <1>0, <2>1, <3>1 DEF TableInv
  <2>5. Whole'
    BY <2>1 DEF Whole
  <2> QED BY <1>0, <2>1, <2>2, <2>3, <2>4, <2>5, FewerLive
<1>7. CASE UNCHANGED vars
  BY <1>7 DEF vars, sender, SentInv, RoundInv, NetInv, TableInv, Whole, Live,
              Since
<1> QED BY <1>1, <1>2, <1>3, <1>4, <1>5, <1>6, <1>7 DEF Next

(* At first nothing is about.                                              *)
LEMMA InitInv == Init => TypeOK /\ ReassemblyInv
<1> SUFFICES ASSUME Init PROVE TypeOK /\ ReassemblyInv
  OBVIOUS
<1>1. \A k \in Keys : table[k] = NoAssembly
  BY DEF Init
<1>2. Live = {}
  BY <1>1 DEF Init, Live, NoAssembly
<1>3. TypeOK
  BY DEF Init, TypeOK, NoAssembly, Assembly
<1>4. SentInv /\ RoundInv /\ NetInv /\ Whole
  BY <1>2 DEF Init, SentInv, RoundInv, NetInv, Whole
<1>5. TableInv
  BY <1>1 DEF Init, TableInv, NoAssembly, Unmixed
<1> QED BY <1>3, <1>4, <1>5 DEF ReassemblyInv

-----------------------------------------------------------------------------
(* The invariant holds throughout.                                         *)
LEMMA ReassemblyInvariant == Spec => [](TypeOK /\ ReassemblyInv)
<1>1. TypeOK /\ ReassemblyInv /\ [Next]_vars => (TypeOK /\ ReassemblyInv)'
  BY TypeStep, InvStep
<1> QED BY InitInv, <1>1, PTL DEF Spec

(* The variables of Push and SendPacket stay in their types; fragments     *)
(* never carry the message ID 0 that the counter skips when it wraps.      *)
THEOREM ReassemblerTypeCorrect == Spec => []TypeOK
BY ReassemblyInvariant, PTL

(* Whatever Push returns is complete, and of one message of one start of   *)
(* its sender.                                                             *)
THEOREM WholeCorrect == Spec => []Whole
<1>1. ReassemblyInv => Whole
  BY DEF ReassemblyInv
<1> QED BY <1>1, ReassemblyInvariant, PTL
=============================================================================
