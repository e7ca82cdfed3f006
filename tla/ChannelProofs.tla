--------------------------- MODULE ChannelProofs ---------------------------
(***************************************************************************)
(* Proofs of what SendPacket and Reassembler promise together: that a      *)
(* message whose fragments arrive in time is returned, and that to their   *)
(* users they are a channel of whole messages (Channel).                   *)
(***************************************************************************)
EXTENDS ReassemblerProofs, FiniteSetTheorems

USE TimesAssumption, BoundsAssumption

(* A set of points of time has a first one. *)
LEMMA FirstExists ==
  ASSUME NEW T \in SUBSET Nat, T # {}
  PROVE  First(T) \in T /\ \A t \in T : First(T) <= t
<1> DEFINE Less == {ss \in Nat \X Nat : ss[1] < ss[2]}
<1>1. IsWellFoundedOn(Less, Nat)
  BY NatLessThanWellFounded DEF OpToRel
<1>2. \E x \in T : \A y \in T : <<y, x>> \notin Less
  <2> HIDE DEF Less
  <2> QED BY <1>1, WFMin
<1>3. PICK x \in T : \A y \in T : <<y, x>> \notin Less
  BY <1>2
<1>4. \A y \in T : ~(y < x)
  BY <1>3
<1>5. \A y \in T : x <= y
  BY <1>4
<1> QED BY <1>5 DEF First

-----------------------------------------------------------------------------
(* What has arrived has not expired, and what an assembly holds arrived.   *)
ArrivedInv ==
  /\ \A r \in received :
       /\ r.time <= now
       /\ r.datagram.msg.at + Lifetime >= now
       /\ r.datagram.index \in 0..r.datagram.msg.count - 1
       /\ r.datagram.msg.id = 0 <=> r.datagram.msg.count = 1
  /\ \A k \in Keys :
       /\ table[k] = NoAssembly \/ table[k].fragments # {}
       /\ \A f \in table[k].fragments :
            /\ f.index \in 0..f.msg.count - 1
            /\ f.msg.at + Lifetime >= now
                 => \E r \in received : r.datagram.msg = f.msg

Returned(m) == \E d \in delivered : d.by.msg = m
Earliest(r) ==
  \A x \in received : x.datagram.msg = r.datagram.msg => r.time <= x.time

(* Nothing with the index i arrived within the timeout. *)
Late(r, i) ==
  \A x \in received :
    x.datagram.msg = r.datagram.msg /\ x.datagram.index = i
      => x.time > r.time + Timeout

(* The assembly is the one that r began, with all that arrived since.      *)
Collects(a, r) ==
  /\ a.createdAt = r.time /\ a.count = r.datagram.msg.count
  /\ \A x \in received :
       x.datagram.msg = r.datagram.msg
         => \E f \in a.fragments : f.index = x.datagram.index

AssemblyOf(m) == table[<<m.from, m.id>>]

(* Until the timeout after its first arrival all that arrived of a message *)
(* which is not returned yet is in one assembly; later, some fragment came *)
(* too late.                                                               *)
Timely(r) ==
  LET m == r.datagram.msg
  IN /\ m.id = 0 => Returned(m)
     /\ m.id # 0 /\ inc[m.from] = 0 /\ ~Returned(m) /\ Earliest(r) =>
          /\ \E i \in 0..m.count - 1 : Late(r, i)
          /\ now <= r.time + Timeout => Collects(AssemblyOf(m), r)

TimelyInv == \A r \in received : Timely(r)

(* The fields of a datagram that has arrived ...                           *)
LEMMA ReceivedType ==
  ASSUME TypeOK, NEW r \in received
  PROVE  /\ r.time \in Nat /\ r.datagram \in Datagram
         /\ r.datagram.msg \in Message /\ r.datagram.msg \in Live
         /\ r.datagram.msg.from \in Senders /\ r.datagram.msg.at \in Nat
         /\ r.datagram.msg.inc \in Nat /\ r.datagram.msg.count \in Nat \ {0}
         /\ r.datagram.msg.id \in 0..MaxMessageID
         /\ r.datagram.index \in Nat
BY DEF TypeOK, Datagram, Message, Live

(* ... and of one under way.                                               *)
LEMMA DatagramType ==
  ASSUME TypeOK, NEW d \in net
  PROVE  /\ d \in Datagram /\ d.msg \in Message /\ d.msg \in Live
         /\ d.msg.from \in Senders /\ d.msg.at \in Nat
         /\ d.msg.inc \in Nat /\ d.msg.count \in Nat \ {0}
         /\ d.msg.id \in 0..MaxMessageID
         /\ d.index \in Nat
BY DEF TypeOK, Datagram, Message, Live

(* Two messages of the sender's first start that can still arrive have     *)
(* different IDs.                                                          *)
LEMMA FreshDiffer ==
  ASSUME TypeOK, SentInv, RoundInv, NEW m \in Live, NEW n \in Live,
         m.from = n.from, m.id = n.id, m.id # 0, m.inc = n.inc,
         m.at + Lifetime >= now, n.at + Lifetime >= now
  PROVE  m = n
<1>1. /\ m.from \in Senders /\ m.at \in Nat /\ n.at \in Nat /\ now \in Nat
  BY LiveType DEF TypeOK, Message
<1>2. lastSent[m.from] \in Int /\ lastSent[m.from] <= now
  BY <1>1 DEF TypeOK, SentInv
<1>3. m.at <= lastSent[m.from] /\ n.at <= lastSent[m.from]
  BY DEF SentInv
<1>4. m.at - n.at < MaxMessageID /\ n.at - m.at < MaxMessageID
  BY <1>1, <1>2, <1>3
<1> QED BY <1>1, <1>4 DEF RoundInv

(* Until a sender restarts all its messages are of its first start.        *)
LEMMA FirstStart ==
  ASSUME TypeOK, SentInv, NEW m \in Live, inc[m.from] = 0
  PROVE  m.inc = 0
<1>1. m.from \in Senders /\ m.inc \in Nat
  BY LiveType DEF Message
<1> QED BY <1>1 DEF SentInv

-----------------------------------------------------------------------------
(* The assembly that a fragment joins: the one of the table unless that    *)
(* has expired or is of another count.                                     *)
LEMMA JoinedAssembly ==
  ASSUME TypeOK, NEW d \in net, d.msg.id # 0,
         NEW k, k = <<d.msg.from, d.msg.id>>,
         NEW b, b = AssemblyFor(k, d.msg.count)
  PROVE  /\ table[k].count = d.msg.count /\ ~Expired(table[k]) => b = table[k]
         /\ \/ b = table[k] /\ ~Expired(table[k]) /\ table[k] # NoAssembly
            \/ b = [createdAt |-> now, count |-> d.msg.count, fragments |-> {}]
<1>1. d.msg.count # 0 /\ k \in Keys
  BY PushType, DatagramType
<1>2. Cleanup[k] = IF Expired(table[k]) THEN NoAssembly ELSE table[k]
  BY <1>1 DEF Cleanup
<1>3. NoAssembly.count = 0
  BY DEF NoAssembly
<1> QED BY <1>1, <1>2, <1>3 DEF AssemblyFor

(* Storing a fragment keeps the others and what the assembly is.           *)
LEMMA Stored ==
  ASSUME NEW b \in Assembly, NEW d \in Datagram
  PROVE  /\ Store(b, d) \in Assembly
         /\ Store(b, d).createdAt = b.createdAt /\ Store(b, d).count = b.count
         /\ b.fragments \subseteq Store(b, d).fragments
         /\ Store(b, d).fragments \subseteq
              b.fragments \cup {[msg |-> d.msg, index |-> d.index]}
         /\ \E f \in Store(b, d).fragments : f.index = d.index
<1>1. [msg |-> d.msg, index |-> d.index] \in Fragment
  BY DEF Datagram, Fragment
<1> QED BY <1>1 DEF Store, Assembly

(* What a fragment leaves of the other assemblies, and of its own. *)
LEMMA PushedTable ==
  ASSUME TypeOK, NEW d \in net, d.msg.id # 0, Push(d),
         NEW k, k = <<d.msg.from, d.msg.id>>,
         NEW a, a = Store(AssemblyFor(k, d.msg.count), d)
  PROVE  /\ k \in Keys
         /\ table'[k] = IF Complete(a) THEN NoAssembly ELSE a
         /\ \A j \in Keys \ {k} :
              table'[j] = IF Expired(table[j]) THEN NoAssembly ELSE table[j]
         /\ delivered' = IF Complete(a)
                         THEN delivered \cup
                                {[by |-> d, fragments |-> a.fragments]}
                         ELSE delivered
<1>1. k \in Keys /\ Cleanup \in [Keys -> Assembly]
  BY PushType
<1>2. /\ table' = Filed(k, a)
      /\ delivered' = IF Complete(a)
                      THEN delivered \cup {[by |-> d, fragments |-> a.fragments]}
                      ELSE delivered
  BY DEF Push, PushFragment
<1> QED BY <1>1, <1>2 DEF Filed, Cleanup
-----------------------------------------------------------------------------
(* Push records what arrived and drops no assembly before its time.        *)
LEMMA ArrivedPush ==
  ASSUME TypeOK, ReassemblyInv, ArrivedInv, NEW d \in net, Push(d)
  PROVE  ArrivedInv'
<1> USE DEF ReassemblyInv
<1> DEFINE new == [datagram |-> d, time |-> now]
<1>1. /\ now \in Nat /\ now' = now /\ received' = received \cup {new}
      /\ d.msg.at + Lifetime >= now /\ d.index \in 0..d.msg.count - 1
      /\ d.msg.id = 0 <=> d.msg.count = 1
  BY DEF Push, TypeOK, NetInv
<1>2. \A r \in received' :
        /\ r.time <= now' /\ r.datagram.msg.at + Lifetime >= now'
        /\ r.datagram.index \in 0..r.datagram.msg.count - 1
        /\ r.datagram.msg.id = 0 <=> r.datagram.msg.count = 1
  BY <1>1 DEF ArrivedInv
<1>3. ASSUME NEW j \in Keys
      PROVE  /\ table'[j] = NoAssembly \/ table'[j].fragments # {}
             /\ \A f \in table'[j].fragments :
                  /\ f.index \in 0..f.msg.count - 1
                  /\ f.msg.at + Lifetime >= now'
                       => \E r \in received' : r.datagram.msg = f.msg
  <2>1. CASE table'[j] = table[j]
    BY <1>1, <2>1 DEF ArrivedInv
  <2>2. CASE table'[j] = NoAssembly
    BY <2>2 DEF NoAssembly
  <2>3. CASE d.msg.id # 0 /\ table'[j] # table[j] /\ table'[j] # NoAssembly
    <3> DEFINE k == <<d.msg.from, d.msg.id>>
               b == AssemblyFor(k, d.msg.count)
               a == Store(b, d)
    <3>1. j = k /\ table'[j] = a
      <4> HIDE DEF k, a
      <4>1. /\ table'[k] = IF Complete(a) THEN NoAssembly ELSE a
            /\ \A i \in Keys \ {k} :
                 table'[i] = IF Expired(table[i]) THEN NoAssembly ELSE table[i]
        BY <2>3, PushedTable DEF k, a
      <4> QED BY <2>3, <4>1
    <3>2. b \in Assembly /\ d \in Datagram
      BY <2>3, PushType DEF TypeOK
    <3>3. b = table[j] \/ b.fragments = {}
      BY <2>3, <3>1, JoinedAssembly
    <3>4. /\ a.fragments \subseteq
               b.fragments \cup {[msg |-> d.msg, index |-> d.index]}
          /\ a.fragments # {}
      BY <3>2, Stored
    <3>5. \A f \in b.fragments :
            /\ f.index \in 0..f.msg.count - 1
            /\ f.msg.at + Lifetime >= now'
                 => \E r \in received' : r.datagram.msg = f.msg
      BY <1>1, <3>3 DEF ArrivedInv
    <3>6. new \in received' /\ new.datagram.msg = d.msg
      BY <1>1
    <3>7. ASSUME NEW f \in a.fragments
          PROVE  /\ f.index \in 0..f.msg.count - 1
                 /\ f.msg.at + Lifetime >= now'
                      => \E r \in received' : r.datagram.msg = f.msg
      <4>1. CASE f \in b.fragments
        BY <3>5, <4>1
      <4>2. CASE f = [msg |-> d.msg, index |-> d.index]
        <5>1. f.msg = d.msg /\ f.index = d.index
          BY <4>2
        <5> HIDE DEF new
        <5> QED BY <1>1, <3>6, <5>1
      <4> QED BY <3>4, <4>1, <4>2
    <3> HIDE DEF b, a, k
    <3> QED BY <3>1, <3>4, <3>7
  <2>4. d.msg.id = 0 => table' = table
    BY DEF Push, PushWhole
  <2> QED BY <2>1, <2>2, <2>3, <2>4
<1> QED BY <1>2, <1>3 DEF ArrivedInv

(* A step that brings nothing of a message, and takes nothing back, leaves *)
(* it timely.                                                              *)
LEMMA TimelyKept ==
  ASSUME TypeOK, NEW r \in received, Timely(r), now' \in Nat, now <= now',
         NEW m, m = r.datagram.msg,
         \A x \in received \cup received' :
           x.datagram.msg = m => (x \in received <=> x \in received'),
         Returned(m) => Returned(m)',
         inc'[m.from] = 0 => inc[m.from] = 0,
         Collects(AssemblyOf(m), r) /\ now' <= r.time + Timeout
           => AssemblyOf(m)' = AssemblyOf(m)
  PROVE  Timely(r)'
<1>1. m.id = 0 => Returned(m)'
  BY DEF Timely
<1>2. ASSUME m.id # 0, inc'[m.from] = 0, ~Returned(m)', Earliest(r)'
      PROVE  /\ \E i \in 0..m.count - 1 : Late(r, i)'
             /\ now' <= r.time + Timeout => Collects(AssemblyOf(m), r)'
  <2>1. inc[m.from] = 0 /\ ~Returned(m) /\ Earliest(r)
    BY <1>2 DEF Earliest
  <2>2. PICK i \in 0..m.count - 1 : Late(r, i)
    BY <1>2, <2>1 DEF Timely
  <2>3. Late(r, i)'
    BY <2>2 DEF Late
  <2>4. ASSUME now' <= r.time + Timeout PROVE Collects(AssemblyOf(m), r)'
    <3>1. now <= r.time + Timeout
      BY <2>4, ReceivedType DEF TypeOK
    <3>2. Collects(AssemblyOf(m), r)
      BY <1>2, <2>1, <3>1 DEF Timely
    <3>3. AssemblyOf(m)' = AssemblyOf(m)
      BY <2>4, <3>2
    <3> QED BY <3>2, <3>3 DEF Collects
  <2> QED BY <2>3, <2>4
<1> QED BY <1>1, <1>2 DEF Timely

(* After Push a message is returned, whole in one assembly, or late.       *)
LEMMA TimelyPush ==
  ASSUME TypeOK, ReassemblyInv, ArrivedInv, TimelyInv, NEW d \in net, Push(d)
  PROVE  TimelyInv'
<1> USE DEF ReassemblyInv
<1> DEFINE new == [datagram |-> d, time |-> now]
<1>0. /\ now \in Nat /\ now' = now /\ received' = received \cup {new}
      /\ inc' = inc /\ d.msg.at + Lifetime >= now
      /\ d \in Datagram /\ d.msg \in Live /\ new.datagram = d /\ new.time = now
  BY DatagramType DEF Push, TypeOK, NetInv, sender
<1>1. \A m : Returned(m) => Returned(m)'
  <2>1. delivered \subseteq delivered'
    BY DEF Push, PushWhole, PushFragment
  <2> QED BY <2>1 DEF Returned
<1> HIDE DEF new
<1>2. ASSUME NEW r \in received, r.datagram.msg # d.msg
      PROVE  Timely(r)'
  <2> DEFINE m == r.datagram.msg
             j == <<m.from, m.id>>
  <2>1. /\ m.from \in Senders /\ m \in Live /\ m.id \in 0..MaxMessageID
        /\ m.at + Lifetime >= now /\ r.time \in Nat
    BY ReceivedType DEF ArrivedInv
  <2>2. ASSUME m.id # 0, inc[m.from] = 0, d.msg.id # 0
        PROVE  <<d.msg.from, d.msg.id>> # j
    <3>1. m.inc = 0
      BY <2>1, <2>2, FirstStart
    <3>2. d.msg.from = m.from => d.msg.inc = 0
      BY <1>0, <2>2, FirstStart
    <3> QED BY <1>0, <1>2, <2>1, <2>2, <3>1, <3>2, FreshDiffer
  <2>3. ASSUME m.id # 0, inc[m.from] = 0, table[j].createdAt = r.time,
               now <= r.time + Timeout
        PROVE  table'[j] = table[j]
    <3>1. CASE d.msg.id = 0
      BY <3>1 DEF Push, PushWhole
    <3>2. CASE d.msg.id # 0
      <4>1. j \in Keys
        BY <2>1, <2>3 DEF Keys
      <4>2. table'[j] = IF Expired(table[j]) THEN NoAssembly ELSE table[j]
        <5> DEFINE k == <<d.msg.from, d.msg.id>>
        <5>1. \A i \in Keys \ {k} :
                table'[i] = IF Expired(table[i]) THEN NoAssembly ELSE table[i]
          BY <3>2, PushedTable
        <5>2. k # j
          BY <2>2, <2>3, <3>2
        <5> QED BY <4>1, <5>1, <5>2
      <4>3. ~Expired(table[j])
        BY <1>0, <2>1, <2>3 DEF Expired
      <4> QED BY <4>2, <4>3
    <3> QED BY <3>1, <3>2
  <2>4. CASE m.id # 0 /\ inc[m.from] = 0
    <3>1. Collects(AssemblyOf(m), r) /\ now <= r.time + Timeout
            => AssemblyOf(m)' = AssemblyOf(m)
      BY <2>3, <2>4 DEF Collects, AssemblyOf
    <3> QED BY <1>0, <1>1, <1>2, <3>1, TimelyKept DEF TimelyInv
  <2>5. CASE m.id = 0 \/ inc[m.from] # 0
    BY <1>0, <1>1, <2>5 DEF Timely, TimelyInv
  <2> QED BY <2>4, <2>5
<1>3. ASSUME NEW r \in received', r.datagram.msg = d.msg
      PROVE  Timely(r)'
  <2> DEFINE m == d.msg
             k == <<m.from, m.id>>
             b == AssemblyFor(k, m.count)
             a == Store(b, d)
  <2>1. CASE m.id = 0
    <3>1. Returned(m)'
      <4>1. [by |-> d, fragments |-> {[msg |-> d.msg, index |-> 0]}]
              \in delivered'
        BY <2>1 DEF Push, PushWhole
      <4> QED BY <4>1 DEF Returned
    <3> QED BY <1>3, <2>1, <3>1 DEF Timely
  <2>2. CASE m.id # 0
    <3> SUFFICES ASSUME inc'[m.from] = 0, ~Returned(m)', Earliest(r)'
                 PROVE  /\ \E i \in 0..m.count - 1 : Late(r, i)'
                        /\ now' <= r.time + Timeout
                             => Collects(AssemblyOf(m), r)'
      BY <1>3, <2>2 DEF Timely
    <3>1. inc[m.from] = 0 /\ ~Returned(m)
      BY <1>0, <1>1
    <3>2. /\ ~Complete(a) /\ k \in Keys /\ AssemblyOf(m)' = a
      <4>1. /\ k \in Keys
            /\ table'[k] = IF Complete(a) THEN NoAssembly ELSE a
            /\ delivered' = IF Complete(a)
                            THEN delivered \cup
                                   {[by |-> d, fragments |-> a.fragments]}
                            ELSE delivered
        BY <2>2, PushedTable
      <4>2. ~Complete(a)
        <5> SUFFICES ASSUME Complete(a) PROVE FALSE
          OBVIOUS
        <5>1. [by |-> d, fragments |-> a.fragments] \in delivered'
          BY <4>1
        <5> QED BY <5>1 DEF Returned
      <4> QED BY <4>1, <4>2 DEF AssemblyOf
    <3>3. /\ b \in Assembly /\ a \in Assembly
          /\ a.createdAt = b.createdAt /\ a.count = b.count /\ b.count = m.count
          /\ b.fragments \subseteq a.fragments
          /\ \E f \in a.fragments : f.index = d.index
      BY <1>0, <2>2, Stored, PushType
    <3>4. \A f \in a.fragments : f.index \in 0..m.count - 1
      <4>1. \A f \in a.fragments : f.msg.count = m.count
        BY <2>2, <3>3, StoreUnmixed
      <4>2. ArrivedInv' /\ table'[k] = a
        BY <3>2, ArrivedPush DEF AssemblyOf
      <4> QED BY <3>2, <4>1, <4>2 DEF ArrivedInv
    <3>5. PICK i \in 0..m.count - 1 : \A f \in a.fragments : f.index # i
      BY <3>2, <3>3, <3>4 DEF Complete
    <3>6. \/ b = table[k] /\ table[k] # NoAssembly
          \/ b = [createdAt |-> now, count |-> m.count, fragments |-> {}]
      <4>1. k = <<d.msg.from, d.msg.id>> /\ b = AssemblyFor(k, d.msg.count)
        OBVIOUS
      <4> HIDE DEF k, b
      <4>2. \/ b = table[k] /\ ~Expired(table[k]) /\ table[k] # NoAssembly
            \/ b = [createdAt |-> now, count |-> d.msg.count, fragments |-> {}]
        BY <2>2, <4>1, JoinedAssembly
      <4> QED BY <4>2
    <3> HIDE DEF a, b
    <3>7. Collects(AssemblyOf(m), r)' => Late(r, i)'
      BY <1>3, <3>2, <3>5 DEF Collects, Late
    <3>8. CASE \E x \in received : x.datagram.msg = m /\ x.time <= r.time
      <4>1. PICK x \in received : x.datagram.msg = m /\ x.time <= r.time
        BY <3>8
      <4>2. x.time = r.time /\ x.time \in Nat
        <5>1. x.time \in Nat /\ r.time \in Nat
          BY <1>0, <1>3, ReceivedType
        <5>2. r.time <= x.time
          BY <1>0, <1>3, <4>1 DEF Earliest
        <5> QED BY <4>1, <5>1, <5>2
      <4>3. Earliest(x)
        BY <1>0, <1>3, <4>1, <4>2 DEF Earliest
      <4>4. Timely(x)
        BY DEF TimelyInv
      <4>5. CASE now <= r.time + Timeout
        <5>1. Collects(table[k], x)
          BY <2>2, <3>1, <4>1, <4>2, <4>3, <4>4, <4>5 DEF Timely, AssemblyOf
        <5>2. b = table[k]
          <6>1. table[k].count = m.count /\ ~Expired(table[k])
            BY <1>0, <4>1, <4>2, <4>5, <5>1 DEF Collects, Expired
          <6> QED BY <2>2, <6>1, JoinedAssembly DEF b
        <5>3. Collects(AssemblyOf(m), r)'
          BY <1>0, <1>3, <3>2, <3>3, <4>1, <4>2, <5>1, <5>2
             DEF Collects
        <5> QED BY <3>2, <3>7, <5>3
      <4>6. CASE ~(now <= r.time + Timeout)
        <5>1. PICK l \in 0..m.count - 1 : Late(x, l)
          BY <2>2, <3>1, <4>1, <4>3, <4>4 DEF Timely
        <5>2. now > r.time + Timeout
          BY <1>0, <4>2, <4>6
        <5>3. Late(r, l)'
          BY <1>0, <1>3, <4>1, <4>2, <5>1, <5>2 DEF Late
        <5> QED BY <1>0, <4>6, <5>3
      <4> QED BY <4>5, <4>6
    <3>9. CASE ~\E x \in received : x.datagram.msg = m /\ x.time <= r.time
      <4>1. r = new /\ r.time = now
        <5>1. r \in received => r.time <= r.time
          BY ReceivedType
        <5> QED BY <1>0, <1>3, <3>9, <5>1
      <4>2. \A x \in received : x.datagram.msg # m
        BY <3>9, <4>1 DEF ArrivedInv
      <4>3. b = [createdAt |-> now, count |-> m.count, fragments |-> {}]
        <5> SUFFICES ASSUME b = table[k], table[k] # NoAssembly PROVE FALSE
          BY <3>6
        <5>1. PICK f \in b.fragments : TRUE
          BY <3>2 DEF ArrivedInv
        <5>2. f.msg \in Live /\ f.msg.from = m.from
          BY <3>2, <5>1 DEF Live, TableInv
        <5>3. f.msg.inc = 0 /\ m.inc = 0
          BY <1>0, <3>1, <5>2, FirstStart
        <5>4. f.msg = m
          BY <2>2, <5>3, StoreUnmixed DEF b
        <5>5. \E x \in received : x.datagram.msg = m
          BY <1>0, <3>2, <5>4 DEF ArrivedInv
        <5> QED BY <4>2, <5>5
      <4>4. Collects(AssemblyOf(m), r)'
        BY <1>0, <3>2, <3>3, <4>1, <4>2, <4>3 DEF Collects
      <4> QED BY <3>2, <3>7, <4>4
    <3> QED BY <3>8, <3>9
  <2> QED BY <2>1, <2>2
<1> QED BY <1>0, <1>2, <1>3 DEF TimelyInv, new

(* The other steps: sending and restarting leave the receiver alone, and   *)
(* time takes away whole messages.                                         *)
LEMMA TimelyStep ==
  TypeOK /\ ReassemblyInv /\ ArrivedInv /\ TimelyInv /\ [Next]_vars
    => ArrivedInv' /\ TimelyInv'
<1> SUFFICES ASSUME TypeOK, ReassemblyInv, ArrivedInv, TimelyInv, [Next]_vars
             PROVE  ArrivedInv' /\ TimelyInv'
  OBVIOUS
<1>0. now \in Nat /\ inc \in [Senders -> Nat]
  BY DEF TypeOK
<1>1. ASSUME UNCHANGED <<now, table, received, delivered>>,
             \A s \in Senders : inc'[s] = 0 => inc[s] = 0
      PROVE  ArrivedInv' /\ TimelyInv'
  <2>1. ArrivedInv'
    BY <1>1 DEF ArrivedInv
  <2>2. ASSUME NEW r \in received PROVE Timely(r)'
    <3>1. Timely(r) /\ r.datagram.msg.from \in Senders
      BY ReceivedType DEF TimelyInv
    <3>2. \A m : Returned(m)' = Returned(m) /\ AssemblyOf(m)' = AssemblyOf(m)
      BY <1>1 DEF Returned, AssemblyOf
    <3> QED BY <1>0, <1>1, <3>1, <3>2, TimelyKept
  <2> QED BY <1>1, <2>1, <2>2 DEF TimelyInv
<1>2. ASSUME NEW s \in Senders,
             \/ SendWhole(s) \/ SendElsewhere(s)
             \/ \E count \in Counts : SendFragments(s, count)
      PROVE  ArrivedInv' /\ TimelyInv'
  BY <1>1, <1>2 DEF SendWhole, SendElsewhere, SendFragments
<1>3. ASSUME NEW s \in Senders, SenderRestart(s)
      PROVE  ArrivedInv' /\ TimelyInv'
  <2>1. \A t \in Senders : inc'[t] = 0 => inc[t] = 0
    BY <1>0, <1>3 DEF SenderRestart
  <2> QED BY <1>1, <1>3, <2>1 DEF SenderRestart
<1>4. ASSUME NEW d \in net, Push(d) PROVE ArrivedInv' /\ TimelyInv'
  BY <1>4, ArrivedPush, TimelyPush
<1>5. CASE TimePasses
  <2>1. /\ now' = now + 1 /\ inc' = inc /\ table' = table
        /\ received' = {r \in received : r.datagram.msg.at + Lifetime >= now'}
        /\ delivered' = {d \in delivered : d.by.msg.at + Lifetime >= now'}
    BY <1>5 DEF TimePasses, Fresh, sender
  <2>2. ArrivedInv'
    <3>1. \A r \in received' :
            /\ r.time <= now' /\ r.datagram.msg.at + Lifetime >= now'
            /\ r.datagram.index \in 0..r.datagram.msg.count - 1
            /\ r.datagram.msg.id = 0 <=> r.datagram.msg.count = 1
      BY <1>0, <2>1, ReceivedType DEF ArrivedInv
    <3>2. ASSUME NEW k \in Keys, NEW f \in table[k].fragments,
                 f.msg.at + Lifetime >= now'
          PROVE  \E r \in received' : r.datagram.msg = f.msg
      <4>1. f.msg.at \in Nat
        BY DEF TypeOK, Assembly, Fragment, Message
      <4>2. \E r \in received : r.datagram.msg = f.msg
        BY <1>0, <2>1, <3>2, <4>1 DEF ArrivedInv
      <4> QED BY <2>1, <3>2, <4>2
    <3> QED BY <2>1, <3>1, <3>2 DEF ArrivedInv
  <2>3. ASSUME NEW r \in received' PROVE Timely(r)'
    <3> DEFINE m == r.datagram.msg
    <3>1. r \in received /\ Timely(r) /\ m.at + Lifetime >= now'
      BY <2>1 DEF TimelyInv
    <3>2. Returned(m) => Returned(m)'
      BY <2>1, <3>1 DEF Returned
    <3>3. AssemblyOf(m)' = AssemblyOf(m)
      BY <2>1 DEF AssemblyOf
    <3>4. \A x \in received \cup received' :
            x.datagram.msg = m => (x \in received <=> x \in received')
      BY <2>1, <3>1
    <3> QED BY <1>0, <2>1, <3>1, <3>2, <3>3, <3>4, TimelyKept
  <2> QED BY <2>2, <2>3 DEF TimelyInv
<1>6. CASE UNCHANGED vars
  BY <1>1, <1>6 DEF vars, sender
<1> QED BY <1>2, <1>3, <1>4, <1>5, <1>6 DEF Next

LEMMA TimelyInit == Init => ArrivedInv /\ TimelyInv
BY DEF Init, ArrivedInv, TimelyInv, NoAssembly

(* The message whose fragments came in time was begun by its first arrival *)
(* and missed none, so it is returned.                                     *)
LEMMA TimelyDelivers ==
  TypeOK /\ ArrivedInv /\ TimelyInv => DeliveredInTime
<1> SUFFICES ASSUME TypeOK, ArrivedInv, TimelyInv, NEW r \in received,
                    InTime(r.datagram.msg), inc[r.datagram.msg.from] = 0,
                    ~Returned(r.datagram.msg)
             PROVE  FALSE
  BY DEF DeliveredInTime, Returned
<1> DEFINE m == r.datagram.msg
           Times == {x.time : x \in {y \in received : y.datagram.msg = m}}
<1>1. Times \in SUBSET Nat /\ r.time \in Times
  BY ReceivedType
<1>2. First(Times) \in Times /\ \A t \in Times : First(Times) <= t
  BY <1>1, FirstExists
<1>3. PICK x \in received : x.datagram.msg = m /\ x.time = First(Times)
  BY <1>2
<1>4. Earliest(x)
  BY <1>2, <1>3 DEF Earliest
<1>5. PICK i \in 0..m.count - 1 : Late(x, i)
  BY <1>3, <1>4 DEF TimelyInv, Timely
<1> DEFINE j == x.datagram.index
<1>6. j \in 0..m.count - 1
  BY <1>3 DEF ArrivedInv
<1>7. \A l \in 0..m.count - 1 :
        /\ Arrivals(m, l) \in SUBSET Nat /\ Arrivals(m, l) # {}
        /\ First(Arrivals(m, l)) \in Arrivals(m, l)
        /\ \A t \in Arrivals(m, l) : First(Arrivals(m, l)) <= t
  <2> SUFFICES ASSUME NEW l \in 0..m.count - 1
               PROVE  /\ Arrivals(m, l) \in SUBSET Nat
                      /\ Arrivals(m, l) # {}
                      /\ First(Arrivals(m, l)) \in Arrivals(m, l)
                      /\ \A t \in Arrivals(m, l) : First(Arrivals(m, l)) <= t
    OBVIOUS
  <2>1. Arrivals(m, l) \in SUBSET Nat /\ Arrivals(m, l) # {}
    BY ReceivedType DEF Arrivals, InTime
  <2> QED BY <2>1, FirstExists
<1>8. First(Arrivals(m, i)) > x.time + Timeout
  BY <1>3, <1>5, <1>7 DEF Arrivals, Late
<1>9. First(Arrivals(m, j)) <= x.time
  <2>1. x.time \in Arrivals(m, j)
    BY <1>3 DEF Arrivals
  <2> QED BY <1>6, <1>7, <2>1
<1>10. First(Arrivals(m, i)) - First(Arrivals(m, j)) <= Timeout
  BY <1>6 DEF InTime
<1>11. /\ First(Arrivals(m, i)) \in Nat /\ First(Arrivals(m, j)) \in Nat
       /\ x.time \in Nat
  BY <1>6, <1>7, ReceivedType
<1> QED BY <1>8, <1>9, <1>10, <1>11

(* A message of the sender's first start, all of whose fragments arrive    *)
(* within the timeout, is returned: late and double fragments of others,   *)
(* with the same ID too, take nothing out of its assembly.                 *)
THEOREM DeliveredInTimeCorrect == Spec => []DeliveredInTime
<1> DEFINE Inv == TypeOK /\ ReassemblyInv /\ ArrivedInv /\ TimelyInv
<1>1. Init => Inv
  BY InitInv, TimelyInit
<1>2. Inv /\ [Next]_vars => Inv'
  BY TypeStep, InvStep, TimelyStep
<1>3. Inv => DeliveredInTime
  BY TimelyDelivers
<1> QED BY <1>1, <1>2, <1>3, PTL DEF Spec

-----------------------------------------------------------------------------
(* The implementation of the abstract channel.                             *)

(* Copies of the first fragment of m that arrived, and whether an assembly *)
(* still holds one.  Each delivery of m uses up one of them.               *)
FirstCopies(m) ==
  {c \in 1..Copies : \E r \in received :
                       r.datagram = [msg |-> m, index |-> 0, copy |-> c]}
HoldsFirst(m) ==
  \E k \in Keys : [msg |-> m, index |-> 0] \in table[k].fragments

CopiesInv ==
  /\ \A d \in net : d.copy \in 1..Copies
  /\ \A r \in received : r.datagram \notin net

UnfinishedInv == \A k \in Keys : table[k] = NoAssembly \/ ~Complete(table[k])

ReturnedInv ==
  /\ IsFiniteSet(delivered)
  /\ \A e \in delivered :
       /\ \E f \in e.fragments : f.msg = e.by.msg
       /\ \E r \in received : r.datagram = e.by

UsesUp(m) ==
  Cardinality(Deliveries(m)) + (IF HoldsFirst(m) THEN 1 ELSE 0)
    <= Cardinality(FirstCopies(m))

ChannelInv ==
  /\ CopiesInv /\ UnfinishedInv /\ ReturnedInv
  /\ \A m \in SentMessages : UsesUp(m)

(* What was sent and can still be told is about somewhere.                 *)
LEMMA SentLive == TypeOK => SentMessages \subseteq Live
BY DEF SentMessages, Live

(* Deliveries and arrived copies are finite sets.                          *)
LEMMA Counted ==
  ASSUME ReturnedInv, NEW m
  PROVE  /\ IsFiniteSet(Deliveries(m))
         /\ Cardinality(Deliveries(m)) \in Nat
         /\ IsFiniteSet(FirstCopies(m))
         /\ Cardinality(FirstCopies(m)) \in Nat
         /\ Cardinality(FirstCopies(m)) <= Copies
<1>1. IsFiniteSet(Deliveries(m))
  <2>1. Deliveries(m) \in SUBSET delivered
    BY DEF Deliveries
  <2> QED BY <2>1, FS_Subset DEF ReturnedInv
<1>2. IsFiniteSet(1..Copies) /\ Cardinality(1..Copies) = Copies
  BY FS_Interval
<1>3. FirstCopies(m) \in SUBSET (1..Copies)
  BY DEF FirstCopies
<1>4. /\ IsFiniteSet(FirstCopies(m))
      /\ Cardinality(FirstCopies(m)) <= Copies
  BY <1>2, <1>3, FS_Subset
<1> QED BY <1>1, <1>4, FS_CardinalityType

(* What is returned of a message is told by the datagram that Push got.    *)
LEMMA DeliveredBy ==
  ASSUME ReturnedInv, NEW m, NEW e \in Deliveries(m)
  PROVE  e.by.msg = m /\ \E r \in received : r.datagram.msg = m
BY DEF ReturnedInv, Deliveries

(* No trace of a message before it is sent.                                *)
LEMMA Unsent ==
  ASSUME TypeOK, SentInv, ReturnedInv, NEW m, m.from \in Senders,
         m.at = now, lastSent[m.from] < now
  PROVE  /\ m \notin Live /\ m \notin SentMessages
         /\ Deliveries(m) = {} /\ ~HoldsFirst(m)
         /\ \A r \in received : r.datagram.msg # m
<1>1. m \notin Live
  BY DEF SentInv, TypeOK
<1>2. \A r \in received : r.datagram.msg # m
  BY <1>1 DEF Live
<1>3. Deliveries(m) = {}
  BY <1>2, DeliveredBy
<1>4. ~HoldsFirst(m)
  BY <1>1 DEF Live, HoldsFirst
<1>5. m \notin SentMessages
  BY <1>1, SentLive
<1> QED BY <1>1, <1>2, <1>3, <1>4, <1>5

(* Steps that return nothing and lose nothing of a message. *)
LEMMA UsesUpKept ==
  ASSUME ReturnedInv, NEW m, UsesUp(m), Deliveries(m)' = Deliveries(m),
         FirstCopies(m)' = FirstCopies(m), HoldsFirst(m)' => HoldsFirst(m)
  PROVE  UsesUp(m)'
<1>1. /\ Cardinality(Deliveries(m))' = Cardinality(Deliveries(m))
      /\ Cardinality(FirstCopies(m))' = Cardinality(FirstCopies(m))
  OBVIOUS
<1>2. Cardinality(Deliveries(m)) \in Nat /\ Cardinality(FirstCopies(m)) \in Nat
  BY Counted
<1> QED BY <1>1, <1>2 DEF UsesUp

(* Sending a message adds it to those sent and delivers nothing.           *)
LEMMA ChannelSend ==
  ASSUME TypeOK, SentInv, ChannelInv,
         UNCHANGED <<now, table, received, delivered>>,
         NEW m \in Message, m.at = now, lastSent[m.from] < now,
         net' = net \cup Datagrams(m)
  PROVE  /\ ChannelInv'
         /\ SentMessages' = SentMessages
              \/ SentMessages' = SentMessages \cup {m}
         /\ m \notin SentMessages
         /\ \A n : Deliveries(n)' = Deliveries(n)
         /\ Deliveries(m) = {}
<1> USE DEF ChannelInv
<1>1. m.from \in Senders
  BY DEF Message
<1>2. /\ m \notin Live /\ m \notin SentMessages
      /\ Deliveries(m) = {} /\ ~HoldsFirst(m)
      /\ \A r \in received : r.datagram.msg # m
  BY <1>1, Unsent
<1>3. \A d \in Datagrams(m) : d.msg = m /\ d.copy \in 1..Copies
  BY DEF Datagrams
<1>4. CopiesInv'
  BY <1>2, <1>3 DEF CopiesInv
<1>5. UnfinishedInv' /\ ReturnedInv'
  BY DEF UnfinishedInv, ReturnedInv
<1>6. \A n : /\ Deliveries(n)' = Deliveries(n)
             /\ FirstCopies(n)' = FirstCopies(n)
             /\ HoldsFirst(n)' = HoldsFirst(n)
  BY DEF Deliveries, FirstCopies, HoldsFirst
<1>7. \/ SentMessages' = SentMessages
      \/ SentMessages' = SentMessages \cup {m}
  BY <1>3 DEF SentMessages
<1>8. UsesUp(m)'
  <2>1. Cardinality(Deliveries(m))' = 0 /\ Cardinality(FirstCopies(m))' \in Nat
    <3>1. Cardinality(Deliveries(m)) = 0 /\ Cardinality(FirstCopies(m)) \in Nat
      BY <1>2, Counted, FS_EmptySet
    <3> QED BY <1>6, <3>1
  <2> QED BY <1>2, <1>6, <2>1 DEF UsesUp
<1>9. \A n \in SentMessages' : UsesUp(n)'
  BY <1>6, <1>7, <1>8, UsesUpKept
<1> QED BY <1>2, <1>4, <1>5, <1>6, <1>7, <1>9

-----------------------------------------------------------------------------
(* Push of a fragment that completes an assembly: the datagram is in what  *)
(* it returns, whose first fragment is the datagram or was held, and the   *)
(* assembly is gone.                                                       *)
LEMMA Completed ==
  ASSUME TypeOK, UnfinishedInv, NEW d \in net, d.msg.id # 0, Push(d),
         NEW k, k = <<d.msg.from, d.msg.id>>,
         NEW a, a = Store(AssemblyFor(k, d.msg.count), d), Complete(a)
  PROVE  /\ k \in Keys /\ table'[k] = NoAssembly
         /\ delivered' = delivered \cup {[by |-> d, fragments |-> a.fragments]}
         /\ [msg |-> d.msg, index |-> d.index] \in a.fragments
         /\ \E f \in a.fragments :
              /\ f.index = 0
              /\ \/ f.msg = d.msg /\ d.index = 0
                 \/ f \in table[k].fragments
<1> DEFINE b == AssemblyFor(k, d.msg.count)
           new == [msg |-> d.msg, index |-> d.index]
<1>1. /\ k \in Keys /\ table'[k] = NoAssembly
      /\ delivered' = delivered \cup {[by |-> d, fragments |-> a.fragments]}
  BY PushedTable
<1>2. /\ b \in Assembly /\ b.count = d.msg.count /\ a.count = b.count
      /\ b.count \in Nat \ {0} /\ d \in Datagram
  <2>1. d.msg.count \in Nat \ {0} /\ d \in Datagram
    BY DatagramType
  <2>2. b \in Assembly /\ a.count = d.msg.count
    BY PushType
  <2>3. b.count = d.msg.count
    BY DEF AssemblyFor
  <2> HIDE DEF b
  <2> QED BY <2>1, <2>2, <2>3
<1>3. \/ b = table[k] /\ table[k] # NoAssembly
      \/ b.fragments = {}
  <2>1. b = AssemblyFor(k, d.msg.count)
    OBVIOUS
  <2> HIDE DEF b, new
  <2>2. \/ b = table[k] /\ ~Expired(table[k]) /\ table[k] # NoAssembly
        \/ b = [createdAt |-> now, count |-> d.msg.count, fragments |-> {}]
    BY <2>1, JoinedAssembly, ZenonT(30)
  <2> QED BY <2>2
<1>4. ~Complete(b)
  <2>1. CASE b = table[k] /\ table[k] # NoAssembly
    BY <1>1, <2>1 DEF UnfinishedInv
  <2>2. CASE b.fragments = {}
    <3>1. {f.index : f \in b.fragments} = {} /\ 0 \in 0..b.count - 1
      BY <1>2, <2>2
    <3> QED BY <3>1 DEF Complete
  <2> QED BY <1>3, <2>1, <2>2
<1>5. a # b
  BY <1>4
<1>6. new \in a.fragments
  BY <1>2, <1>5 DEF Store, Assembly
<1>7. a.fragments \subseteq b.fragments \cup {new}
  BY <1>2, Stored
<1>8. b.fragments \subseteq table[k].fragments
  BY <1>3
<1>9. PICK f \in a.fragments : f.index = 0
  BY <1>2 DEF Complete
<1>10. (f.msg = d.msg /\ d.index = 0) \/ f \in table[k].fragments
  BY <1>7, <1>8, <1>9
<1> QED BY <1>1, <1>6, <1>9, <1>10

(* An arriving first fragment is one copy more. *)
LEMMA FirstCopiesPush ==
  ASSUME TypeOK, CopiesInv, NEW d \in net, Push(d), NEW m
  PROVE  /\ m # d.msg \/ d.index # 0 => FirstCopies(m)' = FirstCopies(m)
         /\ m = d.msg /\ d.index = 0 =>
              /\ FirstCopies(m)' = FirstCopies(m) \cup {d.copy}
              /\ d.copy \notin FirstCopies(m)
<1>1. /\ received' = received \cup {[datagram |-> d, time |-> now]}
      /\ d.copy \in 1..Copies
  BY DEF Push, CopiesInv
<1>2. d = [msg |-> d.msg, index |-> d.index, copy |-> d.copy]
  BY DEF TypeOK, Datagram
<1>3. \A c : (\E r \in received' :
                r.datagram = [msg |-> m, index |-> 0, copy |-> c])
             <=> \/ \E r \in received :
                      r.datagram = [msg |-> m, index |-> 0, copy |-> c]
                 \/ d = [msg |-> m, index |-> 0, copy |-> c]
  <2> DEFINE new == [datagram |-> d, time |-> now]
  <2>1. new.datagram = d
    OBVIOUS
  <2> HIDE DEF new
  <2> QED BY <1>1, <2>1 DEF new
<1>4. m # d.msg \/ d.index # 0 => FirstCopies(m)' = FirstCopies(m)
  BY <1>2, <1>3 DEF FirstCopies
<1>5. ASSUME m = d.msg, d.index = 0
      PROVE  /\ FirstCopies(m)' = FirstCopies(m) \cup {d.copy}
             /\ d.copy \notin FirstCopies(m)
  <2>1. \A c : d = [msg |-> m, index |-> 0, copy |-> c] <=> c = d.copy
    BY <1>2, <1>5
  <2>2. FirstCopies(m)' = FirstCopies(m) \cup {d.copy}
    BY <1>1, <1>3, <2>1 DEF FirstCopies
  <2>3. d.copy \notin FirstCopies(m)
    BY <2>1 DEF FirstCopies, CopiesInv
  <2> QED BY <2>2, <2>3
<1> QED BY <1>4, <1>5

(* Push uses up a copy and keeps what is unfinished apart.                 *)
LEMMA PushKeepsChannel ==
  ASSUME TypeOK, ReassemblyInv, ChannelInv, NEW d \in net, Push(d)
  PROVE  CopiesInv' /\ UnfinishedInv' /\ ReturnedInv'
<1> USE DEF ChannelInv, ReassemblyInv
<1> DEFINE new == [datagram |-> d, time |-> now]
<1>0. /\ net' = net \ {d} /\ received' = received \cup {new}
      /\ new.datagram = d
  BY DEF Push
<1> HIDE DEF new
<1>1. CopiesInv'
  BY <1>0 DEF CopiesInv
<1>2. CASE d.msg.id = 0
  <2> DEFINE F == {[msg |-> d.msg, index |-> 0]}
             e == [by |-> d, fragments |-> F]
  <2>1. table' = table /\ delivered' = delivered \cup {e}
    BY <1>2 DEF Push, PushWhole
  <2>2. UnfinishedInv'
    BY <2>1 DEF UnfinishedInv
  <2>3. IsFiniteSet(delivered')
    BY <2>1, FS_AddElement DEF ReturnedInv
  <2>4. e.by = d /\ \E f \in e.fragments : f.msg = d.msg
    OBVIOUS
  <2> HIDE DEF e
  <2>5. ReturnedInv'
    BY <1>0, <2>1, <2>3, <2>4 DEF ReturnedInv
  <2> QED BY <1>1, <2>2, <2>5
<1>3. CASE d.msg.id # 0
  <2> DEFINE k == <<d.msg.from, d.msg.id>>
             a == Store(AssemblyFor(k, d.msg.count), d)
             e == [by |-> d, fragments |-> a.fragments]
  <2>1. /\ k \in Keys
        /\ table'[k] = IF Complete(a) THEN NoAssembly ELSE a
        /\ \A j \in Keys \ {k} :
             table'[j] = IF Expired(table[j]) THEN NoAssembly ELSE table[j]
        /\ delivered' = IF Complete(a) THEN delivered \cup {e} ELSE delivered
    BY <1>3, PushedTable
  <2>2. UnfinishedInv'
    <3> SUFFICES ASSUME NEW j \in Keys, table'[j] # NoAssembly
                 PROVE  ~Complete(table'[j])
      BY DEF UnfinishedInv, Complete
    <3> HIDE DEF a
    <3> QED BY <2>1 DEF UnfinishedInv
  <2>3. IsFiniteSet(delivered')
    BY <2>1, FS_AddElement DEF ReturnedInv
  <2>4. Complete(a) => [msg |-> d.msg, index |-> d.index] \in a.fragments
    BY <1>3, Completed
  <2>5. e.by = d /\ (Complete(a) => \E f \in e.fragments : f.msg = d.msg)
    BY <2>4
  <2> HIDE DEF e, a
  <2>6. ReturnedInv'
    BY <1>0, <2>1, <2>3, <2>5 DEF ReturnedInv
  <2> QED BY <1>1, <2>2, <2>6
<1> QED BY <1>2, <1>3

(* A fragment leaves the first fragments of other messages where they are, *)
(* and holds one more of its own if it is one.                             *)
LEMMA HoldsPush ==
  ASSUME TypeOK, NEW d \in net, Push(d), NEW m, HoldsFirst(m)'
  PROVE  HoldsFirst(m) \/ (m = d.msg /\ d.index = 0)
<1>1. CASE d.msg.id = 0
  BY <1>1 DEF Push, PushWhole, HoldsFirst
<1>2. CASE d.msg.id # 0
  <2> DEFINE k == <<d.msg.from, d.msg.id>>
             b == AssemblyFor(k, d.msg.count)
             a == Store(b, d)
  <2>1. /\ k \in Keys
        /\ table'[k] = IF Complete(a) THEN NoAssembly ELSE a
        /\ \A j \in Keys \ {k} :
             table'[j] = IF Expired(table[j]) THEN NoAssembly ELSE table[j]
    BY <1>2, PushedTable
  <2>2. b \in Assembly /\ d \in Datagram
    BY <1>2, PushType, DatagramType
  <2>3. a.fragments \subseteq
          b.fragments \cup {[msg |-> d.msg, index |-> d.index]}
    BY <2>2, Stored
  <2>4. b.fragments \subseteq table[k].fragments
    <3>1. k = <<d.msg.from, d.msg.id>> /\ b = AssemblyFor(k, d.msg.count)
      OBVIOUS
    <3> HIDE DEF k, b
    <3>2. \/ b = table[k] /\ ~Expired(table[k]) /\ table[k] # NoAssembly
          \/ b = [createdAt |-> now, count |-> d.msg.count, fragments |-> {}]
      BY <1>2, <3>1, JoinedAssembly, ZenonT(30)
    <3> QED BY <3>2
  <2>5. PICK j \in Keys : [msg |-> m, index |-> 0] \in table'[j].fragments
    BY DEF HoldsFirst
  <2>6. NoAssembly.fragments = {}
    BY DEF NoAssembly
  <2> HIDE DEF k, a, b
  <2>7. CASE j # k
    BY <2>1, <2>5, <2>6, <2>7 DEF HoldsFirst
  <2>8. CASE j = k
    <3>1. [msg |-> m, index |-> 0] \in a.fragments
      BY <2>1, <2>5, <2>6, <2>8
    <3>2. \/ [msg |-> m, index |-> 0] \in table[k].fragments
          \/ [msg |-> m, index |-> 0] = [msg |-> d.msg, index |-> d.index]
      BY <2>3, <2>4, <3>1
    <3> QED BY <2>1, <3>2 DEF HoldsFirst
  <2> QED BY <2>7, <2>8
<1> QED BY <1>1, <1>2

(* What Push adds to the deliveries. *)
LEMMA DeliveriesPush ==
  ASSUME TypeOK, ReassemblyInv, ChannelInv, NEW d \in net, Push(d)
  PROVE  /\ \A m : m # d.msg => Deliveries(m)' = Deliveries(m)
         /\ \/ Deliveries(d.msg)' = Deliveries(d.msg)
            \/ /\ \E e : /\ e \notin Deliveries(d.msg)
                         /\ Deliveries(d.msg)' = Deliveries(d.msg) \cup {e}
               /\ ~HoldsFirst(d.msg)'
               /\ HoldsFirst(d.msg) \/ d.index = 0
<1> USE DEF ChannelInv, ReassemblyInv
<1>1. CASE delivered' = delivered
  BY <1>1 DEF Deliveries
<1>2. ASSUME NEW F, delivered' = delivered \cup {[by |-> d, fragments |-> F]},
             \E f \in F : f.msg = d.msg,
             (\A f \in F : f.msg = d.msg) =>
                ~HoldsFirst(d.msg)' /\ (HoldsFirst(d.msg) \/ d.index = 0)
      PROVE  /\ \A m : m # d.msg => Deliveries(m)' = Deliveries(m)
             /\ \/ Deliveries(d.msg)' = Deliveries(d.msg)
                \/ /\ \E e : /\ e \notin Deliveries(d.msg)
                             /\ Deliveries(d.msg)' = Deliveries(d.msg) \cup {e}
                   /\ ~HoldsFirst(d.msg)'
                   /\ HoldsFirst(d.msg) \/ d.index = 0
  <2> DEFINE e == [by |-> d, fragments |-> F]
  <2>1. e.by = d /\ e.fragments = F
    OBVIOUS
  <2>2. e \notin delivered
    <3>1. \A x \in delivered : \E r \in received : r.datagram = x.by
      BY DEF ReturnedInv
    <3>2. \A r \in received : r.datagram # d
      BY DEF CopiesInv
    <3> QED BY <2>1, <3>1, <3>2
  <2> HIDE DEF e
  <2>3. \A m : Deliveries(m)' = IF \A f \in F : f.msg = m
                                THEN Deliveries(m) \cup {e}
                                ELSE Deliveries(m)
    BY <1>2, <2>1 DEF Deliveries, e
  <2>4. \A m : e \notin Deliveries(m)
    BY <2>2 DEF Deliveries
  <2>5. \A m : m # d.msg => Deliveries(m)' = Deliveries(m)
    BY <1>2, <2>3
  <2>6. CASE \A f \in F : f.msg = d.msg
    BY <1>2, <2>3, <2>4, <2>5, <2>6
  <2>7. CASE ~\A f \in F : f.msg = d.msg
    BY <2>3, <2>5, <2>7
  <2> QED BY <2>6, <2>7
<1>3. TableInv'
  BY PushStep
<1>4. ASSUME NEW j \in Keys, [msg |-> d.msg, index |-> 0] \in table'[j].fragments
      PROVE  d.msg.id # 0 /\ j = <<d.msg.from, d.msg.id>>
  <2>1. d.msg.from = j[1] /\ d.msg.id = j[2]
    BY <1>3, <1>4 DEF TableInv
  <2>2. j = <<j[1], j[2]>> /\ j[2] \in 1..MaxMessageID
    BY DEF Keys
  <2> QED BY <2>1, <2>2
<1>5. CASE d.msg.id = 0
  <2> DEFINE F == {[msg |-> d.msg, index |-> 0]}
  <2>1. delivered' = delivered \cup {[by |-> d, fragments |-> F]}
    BY <1>5 DEF Push, PushWhole
  <2>2. \E f \in F : f.msg = d.msg
    OBVIOUS
  <2>3. ~HoldsFirst(d.msg)'
    BY <1>4, <1>5 DEF HoldsFirst
  <2>4. d.index = 0
    BY <1>5 DEF TypeOK, NetInv
  <2> HIDE DEF F
  <2> QED BY <1>2, <2>1, <2>2, <2>3, <2>4
<1>6. CASE d.msg.id # 0
  <2> DEFINE k == <<d.msg.from, d.msg.id>>
             a == Store(AssemblyFor(k, d.msg.count), d)
             F == a.fragments
  <2>1. CASE ~Complete(a)
    <3>1. delivered' = delivered
      BY <1>6, <2>1, PushedTable
    <3> QED BY <1>1, <3>1
  <2>2. CASE Complete(a)
    <3>1. /\ k \in Keys /\ table'[k] = NoAssembly
          /\ delivered' = delivered \cup {[by |-> d, fragments |-> F]}
          /\ [msg |-> d.msg, index |-> d.index] \in F
          /\ \E f \in F : /\ f.index = 0
                          /\ \/ f.msg = d.msg /\ d.index = 0
                             \/ f \in table[k].fragments
      BY <1>6, <2>2, Completed
    <3>2. \E f \in F : f.msg = d.msg
      BY <3>1
    <3>3. ~HoldsFirst(d.msg)'
      <4>1. NoAssembly.fragments = {}
        BY DEF NoAssembly
      <4> HIDE DEF F, a
      <4> QED BY <1>4, <3>1, <4>1 DEF HoldsFirst
    <3>4. (\A f \in F : f.msg = d.msg) => HoldsFirst(d.msg) \/ d.index = 0
      <4> HIDE DEF F, a
      <4> SUFFICES ASSUME \A f \in F : f.msg = d.msg, d.index # 0
                   PROVE  HoldsFirst(d.msg)
        OBVIOUS
      <4>1. PICK f \in F : f.index = 0 /\ f \in table[k].fragments
        BY <3>1
      <4>2. f = [msg |-> d.msg, index |-> 0]
        <5>1. f \in Fragment
          BY <3>1, <4>1 DEF TypeOK, Assembly
        <5> QED BY <4>1, <5>1 DEF Fragment
      <4> QED BY <3>1, <4>1, <4>2 DEF HoldsFirst
    <3> HIDE DEF F, a
    <3> QED BY <1>2, <3>1, <3>2, <3>3, <3>4
  <2> QED BY <2>1, <2>2
<1> QED BY <1>5, <1>6

(* Push delivers its message once or not at all, and no other.             *)
LEMMA ChannelPush ==
  ASSUME TypeOK, ReassemblyInv, ChannelInv, NEW d \in net, Push(d)
  PROVE  /\ ChannelInv' /\ SentMessages' = SentMessages
         /\ d.msg \in SentMessages
         /\ \A m : m # d.msg => Deliveries(m)' = Deliveries(m)
         /\ \/ Deliveries(d.msg)' = Deliveries(d.msg)
            \/ Cardinality(Deliveries(d.msg))'
                 = Cardinality(Deliveries(d.msg)) + 1
<1> USE DEF ChannelInv
<1> DEFINE m == d.msg
           N == Cardinality(Deliveries(m))
           C == Cardinality(FirstCopies(m))
<1>1. CopiesInv' /\ UnfinishedInv' /\ ReturnedInv'
  BY PushKeepsChannel
<1>2. SentMessages' = SentMessages /\ m \in SentMessages
  <2> DEFINE new == [datagram |-> d, time |-> now]
  <2>1. /\ net' = net \ {d} /\ received' = received \cup {new}
        /\ new.datagram = d
    BY DEF Push
  <2> HIDE DEF new
  <2> QED BY <2>1 DEF SentMessages
<1>3. /\ \A n : n # m => Deliveries(n)' = Deliveries(n)
      /\ \/ Deliveries(m)' = Deliveries(m)
         \/ /\ \E e : /\ e \notin Deliveries(m)
                      /\ Deliveries(m)' = Deliveries(m) \cup {e}
            /\ ~HoldsFirst(m)'
            /\ HoldsFirst(m) \/ d.index = 0
  BY DeliveriesPush
<1>4. /\ N \in Nat /\ C \in Nat /\ IsFiniteSet(Deliveries(m))
      /\ IsFiniteSet(FirstCopies(m))
  BY Counted
<1>5. N + (IF HoldsFirst(m) THEN 1 ELSE 0) <= C
  BY <1>2 DEF UsesUp
<1>6. C' = IF d.index = 0 THEN C + 1 ELSE C
  <2>1. /\ d.index # 0 => FirstCopies(m)' = FirstCopies(m)
        /\ d.index = 0 => /\ FirstCopies(m)' = FirstCopies(m) \cup {d.copy}
                          /\ d.copy \notin FirstCopies(m)
    BY FirstCopiesPush
  <2>2. CASE d.index # 0
    BY <2>1, <2>2
  <2>3. CASE d.index = 0
    BY <1>4, <2>1, <2>3, FS_AddElement
  <2> QED BY <2>2, <2>3
<1>7. HoldsFirst(m)' => HoldsFirst(m) \/ d.index = 0
  BY HoldsPush
<1>8. \/ Deliveries(m)' = Deliveries(m) /\ N' = N
      \/ N' = N + 1 /\ ~HoldsFirst(m)' /\ (HoldsFirst(m) \/ d.index = 0)
  <2>1. CASE Deliveries(m)' = Deliveries(m)
    BY <2>1
  <2>2. CASE Deliveries(m)' # Deliveries(m)
    BY <1>3, <1>4, <2>2, FS_AddElement
  <2> QED BY <2>1, <2>2
<1>9. UsesUp(m)'
  <2> DEFINE H == HoldsFirst(m)
             G == HoldsFirst(m)'
             n == N'
             c == C'
  <2> HIDE DEF N, C, H, G, n, c
  <2>1. /\ N \in Nat /\ C \in Nat /\ N + (IF H THEN 1 ELSE 0) <= C
        /\ c = IF d.index = 0 THEN C + 1 ELSE C
        /\ G => H \/ d.index = 0
        /\ n = N \/ (n = N + 1 /\ ~G /\ (H \/ d.index = 0))
    BY <1>4, <1>5, <1>6, <1>7, <1>8 DEF H, G, n, c
  <2>2. n + (IF G THEN 1 ELSE 0) <= c
    BY <2>1
  <2> QED BY <2>2 DEF UsesUp, n, c, G, N, C
<1>10. ASSUME NEW n \in SentMessages, n # m PROVE UsesUp(n)'
  <2>1. UsesUp(n) /\ Deliveries(n)' = Deliveries(n)
    BY <1>3, <1>10
  <2>2. FirstCopies(n)' = FirstCopies(n)
    BY <1>10, FirstCopiesPush
  <2>3. HoldsFirst(n)' => HoldsFirst(n)
    BY <1>10, HoldsPush
  <2> QED BY <2>1, <2>2, <2>3, UsesUpKept
<1> QED BY <1>1, <1>2, <1>3, <1>8, <1>9, <1>10

(* Messages that are too old go with all that was returned of them. *)
LEMMA ChannelTime ==
  ASSUME TypeOK, ChannelInv, TimePasses
  PROVE  /\ ChannelInv' /\ SentMessages' \subseteq SentMessages
         /\ \A m \in SentMessages' : Deliveries(m)' = Deliveries(m)
<1> USE DEF ChannelInv
<1>1. /\ table' = table
      /\ net' = {d \in net : d.msg.at + Lifetime >= now'}
      /\ received' = {r \in received : r.datagram.msg.at + Lifetime >= now'}
      /\ delivered' = {d \in delivered : d.by.msg.at + Lifetime >= now'}
  BY DEF TimePasses, Fresh
<1>2. CopiesInv' /\ UnfinishedInv'
  BY <1>1 DEF CopiesInv, UnfinishedInv
<1>3. ReturnedInv'
  <2>1. IsFiniteSet(delivered')
    <3>1. delivered' \in SUBSET delivered
      BY <1>1
    <3> QED BY <3>1, FS_Subset DEF ReturnedInv
  <2>2. ASSUME NEW e \in delivered'
        PROVE  /\ \E f \in e.fragments : f.msg = e.by.msg
               /\ \E r \in received' : r.datagram = e.by
    BY <1>1 DEF ReturnedInv
  <2> QED BY <2>1, <2>2 DEF ReturnedInv
<1>4. ASSUME NEW m \in SentMessages'
      PROVE  m \in SentMessages /\ m.at + Lifetime >= now'
  BY <1>1 DEF SentMessages
<1>5. ASSUME NEW m \in SentMessages' PROVE Deliveries(m)' = Deliveries(m)
  <2>1. \A e \in Deliveries(m) : e.by.msg = m
    BY DeliveredBy
  <2> QED BY <1>1, <1>4, <2>1 DEF Deliveries
<1>6. ASSUME NEW m \in SentMessages' PROVE UsesUp(m)'
  <2>1. FirstCopies(m)' = FirstCopies(m)
    <3>1. ASSUME NEW c, NEW r \in received,
                 r.datagram = [msg |-> m, index |-> 0, copy |-> c]
          PROVE  r \in received'
      BY <1>1, <1>4, <3>1
    <3> QED BY <1>1, <3>1 DEF FirstCopies
  <2>2. HoldsFirst(m)' = HoldsFirst(m)
    BY <1>1 DEF HoldsFirst
  <2> QED BY <1>4, <1>5, <2>1, <2>2, UsesUpKept
<1> QED BY <1>2, <1>3, <1>4, <1>5, <1>6

LEMMA ChannelInit == Init => ChannelInv
BY FS_EmptySet DEF Init, ChannelInv, CopiesInv, UnfinishedInv, ReturnedInv,
                   SentMessages

-----------------------------------------------------------------------------
(* The refinement mapping. *)
Number(m) == Cardinality(Deliveries(m))

(* The numbered deliveries, before and after a step.                       *)
LEMMA NumberedIs ==
  /\ \A x : x \in Numbered <=>
       \E m \in SentMessages : \E i \in 1..Number(m) : x = <<m, i>>
  /\ \A x : x \in Numbered' <=>
       \E m \in SentMessages' : \E i \in 1..Number(m)' : x = <<m, i>>
BY DEF Numbered, Number

(* They change only with what was sent and how often it was delivered.     *)
LEMMA SameNumbers ==
  ASSUME SentMessages' = SentMessages,
         \A m \in SentMessages : Number(m)' = Number(m)
  PROVE  Numbered' = Numbered
BY NumberedIs

(* Push is a delivery of the channel, or nothing to it.                    *)
LEMMA AbstractPush ==
  ASSUME TypeOK, ReassemblyInv, ChannelInv, NEW d \in net, Push(d)
  PROVE  UNCHANGED <<SentMessages, Numbered>> \/ Abstract!Deliver
<1> DEFINE m == d.msg
<1>1. /\ ChannelInv' /\ SentMessages' = SentMessages /\ m \in SentMessages
      /\ \A n : n # m => Number(n)' = Number(n)
      /\ Number(m)' = Number(m) \/ Number(m)' = Number(m) + 1
  <2>1. /\ ChannelInv' /\ SentMessages' = SentMessages
        /\ m \in SentMessages
        /\ \A n : n # m => Deliveries(n)' = Deliveries(n)
        /\ \/ Deliveries(m)' = Deliveries(m)
           \/ Cardinality(Deliveries(m))' = Cardinality(Deliveries(m)) + 1
    BY ChannelPush
  <2> QED BY <2>1 DEF Number
<1>2. CASE Number(m)' = Number(m)
  BY <1>1, <1>2, SameNumbers
<1>3. CASE Number(m)' = Number(m) + 1
  <2> DEFINE k == Number(m) + 1
  <2>1. Number(m) \in Nat
    BY Counted DEF ChannelInv, Number
  <2>2. k \in 1..Copies
    <3>1. /\ (Cardinality(Deliveries(m)) + (IF HoldsFirst(m) THEN 1 ELSE 0)
                <= Cardinality(FirstCopies(m)))'
          /\ ReturnedInv'
      BY <1>1 DEF ChannelInv, UsesUp
    <3>2. /\ Cardinality(FirstCopies(m))' \in Nat
          /\ Cardinality(FirstCopies(m))' <= Copies
      <4>1. FirstCopies(m)' \in SUBSET (1..Copies)
        BY DEF FirstCopies
      <4>2. IsFiniteSet(1..Copies) /\ Cardinality(1..Copies) = Copies
        BY FS_Interval
      <4> QED BY <4>1, <4>2, FS_Subset, FS_CardinalityType
    <3>3. Number(m)' <= Cardinality(FirstCopies(m))'
      BY <1>3, <2>1, <3>1, <3>2 DEF Number
    <3> QED BY <1>3, <2>1, <3>2, <3>3
  <2>3. \A j \in 1..Copies : <<m, j>> \in Numbered <=> j < k
    BY <1>1, <2>1, NumberedIs
  <2>4. Numbered' = Numbered \cup {<<m, k>>}
    <3>1. ASSUME NEW x PROVE x \in Numbered' <=> x \in Numbered \/ x = <<m, k>>
      <4>1. \A i : i \in 1..Number(m)' <=> i \in 1..Number(m) \/ i = k
        BY <1>3, <2>1
      <4>2. x \in Numbered' <=>
              \E n \in SentMessages : \E i \in 1..Number(n)' : x = <<n, i>>
        BY <1>1, NumberedIs
      <4>3. x \in Numbered <=>
              \E n \in SentMessages : \E i \in 1..Number(n) : x = <<n, i>>
        BY NumberedIs
      <4> HIDE DEF m, k
      <4> QED BY <1>1, <4>1, <4>2, <4>3
    <3> QED BY <3>1
  <2> QED BY <1>1, <2>2, <2>3, <2>4 DEF Abstract!Deliver
<1> QED BY <1>1, <1>2, <1>3

(* SendPacket is a sending of the channel, or nothing to it.               *)
LEMMA AbstractSend ==
  ASSUME TypeOK, SentInv, ChannelInv,
         UNCHANGED <<now, table, received, delivered>>,
         NEW m \in Message, m.at = now, lastSent[m.from] < now,
         net' = net \cup Datagrams(m)
  PROVE  ChannelInv' /\ (UNCHANGED <<SentMessages, Numbered>> \/ Abstract!Send)
<1>1. /\ ChannelInv' /\ m \notin SentMessages /\ Deliveries(m) = {}
      /\ \A n : Deliveries(n)' = Deliveries(n)
      /\ \/ SentMessages' = SentMessages
         \/ SentMessages' = SentMessages \cup {m}
  BY ChannelSend
<1>2. \A n : Number(n)' = Number(n)
  BY <1>1 DEF Number
<1>3. Number(m) = 0
  BY <1>1, FS_EmptySet DEF Number
<1>4. Numbered' = Numbered
  <2>1. ASSUME NEW x PROVE x \in Numbered' <=> x \in Numbered
    <3>1. x \in Numbered' <=>
            \E n \in SentMessages' : \E i \in 1..Number(n) : x = <<n, i>>
      BY <1>2, NumberedIs
    <3>2. x \in Numbered <=>
            \E n \in SentMessages : \E i \in 1..Number(n) : x = <<n, i>>
      BY NumberedIs
    <3> QED BY <1>1, <1>3, <3>1, <3>2
  <2> QED BY <2>1
<1> QED BY <1>1, <1>4 DEF Abstract!Send

(* Every step is one of the channel, or nothing to it.                     *)
LEMMA AbstractStep ==
  TypeOK /\ ReassemblyInv /\ ChannelInv /\ [Next]_vars
    => ChannelInv' /\ [Abstract!Next]_<<SentMessages, Numbered>>
<1> SUFFICES ASSUME TypeOK, ReassemblyInv, ChannelInv, [Next]_vars
             PROVE  /\ ChannelInv'
                    /\ \/ Abstract!Next
                       \/ UNCHANGED <<SentMessages, Numbered>>
  OBVIOUS
<1> USE DEF ReassemblyInv
<1>1. ASSUME UNCHANGED <<net, table, received, delivered>>
      PROVE  ChannelInv' /\ UNCHANGED <<SentMessages, Numbered>>
  <2>1. /\ CopiesInv' /\ UnfinishedInv' /\ ReturnedInv'
        /\ SentMessages' = SentMessages
    BY <1>1 DEF ChannelInv, CopiesInv, UnfinishedInv, ReturnedInv,
                SentMessages, Complete
  <2>2. \A m : /\ Deliveries(m)' = Deliveries(m)
               /\ FirstCopies(m)' = FirstCopies(m)
               /\ HoldsFirst(m)' = HoldsFirst(m)
    BY <1>1 DEF Deliveries, FirstCopies, HoldsFirst
  <2>3. \A m \in SentMessages : UsesUp(m)'
    BY <2>2, UsesUpKept DEF ChannelInv
  <2>4. \A m : Number(m)' = Number(m)
    BY <2>2 DEF Number
  <2> QED BY <2>1, <2>3, <2>4, SameNumbers DEF ChannelInv
<1>2. ASSUME NEW s \in Senders, SendWhole(s)
      PROVE  /\ ChannelInv'
             /\ Abstract!Next \/ UNCHANGED <<SentMessages, Numbered>>
  <2> DEFINE m == [from |-> s, inc |-> inc[s], id |-> 0, count |-> 1,
                   at |-> now]
  <2>1. m \in Message /\ m.at = now /\ m.from = s
    BY <1>2 DEF SendWhole, Message, TypeOK
  <2>2. /\ net' = net \cup Datagrams(m) /\ lastSent[s] < now
        /\ UNCHANGED <<now, table, received, delivered>>
    BY <1>2 DEF SendWhole
  <2> QED BY <2>1, <2>2, AbstractSend DEF Abstract!Next
<1>3. ASSUME NEW s \in Senders, NEW count \in Counts, SendFragments(s, count)
      PROVE  /\ ChannelInv'
             /\ Abstract!Next \/ UNCHANGED <<SentMessages, Numbered>>
  <2> DEFINE m == [from |-> s, inc |-> inc[s], id |-> NextMessageID(s),
                   count |-> count, at |-> now]
  <2>1. m \in Message /\ m.at = now /\ m.from = s
    BY NextIDType DEF Message, TypeOK
  <2>2. /\ net' = net \cup Datagrams(m) /\ lastSent[s] < now
        /\ UNCHANGED <<now, table, received, delivered>>
    BY <1>3 DEF SendFragments
  <2> HIDE DEF m
  <2> QED BY <2>1, <2>2, AbstractSend DEF Abstract!Next
<1>4. ASSUME NEW s \in Senders, SendElsewhere(s) \/ SenderRestart(s)
      PROVE  ChannelInv' /\ UNCHANGED <<SentMessages, Numbered>>
  BY <1>1, <1>4 DEF SendElsewhere, SenderRestart
<1>5. ASSUME NEW d \in net, Push(d)
      PROVE  /\ ChannelInv'
             /\ Abstract!Next \/ UNCHANGED <<SentMessages, Numbered>>
  BY <1>5, ChannelPush, AbstractPush DEF Abstract!Next
<1>6. CASE TimePasses
  <2>1. /\ ChannelInv' /\ SentMessages' \subseteq SentMessages
        /\ \A m \in SentMessages' : Number(m)' = Number(m)
    <3>1. /\ ChannelInv' /\ SentMessages' \subseteq SentMessages
          /\ \A m \in SentMessages' : Deliveries(m)' = Deliveries(m)
      BY <1>6, ChannelTime
    <3> QED BY <3>1 DEF Number
  <2>2. Numbered' = {x \in Numbered : x[1] \in SentMessages'}
    <3>1. ASSUME NEW x
          PROVE  x \in Numbered' <=> x \in Numbered /\ x[1] \in SentMessages'
      <4>1. x \in Numbered' <=>
              \E m \in SentMessages' : \E i \in 1..Number(m) : x = <<m, i>>
        BY <2>1, NumberedIs
      <4>2. x \in Numbered <=>
              \E m \in SentMessages : \E i \in 1..Number(m) : x = <<m, i>>
        BY NumberedIs
      <4> QED BY <2>1, <4>1, <4>2
    <3> QED BY <3>1
  <2> QED BY <2>1, <2>2 DEF Abstract!Next, Abstract!Expire
<1>7. CASE UNCHANGED vars
  BY <1>1, <1>7 DEF vars
<1> QED BY <1>2, <1>3, <1>4, <1>5, <1>6, <1>7 DEF Next

LEMMA AbstractInit == Init => Abstract!Init
<1>1. Init => SentMessages = {}
  BY DEF Init, SentMessages
<1>2. Init => Numbered = {}
  BY <1>1 DEF Numbered
<1> QED BY <1>1, <1>2 DEF Abstract!Init

(* SendPacket and Reassembler over a network that loses, doubles, delays   *)
(* and reorders datagrams are a channel that does so with whole messages:  *)
(* every delivery is of a message that was sent, and it uses up a copy of  *)
(* its first fragment.                                                     *)
THEOREM AsChannelCorrect == Spec => AsChannel
<1> DEFINE Inv == TypeOK /\ ReassemblyInv /\ ChannelInv
<1>1. Init => Inv
  BY InitInv, ChannelInit
<1>2. Inv /\ [Next]_vars => Inv'
  BY TypeStep, InvStep, AbstractStep
<1>3. Inv /\ [Next]_vars => [Abstract!Next]_<<SentMessages, Numbered>>
  BY AbstractStep
<1> QED BY <1>1, <1>2, <1>3, AbstractInit, PTL
        DEF Spec, AsChannel, Abstract!Spec

=============================================================================
