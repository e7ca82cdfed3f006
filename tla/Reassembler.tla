---------------------------- MODULE Reassembler ----------------------------
(***************************************************************************)
(* Fragmentation and reassembly of packets (internal/network/network.go).  *)
(*                                                                         *)
(* A packet of more than MaxDatagramSize bytes is sent in fragments, under *)
(* a message ID from one counter of the whole process.  The receiver       *)
(* collects fragments by sender and ID until it has them all, and drops    *)
(* what is older than a timeout when the next fragment comes in.  The      *)
(* network loses, doubles and reorders datagrams and delays them by        *)
(* Lifetime at most.                                                       *)
(*                                                                         *)
(* A message stands for its bytes: a fragment is a pair of message and     *)
(* index, and what the receiver reads of it is its header only.  A unit of *)
(* time is the time a process needs to send a message.                     *)
(***************************************************************************)
EXTENDS Integers, FiniteSets

CONSTANTS
  Senders,       \* remote address and PeerID: the receiver's assemblyKey
  Counts,        \* numbers of datagrams a packet needs; 1 is no fragment
  MaxMessageID,  \* largest message ID, 2^32 - 1 in the code
  Timeout,       \* DefaultReassemblyTimeout
  Lifetime,      \* longest delay of a datagram in the network
  Copies,        \* bound on the copies of a datagram that arrive
  MaxTime,       \* bound on the clock
  MaxRestarts    \* bound on the restarts of one sender

(* IDs do not come round while a datagram or an assembly of the last round *)
(* may be left: 2^32 messages take longer than a delay and a timeout.      *)
ASSUME TimesAssumption ==
  /\ Timeout \in Nat /\ Lifetime \in Nat /\ MaxMessageID \in Nat \ {0}
  /\ MaxMessageID > Timeout + Lifetime
ASSUME BoundsAssumption ==
  /\ Counts \subseteq Nat \ {0} /\ Copies \in Nat
  /\ MaxTime \in Nat /\ MaxRestarts \in Nat

VARIABLES
  now,        \* the clock
  counter,    \* nextFragmentMessageID of each sender's process
  inc,        \* how often that process was restarted
  lastSent,   \* when it sent its last message
  net,        \* datagrams under way: [msg, index, copy]
  table,      \* assemblies: sender and message ID -> assembly
  received,   \* history: datagrams that arrived, with their time
  delivered   \* history: what Push returned, with the datagram it got

sender == <<counter, inc, lastSent>>
vars == <<now, sender, net, table, received, delivered>>

Keys == Senders \X (1..MaxMessageID)

(* createdAt, fragmentCount and the fragments that are not nil. *)
NoAssembly == [createdAt |-> 0, count |-> 0, fragments |-> {}]

Init ==
  /\ now = 0
  /\ counter = [s \in Senders |-> 0]
  /\ inc = [s \in Senders |-> 0]
  /\ lastSent = [s \in Senders |-> -1]
  /\ net = {} /\ received = {} /\ delivered = {}
  /\ table = [k \in Keys |-> NoAssembly]

-----------------------------------------------------------------------------
(* The sender. *)

(* Add(1) on the atomic counter, once more where it wraps to 0. *)
(* Mutant: 0 is used as well. *)
NextMessageIDWithZero(s) == (counter[s] + 1) % (MaxMessageID + 1)
NextMessageID(s) ==
  IF counter[s] = MaxMessageID THEN 1 ELSE counter[s] + 1

Datagrams(m) ==
  {[msg |-> m, index |-> i, copy |-> c] : i \in 0..m.count - 1, c \in 1..Copies}

(* Not larger than a datagram: sent as it is, without a message ID. *)
SendWhole(s) ==
  /\ lastSent[s] < now /\ 1 \in Counts
  /\ LET m == [from |-> s, inc |-> inc[s], id |-> 0, count |-> 1, at |-> now]
     IN net' = net \cup Datagrams(m)
  /\ lastSent' = [lastSent EXCEPT ![s] = now]
  /\ UNCHANGED <<now, counter, inc, table, received, delivered>>

SendFragments(s, count) ==
  /\ lastSent[s] < now /\ count > 1
  /\ LET m == [from |-> s, inc |-> inc[s], id |-> NextMessageID(s),
               count |-> count, at |-> now]
     IN net' = net \cup Datagrams(m)
  /\ counter' = [counter EXCEPT ![s] = NextMessageID(s)]
  /\ lastSent' = [lastSent EXCEPT ![s] = now]
  /\ UNCHANGED <<now, inc, table, received, delivered>>

(* The counter is shared by all peers the process sends to. *)
SendElsewhere(s) ==
  /\ lastSent[s] < now
  /\ counter' = [counter EXCEPT ![s] = NextMessageID(s)]
  /\ lastSent' = [lastSent EXCEPT ![s] = now]
  /\ UNCHANGED <<now, inc, net, table, received, delivered>>

(* The process starts again at the same address: its counter is new. *)
SenderRestart(s) ==
  /\ inc[s] < MaxRestarts
  /\ inc' = [inc EXCEPT ![s] = @ + 1]
  /\ counter' = [counter EXCEPT ![s] = 0]
  /\ UNCHANGED <<now, lastSent, net, table, received, delivered>>

-----------------------------------------------------------------------------
(* The receiver: Push of one datagram. *)

(* Mutant: an assembly is dropped as soon as the timeout is reached. *)
ExpiredAtTimeout(a) == now - a.createdAt >= Timeout
(* Mutant: assemblies are kept until they are complete. *)
ExpiredNever(a) == FALSE
Expired(a) == now - a.createdAt > Timeout

Cleanup == [k \in Keys |-> IF Expired(table[k]) THEN NoAssembly ELSE table[k]]

(* The assembly of the key, or a new one if there is none for that count. *)
AssemblyFor(k, count) ==
  IF Cleanup[k].count = count THEN Cleanup[k]
  ELSE [createdAt |-> now, count |-> count, fragments |-> {}]

(* A fragment is stored unless its index is taken. *)
Store(a, d) ==
  IF \E f \in a.fragments : f.index = d.index THEN a
  ELSE [a EXCEPT !.fragments = @ \cup {[msg |-> d.msg, index |-> d.index]}]

Complete(a) == {f.index : f \in a.fragments} = 0..a.count - 1

(* Mutant: a complete assembly stays in the table. *)
FiledForEver(k, a) == [Cleanup EXCEPT ![k] = a]
Filed(k, a) ==
  [Cleanup EXCEPT ![k] = IF Complete(a) THEN NoAssembly ELSE a]

PushFragment(d) ==
  LET k == <<d.msg.from, d.msg.id>>
      a == Store(AssemblyFor(k, d.msg.count), d)
  IN /\ table' = Filed(k, a)
     /\ delivered' = IF Complete(a)
                     THEN delivered \cup {[by |-> d, fragments |-> a.fragments]}
                     ELSE delivered

(* Any other datagram is passed on before anything is cleaned up. *)
PushWhole(d) ==
  /\ delivered' = delivered \cup
       {[by |-> d, fragments |-> {[msg |-> d.msg, index |-> 0]}]}
  /\ UNCHANGED table

Push(d) ==
  /\ d \in net
  /\ net' = net \ {d}
  /\ received' = received \cup {[datagram |-> d, time |-> now]}
  /\ IF d.msg.id = 0 THEN PushWhole(d) ELSE PushFragment(d)
  /\ UNCHANGED <<now, sender>>

-----------------------------------------------------------------------------
(* Datagrams beyond their lifetime are lost, and the history of messages   *)
(* of which nothing can arrive any more is over.                           *)
Fresh(m) == m.at + Lifetime >= now'

TimePasses ==
  /\ now < MaxTime
  /\ now' = now + 1
  /\ net' = {d \in net : Fresh(d.msg)}
  /\ received' = {r \in received : Fresh(r.datagram.msg)}
  /\ delivered' = {d \in delivered : Fresh(d.by.msg)}
  /\ UNCHANGED <<sender, table>>

Next ==
  \/ \E s \in Senders :
       \/ SendWhole(s) \/ SendElsewhere(s) \/ SenderRestart(s)
       \/ \E count \in Counts : SendFragments(s, count)
  \/ \E d \in net : Push(d)
  \/ TimePasses

Spec == Init /\ [][Next]_vars

-----------------------------------------------------------------------------
Message == [from : Senders, inc : Nat, id : 0..MaxMessageID,
            count : Counts, at : Nat]
Fragment == [msg : Message, index : Nat]
Datagram == [msg : Message, index : Nat, copy : Nat]
Assembly == [createdAt : Nat, count : Nat, fragments : SUBSET Fragment]

(* Fragments, and only they, have a message ID other than 0, which is the  *)
(* one a wrapped counter must skip.                                        *)
TypeOK ==
  /\ now \in Nat
  /\ counter \in [Senders -> 0..MaxMessageID]
  /\ inc \in [Senders -> Nat]
  /\ lastSent \in [Senders -> Nat \cup {-1}]
  /\ net \subseteq Datagram
  /\ \A d \in net : d.msg.id = 0 <=> d.msg.count = 1
  /\ table \in [Keys -> Assembly]
  /\ received \subseteq [datagram : Datagram, time : Nat]
  /\ delivered \subseteq [by : Datagram, fragments : SUBSET Fragment]

(* What Push returns is one message, complete and unmixed, although IDs    *)
(* come round, late copies open new assemblies and fragments of several    *)
(* messages and senders arrive in any order.  Only fragments from before   *)
(* and after a restart of the sender may be mixed: its counter starts      *)
(* again at 1, after the 2 s of the manager's RestartDelay, while the      *)
(* receiver keeps an assembly for 5 s.                                     *)
Whole ==
  \A d \in delivered :
    /\ {f.index : f \in d.fragments} = 0..d.by.msg.count - 1
    /\ \A f, g \in d.fragments :
         f.msg.from = g.msg.from /\ (f.msg.inc = g.msg.inc => f.msg = g.msg)

(* The inductive strengthening of Whole: messages that are about with the  *)
(* same ID are a whole round of the counter apart, and what an assembly    *)
(* holds was sent at most a delay before its creation.                     *)
Live == {d.msg : d \in net} \cup {r.datagram.msg : r \in received}
          \cup UNION {{f.msg : f \in table[k].fragments} : k \in Keys}

(* Messages the counter has gone on by since it was id. *)
Since(id, s) ==
  IF id <= counter[s] THEN counter[s] - id
                      ELSE counter[s] - id + MaxMessageID

SentInv ==
  /\ \A s \in Senders : lastSent[s] <= now
  /\ \A m \in Live :
       /\ m.at <= lastSent[m.from] /\ m.inc <= inc[m.from]
       /\ m.id # 0 /\ m.inc = inc[m.from]
            => lastSent[m.from] - m.at >= Since(m.id, m.from)

RoundInv ==
  \A m, n \in Live :
    m.from = n.from /\ m.inc = n.inc /\ m.id = n.id /\ m.id # 0
      => \/ m = n
         \/ m.at - n.at >= MaxMessageID \/ n.at - m.at >= MaxMessageID

NetInv ==
  \A d \in net : d.msg.at + Lifetime >= now /\ d.index \in 0..d.msg.count - 1

Unmixed(fragments) ==
  \A f, g \in fragments : f.msg.inc = g.msg.inc => f.msg = g.msg

TableInv ==
  \A k \in Keys :
    /\ table[k].createdAt <= now
    /\ Unmixed(table[k].fragments)
    /\ \A f \in table[k].fragments :
         /\ f.msg.from = k[1] /\ f.msg.id = k[2]
         /\ f.msg.count = table[k].count
         /\ table[k].createdAt <= f.msg.at + Lifetime

ReassemblyInv == SentInv /\ RoundInv /\ NetInv /\ TableInv /\ Whole

(* A message all of whose fragments arrive within the timeout is delivered *)
(* whatever else arrives in between, unless a message of an earlier or     *)
(* later start of the sender has the same ID.                              *)
Arrivals(m, i) == {r.time : r \in {x \in received : x.datagram.msg = m
                                                /\ x.datagram.index = i}}
First(times) == CHOOSE t \in times : \A u \in times : t <= u

InTime(m) ==
  /\ \A i \in 0..m.count - 1 : Arrivals(m, i) # {}
  /\ \A i, j \in 0..m.count - 1 :
       First(Arrivals(m, j)) - First(Arrivals(m, i)) <= Timeout

DeliveredInTime ==
  \A r \in received :
    LET m == r.datagram.msg
    IN InTime(m) /\ inc[m.from] = 0
         => \E d \in delivered : d.by.msg = m

(* The implementation of the abstract channel. *)
SentMessages == {d.msg : d \in net} \cup {r.datagram.msg : r \in received}
Deliveries(m) == {d \in delivered : \A f \in d.fragments : f.msg = m}
Numbered ==
  UNION {{m} \X (1..Cardinality(Deliveries(m))) : m \in SentMessages}
Abstract == INSTANCE Channel WITH sent <- SentMessages, delivered <- Numbered

(* Loss, doubling and reordering of fragments look like loss, doubling and *)
(* reordering of whole messages: nothing is delivered that was not sent,   *)
(* nor more often than each of its fragments arrived.                      *)
AsChannel == Abstract!Spec
=============================================================================
