------------------------------ MODULE Channel ------------------------------
(***************************************************************************)
(* What SendPacket and Reassembler promise together (internal/network/     *)
(* network.go): whole messages, each lost or delivered, in any order, no   *)
(* more often than the network doubles a datagram, and not after the       *)
(* lifetime of its datagrams.                                              *)
(***************************************************************************)
EXTENDS Integers

CONSTANT Copies     \* how often the network may deliver one datagram

VARIABLES sent,     \* messages whose datagrams may still arrive
          delivered \* <<message, k>> once m was delivered for the k-th time

Init == sent = {} /\ delivered = {}

Send == /\ \E m \in sent' \ sent : sent' = sent \cup {m}
        /\ UNCHANGED delivered

Deliver == /\ \E m \in sent, k \in 1..Copies :
                /\ \A j \in 1..Copies : <<m, j>> \in delivered <=> j < k
                /\ delivered' = delivered \cup {<<m, k>>}
           /\ UNCHANGED sent

(* Messages get too old to arrive. *)
Expire == /\ sent' \subseteq sent
          /\ delivered' = {d \in delivered : d[1] \in sent'}

Next == Send \/ Deliver \/ Expire
Spec == Init /\ [][Next]_<<sent, delivered>>
=============================================================================
