---------------------------- MODULE FifoChannel ----------------------------
(***************************************************************************)
(* What a message passing protocol promises to the code above it           *)
(* (IMessagePassingProtocol in base/parts/ipc/common/ipc.ts): what a       *)
(* sender hands to send() reaches the other party's onMessage in order,    *)
(* each message once, none invented.  Detailed modules implement it.       *)
(***************************************************************************)
EXTENDS Naturals, Sequences

CONSTANTS Senders, Data

VARIABLES
  sent,       \* sent[s]: everything s has handed to send(), oldest first
  delivered   \* delivered[s]: what the party s talks to has been given of it

vars == <<sent, delivered>>

Init ==
  /\ sent = [s \in Senders |-> <<>>]
  /\ delivered = [s \in Senders |-> <<>>]

Send(s, d) ==
  /\ sent' = [sent EXCEPT ![s] = Append(@, d)]
  /\ UNCHANGED delivered

Deliver(s) ==
  /\ Len(delivered[s]) < Len(sent[s])
  /\ delivered' = [delivered EXCEPT ![s] = Append(@, sent[s][Len(@) + 1])]
  /\ UNCHANGED sent

Next == \E s \in Senders : Deliver(s) \/ \E d \in Data : Send(s, d)

Spec == Init /\ [][Next]_vars
=============================================================================
