---------------------------- MODULE MessageService ----------------------------
(* What the rest of the server relies on: the messages of the client are handled *)
(* in the order in which they were sent, each of them once, and none of them     *)
(* before all of its bytes have been received.                                   *)
EXTENDS Integers, Sequences

CONSTANT Script   \* the messages of the client: [kind, end], end an offset

VARIABLES
  received,  \* the bytes received from the client
  handled    \* the messages handed to their functions

Init == received = 0 /\ handled = 0

Receive == /\ received' \in received + 1 .. Script[Len(Script)].end
           /\ UNCHANGED handled

Handle == /\ handled + 1 \in DOMAIN Script
          /\ Script[handled + 1].end <= received
          /\ handled' = handled + 1
          /\ UNCHANGED received

Next == Receive \/ Handle

Spec == Init /\ [][Next]_<<received, handled>>

=============================================================================
