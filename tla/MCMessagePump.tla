---------------------------- MODULE MCMessagePump ----------------------------
(* Instances of MessagePump for TLC: the script of the client, and how its   *)
(* bytes may be spread over the buffers of MacTCP.                           *)
EXTENDS MessagePump

MCHeadSize == [input |-> 3, encodings |-> 3, cutText |-> 2, fence |-> 2, unknown |-> 2]

\* An input event, SetEncodings with two encodings, a cut text of three bytes, a
\* fence with two bytes of payload, an input event, a cut text of four bytes, and
\* an unknown message.
MCScript == <<[kind |-> "input", end |-> 3], [kind |-> "encodings", end |-> 7],
              [kind |-> "cutText", end |-> 12], [kind |-> "fence", end |-> 16],
              [kind |-> "input", end |-> 19], [kind |-> "cutText", end |-> 25],
              [kind |-> "unknown", end |-> 27]>>

\* Where the reader stops in message i: after its first byte, its head, and each
\* of its encodings, and at its end.
Stops(i) == {Start(i) + 1, Start(i) + HeadSize[Script[i].kind], Script[i].end}
              \cup (IF MustCopy(i) THEN Start(i) + HeadSize["encodings"] .. Script[i].end ELSE {})

\* The deliveries the pump is made for: a buffer that has a successor does not end
\* where the reader stops; a batch does not end within a message for the event loop,
\* nor with one that it has to copy; and a message that is answered does not lie in one
\* buffer.
OrderlyBatch ==
  LET bounds == {base + e : e \in ends}
      last   == base + Received
      within(i) == Start(i) + 1 .. Script[i].end - 1 IN
  \A i \in DOMAIN Script :
    /\ \A b \in bounds \ {last} : b \notin Stops(i)
    /\ Script[i].kind = "cutText" =>
         /\ last \notin within(i)
         /\ last = Script[i].end => HasColorQD /\ bounds \cap within(i) = {}
    /\ ReturnToCaller(i) /\ Start(i) >= base /\ Script[i].end <= last =>
         bounds \cap within(i) # {}

OrderlyNext == (Deliver /\ OrderlyBatch') \/ Process
OrderlySpec == Init /\ [][OrderlyNext]_vars

=============================================================================
