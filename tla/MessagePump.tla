----------------------------- MODULE MessagePump -----------------------------
(***************************************************************************)
(* How processMessageFragments (VNCServer.cpp) cuts the bytes of the       *)
(* client into messages, with the StreamReader over the buffers (RDS) that *)
(* one TCPNoCopyRcv lends. A byte is its offset in the stream the client   *)
(* has sent; the content of a message is abstracted to its kind and size.  *)
(* UpdatePipeline takes the result for granted: messages, whole and in     *)
(* order.                                                                  *)
(***************************************************************************)
EXTENDS Integers, Sequences, FiniteSetsExt

CONSTANTS
  Script,      \* the messages of the client: [kind, end], end an offset
  HeadSize,    \* HeadSize[kind]: the bytes that READ_ALL asks for
  BufferSize,  \* sizeof(VNCClientMessages)
  MaxEntries,  \* kNumRDS
  HasColorQD   \* FALSE on a 68000, which cannot read a word at an odd address

Kinds == {"input", "encodings", "cutText", "fence", "unknown"}

Start(i) == IF i = 1 THEN 0 ELSE Script[i - 1].end
Size(i)  == Script[i].end - Start(i)

ASSUME HeadSizeAssumption ==
  /\ HeadSize \in [Kinds -> Nat \ {0, 1}]
  /\ HeadSize["encodings"] > 2   \* the header, and the first encoding of size 1
ASSUME ScriptAssumption ==
  /\ Script \in Seq([kind : Kinds, end : Nat]) /\ Script # <<>>
  /\ \A i \in DOMAIN Script :
       /\ Size(i) >= HeadSize[Script[i].kind]
       /\ Script[i].kind = "input" => Size(i) = HeadSize["input"]
ASSUME LimitsAssumption ==
  BufferSize \in Nat /\ MaxEntries \in Nat \ {0} /\ HasColorQD \in BOOLEAN

VARIABLES
  at,             \* where processMessageFragments is, or what it waits for
  context,        \* MessageData::context
  base,           \* offset of the first byte of the buffers lent now
  ends,           \* myRDS: where each of them ends, relative to base
  position,       \* StreamReader::position; src is base + position
  rdsLeft,        \* StreamReader::rdsLeft
  resumeReadAt,   \* where the event loop takes over, or None
  resumeWriteAt,  \* the bytes in vncClientMessage when the buffers ran out, or None
  msgStart,       \* where a message assembled from fragments began
  message,        \* vncClientMessage (see Assembled)
  handled         \* history: the number of messages handed to their functions

reader  == <<base, ends, position, rdsLeft>>
resume  == <<resumeReadAt, resumeWriteAt>>
vars    == <<at, context, reader, resume, msgStart, message, handled>>

None == -1
Places == {"receive", "inPlace", "copyFirst", "assemble", "deferred", "reply",
           "error"}

\* What vncClientMessage holds: the bytes from offset first to offset next; avail
\* of them are in use, and the encodings among them that are dealt with.
Assembled == [first : Nat \cup {None}, next : Nat, avail : Nat, done : Nat]

Received   == IF ends = {} THEN 0 ELSE Max(ends)
Src        == base + position
Finished   == rdsLeft = 0

----------------------------------------------------------------------------
(* dispatchClientMessage, for a message of which avail bytes are at hand.    *)

\* A message is understood only from its first byte.
MessageAt(p)  == CHOOSE i \in DOMAIN Script : Start(i) = p
IsMessage(p)  == \E i \in DOMAIN Script : Start(i) = p

\* MessageData::msgSize: READ_ALL, and then READ_STR when the head is there.
Wanted(i, avail) ==
  IF Script[i].kind \in {"cutText", "fence"} /\ avail >= HeadSize[Script[i].kind]
    THEN Size(i) ELSE HeadSize[Script[i].kind]

Encodings(i) == 1 + Size(i) - HeadSize["encodings"]

BadContext(i)     == Script[i].kind = "cutText" /\ context = "asInterrupt"
Unknown(i)        == Script[i].kind = "unknown"
TooShort(i, n)    == ~BadContext(i) /\ ~Unknown(i) /\ n < Wanted(i, n)
ReturnToCaller(i) == Script[i].kind = "fence"

\* A client that takes fences or continuous updates is answered after its last encoding.
MayReturn(i) == Script[i].kind \in {"fence", "encodings"}

\* SetEncodings must be copied, and is handled one encoding after the other.
MustCopy(i)      == Script[i].kind = "encodings"
MoreEncodings(i) == MustCopy(i) /\ message.done + 1 < Encodings(i)

----------------------------------------------------------------------------
(* StreamReader.                                                             *)

\* A faulty variant: the end of the buffers is not looked at.
CopyBeyond(n) ==
  /\ position' = position + n
  /\ rdsLeft'  = IF n <= rdsLeft THEN rdsLeft - n ELSE 0
  /\ UNCHANGED <<base, ends>>

\* copyTo: the loop stops as soon as n bytes are copied, without a look at the
\* next buffer; it leaves rdsLeft = 0 when that was the end of one.
Copy(n) ==
  LET copied == Min({n, Received - position}) IN
  /\ position' = position + copied
  /\ rdsLeft'  = IF n = 0 THEN rdsLeft
                 ELSE IF copied < n THEN 0
                 ELSE Min({e \in ends : e >= position'}) - position'
  /\ UNCHANGED <<base, ends>>

SetPosition(pos) ==
  /\ position' = pos
  /\ rdsLeft'  = IF pos < Received THEN Min({e \in ends : e > pos}) - pos ELSE rdsLeft

Init ==
  /\ at = "receive" /\ context = "asInterrupt"
  /\ base = 0 /\ ends = {} /\ position = 0 /\ rdsLeft = 0
  /\ resumeReadAt = None /\ resumeWriteAt = None
  /\ msgStart = 0
  /\ message = [first |-> None, next |-> 0, avail |-> 0, done |-> 0]
  /\ handled = 0

----------------------------------------------------------------------------
(* processMessageFragments.                                                  *)

\* The start of a call: a message that was interrupted is continued first.
Enter(c) ==
  /\ context' = c
  /\ msgStart' = 0
  /\ resumeWriteAt' = None
  /\ IF resumeWriteAt # None
       THEN at' = "assemble" /\ message' = [message EXCEPT !.avail = resumeWriteAt]
       ELSE at' = "inPlace" /\ UNCHANGED message

\* vncGotNewMessages: MacTCP lends the bytes that have arrived, in some buffers.
Deliver ==
  /\ at = "receive"
  /\ base' = base + Received
  /\ \E n \in 1 .. (Script[Len(Script)].end - base') :
       \E cuts \in [1 .. (MaxEntries - 1) -> 1 .. n] :
         ends' = {cuts[k] : k \in DOMAIN cuts} \cup {n}
  /\ position' = 0
  /\ rdsLeft' = Min(ends')
  /\ Enter("asInterrupt")
  /\ UNCHANGED <<resumeReadAt, handled>>

\* A faulty variant: the event loop begins with the buffers afresh.
RunDeferredFromStart ==
  /\ at = "deferred"
  /\ SetPosition(0)
  /\ resumeReadAt' = None
  /\ Enter("asMainLoop")
  /\ UNCHANGED <<base, ends, handled>>

\* vncServerIdleTask: the event loop takes over where the interrupt has stopped.
RunDeferred ==
  /\ at = "deferred"
  /\ SetPosition(resumeReadAt)
  /\ resumeReadAt' = None
  /\ Enter("asMainLoop")
  /\ UNCHANGED <<base, ends, handled>>

\* The in-place loop: a message that can not be read where it is, is copied.
LeaveInPlace ==
  /\ at = "inPlace"
  /\ \/ ~HasColorQD
     \/ IsMessage(Src) /\ LET i == MessageAt(Src)
                          IN ~BadContext(i) /\ (MustCopy(i) \/ TooShort(i, rdsLeft))
  /\ at' = "copyFirst"
  /\ UNCHANGED <<context, reader, resume, msgStart, message, handled>>

\* The message is left for the event loop, with the place where it begins.
DeferInPlace ==
  /\ at = "inPlace" /\ IsMessage(Src)
  /\ BadContext(MessageAt(Src))
  /\ resumeReadAt' = position
  /\ at' = "deferred"
  /\ UNCHANGED <<context, reader, resumeWriteAt, msgStart, message, handled>>

\* A message that is answered leaves the loop before inStream.skip.
HandleInPlace ==
  /\ at = "inPlace" /\ IsMessage(Src)
  /\ LET i == MessageAt(Src) IN
     /\ ~BadContext(i) /\ ~MustCopy(i) /\ ~TooShort(i, rdsLeft) /\ ~Unknown(i)
     /\ handled' = i
     /\ IF ReturnToCaller(i)
          THEN at' = "reply" /\ UNCHANGED reader
          ELSE Copy(Size(i)) /\ at' = IF rdsLeft' = 0 THEN "receive" ELSE "inPlace"
  /\ UNCHANGED <<context, resume, msgStart, message>>

\* What is appended to vncClientMessage, and whether the buffers last.
Append1(n, rest) ==
  /\ Copy(n)
  /\ message' = [rest EXCEPT !.first = IF rest.next = Src THEN @ ELSE None,
                             !.next  = base + position',
                             !.avail = @ + (position' - position)]
  /\ IF rdsLeft' = 0
       THEN at' = "receive" /\ resumeWriteAt' = message'.avail
       ELSE at' = "assemble" /\ UNCHANGED resumeWriteAt

CopyFirst ==
  /\ at = "copyFirst"
  /\ msgStart' = position
  /\ Append1(1, [first |-> Src, next |-> Src, avail |-> 0, done |-> 0])
  /\ UNCHANGED <<context, resumeReadAt, handled>>

\* The message in vncClientMessage, when its bytes belong together.
Understood == message.first # None /\ IsMessage(message.first)
This       == MessageAt(message.first)

CopyMore ==
  /\ at = "assemble" /\ Understood
  /\ ~BadContext(This)
  /\ \/ /\ TooShort(This, message.avail)
        /\ Wanted(This, message.avail) <= BufferSize
        /\ Append1(Wanted(This, message.avail) - message.avail, message)
     \/ /\ ~TooShort(This, message.avail) /\ MoreEncodings(This)
        /\ Append1(1, [message EXCEPT !.avail = @ - 1, !.done = @ + 1])
  /\ UNCHANGED <<context, resumeReadAt, msgStart, handled>>

\* "Insufficient space to assemble fragmented message", and "Invalid message",
\* after which the rest of the batch is skipped by a size that nobody has set:
\* the session ends in error, and nothing more is said about it.
Fail ==
  /\ \/ /\ at = "assemble" /\ Understood
        /\ \/ TooShort(This, message.avail) /\ Wanted(This, message.avail) > BufferSize
           \/ Unknown(This)
     \/ at = "inPlace" /\ IsMessage(Src) /\ Unknown(MessageAt(Src))
  /\ at' = "error"
  /\ UNCHANGED <<context, reader, resume, msgStart, message, handled>>

DeferAssembled ==
  /\ at = "assemble" /\ Understood
  /\ BadContext(This)
  /\ resumeReadAt' = msgStart
  /\ at' = "deferred"
  /\ UNCHANGED <<context, reader, resumeWriteAt, msgStart, message, handled>>

\* A faulty variant: the buffers go back as soon as a message has been assembled.
HandleAssembledReturns ==
  /\ at = "assemble" /\ Understood
  /\ ~BadContext(This) /\ ~Unknown(This)
  /\ ~TooShort(This, message.avail) /\ ~MoreEncodings(This)
  /\ handled' = This
  /\ \/ MayReturn(This) /\ at' = "reply"
     \/ ~ReturnToCaller(This) /\ at' = "receive"
  /\ UNCHANGED <<context, reader, resume, msgStart, message>>

HandleAssembled ==
  /\ at = "assemble" /\ Understood
  /\ ~BadContext(This) /\ ~Unknown(This)
  /\ ~TooShort(This, message.avail) /\ ~MoreEncodings(This)
  /\ handled' = This
  /\ \/ MayReturn(This) /\ at' = "reply"
     \/ ~ReturnToCaller(This) /\ at' = IF Finished THEN "receive" ELSE "inPlace"
  /\ UNCHANGED <<context, reader, resume, msgStart, message>>

\* tcpFinishMultiPartMessage, when the answer has been sent.
FinishMultiPartMessage ==
  /\ at = "reply"
  /\ IF Finished THEN at' = "receive" /\ UNCHANGED <<context, msgStart, resumeWriteAt, message>>
                 ELSE Enter("asInterrupt")
  /\ UNCHANGED <<reader, resumeReadAt, handled>>

Process ==
  \/ RunDeferred \/ LeaveInPlace \/ DeferInPlace \/ HandleInPlace
  \/ CopyFirst \/ CopyMore \/ Fail \/ DeferAssembled \/ HandleAssembled
  \/ FinishMultiPartMessage

Next == Deliver \/ Process

Spec == Init /\ [][Next]_vars

----------------------------------------------------------------------------
(* Properties.                                                               *)

\* Every variable holds a value of its type, and nothing is read beyond the
\* buffers that MacTCP has lent.
TypeOK ==
  /\ at \in Places /\ context \in {"asInterrupt", "asMainLoop"}
  /\ base \in Nat /\ ends \subseteq Nat \ {0}
  /\ position \in 0 .. Received /\ rdsLeft \in 0 .. (Received - position)
  /\ resumeReadAt \in Nat \cup {None} /\ resumeWriteAt \in Nat \cup {None}
  /\ msgStart \in Nat
  /\ message \in Assembled
  /\ handled \in 0 .. Len(Script)

\* The server never takes a byte in the middle of a message for the beginning of
\* one, and never joins bytes of the stream that do not follow each other. (The
\* model says nothing of what it would do next.)
NeverMisreads == /\ at = "inPlace"  => IsMessage(Src)
                 /\ at = "assemble" => Understood

\* When the buffers go back to MacTCP, every message that was in them is handled,
\* except the last one: no later byte has been taken from MacTCP.
OnlyLastMessageWaits ==
  at = "receive" /\ handled + 1 \in DOMAIN Script =>
    base + Received <= Script[handled + 1].end

\* When the buffers go back to MacTCP, every message that is complete is handled.
NoFullMessageWaits ==
  at = "receive" /\ handled + 1 \in DOMAIN Script =>
    base + Received < Script[handled + 1].end

\* The pump implements the service that the rest of the server relies on.
Service == INSTANCE MessageService WITH received <- base + Received
ServiceSpec == Service!Spec

=============================================================================
