-------------------------- MODULE MessagePump_proofs --------------------------
(* Proofs about MessagePump: under the deliveries it is made for, the pump    *)
(* hands over every message once, whole and in order, for all scripts, sizes, *)
(* divisions into buffers and receives, and processors.                       *)
EXTENDS MCMessagePump, SequenceTheorems, WellFoundedInduction, TLAPS

----------------------------------------------------------------------------
(* Facts about numbers and about the script.                                 *)

\* A set of natural numbers has a least element: what an induction would be used for.
LEMMA Least ==
  ASSUME NEW T \in SUBSET Nat, T # {}
  PROVE  \E x \in T : \A y \in T : x <= y
<1>1. PICK x \in T : \A y \in T : ~(<<y, x>> \in OpToRel(<, Nat))
  BY NatLessThanWellFounded, WFMin, Zenon
<1>2. \A y \in T : ~(y < x)
  BY <1>1 DEF OpToRel
<1> QED
  BY <1>2

LEMMA MinFact ==
  ASSUME NEW T \in SUBSET Nat, T # {}
  PROVE  Min(T) \in T /\ \A y \in T : Min(T) <= y
BY Least DEF Min

LEMMA MaxFact ==
  ASSUME NEW T \in SUBSET Int, NEW m \in T, \A e \in T : e <= m
  PROVE  Max(T) = m
<1>1. \E x \in T : \A y \in T : x >= y
  OBVIOUS
<1>2. Max(T) \in T /\ \A y \in T : Max(T) >= y
  BY <1>1 DEF Max
<1>3. Max(T) <= m /\ Max(T) >= m /\ Max(T) \in Int /\ m \in Int
  BY <1>2
<1> QED
  BY <1>3

LEMMA Shift ==
  ASSUME NEW b \in Int, NEW p \in Int, NEW q \in Int, NEW s \in Int, NEW a \in Int, NEW d \in Int,
         b + p = s + a + d
  PROVE  b + q = s + (a + (q - p)) + d
OBVIOUS

LEMMA Carry ==
  ASSUME NEW s \in Int, NEW a \in Int, NEW d \in Int
  PROVE  s + (a - 1) + (d + 1) = s + a + d
OBVIOUS

LEMMA Within ==
  ASSUME NEW b \in Int, NEW n \in Int, NEW t \in Int, n <= t - b
  PROVE  b + n <= t
OBVIOUS

LEMMA ScriptFacts ==
  /\ Len(Script) \in Nat \ {0} /\ DOMAIN Script = 1 .. Len(Script)
  /\ Start(1) = 0
  /\ \A i \in 1 .. Len(Script) :
       /\ Script[i].kind \in Kinds /\ Script[i].end \in Nat /\ Start(i) \in Nat
       /\ Start(i + 1) = Script[i].end /\ Size(i) = Script[i].end - Start(i)
       /\ HeadSize[Script[i].kind] \in Nat \ {0, 1}
       /\ Size(i) >= HeadSize[Script[i].kind]
       /\ Script[i].kind = "input" => Size(i) = HeadSize["input"]
<1>1. Len(Script) \in Nat \ {0} /\ DOMAIN Script = 1 .. Len(Script)
  BY ScriptAssumption, EmptySeq, LenProperties, Zenon
<1>2. \A i \in 1 .. Len(Script) : Script[i] \in [kind : Kinds, end : Nat]
  BY ScriptAssumption, ElementOfSeq, Zenon
<1>3. \A i \in 1 .. Len(Script) : Start(i) \in Nat
  BY <1>1, <1>2 DEF Start
<1>4. \A i \in 1 .. Len(Script) : Start(i + 1) = Script[i].end
  BY <1>1 DEF Start
<1> QED
  BY <1>1, <1>2, <1>3, <1>4, ScriptAssumption, HeadSizeAssumption DEF Size, Start

LEMMA StartFacts ==
  /\ Len(Script) \in Nat \ {0}
  /\ \A i \in 1 .. Len(Script) :
       /\ Script[i].end \in Nat /\ Start(i) \in Nat /\ Start(i) < Script[i].end
       /\ Start(i + 1) = Script[i].end
<1>1. ASSUME NEW i \in 1 .. Len(Script) PROVE Start(i) < Script[i].end
  BY ScriptFacts
<1> QED
  BY <1>1, ScriptFacts

\* The messages follow each other.
LEMMA Sorted ==
  ASSUME NEW i \in 1 .. Len(Script), NEW j \in 1 .. Len(Script), i < j
  PROVE  Script[i].end <= Start(j)
<1> DEFINE T == {k \in 1 .. Len(Script) : i < k /\ Start(k) < Script[i].end}
<1>1. ASSUME T # {} PROVE FALSE
  <2>1. T \in SUBSET Nat
    BY StartFacts
  <2>2. PICK k \in T : \A y \in T : k <= y
    BY <1>1, <2>1, Least
  <2>3. k \in 1 .. Len(Script) /\ i < k /\ Start(k) < Script[i].end
    BY <2>2
  <2>4. k - 1 \in 1 .. Len(Script) /\ k - 1 \notin T /\ (k - 1) + 1 = k
    BY <2>2, <2>3, StartFacts
  <2>5. k - 1 = i \/ (i < k - 1 /\ ~(Start(k - 1) < Script[i].end))
    BY <2>3, <2>4
  <2>6. Start(k) = Script[k - 1].end /\ Start(k - 1) < Script[k - 1].end
    BY <2>4, StartFacts
  <2>7. {Start(k), Start(k - 1), Script[i].end, Script[k - 1].end} \subseteq Nat
    BY <2>3, <2>4, StartFacts
  <2> QED
    BY <2>3, <2>5, <2>6, <2>7
<1>2. j \notin T
  BY <1>1
<1>3. Start(j) \in Nat /\ Script[i].end \in Nat
  BY StartFacts
<1> QED
  BY <1>2, <1>3

LEMMA MessageFacts ==
  \A i \in 1 .. Len(Script) :
    /\ IsMessage(Start(i)) /\ MessageAt(Start(i)) = i
    /\ Script[i].end <= Script[Len(Script)].end
<1> SUFFICES ASSUME NEW i \in 1 .. Len(Script)
             PROVE  /\ IsMessage(Start(i)) /\ MessageAt(Start(i)) = i
                    /\ Script[i].end <= Script[Len(Script)].end
  OBVIOUS
<1>1. \A j \in 1 .. Len(Script) : Start(j) = Start(i) => j = i
  <2> SUFFICES ASSUME NEW j \in 1 .. Len(Script), Start(j) = Start(i), j # i PROVE FALSE
    OBVIOUS
  <2>1. CASE i < j
    BY <2>1, Sorted, StartFacts
  <2>2. CASE j < i
    BY <2>2, Sorted, StartFacts
  <2> QED
    BY <2>1, <2>2, StartFacts
<1>2. IsMessage(Start(i)) /\ MessageAt(Start(i)) = i
  BY <1>1, StartFacts DEF IsMessage, MessageAt
<1>3. Script[i].end <= Script[Len(Script)].end
  <2>1. CASE i = Len(Script)
    BY <2>1, StartFacts
  <2>2. CASE i < Len(Script)
    BY <2>2, Sorted, StartFacts
  <2> QED
    BY <2>1, <2>2, StartFacts
<1> QED
  BY <1>2, <1>3

----------------------------------------------------------------------------
(* The buffers, and the place in them.                                       *)

Total == Script[Len(Script)].end

\* What MacTCP has lent, in an orderly delivery.
Lent ==
  /\ base \in Nat /\ Received \in Nat /\ ends \in SUBSET Nat
  /\ \A e \in ends : e <= Received
  /\ Received > 0 => Received \in ends

BatchInv == Lent /\ base + Received <= Total /\ OrderlyBatch

\* left bytes remain of the buffer that position p is in.
InBuffer(p, left) ==
  /\ p \in Nat /\ left \in Nat \ {0} /\ p + left \in ends
  /\ \A e \in ends : e > p => e >= p + left

LEMMA BatchKept ==
  ASSUME BatchInv, UNCHANGED <<base, ends>>
  PROVE  BatchInv' /\ Received' = Received
BY DEF BatchInv, Lent, OrderlyBatch, Received

\* Where a position is set, or a bound is passed, the next buffer is the one that follows.
LEMMA NextBuffer ==
  ASSUME Lent, NEW p \in Nat, p < Received
  PROVE  InBuffer(p, Min({e \in ends : e > p}) - p)
<1> DEFINE T == {e \in ends : e > p}
<1>1. Received \in ends /\ Received > p
  BY DEF Lent
<1>11. Received \in T
  BY <1>1
<1>12. T \subseteq Nat
  BY DEF Lent
<1>2. Min(T) \in T /\ \A e \in T : Min(T) <= e
  BY <1>11, <1>12, MinFact
<1> HIDE DEF T
<1> DEFINE m == Min(T)
<1>3. m \in T /\ \A e \in T : m <= e
  BY <1>2
<1> HIDE DEF m
<1>4. m \in Nat /\ m \in ends /\ m > p /\ \A e \in ends : e > p => m <= e
  BY <1>3 DEF T, Lent
<1>5. InBuffer(p, m - p)
  BY <1>4 DEF InBuffer, Lent
<1> QED
  BY <1>5 DEF m, T

\* copyTo, when it does not stop at the end of a buffer that has a successor: it copies
\* all that was asked for, or all that there is, and knows which of these is the case.
LEMMA CopyFacts ==
  ASSUME BatchInv, InBuffer(position, rdsLeft), NEW n \in Nat \ {0}, Copy(n),
         position + n < Received => \E i \in DOMAIN Script : base + position + n \in Stops(i)
  PROVE  /\ base' = base /\ ends' = ends
         /\ position' \in position + 1 .. position + n /\ position' <= Received
         /\ rdsLeft' = 0 => position' = Received
         /\ rdsLeft' # 0 => position' = position + n /\ position' < Received
                            /\ InBuffer(position', rdsLeft')
<1>0. Lent
  BY DEF BatchInv
<1> DEFINE copied == Min({n, Received - position})
<1>1. position \in Nat /\ Received \in Nat /\ position < Received
  BY <1>0 DEF InBuffer, Lent
<1>2. copied \in {n, Received - position} /\ copied <= n /\ copied <= Received - position
  BY <1>1, MinFact
<1> HIDE DEF copied
<1>3. base' = base /\ ends' = ends /\ position' = position + copied
  BY DEF Copy, copied
<1>4. position' \in position + 1 .. position + n /\ position' <= Received
  BY <1>1, <1>2, <1>3
<1>5. CASE copied < n
  <2>1. rdsLeft' = 0 /\ position' = Received
    BY <1>1, <1>2, <1>3, <1>5 DEF Copy, copied
  <2> QED
    BY <1>3, <1>4, <2>1
<1>6. CASE copied = n
  <2> DEFINE T == {e \in ends : e >= position'}
             m == Min(T)
  <2>1. Received \in ends /\ Received >= position'
    BY <1>0, <1>1, <1>4 DEF Lent
  <2>11. Received \in T
    BY <2>1
  <2>12. T \subseteq Nat
    BY <1>0 DEF Lent
  <2>2. Min(T) \in T /\ \A e \in T : Min(T) <= e
    BY <2>11, <2>12, MinFact
  <2>3. rdsLeft' = m - position'
    BY <1>6 DEF Copy, copied
  <2> HIDE DEF m
  <2>4. m \in Nat /\ m \in ends /\ m >= position' /\ \A e \in ends : e >= position' => m <= e
    BY <2>2, <2>12 DEF m
  <2>5. position' = position + n /\ position' \in Nat
    BY <1>1, <1>2, <1>3, <1>6
  <2>6. CASE m = position'
    <3>1. rdsLeft' = 0
      BY <2>3, <2>4, <2>5, <2>6
    <3>2. ASSUME position' # Received PROVE FALSE
      <4>1. position + n < Received
        BY <1>1, <1>4, <2>5, <3>2
      <4>2. PICK i \in DOMAIN Script : base + position + n \in Stops(i)
        BY <4>1
      <4>3. base + m = base + position + n /\ base + m # base + Received
        BY <1>0, <1>1, <2>4, <2>5, <2>6, <3>2 DEF Lent
      <4>4. base + m \in {base + e : e \in ends}
        BY <2>4
      <4>5. base + m \notin Stops(i)
        BY <4>3, <4>4 DEF BatchInv, OrderlyBatch
      <4> QED
        BY <4>2, <4>3, <4>5
    <3> QED
      BY <1>3, <1>4, <3>1, <3>2
  <2>7. CASE m # position'
    <3>1. rdsLeft' \in Nat \ {0} /\ position' + rdsLeft' = m
      BY <2>3, <2>4, <2>5, <2>7
    <3>2. \A e \in ends : e > position' => e >= m
      BY <1>0, <2>4, <2>5 DEF Lent
    <3>4. InBuffer(position', rdsLeft')
      BY <2>4, <2>5, <3>1, <3>2 DEF InBuffer
    <3>3. position' < Received
      BY <1>0, <2>4, <2>5, <2>7 DEF Lent
    <3> QED
      BY <1>3, <1>4, <2>5, <3>1, <3>4, <3>3
  <2> QED
    BY <2>6, <2>7
<1> QED
  BY <1>2, <1>5, <1>6, <1>1

----------------------------------------------------------------------------
(* The inductive invariant.                                                  *)

\* Where the message begins that is to be handled next.
NextStart == Start(handled + 1)

CutText(i) == Script[i].kind = "cutText"

\* A cut text that has to be copied on a processor that can read it in place does not lie
\* in one buffer.
Torn(i) ==
  CutText(i) /\ HasColorQD =>
    \E e \in ends : base + e \in Start(i) + 1 .. Script[i].end - 1

\* vncClientMessage holds the next message, up to offset next.
Partial ==
  /\ handled + 1 \in 1 .. Len(Script)
  /\ message.first = NextStart
  /\ message.next \in NextStart + 1 .. Script[handled + 1].end
  /\ message.next = NextStart + message.avail + message.done
  /\ message.done > 0 => MustCopy(handled + 1) /\ message.avail = HeadSize["encodings"]
  /\ MustCopy(handled + 1) => message.avail <= HeadSize["encodings"]

\* While the buffers are with MacTCP, every byte is used up, or in vncClientMessage.
Waiting ==
  IF resumeWriteAt = None
  THEN base + Received = NextStart
  ELSE /\ resumeWriteAt = message.avail /\ ~CutText(handled + 1)
       /\ Partial /\ message.next = base + Received

Assembling ==
  /\ Partial /\ message.next = Src
  /\ CutText(handled + 1) =>
       base + msgStart = NextStart /\ msgStart \in Nat /\ msgStart < Received /\ Torn(handled + 1)

PlaceInv ==
  /\ handled \in 0 .. Len(Script) /\ message \in Assembled
  /\ at \in Places
  /\ at = "receive" => Waiting
  /\ at \in {"inPlace", "copyFirst", "reply"} => Src = NextStart
  /\ at = "copyFirst" => Torn(handled + 1)
  /\ at = "assemble" => Assembling
  /\ at = "deferred" =>
       base + resumeReadAt = NextStart /\ resumeReadAt \in Nat /\ resumeReadAt < Received
  /\ at \notin {"receive", "error"} => resumeWriteAt = None

ReaderInv ==
  at \in {"inPlace", "copyFirst", "assemble", "reply"} => InBuffer(position, rdsLeft)

PumpInv == BatchInv /\ ReaderInv /\ PlaceInv

\* A step of the pump is one of the service, or none of its.
Serves == [Service!Next]_<<base + Received, handled>>

\* What is left in the buffers begins with the next message.
LEMMA HereFacts ==
  ASSUME BatchInv, InBuffer(position, rdsLeft), handled \in 0 .. Len(Script), Src = NextStart
  PROVE  /\ handled + 1 \in 1 .. Len(Script)
         /\ IsMessage(Src) /\ MessageAt(Src) = handled + 1
<1>0. Total \in Nat /\ Len(Script) \in Nat
  BY StartFacts DEF Total
<1>1. position \in Nat /\ position < Received
  BY DEF BatchInv, Lent, InBuffer
<1>2. Src < Total
  BY <1>0, <1>1 DEF BatchInv, Lent, Src
<1>3. handled = Len(Script) => NextStart = Total
  BY StartFacts DEF NextStart, Total
<1>4. handled + 1 \in 1 .. Len(Script)
  BY <1>0, <1>2, <1>3
<1> QED
  BY <1>4, MessageFacts DEF NextStart

\* Between two actions of processMessageFragments the buffers stay as they are.
LEMMA Appended ==
  ASSUME BatchInv, PlaceInv, InBuffer(position, rdsLeft),
         NEW n \in Nat \ {0}, NEW rest \in Assembled,
         Append1(n, rest), UNCHANGED handled,
         handled + 1 \in 1 .. Len(Script),
         rest.first = NextStart, rest.next = Src, Src >= NextStart,
         Src = NextStart + rest.avail + rest.done, Src + n <= Script[handled + 1].end,
         rest.done > 0 => MustCopy(handled + 1) /\ n = 1 /\ rest.avail + 1 = HeadSize["encodings"],
         MustCopy(handled + 1) => rest.avail + n <= HeadSize["encodings"],
         CutText(handled + 1) =>
           base + msgStart' = NextStart /\ msgStart' \in Nat /\ msgStart' < Received
             /\ Torn(handled + 1),
         Src + n \in Stops(handled + 1),
         resumeWriteAt = None
  PROVE  PumpInv' /\ UNCHANGED <<base + Received, handled>>
<1> DEFINE h == handled + 1
<1>1. /\ base' = base /\ ends' = ends
      /\ position' \in position + 1 .. position + n /\ position' <= Received
      /\ rdsLeft' = 0 => position' = Received
      /\ rdsLeft' # 0 => position' = position + n /\ position' < Received
                          /\ InBuffer(position', rdsLeft')
  <2>1. Copy(n) /\ h \in DOMAIN Script
    BY ScriptFacts DEF Append1
  <2>2. base + position + n \in Stops(h)
    BY DEF Src
  <2> QED
    BY <2>1, <2>2, CopyFacts
<1>2. BatchInv' /\ Received' = Received /\ NextStart' = NextStart
  BY <1>1, BatchKept DEF NextStart
<1>3. /\ message' \in Assembled /\ message'.first = NextStart /\ message'.done = rest.done
      /\ message'.next = base + position' /\ message'.avail = rest.avail + (position' - position)
  <2>1. position \in Nat /\ base \in Nat
    BY DEF InBuffer, BatchInv, Lent
  <2>2. message' = [rest EXCEPT !.first = rest.first, !.next = base + position',
                                !.avail = rest.avail + (position' - position)]
    BY <1>1 DEF Append1
  <2>3. rest.first \in Nat \cup {None} /\ rest.avail \in Nat /\ rest.done \in Nat
    BY DEF Assembled
  <2>4. /\ message'.first = NextStart /\ message'.done = rest.done
        /\ message'.next = base + position' /\ message'.avail = rest.avail + (position' - position)
    BY <2>2 DEF Assembled
  <2>50. position' \in Int /\ position' > position
    BY <1>1, <2>1
  <2>5. base + position' \in Nat /\ rest.avail + (position' - position) \in Nat
    BY <2>1, <2>3, <2>50
  <2>6. message' \in Assembled
    <3>1. message' = [first |-> rest.first, next |-> base + position',
                      avail |-> rest.avail + (position' - position), done |-> rest.done]
      BY <2>2 DEF Assembled
    <3> QED
      BY <2>3, <2>5, <3>1 DEF Assembled
  <2> QED
    BY <2>4, <2>6
<1>4. /\ position \in Nat /\ base \in Nat /\ NextStart \in Nat /\ Script[h].end \in Nat
      /\ Src = base + position /\ rest.avail \in Nat /\ rest.done \in Nat /\ message'.avail \in Nat
  BY <1>3, StartFacts DEF InBuffer, BatchInv, Lent, NextStart, Src, Assembled
<1>5. Partial'
  <2>0. position' \in Int /\ position' > position /\ position' <= position + n
    BY <1>1, <1>4
  <2>11. base + position' > NextStart
    BY <1>4, <2>0
  <2>12. base + position' <= Script[h].end
    BY <1>4, <2>0
  <2>13. base + position' \in Int
    BY <1>4, <2>0
  <2>1. message'.next \in NextStart + 1 .. Script[h].end
    BY <1>3, <1>4, <2>11, <2>12, <2>13
  <2>2. message'.next = NextStart + message'.avail + message'.done
    <3>1. base + position' = NextStart + (rest.avail + (position' - position)) + rest.done
      <4>1. base + position = NextStart + rest.avail + rest.done
        BY <1>4
      <4> DEFINE b == base
                 p == position
                 q == position'
                 s == NextStart
                 a == rest.avail
                 d == rest.done
      <4>2. b \in Int /\ p \in Int /\ q \in Int /\ s \in Int /\ a \in Int /\ d \in Int
        BY <1>4, <2>0
      <4>3. b + p = s + a + d
        BY <4>1
      <4> HIDE DEF b, p, q, s, a, d
      <4>4. b + q = s + (a + (q - p)) + d
        BY <4>2, <4>3, Shift
      <4> QED
        BY <4>4 DEF b, p, q, s, a, d
    <3> QED
      BY <1>3, <3>1
  <2>3. message'.done > 0 => MustCopy(h) /\ message'.avail = HeadSize["encodings"]
    <3> SUFFICES ASSUME rest.done > 0 PROVE MustCopy(h) /\ message'.avail = HeadSize["encodings"]
      BY <1>3
    <3>1. MustCopy(h) /\ n = 1 /\ rest.avail + 1 = HeadSize["encodings"]
      OBVIOUS
    <3>2. position' - position = 1
      BY <1>1, <1>4, <3>1
    <3> QED
      BY <1>3, <3>1, <3>2
  <2>4. MustCopy(h) => message'.avail <= HeadSize["encodings"]
    <3>1. HeadSize["encodings"] \in Nat
      BY HeadSizeAssumption DEF Kinds
    <3>2. MustCopy(h) => rest.avail + (position' - position) <= HeadSize["encodings"]
      BY <1>4, <2>0, <3>1
    <3> QED
      BY <1>3, <3>2
  <2> QED
    BY <1>2, <1>3, <2>1, <2>2, <2>3, <2>4 DEF Partial, MustCopy
<1>6. CASE rdsLeft' = 0
  <2>1. at' = "receive" /\ resumeWriteAt' = message'.avail /\ position' = Received
    BY <1>1, <1>6 DEF Append1
  <2>2. ~CutText(h)
    <3> SUFFICES ASSUME CutText(h) PROVE FALSE
      OBVIOUS
    <3> DEFINE last == base + Received
               within == Start(h) + 1 .. Script[h].end - 1
    <3>1. last \in NextStart + 1 .. Script[h].end
      BY <1>3, <1>5, <2>1, <1>2 DEF Partial
    <3>2. /\ last \notin within
          /\ last = Script[h].end => HasColorQD /\ {base + e : e \in ends} \cap within = {}
      BY ScriptFacts DEF BatchInv, OrderlyBatch, CutText
    <3>3. last = Script[h].end
      BY <1>4, <3>1, <3>2 DEF NextStart
    <3>4. \E e \in ends : base + e \in within
      BY <3>2, <3>3 DEF Torn
    <3> QED
      BY <3>2, <3>3, <3>4
  <2>3. Waiting'
    BY <1>1, <1>2, <1>3, <1>4, <1>5, <2>1, <2>2 DEF Waiting, CutText, None
  <2>4. PlaceInv'
    BY <1>2, <1>3, <2>1, <2>3 DEF PlaceInv, Places
  <2>5. ReaderInv'
    BY <2>1 DEF ReaderInv
  <2> QED
    BY <1>1, <1>2, <2>4, <2>5 DEF PumpInv
<1>7. CASE rdsLeft' # 0
  <2>1. at' = "assemble" /\ resumeWriteAt' = None
    BY <1>7 DEF Append1
  <2>2. Assembling'
    <3>1. message'.next = Src'
      BY <1>1, <1>3 DEF Src
    <3>2. CutText(h) => Torn(h)'
      BY <1>1 DEF Torn
    <3> QED
      BY <1>1, <1>2, <1>5, <3>1, <3>2 DEF Assembling, CutText
  <2>3. PlaceInv'
    BY <1>2, <1>3, <2>1, <2>2 DEF PlaceInv, Places
  <2>4. ReaderInv'
    BY <1>1, <1>7, <2>1 DEF ReaderInv, InBuffer
  <2> QED
    BY <1>1, <1>2, <2>3, <2>4 DEF PumpInv
<1> QED
  BY <1>6, <1>7

----------------------------------------------------------------------------
(* The steps.                                                                *)

LEMMA DeliverStep ==
  ASSUME PumpInv, Deliver, OrderlyBatch'
  PROVE  PumpInv' /\ Serves
<1>1. BatchInv /\ at = "receive" /\ Waiting /\ message \in Assembled /\ handled \in 0 .. Len(Script)
  BY DEF PumpInv, PlaceInv, Deliver
<1>2. base' = base + Received /\ position' = 0 /\ rdsLeft' = Min(ends') /\ handled' = handled
  BY DEF Deliver
<1>3. base \in Nat /\ Received \in Nat /\ Total \in Nat /\ base' \in Nat
  BY <1>1, <1>2, StartFacts DEF BatchInv, Lent, Total
<1>40. PICK n \in 1 .. (Total - base') :
         \E cuts \in [1 .. (MaxEntries - 1) -> 1 .. n] :
           ends' = {cuts[k] : k \in DOMAIN cuts} \cup {n}
  BY DEF Deliver, Total
<1>4. PICK cuts \in [1 .. (MaxEntries - 1) -> 1 .. n] :
        ends' = {cuts[k] : k \in DOMAIN cuts} \cup {n}
  BY <1>40
<1>5. ends' \subseteq 1 .. n /\ n \in ends' /\ n \in Nat \ {0} /\ base' + n <= Total
  <2>0. Total - base' \in Int
    BY <1>3
  <2>1. n \in Nat \ {0} /\ base' + n <= Total
    <3>1. n \in Nat \ {0} /\ n <= Total - base'
      BY <2>0
    <3>2. base' \in Int /\ Total \in Int /\ n \in Int
      BY <1>3, <3>1
    <3> QED
      BY <3>1, <3>2, Within
  <2>2. ends' \subseteq 1 .. n
    <3>1. \A k \in DOMAIN cuts : cuts[k] \in 1 .. n
      OBVIOUS
    <3>2. n \in 1 .. n
      BY <2>1
    <3> QED
      BY <1>4, <3>1, <3>2
  <2> QED
    BY <1>4, <2>1, <2>2
<1>6. Received' = n
  <2>1. Max(ends') = n
    BY <1>5, MaxFact
  <2> QED
    BY <1>5, <2>1 DEF Received
<1>7. BatchInv'
  BY <1>3, <1>5, <1>6 DEF BatchInv, Lent, Total
<1>8. InBuffer(position, rdsLeft)'
  <2>1. ends' \subseteq Nat /\ ends' # {}
    BY <1>5
  <2>2. Min(ends') \in ends' /\ \A e \in ends' : Min(ends') <= e
    BY <2>1, MinFact
  <2>3. Min(ends') \in Nat \ {0}
    <3> DEFINE m == Min(ends')
    <3>1. m \in ends'
      BY <2>2
    <3> HIDE DEF m
    <3>2. m \in Nat \ {0}
      BY <1>5, <3>1
    <3> QED
      BY <3>2 DEF m
  <2> QED
    BY <1>2, <2>2, <2>3 DEF InBuffer
<1>9. resumeWriteAt' = None /\ NextStart' = NextStart /\ Src' = base' /\ msgStart' = 0
  BY <1>2, <1>3 DEF Deliver, Enter, NextStart, Src
<1>10. ASSUME resumeWriteAt = None PROVE PlaceInv'
  <2>1. at' = "inPlace" /\ message' = message
    BY <1>10 DEF Deliver, Enter
  <2>2. Src' = NextStart'
    BY <1>1, <1>2, <1>9, <1>10 DEF Waiting
  <2> QED
    BY <1>1, <1>2, <1>9, <2>1, <2>2 DEF PlaceInv, Places
<1>11. ASSUME resumeWriteAt # None PROVE PlaceInv'
  <2>1. at' = "assemble" /\ message' = [message EXCEPT !.avail = resumeWriteAt]
    BY <1>11 DEF Deliver, Enter
  <2>2. Partial /\ ~CutText(handled + 1) /\ message.next = base + Received
        /\ resumeWriteAt = message.avail
    BY <1>1, <1>11 DEF Waiting
  <2>3. message' = message
    BY <1>1, <2>1, <2>2 DEF Assembled
  <2>4. Partial' /\ ~CutText(handled + 1)'
    BY <1>2, <1>9, <2>2, <2>3 DEF Partial, MustCopy, CutText
  <2>5. Assembling'
    BY <1>2, <1>9, <2>2, <2>3, <2>4 DEF Assembling
  <2> QED
    BY <1>1, <1>2, <1>9, <2>1, <2>3, <2>5 DEF PlaceInv, Places
<1>12. PlaceInv' /\ ReaderInv'
  BY <1>8, <1>10, <1>11 DEF ReaderInv
<1>13. Service!Receive
  <2>1. base' + Received' \in base + Received + 1 .. Total
    BY <1>2, <1>3, <1>5, <1>6
  <2> QED
    BY <1>2, <2>1 DEF Service!Receive, Total
<1> QED
  BY <1>7, <1>12, <1>13 DEF PumpInv, Serves, Service!Next

LEMMA RunDeferredStep ==
  ASSUME PumpInv, RunDeferred
  PROVE  PumpInv' /\ Serves
<1>1. /\ BatchInv /\ message \in Assembled /\ handled \in 0 .. Len(Script) /\ resumeWriteAt = None
      /\ base + resumeReadAt = NextStart /\ resumeReadAt \in Nat /\ resumeReadAt < Received
  BY DEF PumpInv, PlaceInv, RunDeferred
<1>2. BatchInv' /\ Received' = Received
  BY <1>1, BatchKept DEF RunDeferred
<1>3. /\ at' = "inPlace" /\ resumeWriteAt' = None /\ position' = resumeReadAt
      /\ rdsLeft' = Min({e \in ends : e > resumeReadAt}) - resumeReadAt
      /\ UNCHANGED <<base, ends, handled, message>>
  BY <1>1 DEF RunDeferred, SetPosition, Enter
<1>4. InBuffer(position, rdsLeft)'
  BY <1>1, <1>3, NextBuffer DEF InBuffer, BatchInv
<1>5. Src' = NextStart'
  BY <1>1, <1>3 DEF Src, NextStart
<1> QED
  BY <1>1, <1>2, <1>3, <1>4, <1>5 DEF PumpInv, ReaderInv, PlaceInv, Places, Serves

LEMMA LeaveInPlaceStep ==
  ASSUME PumpInv, LeaveInPlace
  PROVE  PumpInv' /\ Serves
<1>1. /\ BatchInv /\ InBuffer(position, rdsLeft) /\ message \in Assembled
      /\ handled \in 0 .. Len(Script) /\ Src = NextStart /\ resumeWriteAt = None
  BY DEF PumpInv, PlaceInv, ReaderInv, LeaveInPlace
<1>2. handled + 1 \in 1 .. Len(Script) /\ IsMessage(Src) /\ MessageAt(Src) = handled + 1
  BY <1>1, HereFacts
<1>3. /\ at' = "copyFirst"
      /\ UNCHANGED <<base, ends, position, rdsLeft, resumeWriteAt, message, handled>>
  BY DEF LeaveInPlace, reader, resume
<1>4. Torn(handled + 1)
  <2> DEFINE i == handled + 1
  <2> SUFFICES ASSUME CutText(i), HasColorQD
               PROVE  \E e \in ends : base + e \in Start(i) + 1 .. Script[i].end - 1
    BY DEF Torn
  <2>1. TooShort(i, rdsLeft)
    BY <1>2 DEF LeaveInPlace, MustCopy, CutText
  <2>2. rdsLeft < Size(i)
    BY <1>1, <1>2, <2>1, ScriptFacts DEF TooShort, Wanted, InBuffer, Size
  <2>3. position + rdsLeft \in ends /\ rdsLeft \in Nat \ {0} /\ position \in Nat /\ base \in Nat
    BY <1>1 DEF InBuffer, BatchInv, Lent
  <2>4. Start(i) = base + position /\ Start(i) \in Nat /\ Script[i].end \in Nat
    BY <1>1, <1>2, StartFacts DEF Src, NextStart
  <2>5. base + (position + rdsLeft) \in Start(i) + 1 .. Script[i].end - 1
    BY <2>2, <2>3, <2>4 DEF Size
  <2> QED
    BY <2>3, <2>5
<1>5. BatchInv' /\ Received' = Received
  BY <1>1, <1>3, BatchKept
<1>6. Torn(handled + 1)' /\ Src' = NextStart' /\ InBuffer(position, rdsLeft)'
  BY <1>1, <1>3, <1>4 DEF Torn, Src, NextStart, InBuffer
<1> QED
  BY <1>1, <1>3, <1>5, <1>6 DEF PumpInv, ReaderInv, PlaceInv, Places, Serves

LEMMA DeferInPlaceStep ==
  ASSUME PumpInv, DeferInPlace
  PROVE  PumpInv' /\ Serves
<1>1. /\ BatchInv /\ InBuffer(position, rdsLeft) /\ message \in Assembled
      /\ handled \in 0 .. Len(Script) /\ Src = NextStart /\ resumeWriteAt = None
  BY DEF PumpInv, PlaceInv, ReaderInv, DeferInPlace
<1>2. /\ at' = "deferred" /\ resumeReadAt' = position
      /\ UNCHANGED <<base, ends, resumeWriteAt, message, handled>>
  BY DEF DeferInPlace, reader
<1>3. BatchInv' /\ Received' = Received
  BY <1>1, <1>2, BatchKept
<1>4. position \in Nat /\ position < Received
  BY <1>1 DEF InBuffer, BatchInv, Lent
<1>5. base' + resumeReadAt' = NextStart'
  BY <1>1, <1>2 DEF Src, NextStart
<1> QED
  BY <1>1, <1>2, <1>3, <1>4, <1>5 DEF PumpInv, ReaderInv, PlaceInv, Places, Serves

\* A step that hands over the next message is a step of the service.
LEMMA Handed ==
  ASSUME handled + 1 \in 1 .. Len(Script), Script[handled + 1].end <= base + Received,
         handled' = handled + 1, base' = base, Received' = Received
  PROVE  Serves /\ NextStart' = Script[handled + 1].end /\ handled' \in 0 .. Len(Script)
<1>1. Len(Script) \in Nat /\ DOMAIN Script = 1 .. Len(Script)
  BY ScriptFacts
<1>2. handled' \in 0 .. Len(Script)
  <2>1. handled + 1 \in 0 .. Len(Script)
    BY <1>1
  <2> QED
    BY <2>1
<1>3. NextStart' = Script[handled + 1].end
  BY StartFacts DEF NextStart
<1> QED
  BY <1>1, <1>2, <1>3 DEF Serves, Service!Next, Service!Handle

LEMMA HandleInPlaceStep ==
  ASSUME PumpInv, HandleInPlace
  PROVE  PumpInv' /\ Serves
<1> DEFINE h == handled + 1
<1>1. /\ BatchInv /\ InBuffer(position, rdsLeft) /\ message \in Assembled
      /\ handled \in 0 .. Len(Script) /\ Src = NextStart /\ resumeWriteAt = None
  BY DEF PumpInv, PlaceInv, ReaderInv, HandleInPlace
<1>2. h \in 1 .. Len(Script) /\ MessageAt(Src) = h
  BY <1>1, HereFacts
<1>3. /\ ~BadContext(h) /\ ~MustCopy(h) /\ ~TooShort(h, rdsLeft) /\ ~Unknown(h)
      /\ handled' = h /\ UNCHANGED <<resumeReadAt, resumeWriteAt, message>>
      /\ IF ReturnToCaller(h)
           THEN at' = "reply" /\ UNCHANGED <<base, ends, position, rdsLeft>>
           ELSE Copy(Size(h)) /\ at' = IF rdsLeft' = 0 THEN "receive" ELSE "inPlace"
  BY <1>2 DEF HandleInPlace, reader, resume
<1>4. /\ position \in Nat /\ base \in Nat /\ Received \in Nat /\ rdsLeft \in Nat \ {0}
      /\ position + rdsLeft <= Received /\ Start(h) = base + position
  BY <1>1 DEF InBuffer, BatchInv, Lent, Src, NextStart
<1>5. /\ Start(h) \in Nat /\ Script[h].end \in Nat /\ Start(h) < Script[h].end
      /\ Size(h) = Script[h].end - Start(h) /\ h \in DOMAIN Script
  BY <1>2, StartFacts, ScriptFacts
<1>6. Size(h) \in Nat \ {0} /\ Size(h) <= rdsLeft
  <2>1. Size(h) \in Nat \ {0}
    BY <1>5
  <2>2. rdsLeft >= Wanted(h, rdsLeft)
    <3>1. Wanted(h, rdsLeft) \in Int
      BY <1>2, <2>1, ScriptFacts DEF Wanted
    <3> QED
      BY <1>3, <1>4, <3>1 DEF TooShort
  <2>3. Wanted(h, rdsLeft) = Size(h)
    <3>1. Script[h].kind \in {"input", "cutText", "fence"}
      BY <1>2, <1>3, ScriptFacts DEF MustCopy, Unknown, Kinds
    <3> QED
      BY <1>2, <2>2, <3>1, ScriptFacts DEF Wanted
  <2> QED
    BY <2>1, <2>2, <2>3
<1>7. Script[h].end <= base + Received
  BY <1>4, <1>5, <1>6
<1>8. ~ReturnToCaller(h)
  <2> SUFFICES ASSUME ReturnToCaller(h) PROVE FALSE
    OBVIOUS
  <2>1. Start(h) >= base
    BY <1>4
  <2>2. {base + e : e \in ends} \cap (Start(h) + 1 .. Script[h].end - 1) # {}
    BY <1>1, <1>5, <1>7, <2>1 DEF BatchInv, OrderlyBatch
  <2>3. PICK e \in ends : base + e \in Start(h) + 1 .. Script[h].end - 1
    BY <2>2
  <2>4. e \in Nat
    BY <1>1 DEF BatchInv, Lent
  <2>5. e > position /\ e < position + rdsLeft
    BY <1>4, <1>5, <1>6, <2>3, <2>4
  <2> QED
    BY <1>1, <1>4, <2>4, <2>5 DEF InBuffer
<1>9. /\ base' = base /\ ends' = ends
      /\ position' \in position + 1 .. position + Size(h) /\ position' <= Received
      /\ rdsLeft' = 0 => position' = Received
      /\ rdsLeft' # 0 => position' = position + Size(h) /\ position' < Received
                          /\ InBuffer(position', rdsLeft')
  <2>1. base + position + Size(h) = Script[h].end
    BY <1>4, <1>5
  <2>2. base + position + Size(h) \in Stops(h)
    BY <2>1 DEF Stops
  <2> QED
    BY <1>1, <1>3, <1>5, <1>6, <1>8, <2>2, CopyFacts
<1>10. BatchInv' /\ Received' = Received
  BY <1>1, <1>9, BatchKept
<1>11. Serves /\ NextStart' = Script[h].end /\ handled' \in 0 .. Len(Script)
  BY <1>2, <1>3, <1>7, <1>9, <1>10, Handed
<1>12. Src' = NextStart'
  <2>1. position' = position + Size(h)
    BY <1>4, <1>6, <1>9
  <2> QED
    BY <1>4, <1>5, <1>9, <1>11, <2>1 DEF Src
<1>13. PlaceInv'
  <2>1. CASE rdsLeft' = 0
    <3>1. at' = "receive" /\ position' = Received
      BY <1>3, <1>8, <1>9, <2>1
    <3>2. Waiting'
      BY <1>1, <1>3, <1>9, <1>10, <1>12, <3>1 DEF Waiting, Src
    <3> QED
      BY <1>1, <1>3, <1>11, <3>1, <3>2 DEF PlaceInv, Places
  <2>2. CASE rdsLeft' # 0
    BY <1>1, <1>3, <1>8, <1>11, <1>12, <2>2 DEF PlaceInv, Places
  <2> QED
    BY <2>1, <2>2
<1>14. ReaderInv'
  BY <1>3, <1>8, <1>9 DEF ReaderInv, InBuffer
<1> QED
  BY <1>10, <1>11, <1>13, <1>14 DEF PumpInv

LEMMA CopyFirstStep ==
  ASSUME PumpInv, CopyFirst
  PROVE  PumpInv' /\ Serves
<1> DEFINE h == handled + 1
           rest == [first |-> Src, next |-> Src, avail |-> 0, done |-> 0]
<1>1. /\ BatchInv /\ PlaceInv /\ InBuffer(position, rdsLeft) /\ handled \in 0 .. Len(Script)
      /\ Src = NextStart /\ resumeWriteAt = None /\ Torn(h)
  BY DEF PumpInv, PlaceInv, ReaderInv, CopyFirst
<1>2. h \in 1 .. Len(Script)
  BY <1>1, HereFacts
<1>3. Append1(1, rest) /\ UNCHANGED handled /\ msgStart' = position
  BY DEF CopyFirst
<1>4. position \in Nat /\ base \in Nat /\ position < Received /\ Src = base + position
  BY <1>1 DEF InBuffer, BatchInv, Lent, Src
<1>5. Src = Start(h) /\ Src \in Nat /\ Src + 1 <= Script[h].end /\ Src + 1 \in Stops(h)
  BY <1>1, <1>2, StartFacts DEF NextStart, Stops
<1>6. rest \in Assembled
  BY <1>5 DEF Assembled
<1>7. rest.first = NextStart /\ rest.next = Src /\ rest.avail = 0 /\ rest.done = 0
  BY <1>1
<1> HIDE DEF rest
<1>8. HeadSize["encodings"] \in Nat /\ HeadSize["encodings"] > 2
  BY HeadSizeAssumption DEF Kinds
<1>9. PumpInv' /\ UNCHANGED <<base + Received, handled>>
  <2>1. /\ Src >= NextStart /\ Src = NextStart + rest.avail + rest.done
        /\ ~(rest.done > 0) /\ rest.avail + 1 <= HeadSize["encodings"]
    BY <1>1, <1>5, <1>7, <1>8
  <2>2. base + msgStart' = NextStart /\ msgStart' < Received /\ msgStart' \in Nat
    BY <1>1, <1>3, <1>4
  <2> QED
    BY <1>1, <1>2, <1>3, <1>5, <1>6, <1>7, <2>1, <2>2, Appended
<1> QED
  BY <1>9 DEF Serves

\* What is known of vncClientMessage while it is being put together.
LEMMA AssembledFacts ==
  ASSUME PumpInv, at = "assemble"
  PROVE  /\ BatchInv /\ PlaceInv /\ InBuffer(position, rdsLeft) /\ resumeWriteAt = None
         /\ handled \in 0 .. Len(Script) /\ handled + 1 \in 1 .. Len(Script)
         /\ Understood /\ This = handled + 1 /\ Assembling
         /\ message.avail \in Nat /\ message.done \in Nat /\ message \in Assembled
<1>1. /\ BatchInv /\ PlaceInv /\ InBuffer(position, rdsLeft) /\ resumeWriteAt = None
      /\ handled \in 0 .. Len(Script) /\ Assembling /\ message \in Assembled
  BY DEF PumpInv, ReaderInv, PlaceInv
<1>2. handled + 1 \in 1 .. Len(Script) /\ message.first = Start(handled + 1)
  BY <1>1 DEF Assembling, Partial, NextStart
<1>3. IsMessage(message.first) /\ MessageAt(message.first) = handled + 1
  BY <1>2, MessageFacts
<1>4. message.first # None
  BY <1>2, StartFacts DEF None
<1> QED
  BY <1>1, <1>2, <1>3, <1>4 DEF Understood, This, Assembled

LEMMA CopyRest ==
  ASSUME PumpInv, at = "assemble", UNCHANGED <<handled, msgStart>>,
         TooShort(handled + 1, message.avail),
         Append1(Wanted(handled + 1, message.avail) - message.avail, message)
  PROVE  PumpInv' /\ Serves
<1> DEFINE h == handled + 1
           n == Wanted(h, message.avail) - message.avail
<1>1. /\ BatchInv /\ PlaceInv /\ InBuffer(position, rdsLeft) /\ resumeWriteAt = None
      /\ h \in 1 .. Len(Script) /\ Assembling
      /\ message.avail \in Nat /\ message.done \in Nat /\ message \in Assembled
  BY AssembledFacts
<1>2. /\ NextStart \in Nat /\ Script[h].end \in Nat /\ Size(h) = Script[h].end - NextStart
      /\ NextStart = Start(h) /\ Size(h) >= HeadSize[Script[h].kind]
      /\ HeadSize[Script[h].kind] \in Nat \ {0, 1} /\ Size(h) \in Nat
  <2>1. Start(h) \in Nat /\ Script[h].end \in Nat /\ Start(h) < Script[h].end
    BY <1>1, StartFacts
  <2> QED
    BY <1>1, <2>1, ScriptFacts DEF NextStart
<1>3. /\ Wanted(h, message.avail) \in {HeadSize[Script[h].kind], Size(h)}
      /\ MustCopy(h) => Wanted(h, message.avail) = HeadSize["encodings"]
      /\ Wanted(h, message.avail) \in Nat /\ Wanted(h, message.avail) <= Size(h)
  BY <1>2 DEF Wanted, MustCopy
<1>4. n \in Nat \ {0} /\ message.avail + n = Wanted(h, message.avail)
  BY <1>1, <1>3 DEF TooShort
<1>5. message.done = 0
  <2> SUFFICES ASSUME message.done > 0 PROVE FALSE
    BY <1>1
  <2>1. MustCopy(h) /\ message.avail = HeadSize["encodings"]
    BY <1>1 DEF Assembling, Partial
  <2> QED
    BY <1>1, <1>3, <2>1 DEF TooShort
<1>6. message.first = NextStart /\ message.next = Src /\ Src = NextStart + message.avail
  BY <1>1, <1>2, <1>5 DEF Assembling, Partial
<1>7. /\ Src \in Nat /\ Src >= NextStart /\ Src + n = NextStart + Wanted(h, message.avail)
      /\ Src + n <= Script[h].end
  <2> DEFINE w == Wanted(h, message.avail)
  <2>1. /\ w \in Nat /\ message.avail \in Nat /\ n \in Nat /\ message.avail + n = w
        /\ NextStart \in Nat /\ Src = NextStart + message.avail
        /\ w <= Script[h].end - NextStart /\ Script[h].end \in Nat
    BY <1>1, <1>2, <1>3, <1>4, <1>6
  <2> HIDE DEF w, n, h
  <2>2. Src \in Nat /\ Src >= NextStart /\ Src + n = NextStart + w /\ Src + n <= Script[h].end
    BY <2>1
  <2> QED
    BY <2>2 DEF w
<1>8. Src + n \in Stops(h)
  <2>1. CASE Wanted(h, message.avail) = HeadSize[Script[h].kind]
    BY <1>2, <1>7, <2>1 DEF Stops
  <2>2. CASE Wanted(h, message.avail) = Size(h)
    BY <1>2, <1>7, <2>2 DEF Stops
  <2> QED
    BY <1>3, <2>1, <2>2
<1>9. MustCopy(h) => message.avail + n <= HeadSize["encodings"]
  BY <1>3, <1>4, HeadSizeAssumption DEF Kinds
<1>10. Append1(n, message)
  OBVIOUS
<1>11. CutText(h) => base + msgStart' = NextStart /\ msgStart' \in Nat /\ msgStart' < Received
                       /\ Torn(h)
  BY <1>1 DEF Assembling
<1> HIDE DEF n
<1>12. Src = NextStart + message.avail + message.done /\ ~(message.done > 0)
  BY <1>1, <1>2, <1>5, <1>6
<1>13. PumpInv' /\ UNCHANGED <<base + Received, handled>>
  BY <1>1, <1>4, <1>6, <1>7, <1>8, <1>9, <1>10, <1>11, <1>12, Appended
<1> QED
  BY <1>13 DEF Serves

LEMMA CopyEncoding ==
  ASSUME PumpInv, at = "assemble", UNCHANGED <<handled, msgStart>>,
         ~TooShort(handled + 1, message.avail), MoreEncodings(handled + 1),
         Append1(1, [message EXCEPT !.avail = @ - 1, !.done = @ + 1])
  PROVE  PumpInv' /\ Serves
<1> DEFINE h == handled + 1
           rest == [message EXCEPT !.avail = @ - 1, !.done = @ + 1]
<1>1. /\ BatchInv /\ PlaceInv /\ InBuffer(position, rdsLeft) /\ resumeWriteAt = None
      /\ h \in 1 .. Len(Script) /\ Assembling
      /\ message.avail \in Nat /\ message.done \in Nat /\ message \in Assembled
  BY AssembledFacts
<1>2. MustCopy(h) /\ ~CutText(h) /\ HeadSize["encodings"] \in Nat /\ HeadSize["encodings"] > 2
  BY HeadSizeAssumption DEF MoreEncodings, MustCopy, CutText, Kinds
<1>3. message.avail = HeadSize["encodings"]
  <2>1. message.avail <= HeadSize["encodings"]
    BY <1>1, <1>2 DEF Assembling, Partial
  <2>2. ~(message.avail < Wanted(h, message.avail))
    BY <1>2 DEF TooShort, BadContext, Unknown, MustCopy
  <2>3. Wanted(h, message.avail) = HeadSize["encodings"]
    BY <1>2 DEF Wanted, MustCopy
  <2> QED
    BY <1>1, <1>2, <2>1, <2>2, <2>3
<1>4. /\ NextStart \in Nat /\ Script[h].end \in Nat /\ Size(h) = Script[h].end - NextStart
      /\ NextStart = Start(h)
  BY <1>1, ScriptFacts DEF NextStart
<1>5. message.done < Size(h) - HeadSize["encodings"]
  BY <1>1, <1>2, <1>4 DEF MoreEncodings, Encodings
<1>6. /\ message.first = NextStart /\ message.next = Src
      /\ Src = NextStart + HeadSize["encodings"] + message.done
  BY <1>1, <1>3 DEF Assembling, Partial
<1>7. /\ rest.first = NextStart /\ rest.next = Src
      /\ rest.avail = HeadSize["encodings"] - 1 /\ rest.done = message.done + 1
      /\ rest \in Assembled
  <2>1. /\ rest.first = message.first /\ rest.next = message.next
        /\ rest.avail = message.avail - 1 /\ rest.done = message.done + 1
    BY <1>1 DEF Assembled
  <2>2. rest \in Assembled
    <3>1. rest = [message EXCEPT !.avail = message.avail - 1, !.done = message.done + 1]
      OBVIOUS
    <3>2. message.avail - 1 \in Nat /\ message.done + 1 \in Nat
      BY <1>1, <1>2, <1>3
    <3> QED
      BY <1>1, <3>1, <3>2 DEF Assembled
  <2> QED
    BY <1>3, <1>6, <2>1, <2>2
<1> HIDE DEF rest
<1>8. /\ Src \in Nat /\ Src >= NextStart /\ Src + 1 <= Script[h].end
      /\ Src = NextStart + rest.avail + rest.done /\ rest.avail + 1 = HeadSize["encodings"]
  <2>1. Src \in Nat /\ Src >= NextStart
    BY <1>1, <1>2, <1>4, <1>6
  <2>2. Src + 1 <= Script[h].end
    BY <1>1, <1>2, <1>4, <1>5, <1>6
  <2>3. NextStart + rest.avail + rest.done = NextStart + HeadSize["encodings"] + message.done
    <3>1. NextStart \in Int /\ HeadSize["encodings"] \in Int /\ message.done \in Int
      BY <1>1, <1>2, <1>4
    <3>2. NextStart + (HeadSize["encodings"] - 1) + (message.done + 1)
            = NextStart + HeadSize["encodings"] + message.done
      BY <3>1, Carry
    <3>3. rest.avail = HeadSize["encodings"] - 1 /\ rest.done = message.done + 1
      BY <1>7
    <3> QED
      BY <3>2, <3>3, Zenon
  <2>4. rest.avail + 1 = HeadSize["encodings"]
    BY <1>2, <1>7
  <2> QED
    BY <1>6, <2>1, <2>2, <2>3, <2>4
<1>9. Src + 1 \in Stops(h)
  <2>1. Src + 1 \in Start(h) + HeadSize["encodings"] .. Script[h].end
    BY <1>1, <1>2, <1>4, <1>6, <1>8
  <2> QED
    BY <1>2, <2>1 DEF Stops
<1>10. Append1(1, rest)
  BY DEF rest
<1>11. PumpInv' /\ UNCHANGED <<base + Received, handled>>
  BY <1>1, <1>2, <1>7, <1>8, <1>9, <1>10, Appended
<1> QED
  BY <1>11 DEF Serves

LEMMA CopyMoreStep ==
  ASSUME PumpInv, CopyMore
  PROVE  PumpInv' /\ Serves
<1>1. at = "assemble" /\ UNCHANGED <<handled, msgStart>>
  BY DEF CopyMore
<1>2. This = handled + 1
  BY <1>1, AssembledFacts
<1>3. CASE /\ TooShort(This, message.avail)
           /\ Append1(Wanted(This, message.avail) - message.avail, message)
  BY <1>1, <1>2, <1>3, CopyRest
<1>4. CASE /\ ~TooShort(This, message.avail) /\ MoreEncodings(This)
           /\ Append1(1, [message EXCEPT !.avail = @ - 1, !.done = @ + 1])
  BY <1>1, <1>2, <1>4, CopyEncoding
<1> QED
  BY <1>3, <1>4 DEF CopyMore

LEMMA FailStep ==
  ASSUME PumpInv, Fail
  PROVE  PumpInv' /\ Serves
<1>1. /\ at' = "error"
      /\ UNCHANGED <<base, ends, position, rdsLeft, resumeWriteAt, message, handled>>
  BY DEF Fail, reader, resume
<1>2. BatchInv' /\ Received' = Received
  BY <1>1, BatchKept DEF PumpInv
<1> QED
  BY <1>1, <1>2 DEF PumpInv, PlaceInv, ReaderInv, Places, Serves

LEMMA DeferAssembledStep ==
  ASSUME PumpInv, DeferAssembled
  PROVE  PumpInv' /\ Serves
<1>1. /\ BatchInv /\ resumeWriteAt = None /\ handled \in 0 .. Len(Script)
      /\ message \in Assembled /\ This = handled + 1 /\ Assembling
  BY AssembledFacts DEF DeferAssembled
<1>2. CutText(handled + 1)
  BY <1>1 DEF DeferAssembled, BadContext, CutText
<1>3. /\ at' = "deferred" /\ resumeReadAt' = msgStart
      /\ UNCHANGED <<base, ends, resumeWriteAt, message, handled>>
  BY DEF DeferAssembled, reader
<1>4. BatchInv' /\ Received' = Received
  BY <1>1, <1>3, BatchKept
<1>5. base + msgStart = NextStart /\ msgStart \in Nat /\ msgStart < Received
  BY <1>1, <1>2 DEF Assembling
<1>6. base' + resumeReadAt' = NextStart'
  BY <1>3, <1>5 DEF NextStart
<1> QED
  BY <1>1, <1>3, <1>4, <1>5, <1>6 DEF PumpInv, ReaderInv, PlaceInv, Places, Serves

LEMMA HandleAssembledStep ==
  ASSUME PumpInv, HandleAssembled
  PROVE  PumpInv' /\ Serves
<1> DEFINE h == handled + 1
<1>1. /\ BatchInv /\ InBuffer(position, rdsLeft) /\ resumeWriteAt = None
      /\ h \in 1 .. Len(Script) /\ This = h /\ Assembling
      /\ message.avail \in Nat /\ message.done \in Nat /\ message \in Assembled
  BY AssembledFacts DEF HandleAssembled
<1>2. /\ ~BadContext(h) /\ ~Unknown(h) /\ ~TooShort(h, message.avail) /\ ~MoreEncodings(h)
      /\ handled' = h
      /\ at' = "reply" \/ at' = IF Finished THEN "receive" ELSE "inPlace"
      /\ UNCHANGED <<base, ends, position, rdsLeft, resumeWriteAt, message>>
  BY <1>1 DEF HandleAssembled, reader, resume
<1>3. /\ NextStart \in Nat /\ Script[h].end \in Nat /\ Size(h) = Script[h].end - NextStart
      /\ NextStart = Start(h) /\ HeadSize["encodings"] \in Nat
  BY <1>1, ScriptFacts, HeadSizeAssumption DEF NextStart, Kinds
<1>4. message.next = Src /\ Src = NextStart + message.avail + message.done /\ Src <= Script[h].end
  BY <1>1 DEF Assembling, Partial
<1>5. message.avail >= Wanted(h, message.avail)
  <2>1. Wanted(h, message.avail) \in Int
    BY <1>1, <1>3, ScriptFacts DEF Wanted
  <2> QED
    BY <1>1, <1>2, <2>1 DEF TooShort
<1>6. Src = Script[h].end
  <2>1. CASE MustCopy(h)
    <3>1. message.avail = HeadSize["encodings"]
      <4>1. message.avail <= HeadSize["encodings"]
        BY <1>1, <2>1 DEF Assembling, Partial
      <4>2. Wanted(h, message.avail) = HeadSize["encodings"]
        BY <2>1 DEF Wanted, MustCopy
      <4> QED
        BY <1>1, <1>3, <1>5, <4>1, <4>2
    <3>2. message.done >= Size(h) - HeadSize["encodings"]
      BY <1>1, <1>2, <1>3, <2>1 DEF MoreEncodings, Encodings
    <3> QED
      BY <1>1, <1>3, <1>4, <3>1, <3>2
  <2>2. CASE ~MustCopy(h)
    <3>1. message.done = 0
      BY <1>1, <2>2 DEF Assembling, Partial
    <3>2. Script[h].kind \in {"input", "cutText", "fence"}
      BY <1>1, <1>2, <2>2, ScriptFacts DEF MustCopy, Unknown, Kinds
    <3>3. Wanted(h, message.avail) = Size(h)
      BY <1>1, <1>5, <3>2, ScriptFacts DEF Wanted
    <3> QED
      BY <1>1, <1>3, <1>4, <1>5, <3>1, <3>3
  <2> QED
    BY <2>1, <2>2
<1>7. /\ position \in Nat /\ base \in Nat /\ Received \in Nat /\ rdsLeft \in Nat \ {0}
      /\ position + rdsLeft <= Received /\ Src = base + position
  BY <1>1 DEF InBuffer, BatchInv, Lent, Src
<1>8. BatchInv' /\ Received' = Received
  BY <1>1, <1>2, BatchKept
<1>9. Serves /\ NextStart' = Script[h].end /\ handled' \in 0 .. Len(Script)
  <2>1. Script[h].end <= base + Received
    BY <1>6, <1>7
  <2> QED
    BY <1>1, <1>2, <1>8, <2>1, Handed
<1>10. at' \in {"reply", "inPlace"}
  BY <1>2, <1>7 DEF Finished
<1>11. Src' = NextStart' /\ InBuffer(position, rdsLeft)'
  BY <1>1, <1>2, <1>6, <1>9 DEF Src, InBuffer
<1> QED
  BY <1>1, <1>2, <1>8, <1>9, <1>10, <1>11 DEF PumpInv, ReaderInv, PlaceInv, Places

LEMMA FinishStep ==
  ASSUME PumpInv, FinishMultiPartMessage
  PROVE  PumpInv' /\ Serves
<1>1. /\ BatchInv /\ InBuffer(position, rdsLeft) /\ message \in Assembled
      /\ handled \in 0 .. Len(Script) /\ Src = NextStart /\ resumeWriteAt = None
  BY DEF PumpInv, PlaceInv, ReaderInv, FinishMultiPartMessage
<1>2. ~Finished
  BY <1>1 DEF Finished, InBuffer
<1>3. /\ at' = "inPlace" /\ resumeWriteAt' = None
      /\ UNCHANGED <<base, ends, position, rdsLeft, message, handled>>
  BY <1>1, <1>2 DEF FinishMultiPartMessage, Enter, reader
<1>4. BatchInv' /\ Received' = Received
  BY <1>1, <1>3, BatchKept
<1>5. Src' = NextStart' /\ InBuffer(position, rdsLeft)'
  BY <1>1, <1>3 DEF Src, NextStart, InBuffer
<1> QED
  BY <1>1, <1>3, <1>4, <1>5 DEF PumpInv, ReaderInv, PlaceInv, Places, Serves

----------------------------------------------------------------------------
(* The theorems.                                                             *)

LEMMA PumpStep ==
  ASSUME PumpInv, [OrderlyNext]_vars
  PROVE  PumpInv' /\ Serves
<1>1. CASE Deliver /\ OrderlyBatch'
  BY <1>1, DeliverStep
<1>2. CASE RunDeferred
  BY <1>2, RunDeferredStep
<1>3. CASE LeaveInPlace
  BY <1>3, LeaveInPlaceStep
<1>4. CASE DeferInPlace
  BY <1>4, DeferInPlaceStep
<1>5. CASE HandleInPlace
  BY <1>5, HandleInPlaceStep
<1>6. CASE CopyFirst
  BY <1>6, CopyFirstStep
<1>7. CASE CopyMore
  BY <1>7, CopyMoreStep
<1>8. CASE Fail
  BY <1>8, FailStep
<1>9. CASE DeferAssembled
  BY <1>9, DeferAssembledStep
<1>10. CASE HandleAssembled
  BY <1>10, HandleAssembledStep
<1>11. CASE FinishMultiPartMessage
  BY <1>11, FinishStep
<1>12. CASE UNCHANGED vars
  <2>1. UNCHANGED <<at, base, ends, position, rdsLeft, resumeReadAt, resumeWriteAt, msgStart,
                    message, handled>>
    BY <1>12 DEF vars, reader, resume
  <2>2. BatchInv' /\ Received' = Received
    BY <2>1, BatchKept DEF PumpInv
  <2>3. PlaceInv' /\ ReaderInv'
    BY <2>1, <2>2 DEF PumpInv, PlaceInv, ReaderInv, InBuffer, Waiting, Assembling, Partial,
                      NextStart, Torn, Src
  <2> QED
    BY <2>1, <2>2, <2>3 DEF PumpInv, Serves
<1> QED
  BY <1>1, <1>2, <1>3, <1>4, <1>5, <1>6, <1>7, <1>8, <1>9, <1>10, <1>11, <1>12
     DEF OrderlyNext, Process

LEMMA PumpInit ==
  ASSUME Init
  PROVE  PumpInv /\ Service!Init
<1>1. /\ at = "receive" /\ base = 0 /\ ends = {} /\ resumeWriteAt = None /\ handled = 0
      /\ message = [first |-> None, next |-> 0, avail |-> 0, done |-> 0]
  BY DEF Init
<1>2. Received = 0 /\ Len(Script) \in Nat /\ Total \in Nat /\ NextStart = 0
  BY <1>1, StartFacts, ScriptFacts DEF Received, Total, NextStart
<1>3. OrderlyBatch
  <2>1. ASSUME NEW i \in DOMAIN Script
        PROVE  Script[i].end > 0 /\ 0 \notin Start(i) + 1 .. Script[i].end - 1
    BY ScriptFacts, StartFacts
  <2>2. {base + e : e \in ends} = {} /\ base + Received = 0
    BY <1>1, <1>2
  <2>3. \A i \in DOMAIN Script : Script[i].end \in Nat
    BY ScriptFacts
  <2> QED
    BY <2>1, <2>2, <2>3 DEF OrderlyBatch
<1>4. BatchInv
  BY <1>1, <1>2, <1>3 DEF BatchInv, Lent
<1>5. message \in Assembled
  BY <1>1 DEF Assembled
<1>6. Service!Init
  BY <1>1, <1>2 DEF Service!Init
<1> QED
  BY <1>1, <1>2, <1>4, <1>5, <1>6 DEF PumpInv, PlaceInv, ReaderInv, Waiting, Places

\* The pump implements the service: however the bytes of the client are spread over the
\* receives and the buffers, in the deliveries the pump is made for, every message is handed
\* to its function once, in order, and none before its last byte has arrived.
THEOREM PumpImplements == OrderlySpec => ServiceSpec
<1>1. Init => PumpInv /\ Service!Init
  BY PumpInit
<1>2. PumpInv /\ [OrderlyNext]_vars => PumpInv' /\ [Service!Next]_<<base + Received, handled>>
  BY PumpStep DEF Serves
<1> QED
  BY <1>1, <1>2, PTL DEF OrderlySpec, ServiceSpec, Service!Spec

\* When the buffers go back to MacTCP, only the last message that was in them may wait, and
\* then for the next receive.
THEOREM OnlyTheLastWaits == OrderlySpec => []OnlyLastMessageWaits
<1>1. Init => PumpInv
  BY PumpInit
<1>2. PumpInv /\ [OrderlyNext]_vars => PumpInv'
  BY PumpStep
<1>3. PumpInv => OnlyLastMessageWaits
  <2> SUFFICES ASSUME PumpInv, at = "receive", handled + 1 \in DOMAIN Script
               PROVE  base + Received <= Script[handled + 1].end
    BY DEF OnlyLastMessageWaits
  <2>1. Waiting /\ base \in Nat /\ Received \in Nat /\ handled + 1 \in 1 .. Len(Script)
    BY ScriptFacts DEF PumpInv, PlaceInv, BatchInv, Lent
  <2>2. NextStart <= Script[handled + 1].end
    BY <2>1, StartFacts DEF NextStart
  <2>3. resumeWriteAt # None => base + Received <= Script[handled + 1].end
    BY <2>1 DEF Waiting, Partial
  <2> QED
    BY <2>1, <2>2, <2>3 DEF Waiting
<1> QED
  BY <1>1, <1>2, <1>3, PTL DEF OrderlySpec

\* Under these deliveries the pump never takes a byte in the middle of a message for the
\* beginning of one, nor joins bytes that do not follow each other in the stream.
THEOREM NothingMisread == OrderlySpec => []NeverMisreads
<1>1. Init => PumpInv
  BY PumpInit
<1>2. PumpInv /\ [OrderlyNext]_vars => PumpInv'
  BY PumpStep
<1>3. PumpInv => NeverMisreads
  <2>1. ASSUME PumpInv, at = "inPlace" PROVE IsMessage(Src)
    BY <2>1, HereFacts DEF PumpInv, PlaceInv, ReaderInv
  <2>2. ASSUME PumpInv, at = "assemble" PROVE Understood
    BY <2>2, AssembledFacts
  <2> QED
    BY <2>1, <2>2 DEF NeverMisreads
<1> QED
  BY <1>1, <1>2, <1>3, PTL DEF OrderlySpec

=============================================================================
