--------------------------- MODULE ScreenHash_proofs ---------------------------
(***************************************************************************)
(* The detection of changes, for screens of any size and any chunks of     *)
(* rows. Who waits for a report has the retrace task in its queue, and no  *)
(* change of the screen is forgotten, provided that sums tell changes at   *)
(* all: the proof keeps, beside what the server knows, the two pictures    *)
(* that its sums are the sums of. Each routine that adds up the sums tells *)
(* one word that changes.                                                  *)
(***************************************************************************)
EXTENDS ScreenHash, ScreenSums, FiniteSetTheorems, WellFoundedInduction, TLAPS

----------------------------------------------------------------------------
(* The retrace task and its queue.                                           *)

\* Without a client the task may be queued for nobody: setup installs it, and the sweep
\* it makes reports to no callback. What holds throughout is one half of the property,
\* and the other half where a session has begun.
CallbackInv ==
  /\ callback \in BOOLEAN /\ queued \in BOOLEAN /\ connected \in BOOLEAN
  /\ callback => queued
  /\ connected /\ queued => callback

\* A session begins by a full frame. One that begins while the task makes the sweep that
\* setup asked for breaks CallbackInv.
LEMMA CallbackStep ==
  ASSUME "setup" \notin FullFrameWhile, CallbackInv, [Next]_vars
  PROVE  CallbackInv'
<1> USE DEF CallbackInv
<1>1. CASE ComputeHashes
  BY <1>1 DEF ComputeHashes, client
<1>2. CASE Restart
  BY <1>2 DEF Restart, client
<1>3. CASE Report
  BY <1>3 DEF Report
<1>4. CASE Frame
  BY <1>4 DEF Frame, SendRow, FinishFBUpdate
<1>5. CASE RequestDirtyRect
  BY <1>5 DEF RequestDirtyRect, client
<1>6. CASE FullFrame
  <2>1. Task # "setup"
    BY <1>6 DEF FullFrame
  <2> QED BY <1>6, <2>1 DEF FullFrame, Task
<1>7. CASE Disconnect
  BY <1>7 DEF Disconnect
<1>8. CASE \E p \in Cells, v \in Values : Draw(p, v)
  BY <1>8 DEF Draw, client
<1>9. CASE UNCHANGED vars
  BY <1>9 DEF vars, client
<1> QED BY <1>1, <1>2, <1>3, <1>4, <1>5, <1>6, <1>7, <1>8, <1>9 DEF Next, VBLTask

\* Who waits for a report of changes has the task installed, and a session never asks for
\* a task that is in the queue already: requestDirtyRect, which looks at the callback and
\* not at the queue (VNCScreenHash.cpp:254), installs it at most once, as long as no
\* session begins while the sweep that setup asked for goes on.
THEOREM WaiterIsInstalled ==
  ASSUME "setup" \notin FullFrameWhile
  PROVE  Spec => []InstalledForWaiter
<1>1. Init => CallbackInv
  BY DEF Init, CallbackInv
<1>2. CallbackInv /\ [Next]_vars => CallbackInv'
  BY CallbackStep
<1>3. CallbackInv => InstalledForWaiter
  BY DEF CallbackInv, InstalledForWaiter
<1> QED BY <1>1, <1>2, <1>3, PTL DEF Spec

----------------------------------------------------------------------------
(* Sums. Each fact is shown for the smallest set that it does not hold for.  *)

\* Among sets of a finite universe there is a smallest one: what an induction would be used
\* for.
LEMMA SmallestSet ==
  ASSUME NEW U, IsFiniteSet(U), NEW B \in SUBSET SUBSET U, B # {}
  PROVE  \E S \in B : \A T \in B : T \subseteq S => T = S
<1>1. IsWellFoundedOn(StrictSubsetOrdering(U), SUBSET U)
  BY FS_StrictSubsetOrderingWellFounded, FS_FiniteSubsetsOfFinite
<1>2. PICK S \in B : \A T \in B : ~(<<T, S>> \in StrictSubsetOrdering(U))
  BY <1>1, WFMin, Zenon
<1>3. ASSUME NEW T \in B, T \subseteq S, T # S
      PROVE  FALSE
  <2>1. T \in SUBSET U /\ S \in SUBSET U
    OBVIOUS
  <2>2. <<T, S>> \in StrictSubsetOrdering(U)
    BY <1>3, <2>1 DEF StrictSubsetOrdering
  <2> QED BY <1>2, <2>2
<1> QED BY <1>3

\* The element that a sum takes first, and the rest.
First(s) == CHOOSE x \in s : TRUE
Rest(s) == s \ {First(s)}

Sums(h, f, T) ==
  h = [s \in SUBSET T |-> IF s = {} THEN 0 ELSE f[First(s)] + h[Rest(s)]]

LEMMA FirstRest ==
  ASSUME NEW s, s # {}
  PROVE  First(s) \in s /\ Rest(s) \subseteq s /\ Rest(s) # s
BY DEF First, Rest

LEMMA SumsAt ==
  ASSUME NEW h, NEW f, NEW T, Sums(h, f, T), NEW s \in SUBSET T
  PROVE  h[s] = IF s = {} THEN 0 ELSE f[First(s)] + h[Rest(s)]
BY DEF Sums

\* A sum does not depend on the set it is part of.
LEMMA SumsUnique ==
  ASSUME NEW U, IsFiniteSet(U), NEW T \in SUBSET U, NEW V \in SUBSET U,
         NEW f, NEW h, NEW k, Sums(h, f, T), Sums(k, f, V)
  PROVE  \A s \in SUBSET (T \cap V) : h[s] = k[s]
<1> DEFINE B == {s \in SUBSET (T \cap V) : h[s] # k[s]}
<1> SUFFICES ASSUME B # {} PROVE FALSE
  OBVIOUS
<1>1. B \in SUBSET SUBSET U
  OBVIOUS
<1>2. PICK S \in B : \A s \in B : s \subseteq S => s = S
  <2> HIDE DEF B
  <2> QED BY <1>1, SmallestSet
<1>3. S \in SUBSET T /\ S \in SUBSET V /\ h[S] # k[S]
  OBVIOUS
<1>4. CASE S = {}
  BY <1>3, <1>4, SumsAt
<1>5. CASE S # {}
  <2>1. Rest(S) \subseteq S /\ Rest(S) # S
    BY <1>5, FirstRest
  <2>2. Rest(S) \notin B
    BY <1>2, <2>1
  <2>3. h[Rest(S)] = k[Rest(S)]
    BY <2>1, <2>2, <1>3
  <2>4. h[S] = f[First(S)] + h[Rest(S)] /\ k[S] = f[First(S)] + k[Rest(S)]
    BY <1>3, <1>5, SumsAt
  <2> QED BY <1>3, <2>3, <2>4
<1> QED BY <1>4, <1>5

LEMMA SumsExist ==
  ASSUME NEW U, IsFiniteSet(U), NEW f
  PROVE  \A T \in SUBSET U : \E h : Sums(h, f, T)
<1> DEFINE B == {T \in SUBSET U : ~ \E h : Sums(h, f, T)}
<1> SUFFICES ASSUME B # {} PROVE FALSE
  OBVIOUS
<1>1. B \in SUBSET SUBSET U
  OBVIOUS
<1>2. PICK T \in B : \A s \in B : s \subseteq T => s = T
  <2> HIDE DEF B
  <2> QED BY <1>1, SmallestSet
<1>3. T \in SUBSET U /\ ~ \E h : Sums(h, f, T)
  OBVIOUS
<1> DEFINE Pick(s) == CHOOSE h : Sums(h, f, s)
           value(s) == IF s = {} THEN 0 ELSE f[First(s)] + Pick(Rest(s))[Rest(s)]
           g == [s \in SUBSET T |-> value(s)]
<1>4. ASSUME NEW s \in SUBSET T, s # T PROVE Sums(Pick(s), f, s)
  <2>1. s \notin B
    BY <1>2, <1>4
  <2>2. \E h : Sums(h, f, s)
    BY <1>3, <2>1
  <2> QED BY <2>2
<1> HIDE DEF Pick
<1>5. ASSUME NEW s \in SUBSET T, s # T PROVE g[s] = Pick(s)[s]
  <2>1. Sums(Pick(s), f, s)
    BY <1>4, <1>5
  <2>2. CASE s = {}
    BY <2>1, <2>2, SumsAt
  <2>3. CASE s # {}
    <3>1. Rest(s) \subseteq s /\ Rest(s) # s
      BY <2>3, FirstRest
    <3>2. Sums(Pick(Rest(s)), f, Rest(s))
      BY <1>4, <3>1
    <3>3. Pick(s)[Rest(s)] = Pick(Rest(s))[Rest(s)]
      BY <1>3, <2>1, <3>1, <3>2, SumsUnique
    <3>4. Pick(s)[s] = f[First(s)] + Pick(s)[Rest(s)]
      BY <2>1, <2>3, SumsAt
    <3> QED BY <2>3, <3>3, <3>4
  <2> QED BY <2>2, <2>3
<1>6. ASSUME NEW s \in SUBSET T
      PROVE  value(s) = IF s = {} THEN 0 ELSE f[First(s)] + g[Rest(s)]
  <2>1. CASE s # {}
    <3>1. Rest(s) \in SUBSET T /\ Rest(s) # T
      BY <2>1, FirstRest
    <3>2. g[Rest(s)] = Pick(Rest(s))[Rest(s)]
      BY <1>5, <3>1
    <3> QED BY <2>1, <3>2
  <2> QED BY <2>1
<1>7. Sums(g, f, T)
  BY <1>6 DEF Sums
<1> QED BY <1>3, <1>7

\* What SumFunctionOnSet of the community modules adds up.
LEMMA SumRest ==
  ASSUME NEW S, IsFiniteSet(S), NEW f
  PROVE  /\ SumFunctionOnSet(f, {}) = 0
         /\ S # {} => SumFunctionOnSet(f, S) = f[First(S)] + SumFunctionOnSet(f, Rest(S))
<1> DEFINE Pick(s) == CHOOSE h : Sums(h, f, s)
<1>1. \A s \in SUBSET S : Sums(Pick(s), f, s)
  BY SumsExist
<1>2. \A s \in SUBSET S : SumFunctionOnSet(f, s) = Pick(s)[s]
  BY DEF SumFunctionOnSet, FoldFunctionOnSet, MapThenFoldSet, Sums, First, Rest
<1> HIDE DEF Pick
<1>3. Pick({})[{}] = 0
  BY <1>1, SumsAt
<1>4. ASSUME S # {}
      PROVE  Pick(S)[S] = f[First(S)] + Pick(Rest(S))[Rest(S)]
  <2>1. Rest(S) \subseteq S
    BY <1>4, FirstRest
  <2>2. Pick(S)[Rest(S)] = Pick(Rest(S))[Rest(S)]
    <3>1. Sums(Pick(S), f, S) /\ Sums(Pick(Rest(S)), f, Rest(S))
      BY <1>1, <2>1
    <3> QED BY <2>1, <3>1, SumsUnique
  <2>3. Sums(Pick(S), f, S)
    BY <1>1
  <2> QED BY <1>4, <2>2, <2>3, SumsAt
<1>5. SumFunctionOnSet(f, {}) = 0
  BY <1>2, <1>3
<1>6. ASSUME S # {} PROVE SumFunctionOnSet(f, S) = f[First(S)] + SumFunctionOnSet(f, Rest(S))
  <2>1. Rest(S) \in SUBSET S
    BY <1>6, FirstRest
  <2> QED BY <1>2, <1>4, <1>6, <2>1
<1> QED BY <1>5, <1>6

LEMMA TotalNat ==
  ASSUME NEW U, IsFiniteSet(U), NEW f, \A x \in U : f[x] \in Nat
  PROVE  \A S \in SUBSET U : SumFunctionOnSet(f, S) \in Nat
<1> DEFINE B == {S \in SUBSET U : SumFunctionOnSet(f, S) \notin Nat}
<1> SUFFICES ASSUME B # {} PROVE FALSE
  OBVIOUS
<1>1. B \in SUBSET SUBSET U
  OBVIOUS
<1>2. PICK S \in B : \A T \in B : T \subseteq S => T = S
  <2> HIDE DEF B
  <2> QED BY <1>1, SmallestSet
<1>3. IsFiniteSet(S)
  BY FS_Subset
<1>4. S # {}
  <2>1. S = {} => SumFunctionOnSet(f, S) = 0
    BY <1>3, SumRest
  <2> QED BY <2>1
<1>5. Rest(S) \notin B /\ Rest(S) \in SUBSET U /\ First(S) \in U
  BY <1>2, <1>4, FirstRest
<1>6. SumFunctionOnSet(f, Rest(S)) \in Nat /\ f[First(S)] \in Nat
  BY <1>5
<1>7. SumFunctionOnSet(f, S) = f[First(S)] + SumFunctionOnSet(f, Rest(S))
  BY <1>3, <1>4, SumRest
<1> QED BY <1>6, <1>7

LEMMA TotalInt ==
  ASSUME NEW U, IsFiniteSet(U), NEW f, \A x \in U : f[x] \in Int
  PROVE  \A S \in SUBSET U : SumFunctionOnSet(f, S) \in Int
<1> DEFINE B == {S \in SUBSET U : SumFunctionOnSet(f, S) \notin Int}
<1> SUFFICES ASSUME B # {} PROVE FALSE
  OBVIOUS
<1>1. B \in SUBSET SUBSET U
  OBVIOUS
<1>2. PICK S \in B : \A T \in B : T \subseteq S => T = S
  <2> HIDE DEF B
  <2> QED BY <1>1, SmallestSet
<1>3. IsFiniteSet(S)
  BY FS_Subset
<1>4. S # {}
  <2>1. S = {} => SumFunctionOnSet(f, S) = 0
    BY <1>3, SumRest
  <2> QED BY <2>1
<1>5. Rest(S) \notin B /\ Rest(S) \in SUBSET U /\ First(S) \in U
  BY <1>2, <1>4, FirstRest
<1>6. SumFunctionOnSet(f, Rest(S)) \in Int /\ f[First(S)] \in Int
  BY <1>5
<1>7. SumFunctionOnSet(f, S) = f[First(S)] + SumFunctionOnSet(f, Rest(S))
  BY <1>3, <1>4, SumRest
<1> QED BY <1>6, <1>7

\* Any element may be taken first.
LEMMA TotalTake ==
  ASSUME NEW U, IsFiniteSet(U), NEW f, \A x \in U : f[x] \in Int
  PROVE  \A S \in SUBSET U : \A y \in S :
           SumFunctionOnSet(f, S) = f[y] + SumFunctionOnSet(f, S \ {y})
<1> DEFINE B == {S \in SUBSET U : \E y \in S :
                   SumFunctionOnSet(f, S) # f[y] + SumFunctionOnSet(f, S \ {y})}
<1> SUFFICES ASSUME B # {} PROVE FALSE
  OBVIOUS
<1>1. B \in SUBSET SUBSET U
  OBVIOUS
<1>2. PICK S \in B : \A T \in B : T \subseteq S => T = S
  <2> HIDE DEF B
  <2> QED BY <1>1, SmallestSet
<1>3. PICK y \in S : SumFunctionOnSet(f, S) # f[y] + SumFunctionOnSet(f, S \ {y})
  OBVIOUS
<1> DEFINE x == First(S)
<1>4. S \in SUBSET U /\ IsFiniteSet(S) /\ x \in S /\ Rest(S) = S \ {x}
  BY FS_Subset, FirstRest DEF Rest
<1>5. SumFunctionOnSet(f, S) = f[x] + SumFunctionOnSet(f, S \ {x})
  BY <1>4, SumRest
<1>6. y # x
  BY <1>3, <1>5
<1> HIDE DEF x
<1>7. \A s \in SUBSET S : s # S => \A z \in s :
        SumFunctionOnSet(f, s) = f[z] + SumFunctionOnSet(f, s \ {z})
  BY <1>2, <1>4
<1>8. SumFunctionOnSet(f, S \ {x}) = f[y] + SumFunctionOnSet(f, (S \ {x}) \ {y})
  BY <1>3, <1>4, <1>6, <1>7
<1>9. SumFunctionOnSet(f, S \ {y}) = f[x] + SumFunctionOnSet(f, (S \ {y}) \ {x})
  BY <1>3, <1>4, <1>6, <1>7
<1>10. (S \ {x}) \ {y} = (S \ {y}) \ {x}
  OBVIOUS
<1>11. f[x] \in Int /\ f[y] \in Int /\ SumFunctionOnSet(f, (S \ {y}) \ {x}) \in Int
  BY <1>4, TotalInt
<1>12. SumFunctionOnSet(f, S) = f[x] + (f[y] + SumFunctionOnSet(f, (S \ {y}) \ {x}))
  BY <1>5, <1>8, <1>10
<1>13. SumFunctionOnSet(f, S) = f[y] + (f[x] + SumFunctionOnSet(f, (S \ {y}) \ {x}))
  BY <1>11, <1>12
<1> QED BY <1>3, <1>9, <1>13

LEMMA TotalSame ==
  ASSUME NEW U, IsFiniteSet(U), NEW f, NEW k, \A x \in U : f[x] = k[x]
  PROVE  \A S \in SUBSET U : SumFunctionOnSet(f, S) = SumFunctionOnSet(k, S)
<1> DEFINE B == {S \in SUBSET U : SumFunctionOnSet(f, S) # SumFunctionOnSet(k, S)}
<1> SUFFICES ASSUME B # {} PROVE FALSE
  OBVIOUS
<1>1. B \in SUBSET SUBSET U
  OBVIOUS
<1>2. PICK S \in B : \A T \in B : T \subseteq S => T = S
  <2> HIDE DEF B
  <2> QED BY <1>1, SmallestSet
<1>3. IsFiniteSet(S)
  BY FS_Subset
<1>4. S # {}
  BY <1>3, SumRest
<1>5. Rest(S) \notin B /\ Rest(S) \in SUBSET U /\ First(S) \in U
  BY <1>2, <1>4, FirstRest
<1>6. SumFunctionOnSet(f, Rest(S)) = SumFunctionOnSet(k, Rest(S)) /\ f[First(S)] = k[First(S)]
  BY <1>5
<1>7. /\ SumFunctionOnSet(f, S) = f[First(S)] + SumFunctionOnSet(f, Rest(S))
      /\ SumFunctionOnSet(k, S) = k[First(S)] + SumFunctionOnSet(k, Rest(S))
  BY <1>3, <1>4, SumRest
<1> QED BY <1>6, <1>7

LEMMA TotalUnion ==
  ASSUME NEW U, IsFiniteSet(U), NEW f, \A x \in U : f[x] \in Nat, NEW A \in SUBSET U
  PROVE  \A S \in SUBSET U : A \cap S = {} =>
           SumFunctionOnSet(f, A \cup S) = SumFunctionOnSet(f, A) + SumFunctionOnSet(f, S)
<1> DEFINE B == {S \in SUBSET U : A \cap S = {} /\
             SumFunctionOnSet(f, A \cup S) # SumFunctionOnSet(f, A) + SumFunctionOnSet(f, S)}
<1> SUFFICES ASSUME B # {} PROVE FALSE
  OBVIOUS
<1>1. B \in SUBSET SUBSET U
  OBVIOUS
<1>2. PICK S \in B : \A T \in B : T \subseteq S => T = S
  <2> HIDE DEF B
  <2> QED BY <1>1, SmallestSet
<1>3. IsFiniteSet(S) /\ S \in SUBSET U /\ A \cap S = {}
  BY FS_Subset
<1>4. S # {}
  <2> SUFFICES ASSUME S = {} PROVE FALSE
    OBVIOUS
  <2>1. SumFunctionOnSet(f, S) = 0 /\ A \cup S = A
    BY <1>3, SumRest
  <2>2. SumFunctionOnSet(f, A) \in Nat
    BY TotalNat
  <2> QED BY <2>1, <2>2
<1> DEFINE x == First(S)
           R == S \ {x}
<1>5. x \in S /\ R \notin B
  BY <1>2, <1>4, FirstRest
<1> HIDE DEF x
<1>6. SumFunctionOnSet(f, A \cup R) = SumFunctionOnSet(f, A) + SumFunctionOnSet(f, R)
  BY <1>3, <1>5
<1>7. SumFunctionOnSet(f, S) = f[x] + SumFunctionOnSet(f, R)
  BY <1>3, <1>5, TotalTake
<1>8. (A \cup S) \ {x} = A \cup R
  BY <1>3, <1>5
<1>9. SumFunctionOnSet(f, A \cup S) = f[x] + SumFunctionOnSet(f, A \cup R)
  <2>1. A \cup S \in SUBSET U /\ x \in A \cup S
    BY <1>3, <1>5
  <2> QED BY <1>8, <2>1, TotalTake
<1>10. f[x] \in Nat /\ SumFunctionOnSet(f, A) \in Nat /\ SumFunctionOnSet(f, R) \in Nat
  BY <1>3, <1>5, TotalNat
<1>11. SumFunctionOnSet(f, A \cup S) = SumFunctionOnSet(f, A) + SumFunctionOnSet(f, S)
  BY <1>6, <1>7, <1>9, <1>10
<1> QED BY <1>11

LEMMA TotalMono ==
  ASSUME NEW U, IsFiniteSet(U), NEW f, NEW k,
         \A x \in U : f[x] \in Nat /\ k[x] \in Nat /\ f[x] <= k[x]
  PROVE  \A S \in SUBSET U : SumFunctionOnSet(f, S) <= SumFunctionOnSet(k, S)
<1> DEFINE B == {S \in SUBSET U : ~(SumFunctionOnSet(f, S) <= SumFunctionOnSet(k, S))}
<1> SUFFICES ASSUME B # {} PROVE FALSE
  OBVIOUS
<1>1. B \in SUBSET SUBSET U
  OBVIOUS
<1>2. PICK S \in B : \A T \in B : T \subseteq S => T = S
  <2> HIDE DEF B
  <2> QED BY <1>1, SmallestSet
<1>3. IsFiniteSet(S)
  BY FS_Subset
<1>4. S # {}
  <2>1. S = {} => SumFunctionOnSet(f, S) = 0 /\ SumFunctionOnSet(k, S) = 0
    BY <1>3, SumRest
  <2> QED BY <2>1
<1>5. Rest(S) \notin B /\ Rest(S) \in SUBSET U /\ First(S) \in U
  BY <1>2, <1>4, FirstRest
<1>6. SumFunctionOnSet(f, Rest(S)) <= SumFunctionOnSet(k, Rest(S)) /\ f[First(S)] <= k[First(S)]
  BY <1>5
<1>7. /\ SumFunctionOnSet(f, S) = f[First(S)] + SumFunctionOnSet(f, Rest(S))
      /\ SumFunctionOnSet(k, S) = k[First(S)] + SumFunctionOnSet(k, Rest(S))
  BY <1>3, <1>4, SumRest
<1>8. /\ SumFunctionOnSet(f, Rest(S)) \in Nat /\ SumFunctionOnSet(k, Rest(S)) \in Nat
      /\ f[First(S)] \in Nat /\ k[First(S)] \in Nat
  BY <1>5, TotalNat
<1>9. SumFunctionOnSet(f, S) <= SumFunctionOnSet(k, S)
  BY <1>6, <1>7, <1>8
<1> QED BY <1>9

LEMMA TotalLess ==
  ASSUME NEW U, IsFiniteSet(U), NEW f, NEW k,
         \A x \in U : f[x] \in Nat /\ k[x] \in Nat /\ f[x] <= k[x],
         NEW y \in U, f[y] < k[y]
  PROVE  SumFunctionOnSet(f, U) < SumFunctionOnSet(k, U)
<1>1. /\ SumFunctionOnSet(f, U) = f[y] + SumFunctionOnSet(f, U \ {y})
      /\ SumFunctionOnSet(k, U) = k[y] + SumFunctionOnSet(k, U \ {y})
  BY TotalTake
<1>2. SumFunctionOnSet(f, U \ {y}) <= SumFunctionOnSet(k, U \ {y})
  BY TotalMono
<1>3. SumFunctionOnSet(f, U \ {y}) \in Nat /\ SumFunctionOnSet(k, U \ {y}) \in Nat
  BY TotalNat
<1> QED BY <1>1, <1>2, <1>3

LEMMA TotalBound ==
  ASSUME NEW U, IsFiniteSet(U), NEW f, NEW m \in Nat, \A x \in U : f[x] \in 0..m
  PROVE  \A S \in SUBSET U : SumFunctionOnSet(f, S) <= m * Cardinality(S)
<1> DEFINE B == {S \in SUBSET U : ~(SumFunctionOnSet(f, S) <= m * Cardinality(S))}
<1> SUFFICES ASSUME B # {} PROVE FALSE
  OBVIOUS
<1>1. B \in SUBSET SUBSET U
  OBVIOUS
<1>2. PICK S \in B : \A T \in B : T \subseteq S => T = S
  <2> HIDE DEF B
  <2> QED BY <1>1, SmallestSet
<1>3. IsFiniteSet(S)
  BY FS_Subset
<1>4. S # {}
  <2> SUFFICES ASSUME S = {} PROVE FALSE
    OBVIOUS
  <2>1. Cardinality(S) = 0 /\ SumFunctionOnSet(f, S) = 0
    BY <1>3, SumRest, FS_EmptySet
  <2> QED BY <2>1
<1>5. Rest(S) \notin B /\ Rest(S) \in SUBSET U /\ First(S) \in S /\ Rest(S) = S \ {First(S)}
  BY <1>2, <1>4, FirstRest DEF Rest
<1>6. Cardinality(Rest(S)) = Cardinality(S) - 1 /\ Cardinality(S) \in Nat
      /\ Cardinality(Rest(S)) \in Nat
  BY <1>3, <1>5, FS_RemoveElement, FS_CardinalityType
<1>7. SumFunctionOnSet(f, S) = f[First(S)] + SumFunctionOnSet(f, Rest(S))
  BY <1>3, <1>4, SumRest
<1>8. SumFunctionOnSet(f, Rest(S)) \in Nat /\ f[First(S)] \in Nat /\ f[First(S)] <= m
  BY <1>5, TotalNat
<1>9. SumFunctionOnSet(f, Rest(S)) <= m * Cardinality(Rest(S))
  BY <1>5
<1>10. m * Cardinality(S) = m * Cardinality(Rest(S)) + m
  BY <1>6
<1>11. m * Cardinality(Rest(S)) \in Nat
  BY <1>6
<1>12. SumFunctionOnSet(f, S) <= m * Cardinality(S)
  BY <1>7, <1>8, <1>9, <1>10, <1>11
<1> QED BY <1>12

----------------------------------------------------------------------------
(* Remainders and rectangles.                                                *)

LEMMA ModRange ==
  ASSUME NEW a \in Nat, NEW m \in Nat \ {0}
  PROVE  a % m \in 0 .. m - 1
OBVIOUS

LEMMA ModIs ==
  ASSUME NEW m \in Nat \ {0}, NEW z \in Nat, NEW t \in 0 .. m - 1
  PROVE  (m * z + t) % m = t
<1> DEFINE n == m * z + t
           q == n \div m
           r == n % m
<1>1. n \in Nat
  OBVIOUS
<1>2. n = m * q + r /\ q \in Nat /\ r \in 0 .. m - 1
  BY <1>1
<1>3. m * q + r = m * z + t
  BY <1>2
<1> HIDE DEF n, q, r
<1>4. CASE q = z
  BY <1>2, <1>3, <1>4 DEF n, r
<1>5. CASE q < z
  <2>1. PICK d \in Nat : z = q + d + 1
    <3>1. z - q - 1 \in Nat
      BY <1>2, <1>5
    <3> QED BY <1>2, <3>1
  <2>2. m * z = m * q + m * d + m
    BY <1>2, <2>1
  <2>3. m * d \in Nat /\ m * q \in Nat
    BY <1>2, <2>1
  <2> QED BY <1>2, <1>3, <2>2, <2>3
<1>6. CASE q > z
  <2>1. PICK d \in Nat : q = z + d + 1
    <3>1. q - z - 1 \in Nat
      BY <1>2, <1>6
    <3> QED BY <1>2, <3>1
  <2>2. m * q = m * z + m * d + m
    BY <1>2, <2>1
  <2>3. m * d \in Nat /\ m * z \in Nat
    BY <1>2, <2>1
  <2> QED BY <1>2, <1>3, <2>2, <2>3
<1> QED BY <1>2, <1>4, <1>5, <1>6

LEMMA ModAdd ==
  ASSUME NEW a \in Nat, NEW b \in Nat, NEW m \in Nat \ {0}
  PROVE  ((a % m) + b) % m = (a + b) % m
<1> DEFINE q == a \div m
           r == a % m
           k == (r + b) \div m
           t == (r + b) % m
<1>1. a = m * q + r /\ q \in Nat /\ r \in 0 .. m - 1
  OBVIOUS
<1>2. r + b = m * k + t /\ k \in Nat /\ t \in 0 .. m - 1
  BY <1>1
<1> HIDE DEF q, r, k, t
<1>3. a + b = m * (q + k) + t
  BY <1>1, <1>2
<1>4. (a + b) % m = t
  <2>1. q + k \in Nat
    BY <1>1, <1>2
  <2> QED BY <1>2, <1>3, <2>1, ModIs
<1> QED BY <1>4 DEF t, r

LEMMA ModSmall ==
  ASSUME NEW a \in Nat, NEW m \in Nat \ {0}, a < m
  PROVE  a % m = a
OBVIOUS

\* A set of natural numbers has a least element, and a greatest one if it is bounded.
LEMMA MinFact ==
  ASSUME NEW T \in SUBSET Nat, T # {}
  PROVE  Min(T) \in T /\ \A y \in T : Min(T) <= y
<1>1. PICK x \in T : \A y \in T : ~(<<y, x>> \in OpToRel(<, Nat))
  BY NatLessThanWellFounded, WFMin, Zenon
<1>2. \A y \in T : ~(y < x)
  BY <1>1 DEF OpToRel
<1>3. \A y \in T : x <= y
  BY <1>2
<1> QED BY <1>3, Zenon DEF Min

LEMMA MaxFact ==
  ASSUME NEW n \in Nat, NEW T \in SUBSET (0 .. n), T # {}
  PROVE  Max(T) \in T /\ \A y \in T : y <= Max(T)
<1> DEFINE D == {n - y : y \in T}
<1>1. D \in SUBSET Nat /\ D # {}
  <2>1. \A y \in T : y \in 0 .. n /\ n - y \in Nat
    OBVIOUS
  <2> QED BY <2>1
<1>2. Min(D) \in D /\ \A d \in D : Min(D) <= d
  BY <1>1, MinFact
<1>3. PICK x \in T : Min(D) = n - x
  BY <1>2
<1>4. ASSUME NEW y \in T PROVE x >= y
  <2>1. n - y \in D /\ x \in 0 .. n /\ y \in 0 .. n
    OBVIOUS
  <2>2. n - x <= n - y
    BY <1>2, <1>3, <2>1
  <2> QED BY <2>1, <2>2
<1>5. \E z \in T : \A y \in T : z >= y
  BY <1>4
<1>6. Max(T) \in T /\ \A y \in T : Max(T) >= y
  BY <1>5, Zenon DEF Max
<1> QED BY <1>6

LEMMA MinMaxPair ==
  ASSUME NEW a \in Nat, NEW b \in Nat
  PROVE  /\ Min({a, b}) = (IF a <= b THEN a ELSE b)
         /\ Max({a, b}) = (IF a <= b THEN b ELSE a)
BY DEF Min, Max

Rects == [x : Cols, y : Rows, w : 0 .. Width, h : 0 .. Height]
Fits(r) == r \in Rects /\ r.x + r.w <= Width /\ r.y + r.h <= Height

LEMMA EmptyHasNone ==
  ASSUME NEW r, Fits(r), Empty(r)
  PROVE  CellsOf(r) = {}
<1>1. r.x \in Nat /\ r.y \in Nat
  BY DEF Fits, Rects, Cols, Rows
<1>2. CASE r.w = 0
  <2>1. r.x .. r.x + r.w - 1 = {}
    BY <1>1, <1>2
  <2> QED BY <2>1 DEF CellsOf
<1>3. CASE r.h = 0
  <2>1. r.y .. r.y + r.h - 1 = {}
    BY <1>1, <1>3
  <2> QED BY <2>1 DEF CellsOf
<1> QED BY <1>2, <1>3 DEF Empty

\* What is around both rectangles covers both, and nothing beyond the screen.
LEMMA UnionFacts ==
  ASSUME NEW a, NEW b, Fits(a), Fits(b)
  PROVE  /\ Fits(UnionRect(a, b))
         /\ CellsOf(a) \cup CellsOf(b) \subseteq CellsOf(UnionRect(a, b))
<1> USE SizeAssumption
<1>1. CASE Empty(b)
  BY <1>1, EmptyHasNone DEF UnionRect
<1>2. CASE Empty(a) /\ ~Empty(b)
  BY <1>2, EmptyHasNone DEF UnionRect
<1>3. CASE ~Empty(a) /\ ~Empty(b)
  <2> DEFINE x == Min({a.x, b.x})
             y == Min({a.y, b.y})
             right == Max({a.x + a.w, b.x + b.w})
             bottom == Max({a.y + a.h, b.y + b.h})
             r == [x |-> x, w |-> right - x, y |-> y, h |-> bottom - y]
  <2>1. /\ a.x \in Nat /\ a.y \in Nat /\ a.w \in Nat /\ a.h \in Nat
        /\ b.x \in Nat /\ b.y \in Nat /\ b.w \in Nat /\ b.h \in Nat
    BY DEF Fits, Rects, Cols, Rows
  <2>1a. a.x + a.w \in Nat /\ b.x + b.w \in Nat /\ a.y + a.h \in Nat /\ b.y + b.h \in Nat
    BY <2>1
  <2>2. /\ x \in Nat /\ x <= a.x /\ x <= b.x /\ (x = a.x \/ x = b.x)
        /\ y \in Nat /\ y <= a.y /\ y <= b.y /\ (y = a.y \/ y = b.y)
    BY <2>1, MinMaxPair
  <2>3. /\ right \in Nat /\ a.x + a.w <= right /\ b.x + b.w <= right
        /\ (right = a.x + a.w \/ right = b.x + b.w)
        /\ bottom \in Nat /\ a.y + a.h <= bottom /\ b.y + b.h <= bottom
        /\ (bottom = a.y + a.h \/ bottom = b.y + b.h)
    <3>1. /\ right = (IF a.x + a.w <= b.x + b.w THEN b.x + b.w ELSE a.x + a.w)
          /\ bottom = (IF a.y + a.h <= b.y + b.h THEN b.y + b.h ELSE a.y + a.h)
      BY <2>1a, MinMaxPair
    <3> HIDE DEF right, bottom
    <3> QED BY <2>1a, <3>1
  <2>4. UnionRect(a, b) = r
    BY <1>3 DEF UnionRect
  <2> HIDE DEF x, y, right, bottom
  <2>5. right <= Width /\ bottom <= Height
    BY <2>3 DEF Fits
  <2>6. x \in Cols /\ y \in Rows
    BY <2>2 DEF Fits, Rects
  <2>7. right - x \in 0 .. Width /\ bottom - y \in 0 .. Height
    BY <2>1, <2>2, <2>3, <2>5
  <2>8. Fits(r)
    BY <2>2, <2>3, <2>5, <2>6, <2>7 DEF Fits, Rects
  <2>9. /\ a.y .. a.y + a.h - 1 \subseteq y .. bottom - 1
        /\ b.y .. b.y + b.h - 1 \subseteq y .. bottom - 1
    BY <2>1, <2>2, <2>3
  <2>10. /\ a.x .. a.x + a.w - 1 \subseteq x .. right - 1
         /\ b.x .. b.x + b.w - 1 \subseteq x .. right - 1
    BY <2>1, <2>2, <2>3
  <2>11. y + (bottom - y) - 1 = bottom - 1 /\ x + (right - x) - 1 = right - 1
    BY <2>2, <2>3
  <2>12. CellsOf(r) = (y .. bottom - 1) \X (x .. right - 1)
    BY <2>11 DEF CellsOf
  <2> QED BY <2>4, <2>8, <2>9, <2>10, <2>12 DEF CellsOf
<1> QED BY <1>1, <1>2, <1>3

\* The rectangle of a comparison lies on the screen, and has every cell whose row and
\* column have both changed.
LEMMA DirtyFacts ==
  /\ Fits(ComputeDirty)
  /\ \A r \in Rows, c \in Cols :
       rowHashNext[r] # rowHashPrev[r] /\ colHashNext[c] # colHashPrev[c]
         => <<r, c>> \in CellsOf(ComputeDirty)
<1> USE SizeAssumption
<1> DEFINE cols == {c \in Cols : colHashNext[c] # colHashPrev[c]}
           rows == {r \in Rows : rowHashNext[r] # rowHashPrev[r]}
<1>1. CASE cols = {} \/ rows = {}
  <2>1. ComputeDirty = NoRect
    BY <1>1 DEF ComputeDirty
  <2> QED BY <1>1, <2>1 DEF NoRect, Fits, Rects, Cols, Rows
<1>2. CASE cols # {} /\ rows # {}
  <2> DEFINE x == Min(cols)
             right == Max(cols)
             y == Min(rows)
             bottom == Max(rows)
             rect == [x |-> x, w |-> right + 1 - x, y |-> y, h |-> bottom + 1 - y]
  <2>1. ComputeDirty = rect
    BY <1>2 DEF ComputeDirty
  <2>2. /\ cols \in SUBSET Nat /\ cols \in SUBSET (0 .. Width - 1) /\ Width - 1 \in Nat
        /\ rows \in SUBSET Nat /\ rows \in SUBSET (0 .. Height - 1) /\ Height - 1 \in Nat
    BY DEF Cols, Rows
  <2>3. /\ x \in cols /\ \A c \in cols : x <= c
        /\ y \in rows /\ \A r \in rows : y <= r
    BY <1>2, <2>2, MinFact
  <2>4. /\ right \in cols /\ \A c \in cols : c <= right
        /\ bottom \in rows /\ \A r \in rows : r <= bottom
    <3> HIDE DEF cols, rows
    <3> QED BY <1>2, <2>2, MaxFact
  <2> HIDE DEF x, y, right, bottom
  <2>5. /\ x \in 0 .. Width - 1 /\ right \in 0 .. Width - 1 /\ x <= right
        /\ y \in 0 .. Height - 1 /\ bottom \in 0 .. Height - 1 /\ y <= bottom
    BY <2>3, <2>4 DEF Cols, Rows
  <2>6. right + 1 - x \in 0 .. Width /\ bottom + 1 - y \in 0 .. Height
    BY <2>5
  <2>7. Fits(rect)
    BY <2>5, <2>6 DEF Fits, Rects, Cols, Rows
  <2>8. x + (right + 1 - x) - 1 = right /\ y + (bottom + 1 - y) - 1 = bottom
    BY <2>5
  <2>9. CellsOf(rect) = (y .. bottom) \X (x .. right)
    BY <2>8 DEF CellsOf
  <2>10. \A r \in rows, c \in cols : <<r, c>> \in CellsOf(rect)
    <3>1. \A c \in cols : c \in x .. right
      BY <2>3, <2>4, <2>5 DEF Cols
    <3>2. \A r \in rows : r \in y .. bottom
      BY <2>3, <2>4, <2>5 DEF Rows
    <3> QED BY <2>9, <3>1, <3>2
  <2> QED BY <2>1, <2>7, <2>10
<1> QED BY <1>1, <1>2

----------------------------------------------------------------------------
(* The sums of a picture.                                                    *)

Pictures == [Cells -> Values]
RowTotal(s, r)     == SumFunction([c \in Cols |-> s[<<r, c>>]])
ColTotal(s, rs, c) == SumFunctionOnSet([r \in Rows |-> s[<<r, c>>]], rs)

LEMMA Finite == IsFiniteSet(Rows) /\ IsFiniteSet(Cols)
                /\ Cardinality(Rows) = Height /\ Cardinality(Cols) = Width
<1>1. Height - 1 \in Int /\ Width - 1 \in Int /\ ~(0 > Height - 1) /\ ~(0 > Width - 1)
  BY SizeAssumption
<1>2. Height - 1 - 0 + 1 = Height /\ Width - 1 - 0 + 1 = Width
  BY SizeAssumption
<1> QED BY <1>1, <1>2, FS_Interval DEF Rows, Cols

LEMMA CellAt == ASSUME NEW p \in Cells PROVE p[1] \in Rows /\ p[2] \in Cols /\ p = <<p[1], p[2]>>
BY DEF Cells

LEMMA LongNat ==
  ASSUME NEW s \in Pictures, NEW r \in Rows, NEW c \in Cols
  PROVE  s[<<r, c>>] \in Nat /\ s[<<r, c>>] \in Values
<1>1. <<r, c>> \in Cells
  BY DEF Cells
<1>2. s[<<r, c>>] \in Values
  BY <1>1 DEF Pictures
<1>3. \A v \in Values : v \in Nat
  <2>1. Values \subseteq 0 .. HashMod - 1
    BY ValueAssumption
  <2> QED BY <2>1
<1> QED BY <1>2, <1>3

LEMMA TotalsNat ==
  ASSUME NEW s \in Pictures
  PROVE  /\ \A r \in Rows : RowTotal(s, r) \in Nat
         /\ \A c \in Cols : \A rs \in SUBSET Rows : ColTotal(s, rs, c) \in Nat
<1>1. ASSUME NEW r \in Rows PROVE RowTotal(s, r) \in Nat
  <2> DEFINE f == [c \in Cols |-> s[<<r, c>>]]
  <2>1. \A c \in Cols : f[c] \in Nat
    BY LongNat
  <2>2. DOMAIN f = Cols
    OBVIOUS
  <2> HIDE DEF f
  <2>3. SumFunctionOnSet(f, Cols) \in Nat
    BY <2>1, Finite, TotalNat
  <2> QED BY <2>2, <2>3 DEF RowTotal, SumFunction, f
<1>2. ASSUME NEW c \in Cols, NEW rs \in SUBSET Rows PROVE ColTotal(s, rs, c) \in Nat
  <2> DEFINE f == [r \in Rows |-> s[<<r, c>>]]
  <2>1. \A r \in Rows : f[r] \in Nat
    BY LongNat
  <2> HIDE DEF f
  <2>2. SumFunctionOnSet(f, rs) \in Nat
    BY <2>1, Finite, TotalNat
  <2> QED BY <2>2 DEF ColTotal, f
<1> QED BY <1>1, <1>2

\* Sums do not change where the picture does not.
LEMMA RowAlike ==
  ASSUME NEW s \in Pictures, NEW t \in Pictures, NEW r \in Rows,
         \A c \in Cols : s[<<r, c>>] = t[<<r, c>>]
  PROVE  RowTotal(s, r) = RowTotal(t, r)
<1>1. [c \in Cols |-> s[<<r, c>>]] = [c \in Cols |-> t[<<r, c>>]]
  OBVIOUS
<1> QED BY <1>1 DEF RowTotal

LEMMA ColAlike ==
  ASSUME NEW s \in Pictures, NEW t \in Pictures, NEW c \in Cols, NEW rs \in SUBSET Rows,
         \A r \in rs : s[<<r, c>>] = t[<<r, c>>]
  PROVE  ColTotal(s, rs, c) = ColTotal(t, rs, c)
<1> DEFINE f == [r \in Rows |-> s[<<r, c>>]]
           k == [r \in Rows |-> t[<<r, c>>]]
<1>1. \A r \in rs : f[r] = k[r]
  OBVIOUS
<1>2. IsFiniteSet(rs)
  BY Finite, FS_Subset
<1> HIDE DEF f, k
<1>3. SumFunctionOnSet(f, rs) = SumFunctionOnSet(k, rs)
  BY <1>1, <1>2, TotalSame
<1> QED BY <1>3 DEF ColTotal, f, k

\* The sum of a column grows by what a chunk of rows has in it.
LEMMA ColGrows ==
  ASSUME NEW s \in Pictures, NEW c \in Cols, NEW A \in SUBSET Rows, NEW B \in SUBSET Rows,
         A \cap B = {}
  PROVE  ColTotal(s, A \cup B, c) = ColTotal(s, A, c) + ColTotal(s, B, c)
<1> DEFINE f == [r \in Rows |-> s[<<r, c>>]]
<1>1. \A r \in Rows : f[r] \in Nat
  BY LongNat
<1> HIDE DEF f
<1>2. SumFunctionOnSet(f, A \cup B) = SumFunctionOnSet(f, A) + SumFunctionOnSet(f, B)
  BY <1>1, Finite, TotalUnion
<1> QED BY <1>2 DEF ColTotal, f

LEMMA ColEmpty == ASSUME NEW s, NEW c PROVE ColTotal(s, {}, c) = 0
BY SumRest, FS_EmptySet DEF ColTotal

\* Of two pictures the first is nowhere above the second.
NotAbove(s, t) == \A p \in Cells : s[p] <= t[p]

\* Sums tell changes: where one picture has grown into another, the sum of the row and the
\* sum of the column of a cell that is another one are other ones.
SumsTell ==
  \A s, t \in Pictures : NotAbove(s, t) =>
    \A p \in Cells : s[p] # t[p] =>
      /\ RowTotal(s, p[1]) % HashMod # RowTotal(t, p[1]) % HashMod
      /\ ColTotal(s, Rows, p[2]) % HashMod # ColTotal(t, Rows, p[2]) % HashMod

\* They do where no sum wraps around.
SumsFit == \A v \in Values : v * Width < HashMod /\ v * Height < HashMod

LEMMA LessSum ==
  ASSUME NEW U, IsFiniteSet(U), NEW f, NEW k, NEW y \in U, f[y] # k[y],
         \A x \in U : f[x] \in Values /\ k[x] \in Values /\ f[x] <= k[x],
         \A v \in Values : v * Cardinality(U) < HashMod
  PROVE  SumFunctionOnSet(f, U) % HashMod # SumFunctionOnSet(k, U) % HashMod
<1>0. \A v \in Values : v \in Nat /\ v \in 0 .. HashMod - 1
  <2>1. Values \subseteq 0 .. HashMod - 1
    BY ValueAssumption
  <2> QED BY <2>1
<1>1. \A x \in U : f[x] \in Nat /\ k[x] \in Nat /\ f[x] <= k[x]
  BY <1>0
<1>2. f[y] < k[y]
  BY <1>1
<1>3. SumFunctionOnSet(f, U) < SumFunctionOnSet(k, U)
  BY <1>1, <1>2, TotalLess
<1> DEFINE K == {k[x] : x \in U}
           m == Max(K)
<1>4. m \in K /\ \A z \in K : z <= m
  <2>1. HashMod - 1 \in Nat
    BY ValueAssumption
  <2>2. K \in SUBSET (0 .. HashMod - 1) /\ K # {}
    BY <1>0
  <2> HIDE DEF K
  <2> QED BY <2>1, <2>2, MaxFact
<1>5. m \in Values /\ m \in Nat
  BY <1>0, <1>4
<1>6. \A x \in U : k[x] \in 0 .. m
  BY <1>1, <1>4, <1>5
<1> HIDE DEF m
<1>7. SumFunctionOnSet(k, U) <= m * Cardinality(U)
  BY <1>5, <1>6, TotalBound
<1>8. /\ SumFunctionOnSet(f, U) \in Nat /\ SumFunctionOnSet(k, U) \in Nat
      /\ HashMod \in Nat \ {0} /\ m * Cardinality(U) \in Nat
  <2>1. Cardinality(U) \in Nat
    BY FS_CardinalityType
  <2> QED BY <1>1, <1>5, <2>1, TotalNat, ValueAssumption
<1>9. m * Cardinality(U) < HashMod
  BY <1>5
<1>10. SumFunctionOnSet(f, U) < HashMod /\ SumFunctionOnSet(k, U) < HashMod
  BY <1>3, <1>7, <1>8, <1>9
<1> QED BY <1>3, <1>8, <1>10, ModSmall

LEMMA SmallSumsTell == SumsFit => SumsTell
<1> SUFFICES ASSUME SumsFit, NEW s \in Pictures, NEW t \in Pictures, NotAbove(s, t),
                    NEW p \in Cells, s[p] # t[p]
             PROVE  /\ RowTotal(s, p[1]) % HashMod # RowTotal(t, p[1]) % HashMod
                    /\ ColTotal(s, Rows, p[2]) % HashMod # ColTotal(t, Rows, p[2]) % HashMod
  BY DEF SumsTell
<1> DEFINE r == p[1]
           c == p[2]
<1>1. r \in Rows /\ c \in Cols /\ p = <<r, c>>
  BY CellAt
<1> HIDE DEF r, c
<1>2. RowTotal(s, r) % HashMod # RowTotal(t, r) % HashMod
  <2> DEFINE f == [z \in Cols |-> s[<<r, z>>]]
             k == [z \in Cols |-> t[<<r, z>>]]
  <2>1. \A z \in Cols : f[z] \in Values /\ k[z] \in Values /\ f[z] <= k[z]
    <3>1. \A z \in Cols : <<r, z>> \in Cells
      BY <1>1 DEF Cells
    <3> QED BY <1>1, <3>1, LongNat DEF NotAbove
  <2>2. f[c] # k[c] /\ DOMAIN f = Cols /\ DOMAIN k = Cols
    BY <1>1
  <2>3. \A v \in Values : v * Cardinality(Cols) < HashMod
    BY Finite DEF SumsFit
  <2> HIDE DEF f, k
  <2>4. SumFunctionOnSet(f, Cols) % HashMod # SumFunctionOnSet(k, Cols) % HashMod
    BY <1>1, <2>1, <2>2, <2>3, Finite, LessSum
  <2>5. SumFunction(f) % HashMod # SumFunction(k) % HashMod
    BY <2>2, <2>4 DEF SumFunction
  <2> QED BY <2>5 DEF RowTotal, f, k
<1>3. ColTotal(s, Rows, c) % HashMod # ColTotal(t, Rows, c) % HashMod
  <2> DEFINE f == [z \in Rows |-> s[<<z, c>>]]
             k == [z \in Rows |-> t[<<z, c>>]]
  <2>1. \A z \in Rows : f[z] \in Values /\ k[z] \in Values /\ f[z] <= k[z]
    <3>1. \A z \in Rows : <<z, c>> \in Cells
      BY <1>1 DEF Cells
    <3> QED BY <1>1, <3>1, LongNat DEF NotAbove
  <2>2. f[r] # k[r]
    BY <1>1
  <2>3. \A v \in Values : v * Cardinality(Rows) < HashMod
    BY Finite DEF SumsFit
  <2> HIDE DEF f, k
  <2>4. SumFunctionOnSet(f, Rows) % HashMod # SumFunctionOnSet(k, Rows) % HashMod
    BY <1>1, <2>1, <2>2, <2>3, Finite, LessSum
  <2> QED BY <2>4 DEF ColTotal, f, k
<1> QED BY <1>2, <1>3 DEF r, c

----------------------------------------------------------------------------
(* Types.                                                                    *)

LEMMA HashOf == \A a \in Nat : a % HashMod \in Hash
BY ModRange, ValueAssumption DEF Hash

LEMMA OnScreen == ASSUME NEW r, Fits(r) PROVE CellsOf(r) \subseteq Cells
<1> USE SizeAssumption
<1>1. /\ r.x \in Nat /\ r.y \in Nat /\ r.w \in Nat /\ r.h \in Nat
      /\ r.x + r.w <= Width /\ r.y + r.h <= Height
  BY DEF Fits, Rects, Cols, Rows
<1>2. r.y .. r.y + r.h - 1 \subseteq Rows /\ r.x .. r.x + r.w - 1 \subseteq Cols
  BY <1>1 DEF Rows, Cols
<1> QED BY <1>2 DEF CellsOf, Cells

LEMMA SumsAreTotals ==
  /\ \A r : RowSum(r) = RowTotal(screen, r)
  /\ \A rs, c : ColumnSum(rs, c) = ColTotal(screen, rs, c)
BY DEF RowSum, ColumnSum, RowTotal, ColTotal

\* The rows that one interrupt adds up, and the first that it leaves.
LEMMA ChunkRows ==
  ASSUME row \in 0 .. Height, row < Height
  PROVE  LET end == Min({row + RowChunk, Height})
             rows == row .. end - 1 IN
         /\ end \in row + 1 .. Height /\ Max(rows) + 1 = end
         /\ rows \in SUBSET Rows
         /\ (0 .. row - 1) \cup rows = 0 .. end - 1 /\ (0 .. row - 1) \cap rows = {}
<1> DEFINE end == Min({row + RowChunk, Height})
           rows == row .. end - 1
<1>1. row + RowChunk \in Nat /\ Height \in Nat /\ row \in Nat /\ row + RowChunk > row
  BY SizeAssumption
<1>2. end = (IF row + RowChunk <= Height THEN row + RowChunk ELSE Height)
  BY <1>1, MinMaxPair
<1> HIDE DEF end
<1>3. end \in row + 1 .. Height
  BY <1>1, <1>2
<1>4. rows \in SUBSET (0 .. Height) /\ end - 1 \in rows
  BY <1>1, <1>3
<1>5. Max(rows) \in rows /\ \A y \in rows : y <= Max(rows)
  <2> HIDE DEF rows
  <2> QED BY <1>1, <1>4, MaxFact
<1>6. Max(rows) + 1 = end
  <2> DEFINE mx == Max(rows)
  <2>1. mx \in row .. end - 1 /\ end - 1 <= mx
    BY <1>4, <1>5
  <2> HIDE DEF mx
  <2>2. mx + 1 = end
    BY <1>1, <1>3, <2>1
  <2> QED BY <2>2 DEF mx
<1>7. rows \in SUBSET Rows
  BY <1>1, <1>3 DEF Rows
<1>8. (0 .. row - 1) \cup rows = 0 .. end - 1 /\ (0 .. row - 1) \cap rows = {}
  BY <1>1, <1>3
<1> QED BY <1>3, <1>6, <1>7, <1>8 DEF end

HashTypes ==
  /\ rowHashPrev \in [Rows -> Hash] /\ rowHashNext \in [Rows -> Hash]
  /\ colHashPrev \in [Cols -> Hash] /\ colHashNext \in [Cols -> Hash]

FlagTypes ==
  callback \in BOOLEAN /\ queued \in BOOLEAN /\ connected \in BOOLEAN /\ fbUpdateInProgress \in BOOLEAN

LEMMA TypeParts ==
  TypeOK <=> /\ screen \in Pictures /\ shown \in [Cells -> Values \cup {Nothing}]
             /\ HashTypes /\ row \in 0 .. Height /\ Fits(dirtyRect) /\ FlagTypes
             /\ frame \subseteq Cells
BY DEF TypeOK, Pictures, HashTypes, FlagTypes, Fits, Rects

LEMMA TypeStep == ASSUME TypeOK, [Next]_vars PROVE TypeOK'
<1>0. /\ screen \in Pictures /\ shown \in [Cells -> Values \cup {Nothing}]
      /\ HashTypes /\ row \in 0 .. Height /\ Fits(dirtyRect) /\ FlagTypes
      /\ frame \subseteq Cells
  BY TypeParts
<1> SUFFICES /\ screen' \in Pictures /\ shown' \in [Cells -> Values \cup {Nothing}]
             /\ HashTypes' /\ row' \in 0 .. Height /\ Fits(dirtyRect') /\ FlagTypes'
             /\ frame' \subseteq Cells
  BY DEF TypeOK, Pictures, HashTypes, FlagTypes, Fits, Rects
<1>a. 0 \in Hash /\ [c \in Cols |-> 0] \in [Cols -> Hash] /\ 0 \in 0 .. Height
  BY ValueAssumption, SizeAssumption DEF Hash
<1>b. Fits(NoRect)
  BY SizeAssumption DEF Fits, Rects, NoRect, Cols, Rows
<1>c. Fits(UnionRect(ComputeDirty, dirtyRect))
  BY <1>0, DirtyFacts, UnionFacts
<1>1. CASE ComputeHashes
  <2> DEFINE end == Min({row + RowChunk, Height})
             rows == row .. end - 1
  <2>1. /\ rowHashNext' = [r \in Rows |-> IF r \in rows THEN RowSum(r) % HashMod ELSE rowHashNext[r]]
        /\ colHashNext' = [c \in Cols |-> (colHashNext[c] + ColumnSum(rows, c)) % HashMod]
        /\ row' = Max(rows) + 1 /\ row < Height
        /\ UNCHANGED <<screen, rowHashPrev, colHashPrev, dirtyRect, callback, queued, client>>
    BY <1>1 DEF ComputeHashes
  <2>2. end \in row + 1 .. Height /\ Max(rows) + 1 = end /\ rows \in SUBSET Rows
    BY <1>0, <2>1, ChunkRows
  <2> HIDE DEF end
  <2>3. \A r \in Rows : RowSum(r) % HashMod \in Hash
    BY <1>0, SumsAreTotals, TotalsNat, HashOf
  <2>4. \A c \in Cols : (colHashNext[c] + ColumnSum(rows, c)) % HashMod \in Hash
    <3> SUFFICES ASSUME NEW c \in Cols PROVE (colHashNext[c] + ColumnSum(rows, c)) % HashMod \in Hash
      OBVIOUS
    <3>1. ColumnSum(rows, c) \in Nat
      BY <1>0, <2>2, SumsAreTotals, TotalsNat
    <3>2. colHashNext[c] \in Nat
      BY <1>0 DEF HashTypes, Hash
    <3> QED BY <3>1, <3>2, HashOf
  <2>5. row' \in 0 .. Height
    BY <1>0, <2>1, <2>2
  <2>6. HashTypes'
    BY <1>0, <2>1, <2>3, <2>4 DEF HashTypes
  <2> QED BY <1>0, <2>1, <2>5, <2>6 DEF FlagTypes, client
<1>2. CASE Restart
  BY <1>0, <1>2, <1>a, <1>c DEF Restart, HashTypes, FlagTypes, client
<1>3. CASE Report
  <2>1. CellsOf(UnionRect(ComputeDirty, dirtyRect)) \subseteq Cells
    BY <1>c, OnScreen
  <2>2. frame' \subseteq Cells /\ fbUpdateInProgress' \in BOOLEAN
    BY <1>0, <1>3, <2>1 DEF Report, FlagTypes
  <2>3. HashTypes' /\ FlagTypes'
    BY <1>0, <1>3, <2>2 DEF Report, HashTypes, FlagTypes
  <2> QED BY <1>0, <1>3, <1>b, <2>2, <2>3 DEF Report
<1>4. CASE RequestDirtyRect
  BY <1>0, <1>4, <1>a DEF RequestDirtyRect, BeginCompute, HashTypes, FlagTypes, client
<1>5. CASE FullFrame
  BY <1>0, <1>5 DEF FullFrame, HashTypes, FlagTypes, hashes
<1>6. CASE SendRow
  <2>1. shown' \in [Cells -> Values \cup {Nothing}]
    BY <1>0, <1>6 DEF SendRow, Pictures
  <2> QED BY <1>0, <1>6, <2>1 DEF SendRow, HashTypes, FlagTypes, hashes
<1>7. CASE FinishFBUpdate
  BY <1>0, <1>7 DEF FinishFBUpdate, HashTypes, FlagTypes, hashes
<1>8. CASE Disconnect
  BY <1>0, <1>8 DEF Disconnect, HashTypes, FlagTypes, hashes
<1>9. CASE \E p \in Cells, v \in Values : Draw(p, v)
  BY <1>0, <1>9 DEF Draw, HashTypes, FlagTypes, hashes, client, Pictures
<1>10. CASE UNCHANGED vars
  BY <1>0, <1>10 DEF vars, HashTypes, FlagTypes, hashes, client
<1> QED BY <1>1, <1>2, <1>3, <1>4, <1>5, <1>6, <1>7, <1>8, <1>9, <1>10 DEF Next, VBLTask, Frame

LEMMA InitTypes == Init => TypeOK
<1> SUFFICES ASSUME Init PROVE TypeOK
  OBVIOUS
<1>1. Garbage \subseteq Hash /\ 0 \in Hash /\ 0 \in Values
  BY ValueAssumption DEF Hash
<1>2. Fits(NoRect)
  BY SizeAssumption DEF Fits, Rects, NoRect, Cols, Rows
<1>3. screen \in Pictures /\ shown \in [Cells -> Values \cup {Nothing}]
  BY <1>1 DEF Init, Pictures
<1>4. HashTypes
  BY <1>1 DEF Init, HashTypes
<1>5. row \in 0 .. Height /\ FlagTypes
  <2>1. row = 0 /\ callback = FALSE /\ queued = TRUE /\ connected = FALSE /\ fbUpdateInProgress = FALSE
    BY Zenon DEF Init
  <2>2. 0 \in 0 .. Height
    BY SizeAssumption
  <2> QED BY <2>1, <2>2 DEF FlagTypes
<1>6. Fits(dirtyRect) /\ frame \subseteq Cells
  BY <1>2 DEF Init
<1> QED BY <1>3, <1>4, <1>5, <1>6, TypeParts

\* The variables hold values of their types, for screens of any size: in particular every
\* rectangle of changes lies on the screen (VNCScreenHash.cpp:139-157 and 346-385).
THEOREM ScreenTypes == Spec => []TypeOK
<1>1. TypeOK /\ [Next]_vars => TypeOK'
  BY TypeStep
<1> QED BY <1>1, InitTypes, PTL DEF Spec

----------------------------------------------------------------------------
(* No change is forgotten.                                                   *)

\* The queue, the session and the frames.
QueueInv ==
  /\ callback => queued
  /\ connected /\ queued => callback /\ ~fbUpdateInProgress
  /\ ~fbUpdateInProgress => frame = {}

\* The sweep that setup asked for is compared with whatever memory held.
SetupSweep == queued /\ ~callback /\ ~connected /\ Empty(dirtyRect)

\* The sums of the last sweep are those of prev: every cell as it was when the sweep came by.
PrevTells(prev) ==
  /\ \A r \in Rows : rowHashPrev[r] = RowTotal(prev, r) % HashMod
  /\ \A c \in Cols : colHashPrev[c] = ColTotal(prev, Rows, c) % HashMod
  /\ NotAbove(prev, screen)

\* The sums of this sweep are, as far as it has come, those of next.
NextTells(next) ==
  /\ \A r \in Rows : r < row => rowHashNext[r] = RowTotal(next, r) % HashMod
  /\ \A c \in Cols : colHashNext[c] = ColTotal(next, 0 .. row - 1, c) % HashMod
  /\ \A p \in Cells : p[1] < row => next[p] <= screen[p]

SweepGrows(prev, next) == \A p \in Cells : p[1] < row => prev[p] <= next[p]

\* What the client sees is not older than the last sweep, where nothing is under way.
SeenSince(prev) ==
  \A p \in Cells :
    \/ p \in frame
    \/ p \in CellsOf(dirtyRect)
    \/ prev[p] <= shown[p] /\ shown[p] <= screen[p]

PictureInv(prev, next) ==
  /\ SetupSweep \/ PrevTells(prev)
  /\ queued => NextTells(next)
  /\ queued => SetupSweep \/ SweepGrows(prev, next)
  /\ connected => SeenSince(prev)

SweepInv ==
  /\ TypeOK
  /\ QueueInv
  /\ \E prev \in Pictures, next \in Pictures : PictureInv(prev, next)

LEMMA QueueStep ==
  ASSUME TypeOK, QueueInv, FullFrameWhile \subseteq {"idle"}, [Next]_vars
  PROVE  QueueInv'
<1> USE DEF QueueInv
<1>0. /\ callback \in BOOLEAN /\ queued \in BOOLEAN /\ connected \in BOOLEAN
      /\ fbUpdateInProgress \in BOOLEAN
  BY DEF TypeOK
<1>1. CASE ComputeHashes
  BY <1>1 DEF ComputeHashes, client
<1>2. CASE Restart
  BY <1>2 DEF Restart, client
<1>3. CASE Report
  BY <1>0, <1>3 DEF Report
<1>4. CASE RequestDirtyRect
  BY <1>0, <1>4 DEF RequestDirtyRect, client
<1>5. CASE FullFrame
  <2>1. ~queued
    <3>1. Task = "idle"
      BY <1>5 DEF FullFrame
    <3> QED BY <3>1 DEF Task
  <2> QED BY <1>0, <1>5, <2>1 DEF FullFrame
<1>6. CASE SendRow
  BY <1>0, <1>6 DEF SendRow
<1>7. CASE FinishFBUpdate
  BY <1>0, <1>7 DEF FinishFBUpdate
<1>8. CASE Disconnect
  BY <1>0, <1>8 DEF Disconnect
<1>9. CASE \E p \in Cells, v \in Values : Draw(p, v)
  BY <1>9 DEF Draw, client
<1>10. CASE UNCHANGED vars
  BY <1>10 DEF vars, client
<1> QED BY <1>1, <1>2, <1>3, <1>4, <1>5, <1>6, <1>7, <1>8, <1>9, <1>10 DEF Next, VBLTask, Frame

\* Longs, as integers that can be compared.
LEMMA PictureNat == ASSUME NEW s \in Pictures, NEW p \in Cells PROVE s[p] \in Nat
<1>1. p[1] \in Rows /\ p[2] \in Cols /\ p = <<p[1], p[2]>>
  BY CellAt
<1> QED BY <1>1, LongNat

LEMMA NotAboveTrans ==
  ASSUME NEW s \in Pictures, NEW t \in Pictures, NEW u \in Pictures,
         NotAbove(s, t), NotAbove(t, u)
  PROVE  NotAbove(s, u)
<1>1. \A p \in Cells : s[p] \in Nat /\ t[p] \in Nat /\ u[p] \in Nat
  BY PictureNat
<1> QED BY <1>1 DEF NotAbove

\* When a sweep is done, its sums are those of a picture that the screen has passed.
LEMMA NextAtEnd ==
  ASSUME TypeOK, NEW next \in Pictures, NextTells(next), row = Height
  PROVE  /\ \A r \in Rows : rowHashNext[r] = RowTotal(next, r) % HashMod
         /\ \A c \in Cols : colHashNext[c] = ColTotal(next, Rows, c) % HashMod
         /\ NotAbove(next, screen)
<1>1. 0 .. row - 1 = Rows /\ \A r \in Rows : r < row
  BY SizeAssumption DEF Rows
<1>2. \A p \in Cells : p[1] < row
  BY <1>1, CellAt
<1> QED BY <1>1, <1>2 DEF NextTells, NotAbove

\* What was drawn between two sweeps is in the rectangle of the comparison.
LEMMA ChangesFound ==
  ASSUME TypeOK, SumsTell, NEW prev \in Pictures, NEW next \in Pictures, row = Height,
         PrevTells(prev), NextTells(next), SweepGrows(prev, next),
         NEW p \in Cells, prev[p] # next[p]
  PROVE  p \in CellsOf(ComputeDirty)
<1>1. p[1] \in Rows /\ p[2] \in Cols /\ p = <<p[1], p[2]>>
  BY CellAt
<1>2. NotAbove(prev, next)
  <2>1. \A q \in Cells : q[1] < row
    BY CellAt, SizeAssumption DEF Rows
  <2> QED BY <2>1 DEF SweepGrows, NotAbove
<1>3. /\ RowTotal(prev, p[1]) % HashMod # RowTotal(next, p[1]) % HashMod
      /\ ColTotal(prev, Rows, p[2]) % HashMod # ColTotal(next, Rows, p[2]) % HashMod
  BY <1>2 DEF SumsTell
<1>4. rowHashNext[p[1]] # rowHashPrev[p[1]] /\ colHashNext[p[2]] # colHashPrev[p[2]]
  BY <1>1, <1>3, NextAtEnd DEF PrevTells
<1> QED BY <1>1, <1>4, DirtyFacts

NowIs(now, next, rows) ==
  \A p \in Cells : now[p] = IF p[1] \in rows THEN screen[p] ELSE next[p]

\* One more chunk of rows is added up: next is, there, what is on the screen now.
LEMMA ChunkStep ==
  ASSUME TypeOK, NEW prev \in Pictures, NEW next \in Pictures, PictureInv(prev, next),
         ComputeHashes, NEW rows,
         rows = row .. Min({row + RowChunk, Height}) - 1,
         NEW now \in Pictures,
         NowIs(now, next, rows)
  PROVE  PictureInv(prev, now)'
<1> DEFINE end == Min({row + RowChunk, Height})
<1>0. /\ queued /\ row < Height /\ row \in Nat
      /\ screen \in Pictures /\ row \in 0 .. Height
      /\ NextTells(next) /\ HashTypes
  BY TypeParts, SizeAssumption DEF ComputeHashes, PictureInv
<1>1. /\ rowHashNext' = [r \in Rows |-> IF r \in rows THEN RowSum(r) % HashMod ELSE rowHashNext[r]]
      /\ colHashNext' = [c \in Cols |-> (colHashNext[c] + ColumnSum(rows, c)) % HashMod]
      /\ row' = Max(rows) + 1
      /\ UNCHANGED <<screen, rowHashPrev, colHashPrev, dirtyRect, callback, queued>>
      /\ UNCHANGED <<connected, shown, frame, fbUpdateInProgress>>
  BY DEF ComputeHashes, client
<1>2. /\ end \in row + 1 .. Height /\ Max(rows) + 1 = end /\ rows = row .. end - 1
      /\ rows \in SUBSET Rows
      /\ (0 .. row - 1) \cup rows = 0 .. end - 1 /\ (0 .. row - 1) \cap rows = {}
  BY <1>0, ChunkRows
<1> HIDE DEF end
<1>3. /\ row' = end /\ end \in Nat
      /\ \A r \in Rows : r \in rows <=> ~(r < row) /\ r < end
  <2>1. end \in Nat /\ Height \in Nat
    BY <1>0, <1>2, SizeAssumption
  <2>2. row' = end
    BY <1>1, <1>2
  <2>3. \A r \in Rows : r \in Nat
    BY DEF Rows
  <2>4. \A r \in Nat : r \in row .. end - 1 <=> ~(r < row) /\ r < end
    BY <1>0, <2>1
  <2> QED BY <1>2, <2>1, <2>2, <2>3, <2>4
<1>4. SetupSweep' <=> SetupSweep
  BY <1>1 DEF SetupSweep
<1>5. PrevTells(prev)' <=> PrevTells(prev)
  BY <1>1 DEF PrevTells, NotAbove
<1>6. \A r \in Rows, c \in Cols :
        now[<<r, c>>] = IF r \in rows THEN screen[<<r, c>>] ELSE next[<<r, c>>]
  <2>1. \A r \in Rows, c \in Cols : <<r, c>> \in Cells /\ <<r, c>>[1] = r
    BY DEF Cells
  <2> QED BY <2>1 DEF NowIs
<1>7. NextTells(now)'
  <2>1. ASSUME NEW r \in Rows, r < row'
        PROVE  rowHashNext'[r] = RowTotal(now, r) % HashMod
    <3>1. CASE r \in rows
      <4>1. RowTotal(now, r) = RowTotal(screen, r)
        BY <1>0, <1>6, <3>1, RowAlike
      <4> QED BY <1>1, <3>1, <4>1, SumsAreTotals
    <3>2. CASE r \notin rows
      <4>1. RowTotal(now, r) = RowTotal(next, r)
        BY <1>6, <3>2, RowAlike
      <4>2. r < row
        BY <1>3, <2>1, <3>2
      <4> QED BY <1>0, <1>1, <3>2, <4>1, <4>2 DEF NextTells
    <3> QED BY <3>1, <3>2
  <2>2. ASSUME NEW c \in Cols
        PROVE  colHashNext'[c] = ColTotal(now, 0 .. row' - 1, c) % HashMod
    <3> DEFINE before == 0 .. row - 1
    <3>1. before \in SUBSET Rows /\ before \cap rows = {} /\ before \cup rows = 0 .. row' - 1
      <4>1. row - 1 < Height - 1 /\ row - 1 \in Int /\ Height - 1 \in Int
        BY <1>0, SizeAssumption
      <4>2. before \in SUBSET Rows
        BY <4>1 DEF Rows
      <4> HIDE DEF before
      <4> QED BY <1>2, <1>3, <4>2 DEF before
    <3>2. colHashNext[c] = ColTotal(next, before, c) % HashMod
      BY <1>0 DEF NextTells
    <3> HIDE DEF before
    <3>3. ColTotal(now, before, c) = ColTotal(next, before, c)
      <4>1. \A r \in before : now[<<r, c>>] = next[<<r, c>>]
        BY <1>6, <3>1
      <4> QED BY <3>1, <4>1, ColAlike
    <3>4. ColTotal(now, rows, c) = ColTotal(screen, rows, c)
      <4>1. \A r \in rows : now[<<r, c>>] = screen[<<r, c>>]
        BY <1>2, <1>6
      <4>2. rows \in SUBSET Rows /\ screen \in Pictures
        BY <1>0, <1>2
      <4> QED BY <4>1, <4>2, ColAlike
    <3>5. ColTotal(now, 0 .. row' - 1, c) = ColTotal(now, before, c) + ColTotal(now, rows, c)
      <4>1. ColTotal(now, before \cup rows, c) = ColTotal(now, before, c) + ColTotal(now, rows, c)
        <5>1. rows \in SUBSET Rows
          BY <1>2
        <5> QED BY <3>1, <5>1, ColGrows
      <4> QED BY <3>1, <4>1
    <3>6. ColTotal(next, before, c) \in Nat /\ ColTotal(screen, rows, c) \in Nat
      BY <1>0, <1>2, <3>1, TotalsNat
    <3>7. ((ColTotal(next, before, c) % HashMod) + ColTotal(screen, rows, c)) % HashMod
            = (ColTotal(next, before, c) + ColTotal(screen, rows, c)) % HashMod
      BY <3>6, ModAdd, ValueAssumption
    <3>8. colHashNext'[c] = (colHashNext[c] + ColTotal(screen, rows, c)) % HashMod
      BY <1>1, SumsAreTotals
    <3> QED BY <3>2, <3>3, <3>4, <3>5, <3>7, <3>8
  <2>3. ASSUME NEW p \in Cells, p[1] < row'
        PROVE  now[p] <= screen'[p]
    <3>0. now[p] = IF p[1] \in rows THEN screen[p] ELSE next[p]
      BY DEF NowIs
    <3>1. p[1] \in Rows /\ screen[p] \in Nat
      BY <1>0, CellAt, PictureNat
    <3>2. CASE p[1] \in rows
      BY <1>1, <3>0, <3>1, <3>2
    <3>3. CASE p[1] \notin rows
      <4>1. p[1] < row
        BY <1>3, <2>3, <3>1, <3>3
      <4> QED BY <1>0, <1>1, <3>0, <3>3, <4>1 DEF NextTells
    <3> QED BY <3>2, <3>3
  <2> QED BY <2>1, <2>2, <2>3 DEF NextTells
<1>8. ~SetupSweep => SweepGrows(prev, now)'
  <2> SUFFICES ASSUME ~SetupSweep, NEW p \in Cells, p[1] < row' PROVE prev[p] <= now[p]
    BY DEF SweepGrows
  <2>1. p[1] \in Rows /\ now[p] = IF p[1] \in rows THEN screen[p] ELSE next[p]
    BY CellAt DEF NowIs
  <2>2. PrevTells(prev) /\ SweepGrows(prev, next)
    BY <1>0 DEF PictureInv
  <2>3. CASE p[1] \in rows
    BY <2>1, <2>2, <2>3 DEF PrevTells, NotAbove
  <2>4. CASE p[1] \notin rows
    <3>1. p[1] < row
      BY <1>3, <2>1, <2>4
    <3> QED BY <2>1, <2>2, <2>4, <3>1 DEF SweepGrows
  <2> QED BY <2>3, <2>4
<1>9. SeenSince(prev)' <=> SeenSince(prev)
  BY <1>1 DEF SeenSince
<1> QED BY <1>1, <1>4, <1>5, <1>7, <1>8, <1>9 DEF PictureInv

\* A sweep ends: what it has added up is what the next one is compared with.
LEMMA LastRowSwept ==
  ASSUME TypeOK, SumsTell, NEW prev \in Pictures, NEW next \in Pictures,
         PictureInv(prev, next), Restart \/ Report
  PROVE  /\ PrevTells(next)'
         /\ ~SetupSweep => SweepGrows(prev, next) /\ PrevTells(prev) /\ NextTells(next)
         /\ row = Height
         /\ \A p \in Cells :
              p \notin CellsOf(UnionRect(ComputeDirty, dirtyRect))
                => p \notin CellsOf(dirtyRect) /\ (SetupSweep \/ prev[p] = next[p])
<1>0. queued /\ row = Height /\ NextTells(next) /\ Fits(dirtyRect)
  BY TypeParts DEF Restart, Report, SweepDone, PictureInv
<1>1. /\ rowHashPrev' = rowHashNext /\ colHashPrev' = colHashNext
      /\ screen' = screen
  BY DEF Restart, Report
<1>2. PrevTells(next)'
  BY <1>0, <1>1, NextAtEnd DEF PrevTells, NotAbove
<1>3. ~SetupSweep => SweepGrows(prev, next) /\ PrevTells(prev)
  BY <1>0 DEF PictureInv
<1>4. CellsOf(ComputeDirty) \cup CellsOf(dirtyRect) \subseteq CellsOf(UnionRect(ComputeDirty, dirtyRect))
  BY <1>0, DirtyFacts, UnionFacts
<1>5. ASSUME ~SetupSweep, NEW p \in Cells, prev[p] # next[p]
      PROVE  p \in CellsOf(ComputeDirty)
  BY <1>0, <1>3, <1>5, ChangesFound
<1> QED BY <1>0, <1>2, <1>3, <1>4, <1>5

\* The comparison has nothing in it: another sweep begins, and what was next is previous.
LEMMA RestartStep ==
  ASSUME TypeOK, QueueInv, SumsTell, NEW prev \in Pictures, NEW next \in Pictures,
         PictureInv(prev, next), Restart
  PROVE  PictureInv(next, next)'
<1> DEFINE rect == UnionRect(ComputeDirty, dirtyRect)
<1>1. PrevTells(next)'
  BY LastRowSwept
<1>2. /\ row' = 0 /\ colHashNext' = [c \in Cols |-> 0] /\ dirtyRect' = rect
      /\ UNCHANGED <<screen, callback, queued>>
      /\ UNCHANGED <<connected, shown, frame, fbUpdateInProgress>>
  BY DEF Restart, client
<1>3. (\A r \in Rows : ~(r < row')) /\ (\A p \in Cells : ~(p[1] < row')) /\ 0 .. row' - 1 = {}
  BY <1>2, CellAt DEF Rows
<1>4. NextTells(next)'
  <2>1. \A c \in Cols : colHashNext'[c] = ColTotal(next, 0 .. row' - 1, c) % HashMod
    BY <1>2, <1>3, ColEmpty, ModSmall, ValueAssumption
  <2> QED BY <1>3, <2>1 DEF NextTells
<1>5. SweepGrows(next, next)'
  BY <1>3 DEF SweepGrows
<1>6. ASSUME connected
      PROVE  SeenSince(next)'
  <2>1. ~SetupSweep /\ SeenSince(prev)
    BY <1>6 DEF SetupSweep, PictureInv
  <2>2. \A p \in Cells : p \notin CellsOf(rect) => p \notin CellsOf(dirtyRect) /\ prev[p] = next[p]
    BY <2>1, LastRowSwept
  <2> HIDE DEF rect
  <2> QED BY <1>2, <2>1, <2>2 DEF SeenSince
<1> QED BY <1>1, <1>2, <1>4, <1>5, <1>6 DEF PictureInv

\* What was found is reported, and becomes the frame of a client that waits for it.
LEMMA ReportStep ==
  ASSUME TypeOK, QueueInv, SumsTell, NEW prev \in Pictures, NEW next \in Pictures,
         PictureInv(prev, next), Report
  PROVE  PictureInv(next, next)'
<1> DEFINE rect == UnionRect(ComputeDirty, dirtyRect)
<1>1. PrevTells(next)'
  BY LastRowSwept
<1>2. queued' = FALSE /\ queued /\ UNCHANGED <<screen, connected, shown>>
  BY DEF Report, SweepDone
<1>3. ASSUME connected
      PROVE  SeenSince(next)'
  <2>1. ~SetupSweep /\ SeenSince(prev)
    BY <1>3 DEF SetupSweep, PictureInv
  <2>2. callback /\ ~fbUpdateInProgress /\ frame = {}
    BY <1>2, <1>3 DEF QueueInv
  <2>3. frame' = CellsOf(rect)
    BY <1>3, <2>2 DEF Report
  <2>4. \A p \in Cells : p \notin CellsOf(rect) => p \notin CellsOf(dirtyRect) /\ prev[p] = next[p]
    BY <2>1, LastRowSwept
  <2> HIDE DEF rect
  <2> QED BY <1>2, <2>1, <2>2, <2>3, <2>4 DEF SeenSince
<1> QED BY <1>1, <1>2, <1>3 DEF PictureInv

\* A client asks for a report: the sweep that was under way, if any, begins again.
LEMMA RequestStep ==
  ASSUME TypeOK, NEW prev \in Pictures, NEW next \in Pictures, PictureInv(prev, next),
         RequestDirtyRect
  PROVE  PictureInv(prev, next)'
<1>1. connected /\ PrevTells(prev) /\ SeenSince(prev)
  BY DEF RequestDirtyRect, PictureInv, SetupSweep
<1>2. /\ row' = 0 /\ colHashNext' = [c \in Cols |-> 0]
      /\ UNCHANGED <<screen, rowHashPrev, colHashPrev, rowHashNext, dirtyRect>>
      /\ UNCHANGED <<connected, shown, frame, fbUpdateInProgress>>
  BY DEF RequestDirtyRect, BeginCompute, client
<1>3. (\A r \in Rows : ~(r < row')) /\ (\A p \in Cells : ~(p[1] < row')) /\ 0 .. row' - 1 = {}
  BY <1>2, CellAt DEF Rows
<1>4. NextTells(next)'
  <2>1. \A c \in Cols : colHashNext'[c] = ColTotal(next, 0 .. row' - 1, c) % HashMod
    BY <1>2, <1>3, ColEmpty, ModSmall, ValueAssumption
  <2> QED BY <1>3, <2>1 DEF NextTells
<1>5. SweepGrows(prev, next)'
  BY <1>3 DEF SweepGrows
<1>6. PrevTells(prev)' /\ SeenSince(prev)'
  BY <1>1, <1>2 DEF PrevTells, SeenSince, NotAbove
<1> QED BY <1>4, <1>5, <1>6 DEF PictureInv

\* A session goes on, ends, or begins while the task is idle.
LEMMA SessionStep ==
  ASSUME TypeOK, QueueInv, FullFrameWhile \subseteq {"idle"},
         NEW prev \in Pictures, NEW next \in Pictures, PictureInv(prev, next),
         Frame \/ FullFrame \/ Disconnect
  PROVE  PictureInv(prev, next)'
<1>1. UNCHANGED <<screen, row, dirtyRect, callback, queued>> /\ UNCHANGED hashes
  BY DEF Frame, SendRow, FinishFBUpdate, FullFrame, Disconnect
<1>2. /\ PrevTells(prev)' <=> PrevTells(prev)
      /\ NextTells(next)' <=> NextTells(next)
      /\ SweepGrows(prev, next)' <=> SweepGrows(prev, next)
  BY <1>1 DEF PrevTells, NextTells, SweepGrows, NotAbove, hashes
<1>3. CASE SendRow
  <2>1. connected' = connected
    BY <1>3 DEF SendRow
  <2>2. ASSUME connected
        PROVE  SeenSince(prev)'
    <3>1. SeenSince(prev) /\ PrevTells(prev) /\ screen \in Pictures
      BY <2>2, TypeParts DEF PictureInv, SetupSweep
    <3> SUFFICES ASSUME NEW p \in Cells
                 PROVE  \/ p \in frame'
                        \/ p \in CellsOf(dirtyRect')
                        \/ prev[p] <= shown'[p] /\ shown'[p] <= screen'[p]
      BY DEF SeenSince
    <3> DEFINE sent == {q \in frame : \A z \in frame : q[1] <= z[1]}
    <3>2. shown'[p] = (IF p \in sent THEN screen[p] ELSE shown[p]) /\ frame' = frame \ sent
      BY <1>3 DEF SendRow
    <3>3. prev[p] <= screen[p] /\ screen[p] \in Nat
      BY <3>1, PictureNat DEF PrevTells, NotAbove
    <3> HIDE DEF sent
    <3>4. CASE p \in sent
      BY <1>1, <3>2, <3>3, <3>4
    <3>5. CASE p \notin sent
      BY <1>1, <3>1, <3>2, <3>5 DEF SeenSince
    <3> QED BY <3>4, <3>5
  <2>3. SetupSweep' <=> SetupSweep
    BY <1>1, <2>1 DEF SetupSweep
  <2> QED BY <1>1, <1>2, <2>1, <2>2, <2>3 DEF PictureInv
<1>4. CASE FinishFBUpdate
  <2>1. UNCHANGED <<connected, shown, frame>>
    BY <1>4 DEF FinishFBUpdate
  <2>2. SetupSweep' <=> SetupSweep
    BY <1>1, <2>1 DEF SetupSweep
  <2>3. SeenSince(prev)' <=> SeenSince(prev)
    BY <1>1, <2>1 DEF SeenSince
  <2> QED BY <1>1, <1>2, <2>1, <2>2, <2>3 DEF PictureInv
<1>5. CASE FullFrame
  <2>1. Task = "idle"
    BY <1>5 DEF FullFrame
  <2>2. ~queued
    BY <2>1 DEF Task
  <2>3. PrevTells(prev)' /\ ~queued'
    BY <1>1, <1>2, <2>2 DEF PictureInv, SetupSweep
  <2>4. SeenSince(prev)'
    BY <1>5 DEF FullFrame, SeenSince
  <2> QED BY <2>3, <2>4 DEF PictureInv
<1>6. CASE Disconnect
  <2>1. connected /\ ~connected'
    BY <1>6 DEF Disconnect
  <2>2. ~SetupSweep
    BY <2>1 DEF SetupSweep
  <2> QED BY <1>1, <1>2, <2>1, <2>2 DEF PictureInv
<1> QED BY <1>3, <1>4, <1>5, <1>6 DEF Frame

\* Longs only grow, and so stay above what the sweeps have seen.
LEMMA DrawStep ==
  ASSUME TypeOK, ~Erases, NEW prev \in Pictures, NEW next \in Pictures, PictureInv(prev, next),
         NEW q \in Cells, NEW v \in Values, Draw(q, v)
  PROVE  PictureInv(prev, next)'
<1>0. screen \in Pictures /\ screen' \in Pictures /\ shown \in [Cells -> Values \cup {Nothing}]
  BY TypeParts DEF Draw, Pictures
<1>1. /\ UNCHANGED <<row, dirtyRect, callback, queued>>
      /\ UNCHANGED <<rowHashPrev, colHashPrev, rowHashNext, colHashNext>>
      /\ UNCHANGED <<connected, shown, frame>>
      /\ v > screen[q] /\ screen' = [screen EXCEPT ![q] = v]
  BY DEF Draw, client, hashes
<1>2. \A p \in Cells : screen[p] \in Nat /\ screen'[p] \in Nat
  BY <1>0, PictureNat
<1>3. \A p \in Cells : screen[p] <= screen'[p]
  <2>1. \A p \in Cells : screen'[p] = IF p = q THEN v ELSE screen[p]
    BY <1>0, <1>1 DEF Pictures
  <2>2. v \in Nat
    BY <1>2, <2>1
  <2> QED BY <1>1, <1>2, <2>1, <2>2
<1>4. \A p \in Cells : shown[p] \in Int /\ prev[p] \in Nat /\ next[p] \in Nat
  <2>1. \A p \in Cells : shown[p] \in Values \cup {Nothing}
    BY <1>0
  <2>2. Values \subseteq Int /\ Nothing \in Int
    <3>1. Values \subseteq 0 .. HashMod - 1
      BY ValueAssumption
    <3> QED BY <3>1 DEF Nothing
  <2> QED BY <2>1, <2>2, PictureNat
<1>5. PrevTells(prev) => PrevTells(prev)'
  <2>1. NotAbove(prev, screen) => NotAbove(prev, screen)'
    BY <1>2, <1>3, <1>4 DEF NotAbove
  <2> QED BY <1>1, <2>1 DEF PrevTells
<1>6. NextTells(next) => NextTells(next)'
  BY <1>1, <1>2, <1>3, <1>4 DEF NextTells
<1>7. SeenSince(prev) => SeenSince(prev)'
  BY <1>1, <1>2, <1>3, <1>4 DEF SeenSince
<1>8. SetupSweep' <=> SetupSweep
  BY <1>1 DEF SetupSweep
<1>9. SweepGrows(prev, next)' <=> SweepGrows(prev, next)
  BY <1>1 DEF SweepGrows
<1> QED BY <1>1, <1>5, <1>6, <1>7, <1>8, <1>9 DEF PictureInv

LEMMA SweepStep ==
  ASSUME ~Erases, FullFrameWhile \subseteq {"idle"}, SumsTell, SweepInv, [Next]_vars
  PROVE  SweepInv'
<1>1. TypeOK /\ QueueInv
  BY DEF SweepInv
<1>2. PICK prev \in Pictures, next \in Pictures : PictureInv(prev, next)
  BY DEF SweepInv
<1>3. TypeOK' /\ QueueInv'
  BY <1>1, TypeStep, QueueStep
<1> SUFFICES \E s \in Pictures, t \in Pictures : PictureInv(s, t)'
  BY <1>3 DEF SweepInv
<1>4. CASE ComputeHashes
  <2>1. PICK rows : rows = row .. Min({row + RowChunk, Height}) - 1
    OBVIOUS
  <2>2. PICK now : now = [p \in Cells |-> IF p[1] \in rows THEN screen[p] ELSE next[p]]
    OBVIOUS
  <2>3. now \in Pictures /\ NowIs(now, next, rows)
    BY <1>1, <2>2, TypeParts DEF Pictures, NowIs
  <2>4. PictureInv(prev, now)'
    BY <1>1, <1>2, <1>4, <2>1, <2>3, ChunkStep
  <2> QED BY <2>3, <2>4
<1>5. CASE Restart
  BY <1>1, <1>2, <1>5, RestartStep
<1>6. CASE Report
  BY <1>1, <1>2, <1>6, ReportStep
<1>7. CASE RequestDirtyRect
  BY <1>1, <1>2, <1>7, RequestStep
<1>8. CASE Frame \/ FullFrame \/ Disconnect
  BY <1>1, <1>2, <1>8, SessionStep
<1>9. CASE \E p \in Cells, v \in Values : Draw(p, v)
  BY <1>1, <1>2, <1>9, DrawStep
<1>10. CASE UNCHANGED vars
  <2>1. PictureInv(prev, next)' <=> PictureInv(prev, next)
    BY <1>10 DEF PictureInv, PrevTells, NextTells, SweepGrows, SeenSince, SetupSweep, NotAbove,
                 vars, hashes, client
  <2> QED BY <1>2, <2>1
<1> QED BY <1>4, <1>5, <1>6, <1>7, <1>8, <1>9, <1>10 DEF Next, VBLTask

LEMMA InitSweep == Init => SweepInv
<1> SUFFICES ASSUME Init PROVE SweepInv
  OBVIOUS
<1>1. TypeOK
  BY InitTypes
<1>2. /\ callback = FALSE /\ queued = TRUE /\ connected = FALSE /\ frame = {}
      /\ row = 0 /\ dirtyRect = NoRect /\ colHashNext = [c \in Cols |-> 0]
  BY Zenon DEF Init
<1>3. QueueInv
  BY <1>2 DEF QueueInv
<1>4. screen \in Pictures
  BY <1>1, TypeParts
<1>5. SetupSweep
  BY <1>2 DEF SetupSweep, Empty, NoRect
<1>6. (\A r \in Rows : ~(r < row)) /\ (\A p \in Cells : ~(p[1] < row)) /\ 0 .. row - 1 = {}
  BY <1>2, CellAt DEF Rows
<1>7. NextTells(screen)
  <2>1. \A c \in Cols : colHashNext[c] = ColTotal(screen, 0 .. row - 1, c) % HashMod
    BY <1>2, <1>6, ColEmpty, ModSmall, ValueAssumption
  <2> QED BY <1>6, <2>1 DEF NextTells
<1>8. PictureInv(screen, screen)
  BY <1>2, <1>5, <1>7 DEF PictureInv
<1> QED BY <1>1, <1>3, <1>4, <1>8 DEF SweepInv

\* Where the picture of the client has fallen behind, the last sweep saw something older, and
\* both sums have changed since.
LEMMA SweepKnows ==
  ASSUME SumsTell, SweepInv
  PROVE  NoChangeForgotten
<1> SUFFICES ASSUME connected, NEW p \in Cells, shown[p] # screen[p],
                    p \notin frame, p \notin CellsOf(dirtyRect)
             PROVE  /\ rowHashPrev[p[1]] # RowSum(p[1]) % HashMod
                    /\ colHashPrev[p[2]] # ColumnSum(Rows, p[2]) % HashMod
  BY DEF NoChangeForgotten, Known
<1>1. PICK prev \in Pictures, next \in Pictures : PictureInv(prev, next)
  BY DEF SweepInv
<1>2. PrevTells(prev) /\ SeenSince(prev) /\ screen \in Pictures
  BY <1>1, TypeParts DEF PictureInv, SetupSweep, SweepInv
<1>3. prev[p] \in Nat /\ screen[p] \in Nat
  BY <1>2, PictureNat
<1>4. prev[p] # screen[p]
  <2>1. shown[p] \in Int
    <3>1. shown[p] \in Values \cup {Nothing} /\ Values \subseteq 0 .. HashMod - 1
      BY ValueAssumption DEF SweepInv, TypeOK
    <3>2. Values \subseteq Int
      BY <3>1
    <3>3. Nothing \in Int
      BY DEF Nothing
    <3> QED BY <3>1, <3>2, <3>3, Zenon
  <2>2. prev[p] <= shown[p] /\ shown[p] <= screen[p]
    BY <1>2 DEF SeenSince
  <2> QED BY <1>3, <2>1, <2>2
<1>5. /\ RowTotal(prev, p[1]) % HashMod # RowTotal(screen, p[1]) % HashMod
      /\ ColTotal(prev, Rows, p[2]) % HashMod # ColTotal(screen, Rows, p[2]) % HashMod
  BY <1>2, <1>4 DEF SumsTell, PrevTells
<1>6. p[1] \in Rows /\ p[2] \in Cols
  BY CellAt
<1> QED BY <1>2, <1>5, <1>6, SumsAreTotals DEF PrevTells

\* No change of the screen is forgotten (VNCServer.cpp:1033, VNCScreenHash.cpp:346-425), for
\* screens of any size and any number of rows in an interrupt, wherever the drawing falls
\* between them, given that sums tell changes and that no full frame begins while a sweep is
\* under way.
THEOREM NoneForgotten ==
  ASSUME ~Erases, FullFrameWhile \subseteq {"idle"}, SumsTell
  PROVE  Spec => []NoChangeForgotten
<1>1. SweepInv /\ [Next]_vars => SweepInv'
  BY SweepStep
<1>2. SweepInv => NoChangeForgotten
  BY SweepKnows
<1> QED BY <1>1, <1>2, InitSweep, PTL DEF Spec

\* In particular where longs only grow and no sum of a row or of a column wraps around.
COROLLARY NoneForgottenInSmall ==
  ASSUME ~Erases, FullFrameWhile \subseteq {"idle"}, SumsFit
  PROVE  Spec => []NoChangeForgotten
BY SmallSumsTell, NoneForgotten

----------------------------------------------------------------------------
(* The routines of ScreenSums.                                               *)

\* A quotient, and a remainder of any integer.
LEMMA DivIs ==
  ASSUME NEW m \in Nat \ {0}, NEW z \in Nat, NEW t \in 0 .. m - 1
  PROVE  (z * m + t) \div m = z /\ (z * m + t) % m = t
<1> DEFINE n == m * z + t
           q == n \div m
<1>1. n % m = t
  BY ModIs
<1>2. n \in Nat /\ n = z * m + t
  OBVIOUS
<1>3. n = m * q + (n % m) /\ q \in Nat
  BY <1>2
<1>4. m * q = m * z
  <2>1. m * q \in Nat /\ m * z \in Nat
    BY <1>3
  <2> QED BY <1>1, <1>3, <2>1 DEF n
<1> HIDE DEF n, q
<1>5. ASSUME q < z PROVE FALSE
  <2>1. PICK d \in Nat : z = q + d + 1
    <3>1. z - q - 1 \in Nat
      BY <1>3, <1>5
    <3> QED BY <1>3, <3>1
  <2>2. m * z = m * q + m * d + m
    BY <1>3, <2>1
  <2>3. m * d \in Nat /\ m * q \in Nat
    BY <1>3, <2>1
  <2> QED BY <1>4, <2>2, <2>3
<1>6. ASSUME q > z PROVE FALSE
  <2>1. PICK d \in Nat : q = z + d + 1
    <3>1. q - z - 1 \in Nat
      BY <1>3, <1>6
    <3> QED BY <1>3, <3>1
  <2>2. m * q = m * z + m * d + m
    BY <2>1
  <2>3. m * d \in Nat /\ m * z \in Nat
    BY <2>1
  <2> QED BY <1>4, <2>2, <2>3
<1>7. q = z
  BY <1>3, <1>5, <1>6
<1>8. n \div m = z
  BY <1>7 DEF q
<1> QED BY <1>1, <1>2, <1>8, Zenon

LEMMA ModDiffers ==
  ASSUME NEW a \in Int, NEW b \in Int, NEW m \in Nat \ {0},
         a % m = b % m, a - b < m, b - a < m
  PROVE  a = b
<1> DEFINE k == a \div m
           l == b \div m
           r == a % m
<1>1. a = m * k + r /\ b = m * l + r /\ k \in Int /\ l \in Int /\ r \in 0 .. m - 1
  OBVIOUS
<1> HIDE DEF k, l, r
<1>2. CASE k = l
  BY <1>1, <1>2
<1>3. ASSUME NEW i \in Int, NEW j \in Int, i > j PROVE m * i - m * j >= m
  <2>1. PICK d \in Nat : i = j + d + 1
    <3>1. i - j - 1 \in Nat
      BY <1>3
    <3> QED BY <3>1
  <2>2. m * i = m * j + m * d + m
    BY <2>1
  <2>3. m * d \in Nat /\ m * j \in Int
    OBVIOUS
  <2> QED BY <2>2, <2>3
<1>4. m * k \in Int /\ m * l \in Int
  BY <1>1
<1>5. CASE k > l
  BY <1>1, <1>3, <1>4, <1>5
<1>6. CASE l > k
  BY <1>1, <1>3, <1>4, <1>6
<1> QED BY <1>1, <1>2, <1>5, <1>6

\* Sums that differ in one place differ by as much as that place.
LEMMA OneDiffers ==
  ASSUME NEW S, IsFiniteSet(S), NEW f \in [S -> Int], NEW k \in [S -> Int], NEW y \in S,
         \A x \in S : x # y => f[x] = k[x]
  PROVE  /\ SumFunction(f) \in Int /\ SumFunction(k) \in Int
         /\ SumFunction(k) - SumFunction(f) = k[y] - f[y]
<1>1. DOMAIN f = S /\ DOMAIN k = S
  OBVIOUS
<1>2. SumFunction(f) = SumFunctionOnSet(f, S) /\ SumFunction(k) = SumFunctionOnSet(k, S)
  BY <1>1 DEF SumFunction
<1>3. /\ SumFunctionOnSet(f, S) = f[y] + SumFunctionOnSet(f, S \ {y})
      /\ SumFunctionOnSet(k, S) = k[y] + SumFunctionOnSet(k, S \ {y})
  <2>1. \A x \in S : f[x] \in Int /\ k[x] \in Int
    OBVIOUS
  <2> QED BY <2>1, TotalTake
<1>4. SumFunctionOnSet(f, S \ {y}) = SumFunctionOnSet(k, S \ {y})
  <2>1. IsFiniteSet(S \ {y}) /\ \A x \in S \ {y} : f[x] = k[x]
    BY FS_RemoveElement
  <2> QED BY <2>1, TotalSame
<1>5. SumFunctionOnSet(f, S \ {y}) \in Int
  <2>1. \A x \in S : f[x] \in Int
    OBVIOUS
  <2> QED BY <2>1, TotalInt
<1>6. f[y] \in Int /\ k[y] \in Int
  OBVIOUS
<1> QED BY <1>2, <1>3, <1>4, <1>5, <1>6

LEMMA SumInt ==
  ASSUME NEW S, IsFiniteSet(S), NEW f \in [S -> Int]
  PROVE  SumFunction(f) \in Int
<1>1. DOMAIN f = S /\ \A x \in S : f[x] \in Int
  OBVIOUS
<1> QED BY <1>1, TotalInt DEF SumFunction

\* The words of a picture, and what a row and a column add up to over n of its lines.
Words == 0 .. (sumJob.stride * sumJob.height - 1)
SumPictures == [Words -> 0 .. (WordBase - 1)]
Stride == sumJob.stride

LongsOf(p, r)   == [c \in WholeLongs |-> LongAt(p, r * Stride + 2 * c)]
SinglesOf(p, r) == [w \in SingleWords |-> Extended(p[r * Stride + w])]
RowOf(p, r)     == (SumFunction(LongsOf(p, r)) + SumFunction(SinglesOf(p, r))) % LongBase

LongsDown(p, c) == [r \in SumRows |-> LongAt(p, r * Stride + 2 * c)]
WordsDown(p, x) == [r \in SumRows |-> p[r * Stride + x]]
HalfOf(p, x, n) == SumFunctionOnSet(WordsDown(p, x), 0 .. n - 1) % WordBase
ColOf(p, c, n)  ==
  IF c \in WholeLongs THEN SumFunctionOnSet(LongsDown(p, c), 0 .. n - 1) % LongBase
  ELSE HalfOf(p, 2 * c, n) * WordBase + HalfOf(p, 2 * c + 1, n)

LEMMA JobTypes ==
  ASSUME sumJob \in SumJobs
  PROVE  /\ Stride \in Nat \ {0} /\ Stride % 2 = 0 /\ sumJob.height \in Nat
         /\ sumJob.before \in SumPictures /\ sumJob.after \in SumPictures
         /\ WordBase \in Nat \ {0} /\ LongsAtOnce \in Nat \ {0}
         /\ LongBase \in Nat \ {0} /\ WordBase <= LongBase
         /\ sumJob.routine \in {"C", "fast"}
<1>1. WordBase \in Nat \ {0} /\ LongsAtOnce \in Nat \ {0}
  BY SumAssumption
<1>2. WordBase * WordBase \in Nat \ {0} /\ WordBase <= WordBase * WordBase
  <2>1. WordBase * WordBase = WordBase * (WordBase - 1) + WordBase /\ WordBase * (WordBase - 1) \in Nat
    BY <1>1
  <2> QED BY <1>1, <2>1
<1> QED BY <1>1, <1>2, SumAssumption DEF Stride, SumPictures, Words, LongBase

\* A line begins with whole longs, and ends with single words: in C with none.
LEMMA LineLayout ==
  ASSUME sumJob \in SumJobs
  PROVE  /\ \E k \in 0 .. (Stride \div 2) :
              WholeLongs = 0 .. k - 1 /\ SingleWords = (2 * k) .. (Stride - 1)
         /\ \A at \in Nat : LineEnds(at) = at + Stride
         /\ 2 * (Stride \div 2) = Stride
         /\ RestWords = 0 => WholeLongs = SumCols /\ SingleWords = {}
                             /\ SumCols = 0 .. ((Stride \div (2 * LongsAtOnce)) * LongsAtOnce - 1)
<1> DEFINE s == Stride
           m == 2 * LongsAtOnce
           q == s \div m
           t == s % m
           k == IF sumJob.routine = "C" THEN s \div 2 ELSE q * LongsAtOnce
<1>1. s \in Nat \ {0} /\ m \in Nat \ {0} /\ LongsAtOnce \in Nat \ {0} /\ s % 2 = 0
      /\ sumJob.routine \in {"C", "fast"}
  BY JobTypes
<1>2. s = 2 * (s \div 2) /\ s \div 2 \in Nat
  <2> HIDE DEF s
  <2> QED BY <1>1
<1>3. s = m * q + t /\ q \in Nat /\ t \in 0 .. m - 1
  <2> HIDE DEF s, m
  <2> QED BY <1>1
<1>4. m * q = 2 * (q * LongsAtOnce) /\ q * LongsAtOnce \in Nat
  <2> HIDE DEF q
  <2> QED BY <1>1, <1>3
<1>5. RestWords = t
  BY DEF RestWords, Stride
<1>6. k \in 0 .. (s \div 2)
  <2> HIDE DEF s, q, t, m
  <2> QED BY <1>2, <1>3, <1>4
<1>7. WholeLongs = 0 .. k - 1
  BY <1>1 DEF WholeLongs, SumCols, Stride
<1>8. Cardinality(WholeLongs) = k
  <2>1. Cardinality(0 .. k - 1) = k
    <3> HIDE DEF k
    <3>1. 0 \in Int /\ k - 1 \in Int /\ k \in Nat
      BY <1>2, <1>6
    <3>2. Cardinality(0 .. k - 1) = IF 0 > k - 1 THEN 0 ELSE k - 1 - 0 + 1
      BY <3>1, FS_Interval
    <3> QED BY <3>1, <3>2
  <2> QED BY <1>7, <2>1
<1>9. SingleWords = (2 * k) .. (s - 1)
  <2>1. CASE sumJob.routine = "C"
    <3>1. SingleWords = {} /\ k = s \div 2
      BY <2>1 DEF SingleWords
    <3>2. (2 * k) .. (s - 1) = {}
      <4> HIDE DEF s, k
      <4> QED BY <1>1, <1>2, <3>1
    <3> QED BY <3>1, <3>2
  <2>2. CASE sumJob.routine # "C"
    <3>1. SingleWords = (2 * k) .. (2 * k + t - 1) /\ k = q * LongsAtOnce
      <4> HIDE DEF s, t, k
      <4> QED BY <1>5, <1>8, <2>2 DEF SingleWords, k
    <3>2. 2 * k + t = s
      <4> HIDE DEF s, m, q, t, k
      <4> QED BY <1>1, <1>3, <1>4, <3>1
    <3>3. 2 * k + t - 1 = s - 1
      <4>1. k \in Nat /\ t \in Nat
        BY <1>2, <1>3, <1>6
      <4> HIDE DEF s, t, k
      <4> QED BY <1>1, <3>2, <4>1
    <3> QED BY <3>1, <3>3
  <2> QED BY <2>1, <2>2
<1>10. ASSUME NEW at \in Nat PROVE LineEnds(at) = at + s
  <2> HIDE DEF s, k
  <2>1. k \in Nat /\ 2 * k <= s /\ s \in Nat
    BY <1>1, <1>2, <1>6
  <2>2. Cardinality((2 * k) .. (s - 1)) = IF 2 * k > s - 1 THEN 0 ELSE s - 1 - (2 * k) + 1
    BY <2>1, FS_Interval
  <2>3. Cardinality((2 * k) .. (s - 1)) = s - 2 * k
    BY <2>1, <2>2
  <2> QED BY <1>8, <1>9, <2>1, <2>3 DEF LineEnds
<1>11. ASSUME RestWords = 0
       PROVE  /\ WholeLongs = SumCols /\ SingleWords = {}
              /\ SumCols = 0 .. ((Stride \div (2 * LongsAtOnce)) * LongsAtOnce - 1)
  <2>1. q * LongsAtOnce = s \div 2
    <3> HIDE DEF s, m, q, t
    <3> QED BY <1>1, <1>2, <1>3, <1>4, <1>5, <1>11
  <2>2. k = s \div 2
    BY <2>1
  <2>3. SumCols = 0 .. (q * LongsAtOnce - 1)
    BY <2>1 DEF SumCols, Stride
  <2>4. SumCols = 0 .. (k - 1)
    BY <2>2 DEF SumCols, Stride
  <2>5. (2 * k) .. (s - 1) = {}
    <3> HIDE DEF s, k
    <3> QED BY <1>1, <1>2, <2>2
  <2> QED BY <1>7, <1>9, <2>3, <2>4, <2>5
<1> QED BY <1>2, <1>6, <1>7, <1>9, <1>10, <1>11

LEMMA WordAt ==
  ASSUME sumJob \in SumJobs, NEW r \in SumRows, NEW x \in 0 .. Stride - 1
  PROVE  /\ r * Stride + x \in Words /\ (r * Stride + x) \div Stride = r
         /\ (r * Stride + x) % Stride = x
<1> DEFINE s == Stride
           h == sumJob.height
<1>1. s \in Nat \ {0} /\ h \in Nat /\ r \in 0 .. h - 1
  BY JobTypes DEF SumRows
<1>2. Words = 0 .. s * h - 1
  BY DEF Words, Stride
<1> HIDE DEF s, h
<1>3. PICK d \in Nat : h = r + d + 1
  <2>1. h - r - 1 \in Nat
    BY <1>1
  <2> QED BY <1>1, <2>1
<1>4. s * h = r * s + s * d + s /\ r * s \in Nat /\ s * d \in Nat
  BY <1>1, <1>3
<1>5. r * s + x \in 0 .. s * h - 1
  BY <1>1, <1>4 DEF s
<1>6. (r * s + x) \div s = r /\ (r * s + x) % s = x
  BY <1>1, DivIs DEF s
<1> QED BY <1>2, <1>5, <1>6 DEF s

LEMMA WordParts ==
  ASSUME sumJob \in SumJobs, NEW w \in Words
  PROVE  /\ w \div Stride \in SumRows /\ w % Stride \in 0 .. Stride - 1
         /\ w = (w \div Stride) * Stride + (w % Stride)
<1> DEFINE s == Stride
           h == sumJob.height
           r == w \div s
           x == w % s
<1>1. s \in Nat \ {0} /\ h \in Nat
  BY JobTypes
<1>2. w \in 0 .. s * h - 1
  BY DEF Words, Stride
<1> HIDE DEF s, h
<1>3. w = s * r + x /\ r \in Nat /\ x \in 0 .. s - 1
  BY <1>1, <1>2
<1>4. r * s = s * r
  BY <1>1, <1>3
<1>5. r < h
  <2> SUFFICES ASSUME r >= h PROVE FALSE
    BY <1>1, <1>3
  <2> HIDE DEF r, x
  <2>1. PICK d \in Nat : r = h + d
    <3>1. r - h \in Nat
      BY <1>1, <1>3
    <3> QED BY <1>1, <1>3, <3>1
  <2>2. s * r = s * h + s * d /\ s * d \in Nat /\ s * h \in Nat
    BY <1>1, <2>1
  <2> QED BY <1>2, <1>3, <2>2
<1>6. r \in SumRows
  BY <1>1, <1>3, <1>5 DEF SumRows, h
<1>7. w = r * s + x
  BY <1>3, <1>4
<1> QED BY <1>3, <1>6, <1>7 DEF s

\* The types of what is added up.
LEMMA TermTypes ==
  ASSUME sumJob \in SumJobs, NEW p \in SumPictures
  PROVE  /\ \A r \in SumRows : \A x \in 0 .. Stride - 1 : p[r * Stride + x] \in 0 .. WordBase - 1
         /\ \A r \in SumRows : LongsOf(p, r) \in [WholeLongs -> Nat]
         /\ \A r \in SumRows : SinglesOf(p, r) \in [SingleWords -> Int]
         /\ \A c \in WholeLongs : LongsDown(p, c) \in [SumRows -> Nat]
         /\ \A x \in 0 .. Stride - 1 : WordsDown(p, x) \in [SumRows -> Nat]
         /\ \A c \in WholeLongs : 2 * c \in 0 .. Stride - 1 /\ 2 * c + 1 \in 0 .. Stride - 1
         /\ SingleWords \subseteq 0 .. Stride - 1 /\ WholeLongs \subseteq SumCols
         /\ IsFiniteSet(WholeLongs) /\ IsFiniteSet(SingleWords) /\ IsFiniteSet(SumRows)
<1>1. PICK k \in 0 .. (Stride \div 2) :
        WholeLongs = 0 .. k - 1 /\ SingleWords = (2 * k) .. (Stride - 1)
  BY LineLayout
<1>2. Stride \in Nat \ {0} /\ WordBase \in Nat \ {0} /\ Stride \div 2 \in Nat
      /\ 2 * (Stride \div 2) = Stride /\ sumJob.height \in Nat
  <2>1. 2 * (Stride \div 2) = Stride
    BY LineLayout
  <2>2. Stride \in Nat \ {0} /\ WordBase \in Nat \ {0} /\ sumJob.height \in Nat
    BY JobTypes
  <2>3. Stride \div 2 \in Nat
    BY <2>2
  <2> QED BY <2>1, <2>2, <2>3
<1>3. ASSUME NEW r \in SumRows, NEW x \in 0 .. Stride - 1
      PROVE  p[r * Stride + x] \in 0 .. WordBase - 1
  <2>1. r * Stride + x \in Words
    BY <1>3, WordAt
  <2> QED BY <2>1 DEF SumPictures
<1>0. k \in Nat /\ k <= Stride \div 2
  BY <1>2
<1>4. \A c \in WholeLongs : c \in Nat /\ 2 * c \in 0 .. Stride - 1 /\ 2 * c + 1 \in 0 .. Stride - 1
  <2> DEFINE half == Stride \div 2
  <2> HIDE DEF half
  <2>1. k <= half /\ half \in Nat /\ 2 * half = Stride
    BY <1>0, <1>2 DEF half
  <2> QED BY <1>0, <1>1, <1>2, <2>1
<1>5. SingleWords \subseteq 0 .. Stride - 1
  BY <1>0, <1>1, <1>2
<1>6. WholeLongs \subseteq SumCols
  BY <1>0, <1>1, <1>2 DEF SumCols, Stride
<1>7. ASSUME NEW r \in SumRows, NEW c \in WholeLongs
      PROVE  LongAt(p, r * Stride + 2 * c) \in Nat
  <2>1. p[r * Stride + 2 * c] \in Nat /\ p[r * Stride + (2 * c + 1)] \in Nat
    BY <1>2, <1>3, <1>4
  <2>2. r * Stride + 2 * c + 1 = r * Stride + (2 * c + 1)
    <3>1. r * Stride \in Int
      BY <1>2 DEF SumRows
    <3> QED BY <1>4, <3>1
  <2>3. p[r * Stride + 2 * c] * WordBase \in Nat
    BY <1>2, <2>1
  <2> QED BY <2>1, <2>2, <2>3 DEF LongAt
<1>8. ASSUME NEW a \in 0 .. WordBase - 1 PROVE Extended(a) \in Int
  BY <1>2 DEF Extended
<1>9. IsFiniteSet(WholeLongs) /\ IsFiniteSet(SingleWords) /\ IsFiniteSet(SumRows)
  <2>1. 0 \in Int /\ k - 1 \in Int /\ 2 * k \in Int /\ Stride - 1 \in Int /\ sumJob.height - 1 \in Int
    BY <1>2
  <2> QED BY <1>1, <2>1, FS_Interval DEF SumRows
<1>10. \A r \in SumRows : LongsOf(p, r) \in [WholeLongs -> Nat]
  BY <1>7 DEF LongsOf
<1>11. \A r \in SumRows : SinglesOf(p, r) \in [SingleWords -> Int]
  BY <1>3, <1>5, <1>8 DEF SinglesOf
<1>12. \A c \in WholeLongs : LongsDown(p, c) \in [SumRows -> Nat]
  BY <1>7 DEF LongsDown
<1>13. \A x \in 0 .. Stride - 1 : WordsDown(p, x) \in [SumRows -> Nat]
  <2>1. \A a \in 0 .. WordBase - 1 : a \in Nat
    OBVIOUS
  <2> QED BY <1>3, <2>1 DEF WordsDown
<1> QED BY <1>3, <1>4, <1>5, <1>6, <1>9, <1>10, <1>11, <1>12, <1>13

\* Where a row, or the two words of a column, are the same, so is the sum.
LEMMA RowSame ==
  ASSUME sumJob \in SumJobs, NEW p, NEW q, NEW r,
         \A x \in 0 .. Stride - 1 : p[r * Stride + x] = q[r * Stride + x], r \in SumRows
  PROVE  RowOf(p, r) = RowOf(q, r)
<1>1. sumJob.before \in SumPictures
  BY JobTypes
<1>2. /\ \A c \in WholeLongs : 2 * c \in 0 .. Stride - 1 /\ 2 * c + 1 \in 0 .. Stride - 1
      /\ SingleWords \subseteq 0 .. Stride - 1 /\ WholeLongs \subseteq SumCols
  BY <1>1, TermTypes
<1>3. \A c \in WholeLongs : LongAt(p, r * Stride + 2 * c) = LongAt(q, r * Stride + 2 * c)
  <2> SUFFICES ASSUME NEW c \in WholeLongs
               PROVE  LongAt(p, r * Stride + 2 * c) = LongAt(q, r * Stride + 2 * c)
    OBVIOUS
  <2>1. r * Stride + 2 * c + 1 = r * Stride + (2 * c + 1)
    <3>1. r * Stride \in Int /\ c \in Int
      BY <1>2, JobTypes DEF SumRows, SumCols
    <3> QED BY <3>1
  <2>2. /\ p[r * Stride + 2 * c] = q[r * Stride + 2 * c]
        /\ p[r * Stride + (2 * c + 1)] = q[r * Stride + (2 * c + 1)]
    BY <1>2
  <2> QED BY <2>1, <2>2 DEF LongAt
<1>4. LongsOf(p, r) = LongsOf(q, r)
  BY <1>3 DEF LongsOf
<1>5. SinglesOf(p, r) = SinglesOf(q, r)
  BY <1>2 DEF SinglesOf
<1> QED BY <1>4, <1>5 DEF RowOf

LEMMA ColSame ==
  ASSUME sumJob \in SumJobs, NEW p, NEW q, NEW c \in SumCols, NEW n,
         \A r \in SumRows : /\ p[r * Stride + 2 * c] = q[r * Stride + 2 * c]
                            /\ p[r * Stride + (2 * c + 1)] = q[r * Stride + (2 * c + 1)]
  PROVE  ColOf(p, c, n) = ColOf(q, c, n)
<1>1. \A r \in SumRows : LongAt(p, r * Stride + 2 * c) = LongAt(q, r * Stride + 2 * c)
  <2> SUFFICES ASSUME NEW r \in SumRows
               PROVE  LongAt(p, r * Stride + 2 * c) = LongAt(q, r * Stride + 2 * c)
    OBVIOUS
  <2>1. r * Stride + 2 * c + 1 = r * Stride + (2 * c + 1)
    <3>1. r * Stride \in Int /\ c \in Int
      BY JobTypes DEF SumRows, SumCols
    <3> QED BY <3>1
  <2> QED BY <2>1 DEF LongAt
<1>2. LongsDown(p, c) = LongsDown(q, c)
  BY <1>1 DEF LongsDown
<1>3. WordsDown(p, 2 * c) = WordsDown(q, 2 * c)
  BY DEF WordsDown
<1>4. WordsDown(p, 2 * c + 1) = WordsDown(q, 2 * c + 1)
  BY DEF WordsDown
<1> QED BY <1>2, <1>3, <1>4 DEF ColOf, HalfOf

Near(a, b, m) == a # b /\ a - b < m /\ b - a < m

\* A long that has one word changed, and a word whose sign is extended, are near what they
\* have been.
LEMMA LongNear ==
  ASSUME NEW W \in Nat \ {0}, NEW a \in 0 .. W - 1, NEW b \in 0 .. W - 1, NEW t \in 0 .. W - 1,
         a # b
  PROVE  Near(a * W + t, b * W + t, W * W) /\ Near(t * W + a, t * W + b, W * W)
<1>1. \A i, j \in 0 .. W - 1 : i < j => i * W < j * W /\ j * W - i * W < W * W
  <2> SUFFICES ASSUME NEW i \in 0 .. W - 1, NEW j \in 0 .. W - 1, i < j
               PROVE  i * W < j * W /\ j * W - i * W < W * W
    OBVIOUS
  <2>1. PICK d \in Nat : j = i + d + 1
    <3>1. j - i - 1 \in Nat
      OBVIOUS
    <3> QED BY <3>1
  <2>2. PICK e \in Nat : W = j + e + 1
    <3>1. W - j - 1 \in Nat
      OBVIOUS
    <3> QED BY <3>1
  <2>3. j * W = i * W + d * W + W /\ W * W = j * W + e * W + W
    BY <2>1, <2>2
  <2>4. i * W \in Nat /\ j * W \in Nat /\ d * W \in Nat /\ e * W \in Nat
    OBVIOUS
  <2> QED BY <2>3, <2>4
<1>2. a * W \in Nat /\ b * W \in Nat /\ t * W \in Nat /\ W * W \in Nat
  OBVIOUS
<1>3. a < b \/ b < a
  OBVIOUS
<1>4. Near(a * W + t, b * W + t, W * W)
  <2>1. a < b => a * W < b * W /\ b * W - a * W < W * W
    BY <1>1
  <2>2. b < a => b * W < a * W /\ a * W - b * W < W * W
    BY <1>1
  <2> QED BY <1>2, <1>3, <2>1, <2>2 DEF Near
<1>5. W <= W * W
  <2>1. W * W = W * (W - 1) + W /\ W * (W - 1) \in Nat
    OBVIOUS
  <2> QED BY <2>1
<1>6. Near(t * W + a, t * W + b, W * W)
  BY <1>2, <1>5 DEF Near
<1> QED BY <1>4, <1>6

LEMMA ExtendedNear ==
  ASSUME sumJob \in SumJobs, NEW a \in 0 .. WordBase - 1, NEW b \in 0 .. WordBase - 1, a # b
  PROVE  Extended(a) \in Int /\ Extended(b) \in Int /\ Near(Extended(a), Extended(b), LongBase)
<1>1. WordBase \in Nat \ {0} /\ LongBase \in Nat /\ WordBase <= LongBase
  BY JobTypes
<1>2. Near(Extended(a), Extended(b), WordBase) /\ Extended(a) \in Int /\ Extended(b) \in Int
  BY <1>1 DEF Near, Extended
<1> QED BY <1>1, <1>2 DEF Near

\* Sums that differ in one term, which is near, have different remainders.
LEMMA SumDiffers ==
  ASSUME NEW S, IsFiniteSet(S), NEW f \in [S -> Int], NEW k \in [S -> Int], NEW y \in S,
         NEW m \in Nat \ {0}, NEW rest \in Int,
         \A x \in S : x # y => f[x] = k[x], Near(f[y], k[y], m)
  PROVE  (SumFunction(f) + rest) % m # (SumFunction(k) + rest) % m
<1> DEFINE sf == SumFunction(f)
           sk == SumFunction(k)
           a == f[y]
           b == k[y]
<1>1. sf \in Int /\ sk \in Int /\ sk - sf = b - a
  BY OneDiffers
<1>2. a \in Int /\ b \in Int /\ Near(a, b, m)
  OBVIOUS
<1> HIDE DEF sf, sk, a, b
<1>3. (sf + rest) # (sk + rest) /\ (sf + rest) - (sk + rest) < m /\ (sk + rest) - (sf + rest) < m
  BY <1>1, <1>2 DEF Near
<1>4. sf + rest \in Int /\ sk + rest \in Int
  BY <1>1
<1>5. (sf + rest) % m # (sk + rest) % m
  BY <1>3, <1>4, ModDiffers
<1> QED BY <1>5 DEF sf, sk

LEMMA HalfCases ==
  ASSUME sumJob \in SumJobs, NEW x \in 0 .. Stride - 1
  PROVE  /\ x \div 2 \in SumCols /\ (x = 2 * (x \div 2) \/ x = 2 * (x \div 2) + 1)
         /\ x \in SingleWords <=> x \div 2 \notin WholeLongs
         /\ x \div 2 \notin WholeLongs =>
              2 * (x \div 2) \in SingleWords /\ 2 * (x \div 2) + 1 \in SingleWords
<1>1. PICK k \in 0 .. (Stride \div 2) :
        WholeLongs = 0 .. k - 1 /\ SingleWords = (2 * k) .. (Stride - 1)
  BY LineLayout
<1> DEFINE half == Stride \div 2
           c == x \div 2
<1>2. 2 * half = Stride /\ half \in Nat
  <2>1. Stride \in Nat
    BY JobTypes
  <2> QED BY <2>1, LineLayout
<1>3. k \in 0 .. half /\ x \in 0 .. 2 * half - 1
  BY <1>2
<1>4. SumCols = 0 .. half - 1
  BY DEF SumCols, Stride
<1>5. x \in Nat /\ c \in Nat /\ (x = 2 * c \/ x = 2 * c + 1)
  BY <1>3
<1> HIDE DEF half, c
<1>6. c \in 0 .. half - 1
  BY <1>2, <1>3, <1>5
<1>7. SingleWords = (2 * k) .. (2 * half - 1)
  BY <1>1, <1>2
<1>8. x \in SingleWords <=> c \notin WholeLongs
  BY <1>1, <1>2, <1>3, <1>5, <1>7
<1>9. c \notin WholeLongs => 2 * c \in SingleWords /\ 2 * c + 1 \in SingleWords
  BY <1>1, <1>2, <1>3, <1>5, <1>6, <1>7
<1> QED BY <1>4, <1>5, <1>6, <1>8, <1>9 DEF c

\* q is p but for the word x of the row r.
OneWord(p, q, r, x) ==
  /\ p \in SumPictures /\ q \in SumPictures /\ r \in SumRows /\ x \in 0 .. Stride - 1
  /\ p[r * Stride + x] # q[r * Stride + x]
  /\ \A w \in Words : w # r * Stride + x => p[w] = q[w]

LEMMA OtherPlaces ==
  ASSUME sumJob \in SumJobs, NEW p, NEW q, NEW r, NEW x, OneWord(p, q, r, x),
         NEW i \in SumRows, NEW y \in 0 .. Stride - 1, <<i, y>> # <<r, x>>
  PROVE  p[i * Stride + y] = q[i * Stride + y]
<1>1. r \in SumRows /\ x \in 0 .. Stride - 1
  BY DEF OneWord
<1>2. /\ (i * Stride + y) \div Stride = i /\ (i * Stride + y) % Stride = y
      /\ (r * Stride + x) \div Stride = r /\ (r * Stride + x) % Stride = x
      /\ i * Stride + y \in Words
  BY <1>1, WordAt
<1>3. i * Stride + y # r * Stride + x
  BY <1>2
<1> QED BY <1>2, <1>3 DEF OneWord

LEMMA WordPlaces ==
  ASSUME sumJob \in SumJobs, NEW r \in SumRows, NEW c \in SumCols
  PROVE  /\ r * Stride + 2 * c + 1 = r * Stride + (2 * c + 1) /\ c \in Nat
         /\ 2 * c \in 0 .. Stride - 1 /\ 2 * c + 1 \in 0 .. Stride - 1
<1>1. r * Stride \in Int /\ c \in Nat /\ Stride \in Nat
  BY JobTypes DEF SumRows, SumCols
<1>2. c \in 0 .. (Stride \div 2) - 1
  BY DEF SumCols, Stride
<1>3. 2 * (Stride \div 2) = Stride
  BY LineLayout
<1>4. Stride \div 2 \in Nat
  BY <1>1
<1> QED BY <1>1, <1>2, <1>3, <1>4

LEMMA LongDiffers ==
  ASSUME sumJob \in SumJobs, NEW p, NEW q, NEW r, NEW x, OneWord(p, q, r, x)
  PROVE  Near(LongAt(p, r * Stride + 2 * (x \div 2)), LongAt(q, r * Stride + 2 * (x \div 2)), LongBase)
<1> DEFINE c == x \div 2
           at == r * Stride
<1>1. r \in SumRows /\ x \in 0 .. Stride - 1 /\ p \in SumPictures /\ q \in SumPictures
      /\ p[at + x] # q[at + x]
  BY DEF OneWord
<1>2. c \in SumCols /\ (x = 2 * c \/ x = 2 * c + 1)
  BY <1>1, HalfCases
<1> HIDE DEF c
<1>3. at + 2 * c + 1 = at + (2 * c + 1) /\ c \in Nat /\ 2 * c \in 0 .. Stride - 1 /\ 2 * c + 1 \in 0 .. Stride - 1
  BY <1>1, <1>2, WordPlaces
<1>4. /\ p[at + 2 * c] \in 0 .. WordBase - 1 /\ p[at + (2 * c + 1)] \in 0 .. WordBase - 1
      /\ q[at + 2 * c] \in 0 .. WordBase - 1 /\ q[at + (2 * c + 1)] \in 0 .. WordBase - 1
  BY <1>1, <1>3, TermTypes
<1>5. WordBase \in Nat \ {0}
  BY JobTypes
<1>6. CASE x = 2 * c
  <2>1. p[at + (2 * c + 1)] = q[at + (2 * c + 1)]
    <3>1. <<r, 2 * c + 1>> # <<r, x>>
      BY <1>3, <1>6
    <3> QED BY <1>1, <1>3, <3>1, OtherPlaces
  <2>2. p[at + 2 * c] # q[at + 2 * c]
    BY <1>1, <1>6
  <2>3. Near(p[at + 2 * c] * WordBase + p[at + (2 * c + 1)],
             q[at + 2 * c] * WordBase + p[at + (2 * c + 1)], WordBase * WordBase)
    <3> HIDE DEF at
    <3> QED BY <1>4, <1>5, <2>2, LongNear
  <2> QED BY <1>3, <2>1, <2>3 DEF LongAt, LongBase, c
<1>7. CASE x = 2 * c + 1
  <2>1. p[at + 2 * c] = q[at + 2 * c]
    <3>1. <<r, 2 * c>> # <<r, x>>
      BY <1>3, <1>7
    <3> QED BY <1>1, <1>3, <3>1, OtherPlaces
  <2>2. p[at + (2 * c + 1)] # q[at + (2 * c + 1)]
    BY <1>1, <1>7
  <2>3. Near(p[at + 2 * c] * WordBase + p[at + (2 * c + 1)],
             p[at + 2 * c] * WordBase + q[at + (2 * c + 1)], WordBase * WordBase)
    <3> HIDE DEF at
    <3> QED BY <1>4, <1>5, <2>2, LongNear
  <2> QED BY <1>3, <2>1, <2>3 DEF LongAt, LongBase, c
<1> QED BY <1>2, <1>6, <1>7

\* The row of a word that is the only one to change has another sum.
LEMMA RowDiffers ==
  ASSUME sumJob \in SumJobs, NEW p, NEW q, NEW r, NEW x, OneWord(p, q, r, x)
  PROVE  RowOf(p, r) # RowOf(q, r)
<1> DEFINE c == x \div 2
<1>1. r \in SumRows /\ x \in 0 .. Stride - 1 /\ p \in SumPictures /\ q \in SumPictures
      /\ p[r * Stride + x] # q[r * Stride + x]
  BY DEF OneWord
<1>2. /\ IsFiniteSet(WholeLongs) /\ IsFiniteSet(SingleWords) /\ WholeLongs \subseteq SumCols
      /\ SingleWords \subseteq 0 .. Stride - 1
      /\ LongsOf(p, r) \in [WholeLongs -> Int] /\ LongsOf(q, r) \in [WholeLongs -> Int]
      /\ SinglesOf(p, r) \in [SingleWords -> Int] /\ SinglesOf(q, r) \in [SingleWords -> Int]
      /\ p[r * Stride + x] \in 0 .. WordBase - 1 /\ q[r * Stride + x] \in 0 .. WordBase - 1
  <2>1. LongsOf(p, r) \in [WholeLongs -> Nat] /\ LongsOf(q, r) \in [WholeLongs -> Nat]
    BY <1>1, TermTypes
  <2>2. LongsOf(p, r) \in [WholeLongs -> Int] /\ LongsOf(q, r) \in [WholeLongs -> Int]
    BY <2>1
  <2> QED BY <1>1, <2>2, TermTypes
<1>3. c \in SumCols /\ (x = 2 * c \/ x = 2 * c + 1) /\ (x \in SingleWords <=> c \notin WholeLongs)
  BY <1>1, HalfCases
<1>4. LongBase \in Nat \ {0}
  BY JobTypes
<1>5. CASE c \in WholeLongs
  <2>1. \A w \in SingleWords : p[r * Stride + w] = q[r * Stride + w]
    <3> SUFFICES ASSUME NEW w \in SingleWords PROVE p[r * Stride + w] = q[r * Stride + w]
      OBVIOUS
    <3>1. <<r, w>> # <<r, x>>
      BY <1>3, <1>5
    <3> QED BY <1>1, <1>2, <3>1, OtherPlaces
  <2>2. SinglesOf(p, r) = SinglesOf(q, r)
    BY <2>1 DEF SinglesOf
  <2>3. SumFunction(SinglesOf(p, r)) \in Int
    BY <1>2, SumInt
  <2>4. ASSUME NEW d \in WholeLongs, d # c
        PROVE  LongsOf(p, r)[d] = LongsOf(q, r)[d]
    <3>1. r * Stride + 2 * d + 1 = r * Stride + (2 * d + 1)
          /\ d \in Nat /\ 2 * d \in 0 .. Stride - 1 /\ 2 * d + 1 \in 0 .. Stride - 1
      BY <1>1, <1>2, WordPlaces
    <3>2. c \in Nat
      BY <1>1, <1>3, WordPlaces
    <3>3. <<r, 2 * d>> # <<r, x>> /\ <<r, 2 * d + 1>> # <<r, x>>
      <4> HIDE DEF c
      <4> QED BY <1>3, <2>4, <3>1, <3>2
    <3>4. p[r * Stride + 2 * d] = q[r * Stride + 2 * d]
      BY <1>1, <3>1, <3>3, OtherPlaces
    <3>5. p[r * Stride + (2 * d + 1)] = q[r * Stride + (2 * d + 1)]
      BY <1>1, <3>1, <3>3, OtherPlaces
    <3> QED BY <3>1, <3>4, <3>5 DEF LongsOf, LongAt
  <2>5. Near(LongsOf(p, r)[c], LongsOf(q, r)[c], LongBase)
    <3>1. Near(LongAt(p, r * Stride + 2 * c), LongAt(q, r * Stride + 2 * c), LongBase)
      BY LongDiffers
    <3> QED BY <1>5, <3>1 DEF LongsOf
  <2> HIDE DEF c
  <2>6. (SumFunction(LongsOf(p, r)) + SumFunction(SinglesOf(p, r))) % LongBase
        # (SumFunction(LongsOf(q, r)) + SumFunction(SinglesOf(p, r))) % LongBase
    BY <1>2, <1>4, <1>5, <2>3, <2>4, <2>5, SumDiffers
  <2> QED BY <2>2, <2>6 DEF RowOf
<1>6. CASE c \notin WholeLongs
  <2>1. ASSUME NEW d \in WholeLongs
        PROVE  LongAt(p, r * Stride + 2 * d) = LongAt(q, r * Stride + 2 * d)
    <3>1. r * Stride + 2 * d + 1 = r * Stride + (2 * d + 1)
          /\ d \in Nat /\ 2 * d \in 0 .. Stride - 1 /\ 2 * d + 1 \in 0 .. Stride - 1
      BY <1>1, <1>2, WordPlaces
    <3>2. c \in Nat /\ c # d
      BY <1>1, <1>3, <1>6, WordPlaces
    <3>3. <<r, 2 * d>> # <<r, x>> /\ <<r, 2 * d + 1>> # <<r, x>>
      <4> HIDE DEF c
      <4> QED BY <1>3, <3>1, <3>2
    <3>4. p[r * Stride + 2 * d] = q[r * Stride + 2 * d]
      BY <1>1, <3>1, <3>3, OtherPlaces
    <3>5. p[r * Stride + (2 * d + 1)] = q[r * Stride + (2 * d + 1)]
      BY <1>1, <3>1, <3>3, OtherPlaces
    <3> QED BY <3>1, <3>4, <3>5 DEF LongAt
  <2>2. LongsOf(p, r) = LongsOf(q, r)
    BY <2>1 DEF LongsOf
  <2>3. SumFunction(LongsOf(p, r)) \in Int
    BY <1>2, SumInt
  <2>4. ASSUME NEW w \in SingleWords, w # x
        PROVE  SinglesOf(p, r)[w] = SinglesOf(q, r)[w]
    <3>1. <<r, w>> # <<r, x>>
      BY <2>4
    <3>2. p[r * Stride + w] = q[r * Stride + w]
      BY <1>1, <1>2, <3>1, OtherPlaces
    <3> QED BY <3>2 DEF SinglesOf
  <2>5. x \in SingleWords
    BY <1>3, <1>6
  <2>6. Near(SinglesOf(p, r)[x], SinglesOf(q, r)[x], LongBase)
    <3>1. Near(Extended(p[r * Stride + x]), Extended(q[r * Stride + x]), LongBase)
      BY <1>1, <1>2, ExtendedNear
    <3> QED BY <2>5, <3>1 DEF SinglesOf
  <2> HIDE DEF c
  <2>7. (SumFunction(SinglesOf(p, r)) + SumFunction(LongsOf(p, r))) % LongBase
        # (SumFunction(SinglesOf(q, r)) + SumFunction(LongsOf(p, r))) % LongBase
    <3>1. \A w \in SingleWords : w # x => SinglesOf(p, r)[w] = SinglesOf(q, r)[w]
      BY <2>4
    <3> DEFINE f == SinglesOf(p, r)
               k == SinglesOf(q, r)
               rest == SumFunction(LongsOf(p, r))
    <3>2. /\ f \in [SingleWords -> Int] /\ k \in [SingleWords -> Int] /\ rest \in Int
          /\ \A w \in SingleWords : w # x => f[w] = k[w]
          /\ Near(f[x], k[x], LongBase)
      BY <1>2, <2>3, <2>6, <3>1
    <3>0. IsFiniteSet(SingleWords)
      BY <1>2
    <3> HIDE DEF f, k, rest
    <3>3. (SumFunction(f) + rest) % LongBase # (SumFunction(k) + rest) % LongBase
      BY <1>4, <2>5, <3>0, <3>2, SumDiffers
    <3> QED BY <3>3 DEF f, k, rest
  <2>8. SumFunction(SinglesOf(p, r)) \in Int /\ SumFunction(SinglesOf(q, r)) \in Int
    BY <1>2, SumInt
  <2>9. /\ SumFunction(SinglesOf(p, r)) + SumFunction(LongsOf(p, r))
             = SumFunction(LongsOf(p, r)) + SumFunction(SinglesOf(p, r))
        /\ SumFunction(SinglesOf(q, r)) + SumFunction(LongsOf(p, r))
             = SumFunction(LongsOf(p, r)) + SumFunction(SinglesOf(q, r))
    BY <2>3, <2>8
  <2> QED BY <2>2, <2>7, <2>9 DEF RowOf
<1> QED BY <1>5, <1>6

\* So has its column.
LEMMA ColDiffers ==
  ASSUME sumJob \in SumJobs, NEW p, NEW q, NEW r, NEW x, OneWord(p, q, r, x)
  PROVE  ColOf(p, x \div 2, sumJob.height) # ColOf(q, x \div 2, sumJob.height)
<1> DEFINE c == x \div 2
           n == sumJob.height
<1>1. r \in SumRows /\ x \in 0 .. Stride - 1 /\ p \in SumPictures /\ q \in SumPictures
      /\ p[r * Stride + x] # q[r * Stride + x]
  BY DEF OneWord
<1>2. c \in SumCols /\ (x = 2 * c \/ x = 2 * c + 1)
  BY <1>1, HalfCases
<1>3. LongBase \in Nat \ {0} /\ WordBase \in Nat \ {0} /\ IsFiniteSet(SumRows)
  BY <1>1, JobTypes, TermTypes
<1>4. 0 .. n - 1 = SumRows
  BY DEF SumRows
<1>5. c \in Nat /\ 2 * c \in 0 .. Stride - 1 /\ 2 * c + 1 \in 0 .. Stride - 1
  BY <1>1, <1>2, WordPlaces
<1>6. CASE c \in WholeLongs
  <2>1. LongsDown(p, c) \in [SumRows -> Int] /\ LongsDown(q, c) \in [SumRows -> Int]
    <3>1. LongsDown(p, c) \in [SumRows -> Nat] /\ LongsDown(q, c) \in [SumRows -> Nat]
      BY <1>1, <1>6, TermTypes
    <3> QED BY <3>1
  <2>2. ASSUME NEW i \in SumRows, i # r
        PROVE  LongsDown(p, c)[i] = LongsDown(q, c)[i]
    <3>1. <<i, 2 * c>> # <<r, x>> /\ <<i, 2 * c + 1>> # <<r, x>>
      BY <2>2
    <3>2. p[i * Stride + 2 * c] = q[i * Stride + 2 * c]
      BY <1>5, <3>1, OtherPlaces
    <3>3. p[i * Stride + (2 * c + 1)] = q[i * Stride + (2 * c + 1)]
      BY <1>5, <3>1, OtherPlaces
    <3>4. i * Stride + 2 * c + 1 = i * Stride + (2 * c + 1)
      BY <1>2, WordPlaces
    <3> QED BY <3>2, <3>3, <3>4 DEF LongsDown, LongAt
  <2>3. Near(LongsDown(p, c)[r], LongsDown(q, c)[r], LongBase)
    <3>1. Near(LongAt(p, r * Stride + 2 * c), LongAt(q, r * Stride + 2 * c), LongBase)
      BY LongDiffers
    <3> QED BY <1>1, <3>1 DEF LongsDown
  <2> HIDE DEF c, n
  <2>4. (SumFunction(LongsDown(p, c)) + 0) % LongBase # (SumFunction(LongsDown(q, c)) + 0) % LongBase
    BY <1>1, <1>3, <2>1, <2>2, <2>3, SumDiffers
  <2>5. SumFunction(LongsDown(p, c)) \in Int /\ SumFunction(LongsDown(q, c)) \in Int
    BY <1>3, <2>1, SumInt
  <2>6. SumFunction(LongsDown(p, c)) % LongBase # SumFunction(LongsDown(q, c)) % LongBase
    BY <2>4, <2>5
  <2>7. DOMAIN LongsDown(p, c) = 0 .. n - 1 /\ DOMAIN LongsDown(q, c) = 0 .. n - 1
    BY <1>4, <2>1
  <2>8. ColOf(p, c, n) # ColOf(q, c, n)
    BY <1>6, <2>6, <2>7 DEF ColOf, SumFunction
  <2> QED BY <2>8 DEF c, n
<1>7. CASE c \notin WholeLongs
  <2> HIDE DEF c, n
  <2>1. ASSUME NEW y \in 0 .. Stride - 1
        PROVE  /\ HalfOf(p, y, n) = (SumFunction(WordsDown(p, y)) + 0) % WordBase
               /\ HalfOf(q, y, n) = (SumFunction(WordsDown(q, y)) + 0) % WordBase
               /\ HalfOf(p, y, n) \in 0 .. WordBase - 1 /\ HalfOf(q, y, n) \in 0 .. WordBase - 1
               /\ WordsDown(p, y) \in [SumRows -> Int] /\ WordsDown(q, y) \in [SumRows -> Int]
    <3>1. WordsDown(p, y) \in [SumRows -> Nat] /\ WordsDown(q, y) \in [SumRows -> Nat]
      BY <1>1, TermTypes
    <3>2. WordsDown(p, y) \in [SumRows -> Int] /\ WordsDown(q, y) \in [SumRows -> Int]
      BY <3>1
    <3>3. SumFunction(WordsDown(p, y)) \in Int /\ SumFunction(WordsDown(q, y)) \in Int
      BY <1>3, <3>2, SumInt
    <3>4. DOMAIN WordsDown(p, y) = 0 .. n - 1 /\ DOMAIN WordsDown(q, y) = 0 .. n - 1
      BY <1>4, <3>2
    <3>5. /\ HalfOf(p, y, n) = SumFunction(WordsDown(p, y)) % WordBase
          /\ HalfOf(q, y, n) = SumFunction(WordsDown(q, y)) % WordBase
      BY <3>4 DEF HalfOf, SumFunction
    <3> QED BY <1>3, <3>2, <3>3, <3>5
  <2>2. ASSUME NEW y \in 0 .. Stride - 1, NEW i \in SumRows, i # r \/ y # x
        PROVE  WordsDown(p, y)[i] = WordsDown(q, y)[i]
    <3>1. <<i, y>> # <<r, x>>
      BY <2>2
    <3>2. p[i * Stride + y] = q[i * Stride + y]
      BY <3>1, OtherPlaces
    <3> QED BY <3>2 DEF WordsDown
  <2>3. ASSUME NEW y \in 0 .. Stride - 1, y # x PROVE HalfOf(p, y, n) = HalfOf(q, y, n)
    <3>1. \A i \in SumRows : p[i * Stride + y] = q[i * Stride + y]
      <4> SUFFICES ASSUME NEW i \in SumRows PROVE p[i * Stride + y] = q[i * Stride + y]
        OBVIOUS
      <4>1. <<i, y>> # <<r, x>>
        BY <2>3
      <4> QED BY <4>1, OtherPlaces
    <3>2. WordsDown(p, y) = WordsDown(q, y)
      BY <3>1 DEF WordsDown
    <3> QED BY <3>2 DEF HalfOf
  <2>4. HalfOf(p, x, n) # HalfOf(q, x, n)
    <3>1. /\ p[r * Stride + x] \in 0 .. WordBase - 1 /\ q[r * Stride + x] \in 0 .. WordBase - 1
      BY <1>1, TermTypes
    <3>2. Near(p[r * Stride + x], q[r * Stride + x], WordBase)
      BY <1>1, <1>3, <3>1 DEF Near
    <3>3. Near(WordsDown(p, x)[r], WordsDown(q, x)[r], WordBase)
      BY <1>1, <3>2 DEF WordsDown
    <3>4. \A i \in SumRows : i # r => WordsDown(p, x)[i] = WordsDown(q, x)[i]
      BY <1>1, <2>2
    <3>5. (SumFunction(WordsDown(p, x)) + 0) % WordBase # (SumFunction(WordsDown(q, x)) + 0) % WordBase
      BY <1>1, <1>3, <2>1, <3>3, <3>4, SumDiffers
    <3> QED BY <1>1, <2>1, <3>5
  <2>5. ColOf(p, c, n) = HalfOf(p, 2 * c, n) * WordBase + HalfOf(p, 2 * c + 1, n)
    BY <1>7 DEF ColOf
  <2>6. ColOf(q, c, n) = HalfOf(q, 2 * c, n) * WordBase + HalfOf(q, 2 * c + 1, n)
    BY <1>7 DEF ColOf
  <2>7. CASE x = 2 * c
    <3>1. HalfOf(p, 2 * c + 1, n) = HalfOf(q, 2 * c + 1, n)
      BY <1>5, <2>3, <2>7
    <3>2. HalfOf(p, 2 * c, n) # HalfOf(q, 2 * c, n)
      BY <2>4, <2>7
    <3>3. Near(HalfOf(p, 2 * c, n) * WordBase + HalfOf(p, 2 * c + 1, n),
               HalfOf(q, 2 * c, n) * WordBase + HalfOf(p, 2 * c + 1, n), WordBase * WordBase)
      BY <1>3, <1>5, <2>1, <3>2, LongNear
    <3> QED BY <2>5, <2>6, <3>1, <3>3 DEF Near, c, n
  <2>8. CASE x = 2 * c + 1
    <3>1. HalfOf(p, 2 * c, n) = HalfOf(q, 2 * c, n)
      BY <1>5, <2>3, <2>8
    <3>2. HalfOf(p, 2 * c + 1, n) # HalfOf(q, 2 * c + 1, n)
      BY <2>4, <2>8
    <3>3. Near(HalfOf(p, 2 * c, n) * WordBase + HalfOf(p, 2 * c + 1, n),
               HalfOf(p, 2 * c, n) * WordBase + HalfOf(q, 2 * c + 1, n), WordBase * WordBase)
      BY <1>3, <1>5, <2>1, <3>2, LongNear
    <3> QED BY <2>5, <2>6, <3>1, <3>3 DEF Near, c, n
  <2> QED BY <1>2, <2>7, <2>8
<1> QED BY <1>6, <1>7

\* A word that is added to a half leaves the other half as it is.
LEMMA HalfAdded ==
  ASSUME sumJob \in SumJobs, NEW a \in 0 .. WordBase - 1, NEW b \in 0 .. WordBase - 1, NEW w \in Nat
  PROVE  /\ AddToHalf(a * WordBase + b, 0, w) = ((a + w) % WordBase) * WordBase + b
         /\ AddToHalf(a * WordBase + b, 1, w) = a * WordBase + ((b + w) % WordBase)
<1>1. WordBase \in Nat \ {0}
  BY JobTypes
<1>2. (a * WordBase + b) \div WordBase = a /\ (a * WordBase + b) % WordBase = b
  BY <1>1, DivIs
<1> QED BY <1>2 DEF AddToHalf

LEMMA OneMoreRow ==
  ASSUME sumJob \in SumJobs, NEW f \in [SumRows -> Nat], NEW n \in SumRows
  PROVE  /\ SumFunctionOnSet(f, 0 .. n) = SumFunctionOnSet(f, 0 .. n - 1) + f[n]
         /\ SumFunctionOnSet(f, 0 .. n - 1) \in Nat /\ f[n] \in Nat
<1>1. \A r \in SumRows : f[r] \in Nat
  OBVIOUS
<1>2. \A r \in SumRows : f[r] \in Int
  BY <1>1
<1>3. IsFiniteSet(SumRows)
  <2>1. 0 \in Int /\ sumJob.height - 1 \in Int
    BY JobTypes
  <2> QED BY <2>1, FS_Interval DEF SumRows
<1>4. 0 .. n \in SUBSET SumRows /\ n \in 0 .. n /\ (0 .. n) \ {n} = 0 .. n - 1 /\ 0 .. n - 1 \in SUBSET SumRows
  BY JobTypes DEF SumRows
<1>5. SumFunctionOnSet(f, 0 .. n) = f[n] + SumFunctionOnSet(f, (0 .. n) \ {n})
  BY <1>2, <1>3, <1>4, TotalTake
<1>6. SumFunctionOnSet(f, 0 .. n - 1) \in Nat /\ f[n] \in Nat
  BY <1>1, <1>3, <1>4, TotalNat
<1>7. SumFunctionOnSet(f, 0 .. n) = f[n] + SumFunctionOnSet(f, 0 .. n - 1)
  BY <1>4, <1>5
<1> QED BY <1>6, <1>7

LEMMA HalfStep ==
  ASSUME sumJob \in SumJobs, NEW p \in SumPictures, NEW x \in 0 .. Stride - 1, NEW n \in SumRows
  PROVE  /\ HalfOf(p, x, n) \in 0 .. WordBase - 1 /\ p[n * Stride + x] \in Nat
         /\ (HalfOf(p, x, n) + p[n * Stride + x]) % WordBase = HalfOf(p, x, n + 1)
         /\ (HalfOf(p, x, n) + p[n * Stride + x]) % WordBase \in 0 .. WordBase - 1
<1> DEFINE f == WordsDown(p, x)
<1>1. f \in [SumRows -> Nat] /\ WordBase \in Nat \ {0} /\ f[n] = p[n * Stride + x]
  BY JobTypes, TermTypes DEF WordsDown
<1>2. 0 .. (n + 1) - 1 = 0 .. n
  BY DEF SumRows
<1>3. HalfOf(p, x, n + 1) = SumFunctionOnSet(f, 0 .. n) % WordBase
  BY <1>2 DEF HalfOf
<1>4. HalfOf(p, x, n) = SumFunctionOnSet(f, 0 .. n - 1) % WordBase
  BY DEF HalfOf
<1> HIDE DEF f
<1>5. /\ SumFunctionOnSet(f, 0 .. n) = SumFunctionOnSet(f, 0 .. n - 1) + f[n]
      /\ SumFunctionOnSet(f, 0 .. n - 1) \in Nat /\ f[n] \in Nat
  BY <1>1, OneMoreRow
<1>6. (HalfOf(p, x, n) + f[n]) % WordBase = HalfOf(p, x, n + 1)
  BY <1>1, <1>3, <1>4, <1>5, ModAdd
<1>7. HalfOf(p, x, n) \in 0 .. WordBase - 1 /\ HalfOf(p, x, n + 1) \in 0 .. WordBase - 1
  <2>1. SumFunctionOnSet(f, 0 .. n) \in Nat
    BY <1>5
  <2> QED BY <1>1, <1>3, <1>4, <1>5, <2>1, ModRange
<1> QED BY <1>1, <1>5, <1>6, <1>7

LEMMA ColStep ==
  ASSUME sumJob \in SumJobs, Picture \in SumPictures, NEW c \in SumCols, NEW n \in SumRows,
         colSums[c] = ColOf(Picture, c, n)
  PROVE  ColumnWith(c, n * Stride) = ColOf(Picture, c, n + 1)
<1> DEFINE at == n * Stride
           p == Picture
<1>1. WordBase \in Nat \ {0} /\ LongBase \in Nat \ {0}
  BY JobTypes
<1>2. at + 2 * c + 1 = at + (2 * c + 1) /\ c \in Nat
      /\ 2 * c \in 0 .. Stride - 1 /\ 2 * c + 1 \in 0 .. Stride - 1
  BY WordPlaces
<1>3. CASE c \in WholeLongs
  <2> DEFINE f == LongsDown(p, c)
  <2>1. f \in [SumRows -> Nat] /\ f[n] = LongAt(p, at + 2 * c)
    BY <1>3, TermTypes DEF LongsDown
  <2>2. 0 .. (n + 1) - 1 = 0 .. n
    BY DEF SumRows
  <2>3. ColOf(p, c, n + 1) = SumFunctionOnSet(f, 0 .. n) % LongBase
    BY <1>3, <2>2 DEF ColOf
  <2>4. colSums[c] = SumFunctionOnSet(f, 0 .. n - 1) % LongBase
    BY <1>3 DEF ColOf
  <2> HIDE DEF f, p
  <2>5. /\ SumFunctionOnSet(f, 0 .. n) = SumFunctionOnSet(f, 0 .. n - 1) + f[n]
        /\ SumFunctionOnSet(f, 0 .. n - 1) \in Nat /\ f[n] \in Nat
    BY <2>1, OneMoreRow
  <2>6. ((SumFunctionOnSet(f, 0 .. n - 1) % LongBase) + f[n]) % LongBase = SumFunctionOnSet(f, 0 .. n) % LongBase
    <3> DEFINE t == SumFunctionOnSet(f, 0 .. n - 1)
    <3>1. t \in Nat /\ f[n] \in Nat /\ SumFunctionOnSet(f, 0 .. n) = t + f[n]
      BY <2>5
    <3> HIDE DEF t
    <3>2. ((t % LongBase) + f[n]) % LongBase = (t + f[n]) % LongBase
      BY <1>1, <3>1, ModAdd
    <3> QED BY <3>1, <3>2 DEF t
  <2>7. (colSums[c] + LongAt(p, at + 2 * c)) % LongBase = ColOf(p, c, n + 1)
    BY <2>1, <2>3, <2>4, <2>6
  <2> QED BY <1>3, <2>7 DEF ColumnWith, p
<1>4. CASE c \notin WholeLongs
  <2> DEFINE a == HalfOf(p, 2 * c, n)
             b == HalfOf(p, 2 * c + 1, n)
             v == p[at + 2 * c]
             w == p[at + (2 * c + 1)]
  <2>1. 2 * c \in SingleWords /\ 2 * c + 1 \in SingleWords
    <3>1. (2 * c) \div 2 = c
      BY <1>2
    <3> QED BY <1>2, <1>4, <3>1, HalfCases
  <2>2. 2 * c + 0 = 2 * c /\ at + 2 * c + 0 = at + 2 * c
    <3>1. at \in Int
      BY JobTypes DEF SumRows
    <3> HIDE DEF at
    <3> QED BY <1>2, <3>1
  <2>3. ColumnWith(c, at) = AddToHalf(AddToHalf(colSums[c], 0, v), 1, w)
    BY <1>2, <1>4, <2>1, <2>2 DEF ColumnWith
  <2>4. colSums[c] = a * WordBase + b
    BY <1>4 DEF ColOf
  <2>5. ColOf(p, c, n + 1) = HalfOf(p, 2 * c, n + 1) * WordBase + HalfOf(p, 2 * c + 1, n + 1)
    BY <1>4 DEF ColOf
  <2>6. /\ a \in 0 .. WordBase - 1 /\ b \in 0 .. WordBase - 1 /\ v \in Nat /\ w \in Nat
        /\ (a + v) % WordBase = HalfOf(p, 2 * c, n + 1) /\ (a + v) % WordBase \in 0 .. WordBase - 1
        /\ (b + w) % WordBase = HalfOf(p, 2 * c + 1, n + 1)
    BY <1>2, HalfStep
  <2> HIDE DEF a, b, v, w, at, p
  <2>7. AddToHalf(colSums[c], 0, v) = ((a + v) % WordBase) * WordBase + b
    BY <2>4, <2>6, HalfAdded
  <2>8. AddToHalf(((a + v) % WordBase) * WordBase + b, 1, w)
          = ((a + v) % WordBase) * WordBase + ((b + w) % WordBase)
    BY <2>6, HalfAdded
  <2> QED BY <2>3, <2>5, <2>6, <2>7, <2>8 DEF at, p
<1> QED BY <1>3, <1>4

RowsOf(p)    == [r \in SumRows |-> RowOf(p, r)]
ColsOf(p, n) == [c \in SumCols |-> ColOf(p, c, n)]

\* The rows above sumRow have their sums, and the columns what these rows add to them; a
\* sweep that has ended has left all of them, and the third none to be seen but the two.
SumsInv ==
  /\ sumJob \in SumJobs /\ sweep \in 1 .. 3
  /\ sumRow \in 0 .. sumJob.height /\ scrnPtr = sumRow * Stride
  /\ rowSums \in [SumRows -> Int] /\ rowSumsPrev \in [SumRows -> Int]
  /\ sweep < 3 =>
       /\ \A r \in SumRows : r < sumRow => rowSums[r] = RowOf(Picture, r)
       /\ colSums = ColsOf(Picture, sumRow)
  /\ sweep = 2 => /\ rowSumsPrev = RowsOf(sumJob.before)
                  /\ colSumsPrev = ColsOf(sumJob.before, sumJob.height)
  /\ sweep = 3 => /\ rowSums = RowsOf(sumJob.before) /\ rowSumsPrev = RowsOf(sumJob.after)
                  /\ colSums = ColsOf(sumJob.before, sumJob.height)
                  /\ colSumsPrev = ColsOf(sumJob.after, sumJob.height)

LEMMA SameJob ==
  ASSUME sumJob' = sumJob
  PROVE  /\ SumRows' = SumRows /\ SumCols' = SumCols /\ Stride' = Stride
         /\ \A p, r : RowOf(p, r)' = RowOf(p, r)
         /\ \A p, c, n : ColOf(p, c, n)' = ColOf(p, c, n)
         /\ \A p : RowsOf(p)' = RowsOf(p)
         /\ \A p, n : ColsOf(p, n)' = ColsOf(p, n)
<1>1. SumRows' = SumRows /\ SumCols' = SumCols /\ Stride' = Stride
  BY DEF SumRows, SumCols, Stride
<1>2. WholeLongs' = WholeLongs
  BY <1>1 DEF WholeLongs
<1>3. SingleWords' = SingleWords
  BY <1>2 DEF SingleWords, RestWords
<1>4. \A p, r : RowOf(p, r)' = RowOf(p, r)
  BY <1>1, <1>2, <1>3 DEF RowOf, LongsOf, SinglesOf
<1>5. \A p, c, n : ColOf(p, c, n)' = ColOf(p, c, n)
  BY <1>1, <1>2 DEF ColOf, HalfOf, LongsDown, WordsDown
<1>6. \A p : RowsOf(p)' = RowsOf(p)
  BY <1>1, <1>4 DEF RowsOf
<1>7. \A p, n : ColsOf(p, n)' = ColsOf(p, n)
  BY <1>1, <1>5 DEF ColsOf
<1> QED BY <1>1, <1>4, <1>5, <1>6, <1>7

LEMMA RowOfInt ==
  ASSUME sumJob \in SumJobs, NEW p \in SumPictures, NEW r \in SumRows
  PROVE  RowOf(p, r) \in Int
<1>1. LongsOf(p, r) \in [WholeLongs -> Int]
  <2>1. LongsOf(p, r) \in [WholeLongs -> Nat]
    BY TermTypes
  <2> QED BY <2>1
<1>2. SinglesOf(p, r) \in [SingleWords -> Int] /\ IsFiniteSet(WholeLongs) /\ IsFiniteSet(SingleWords)
  BY TermTypes
<1>3. SumFunction(LongsOf(p, r)) \in Int /\ SumFunction(SinglesOf(p, r)) \in Int
  BY <1>1, <1>2, SumInt
<1> QED BY <1>3, JobTypes DEF RowOf

\* Nothing has been added up before the first row.
LEMMA NoRows ==
  ASSUME sumJob \in SumJobs, NEW p
  PROVE  ColsOf(p, 0) = NoSums(SumCols)
<1>1. 0 .. 0 - 1 = {}
  OBVIOUS
<1>2. WordBase \in Nat \ {0} /\ LongBase \in Nat \ {0}
  BY JobTypes
<1>3. \A f : SumFunctionOnSet(f, {}) = 0
  BY FS_EmptySet, SumRest
<1>4. \A x : HalfOf(p, x, 0) = 0
  <2>1. 0 % WordBase = 0
    BY <1>2
  <2> QED BY <1>1, <1>3, <2>1 DEF HalfOf
<1>5. \A c \in SumCols : ColOf(p, c, 0) = 0
  <2>1. 0 % LongBase = 0 /\ 0 * WordBase + 0 = 0
    BY <1>2
  <2> QED BY <1>1, <1>3, <1>4, <2>1 DEF ColOf
<1> QED BY <1>5 DEF ColsOf, NoSums

LEMMA SumsBegin == SumInit => SumsInv
<1> SUFFICES ASSUME SumInit PROVE SumsInv
  OBVIOUS
<1>1. sumJob \in SumJobs /\ sweep = 1 /\ scrnPtr = 0 /\ sumRow = 0
  BY DEF SumInit
<1>2. sumRow \in 0 .. sumJob.height /\ scrnPtr = sumRow * Stride
  BY <1>1, JobTypes
<1>3. rowSums \in [SumRows -> Int] /\ rowSumsPrev \in [SumRows -> Int]
  BY DEF SumInit, NoSums
<1>4. colSums = ColsOf(Picture, sumRow)
  BY <1>1, NoRows DEF SumInit
<1>5. \A r \in SumRows : ~(r < sumRow)
  BY <1>1 DEF SumRows
<1> QED BY <1>1, <1>2, <1>3, <1>4, <1>5 DEF SumsInv

LEMMA LineKeeps ==
  ASSUME SumsInv, SumLine
  PROVE  SumsInv'
<1>1. /\ sumJob \in SumJobs /\ sweep \in 1 .. 3 /\ sweep < 3
      /\ sumRow \in 0 .. sumJob.height /\ scrnPtr = sumRow * Stride /\ sumRow < sumJob.height
      /\ rowSums \in [SumRows -> Int] /\ rowSumsPrev \in [SumRows -> Int]
      /\ \A r \in SumRows : r < sumRow => rowSums[r] = RowOf(Picture, r)
      /\ colSums = ColsOf(Picture, sumRow)
      /\ sumJob' = sumJob /\ sweep' = sweep /\ rowSumsPrev' = rowSumsPrev /\ colSumsPrev' = colSumsPrev
      /\ sumRow' = sumRow + 1
  BY DEF SumsInv, SumLine
<1>2. Stride \in Nat /\ sumJob.height \in Nat /\ sumRow \in SumRows /\ Picture \in SumPictures
  BY <1>1, JobTypes DEF SumRows, Picture
<1>3. /\ SumRows' = SumRows /\ SumCols' = SumCols /\ Stride' = Stride /\ Picture' = Picture
      /\ (\A p, r : RowOf(p, r)' = RowOf(p, r)) /\ (\A p : RowsOf(p)' = RowsOf(p))
      /\ (\A p, n : ColsOf(p, n)' = ColsOf(p, n))
  BY <1>1, SameJob DEF Picture
<1>4. scrnPtr' = sumRow' * Stride
  <2>1. scrnPtr \in Nat
    BY <1>1, <1>2
  <2>2. scrnPtr' = scrnPtr + Stride
    BY <1>1, <2>1, LineLayout DEF SumLine
  <2> QED BY <1>1, <1>2, <2>2
<1>5. LineSum(scrnPtr) = RowOf(Picture, sumRow)
  BY <1>1 DEF LineSum, RowOf, LongsOf, SinglesOf
<1>6. rowSums' = [rowSums EXCEPT ![sumRow] = RowOf(Picture, sumRow)]
  BY <1>5 DEF SumLine
<1>7. rowSums' \in [SumRows -> Int] /\ \A r \in SumRows : r < sumRow' => rowSums'[r] = RowOf(Picture, r)
  <2>1. RowOf(Picture, sumRow) \in Int
    BY <1>1, <1>2, RowOfInt
  <2>2. \A r \in SumRows : r < sumRow' => r < sumRow \/ r = sumRow
    BY <1>1 DEF SumRows
  <2> QED BY <1>1, <1>2, <1>6, <2>1, <2>2
<1>8. colSums' = ColsOf(Picture, sumRow')
  <2>1. \A c \in SumCols : ColumnWith(c, sumRow * Stride) = ColOf(Picture, c, sumRow + 1)
    <3> SUFFICES ASSUME NEW c \in SumCols
                 PROVE  ColumnWith(c, sumRow * Stride) = ColOf(Picture, c, sumRow + 1)
      OBVIOUS
    <3>1. colSums[c] = ColOf(Picture, c, sumRow)
      BY <1>1 DEF ColsOf
    <3> QED BY <1>1, <1>2, <3>1, ColStep
  <2> QED BY <1>1, <2>1 DEF SumLine, ColsOf
<1>9. sweep = 2 => /\ rowSumsPrev = RowsOf(sumJob.before)
                   /\ colSumsPrev = ColsOf(sumJob.before, sumJob.height)
  BY DEF SumsInv
<1>10. sumRow' \in 0 .. sumJob.height
  BY <1>1, <1>2
<1>11. /\ sumJob' \in SumJobs /\ sweep' \in 1 .. 3 /\ sumRow' \in 0 .. sumJob'.height
       /\ scrnPtr' = sumRow' * Stride' /\ rowSums' \in [SumRows' -> Int] /\ rowSumsPrev' \in [SumRows' -> Int]
       /\ sweep' < 3
  BY <1>1, <1>3, <1>4, <1>7, <1>10
<1>12. \A r \in SumRows' : r < sumRow' => rowSums'[r] = RowOf(Picture, r)'
  BY <1>3, <1>7
<1>13. colSums' = ColsOf(Picture, sumRow)'
  BY <1>3, <1>8 DEF ColsOf
<1>14. sweep' = 2 => /\ rowSumsPrev' = RowsOf(sumJob.before)'
                     /\ colSumsPrev' = ColsOf(sumJob.before, sumJob.height)'
  BY <1>1, <1>3, <1>9
<1> QED BY <1>11, <1>12, <1>13, <1>14 DEF SumsInv

LEMMA SweepKeeps ==
  ASSUME SumsInv, SweepEnds
  PROVE  SumsInv'
<1> DEFINE h == sumJob.height
<1>1. /\ sumJob \in SumJobs /\ sweep \in 1 .. 3 /\ sweep < 3 /\ sumRow = h
      /\ rowSums \in [SumRows -> Int] /\ rowSumsPrev \in [SumRows -> Int]
      /\ \A r \in SumRows : r < sumRow => rowSums[r] = RowOf(Picture, r)
      /\ colSums = ColsOf(Picture, sumRow)
      /\ sumJob' = sumJob /\ sweep' = sweep + 1 /\ scrnPtr' = 0 /\ sumRow' = 0
      /\ rowSumsPrev' = rowSums /\ colSumsPrev' = colSums /\ rowSums' = rowSumsPrev
  BY DEF SumsInv, SweepEnds
<1>2. Stride \in Nat /\ h \in Nat
  BY <1>1, JobTypes
<1>3. /\ SumRows' = SumRows /\ SumCols' = SumCols /\ Stride' = Stride
      /\ (\A p, r : RowOf(p, r)' = RowOf(p, r)) /\ (\A p : RowsOf(p)' = RowsOf(p))
      /\ (\A p, n : ColsOf(p, n)' = ColsOf(p, n))
  BY <1>1, SameJob
<1>4. rowSumsPrev' = RowsOf(Picture) /\ colSumsPrev' = ColsOf(Picture, h)
  <2>1. \A r \in SumRows : rowSums[r] = RowOf(Picture, r)
    BY <1>1, <1>2 DEF SumRows
  <2>2. rowSums = RowsOf(Picture)
    BY <1>1, <2>1 DEF RowsOf
  <2> QED BY <1>1, <2>2
<1>5. /\ sumJob' \in SumJobs /\ sweep' \in 1 .. 3 /\ sumRow' \in 0 .. sumJob'.height
      /\ scrnPtr' = sumRow' * Stride'
      /\ rowSums' \in [SumRows' -> Int] /\ rowSumsPrev' \in [SumRows' -> Int]
  <2>1. 0 = 0 * Stride'
    BY <1>2, <1>3
  <2> QED BY <1>1, <1>2, <1>3, <2>1
<1>6. CASE sweep = 1
  <2>1. Picture = sumJob.before /\ sweep' = 2
    BY <1>1, <1>6 DEF Picture
  <2>2. Picture' = sumJob.after
    BY <1>1, <2>1 DEF Picture
  <2>3. colSums' = NoSums(SumCols)
    BY <1>6 DEF SweepEnds
  <2>4. colSums' = ColsOf(Picture, sumRow)'
    <3>1. ColsOf(sumJob.after, 0) = NoSums(SumCols)
      BY <1>1, NoRows
    <3> QED BY <1>1, <1>3, <2>2, <2>3, <3>1
  <2>5. \A r \in SumRows' : r < sumRow' => rowSums'[r] = RowOf(Picture, r)'
    BY <1>1, <1>2, <1>3 DEF SumRows
  <2>6. rowSumsPrev' = RowsOf(sumJob.before)' /\ colSumsPrev' = ColsOf(sumJob.before, sumJob.height)'
    BY <1>1, <1>3, <1>4, <2>1
  <2>7. sweep' < 3 /\ sweep' # 3
    BY <2>1
  <2> QED BY <1>5, <2>4, <2>5, <2>6, <2>7 DEF SumsInv
<1>7. CASE sweep = 2
  <2>1. Picture = sumJob.after /\ sweep' = 3
    BY <1>1, <1>7 DEF Picture
  <2>2. /\ rowSumsPrev = RowsOf(sumJob.before) /\ colSumsPrev = ColsOf(sumJob.before, h)
    BY <1>7 DEF SumsInv
  <2>3. colSums' = colSumsPrev
    BY <1>7 DEF SweepEnds
  <2>4. /\ rowSums' = RowsOf(sumJob.before)' /\ colSums' = ColsOf(sumJob.before, sumJob.height)'
        /\ rowSumsPrev' = RowsOf(sumJob.after)' /\ colSumsPrev' = ColsOf(sumJob.after, sumJob.height)'
    BY <1>1, <1>3, <1>4, <2>1, <2>2, <2>3
  <2>5. ~(sweep' < 3) /\ sweep' # 2
    BY <2>1
  <2> QED BY <1>5, <2>4, <2>5 DEF SumsInv
<1> QED BY <1>1, <1>6, <1>7

LEMMA SumsStep ==
  ASSUME SumsInv, [SumNext]_uvars
  PROVE  SumsInv'
<1>1. CASE SumLine
  BY <1>1, LineKeeps
<1>2. CASE SweepEnds
  BY <1>2, SweepKeeps
<1>3. CASE UNCHANGED uvars
  <2>1. /\ sumJob' = sumJob /\ sweep' = sweep /\ scrnPtr' = scrnPtr /\ sumRow' = sumRow
        /\ rowSums' = rowSums /\ colSums' = colSums
        /\ rowSumsPrev' = rowSumsPrev /\ colSumsPrev' = colSumsPrev
    BY <1>3 DEF uvars, sums
  <2>2. /\ SumRows' = SumRows /\ SumCols' = SumCols /\ Stride' = Stride /\ Picture' = Picture
        /\ (\A p, r : RowOf(p, r)' = RowOf(p, r)) /\ (\A p : RowsOf(p)' = RowsOf(p))
        /\ (\A p, n : ColsOf(p, n)' = ColsOf(p, n))
    BY <2>1, SameJob DEF Picture
  <2> QED BY <2>1, <2>2 DEF SumsInv
<1> QED BY <1>1, <1>2, <1>3 DEF SumNext

\* Rows and columns whose words are all the same have the same sums.
LEMMA OnlyChangedDiffer ==
  ASSUME SumsInv, sweep = 3
  PROVE  /\ ChangedRows \subseteq {w \div sumJob.stride : w \in ChangedWords}
         /\ ChangedCols \subseteq {(w % sumJob.stride) \div 2 : w \in ChangedWords}
<1> DEFINE p == sumJob.before
           q == sumJob.after
<1>1. /\ sumJob \in SumJobs /\ p \in SumPictures /\ q \in SumPictures
      /\ rowSums = RowsOf(p) /\ rowSumsPrev = RowsOf(q)
      /\ colSums = ColsOf(p, sumJob.height) /\ colSumsPrev = ColsOf(q, sumJob.height)
  BY JobTypes DEF SumsInv
<1>2. DOMAIN p = Words
  BY <1>1 DEF SumPictures
<1>3. \A w : w \in ChangedWords <=> w \in Words /\ p[w] # q[w]
  BY <1>2 DEF ChangedWords
<1> HIDE DEF p, q
<1>4. ASSUME NEW r \in ChangedRows PROVE r \in {w \div sumJob.stride : w \in ChangedWords}
  <2>1. r \in SumRows /\ RowOf(p, r) # RowOf(q, r)
    BY <1>1 DEF ChangedRows, RowsOf
  <2>2. PICK x \in 0 .. Stride - 1 : p[r * Stride + x] # q[r * Stride + x]
    BY <1>1, <2>1, RowSame
  <2>3. r * Stride + x \in Words /\ (r * Stride + x) \div Stride = r
    BY <1>1, <2>1, WordAt
  <2> QED BY <1>3, <2>2, <2>3 DEF Stride
<1>5. ASSUME NEW c \in ChangedCols PROVE c \in {(w % sumJob.stride) \div 2 : w \in ChangedWords}
  <2>1. c \in SumCols /\ ColOf(p, c, sumJob.height) # ColOf(q, c, sumJob.height)
    BY <1>1 DEF ChangedCols, ColsOf
  <2>2. PICK r \in SumRows : \/ p[r * Stride + 2 * c] # q[r * Stride + 2 * c]
                             \/ p[r * Stride + (2 * c + 1)] # q[r * Stride + (2 * c + 1)]
    BY <1>1, <2>1, ColSame
  <2>3. 2 * c \in 0 .. Stride - 1 /\ 2 * c + 1 \in 0 .. Stride - 1 /\ c \in Nat
    BY <1>1, <2>1, WordPlaces
  <2>4. PICK x \in {2 * c, 2 * c + 1} : p[r * Stride + x] # q[r * Stride + x]
    BY <2>2
  <2>5. x \in 0 .. Stride - 1 /\ x \div 2 = c
    BY <2>3
  <2>6. r * Stride + x \in Words /\ (r * Stride + x) % Stride = x
    BY <1>1, <2>5, WordAt
  <2> QED BY <1>3, <2>4, <2>5, <2>6 DEF Stride
<1> QED BY <1>4, <1>5

LEMMA OneChangeTold ==
  ASSUME SumsInv, sweep = 3, Cardinality(ChangedWords) = 1
  PROVE  Cardinality(ChangedRows) = 1 /\ Cardinality(ChangedCols) = 1
<1> DEFINE p == sumJob.before
           q == sumJob.after
<1>1. /\ sumJob \in SumJobs /\ p \in SumPictures /\ q \in SumPictures
      /\ rowSums = RowsOf(p) /\ rowSumsPrev = RowsOf(q)
      /\ colSums = ColsOf(p, sumJob.height) /\ colSumsPrev = ColsOf(q, sumJob.height)
  BY JobTypes DEF SumsInv
<1>2. \A w : w \in ChangedWords <=> w \in Words /\ p[w] # q[w]
  BY <1>1 DEF ChangedWords, SumPictures
<1>3. IsFiniteSet(ChangedWords)
  <2>1. sumJob.stride * sumJob.height - 1 \in Int
    BY <1>1, JobTypes DEF Stride
  <2>2. IsFiniteSet(Words)
    BY <2>1, FS_Interval DEF Words
  <2>3. ChangedWords \subseteq Words
    BY <1>2
  <2> QED BY <2>2, <2>3, FS_Subset
<1>4. PICK w : ChangedWords = {w}
  BY <1>3, FS_Singleton
<1> DEFINE r == w \div Stride
           x == w % Stride
<1>5. w \in Words /\ p[w] # q[w] /\ \A v \in Words : v # w => p[v] = q[v]
  BY <1>2, <1>4
<1>6. r \in SumRows /\ x \in 0 .. Stride - 1 /\ w = r * Stride + x
  BY <1>1, <1>5, WordParts
<1> HIDE DEF p, q, r, x
<1>7. OneWord(p, q, r, x)
  BY <1>1, <1>5, <1>6 DEF OneWord
<1>8. x \div 2 \in SumCols
  BY <1>1, <1>6, HalfCases
<1>9. r \in ChangedRows /\ x \div 2 \in ChangedCols
  <2>1. RowOf(p, r) # RowOf(q, r) /\ ColOf(p, x \div 2, sumJob.height) # ColOf(q, x \div 2, sumJob.height)
    BY <1>1, <1>7, RowDiffers, ColDiffers
  <2> QED BY <1>1, <1>6, <1>8, <2>1 DEF ChangedRows, ChangedCols, RowsOf, ColsOf
<1>10. ChangedRows \subseteq {r} /\ ChangedCols \subseteq {x \div 2}
  <2>1. /\ ChangedRows \subseteq {v \div Stride : v \in ChangedWords}
        /\ ChangedCols \subseteq {(v % Stride) \div 2 : v \in ChangedWords}
    BY OnlyChangedDiffer DEF Stride
  <2> QED BY <1>4, <2>1 DEF r, x
<1>11. ChangedRows = {r} /\ ChangedCols = {x \div 2}
  BY <1>9, <1>10
<1> QED BY <1>11, FS_Singleton

\* Lines without a rest are added up by all the routines alike.
LEMMA FastestAgrees ==
  ASSUME SumsInv, sweep = 3, RestWords = 0
  PROVE  FastestRows(NoSums(SumRows)) = rowSums /\ FastestColumns = colSums
<1> DEFINE p == sumJob.before
<1>1. /\ sumJob \in SumJobs /\ p \in SumPictures /\ rowSums = RowsOf(p)
      /\ colSums = ColsOf(p, sumJob.height)
  BY JobTypes DEF SumsInv
<1>2. /\ WholeLongs = SumCols /\ SingleWords = {}
      /\ SumCols = 0 .. ((sumJob.stride \div (2 * LongsAtOnce)) * LongsAtOnce - 1)
  BY <1>1, LineLayout DEF Stride
<1>3. ASSUME NEW c \in SumCols
      PROVE  SumFunction(LongsDown(p, c)) % LongBase = ColOf(p, c, sumJob.height)
  <2>1. DOMAIN LongsDown(p, c) = 0 .. sumJob.height - 1
    BY DEF LongsDown, SumRows
  <2> QED BY <1>2, <2>1 DEF ColOf, SumFunction
<1>4. FastestColumns = [c \in SumCols |-> SumFunction(LongsDown(p, c)) % LongBase]
  BY <1>2 DEF FastestColumns, LongsDown, Stride
<1>5. FastestColumns = colSums
  BY <1>1, <1>3, <1>4 DEF ColsOf
<1>6. ASSUME NEW r \in SumRows
      PROVE  (NoSums(SumRows)[r] + SumFunction(LongsOf(p, r))) % LongBase = RowOf(p, r)
  <2>1. LongsOf(p, r) \in [WholeLongs -> Int] /\ IsFiniteSet(WholeLongs)
    <3>1. LongsOf(p, r) \in [WholeLongs -> Nat]
      BY <1>1, TermTypes
    <3> QED BY <1>1, <3>1, TermTypes
  <2>2. SumFunction(LongsOf(p, r)) \in Int
    BY <2>1, SumInt
  <2>3. SumFunction(SinglesOf(p, r)) = 0
    <3>1. DOMAIN SinglesOf(p, r) = {}
      BY <1>2 DEF SinglesOf
    <3> QED BY <3>1, FS_EmptySet, SumRest DEF SumFunction
  <2>4. NoSums(SumRows)[r] = 0
    BY DEF NoSums
  <2>5. 0 + SumFunction(LongsOf(p, r)) = SumFunction(LongsOf(p, r)) + 0
    BY <2>2
  <2> QED BY <2>3, <2>4, <2>5 DEF RowOf
<1>7. DOMAIN FastestColumns = WholeLongs
  BY <1>2, <1>4
<1>8. FastestRows(NoSums(SumRows))
        = [r \in SumRows |-> (NoSums(SumRows)[r] + SumFunction(LongsOf(p, r))) % LongBase]
  BY <1>7 DEF FastestRows, LongsOf, Stride
<1>9. FastestRows(NoSums(SumRows)) = rowSums
  BY <1>1, <1>6, <1>8 DEF RowsOf
<1> QED BY <1>5, <1>9

\* The sums of two sweeps differ in no row and in no column where the picture is the same,
\* and in the row and the column of a word that is the only one to change, whichever routine
\* of VNCScreenHash.cpp adds them up, for words of any size, lines of any even number of
\* them and any number taken at once; and lines without a rest have the sums that
\* computeHashesFastest finds for them, provided that its rows start from nothing.
THEOREM OneChangeNoticed == SumSpec => []SumsNotice
<1>1. SumsInv => SumsNotice
  BY OnlyChangedDiffer, OneChangeTold, FastestAgrees DEF SumsNotice
<1> QED BY <1>1, SumsBegin, SumsStep, PTL DEF SumSpec
=============================================================================
