------------------------------- MODULE ScreenSums -------------------------------
(***************************************************************************)
(* The sums of ScreenHash as the three routines of VNCScreenHash.cpp add   *)
(* them up: computeHashes in C, computeHashesFast for the 68000, which     *)
(* takes the end of a line word by word, and computeHashesFastest, which   *)
(* only the diagnostic build (TEST_HASH) runs beside it. A screen is a     *)
(* sequence of words; drawing between the calls is the matter of           *)
(* ScreenHash.                                                             *)
(***************************************************************************)
EXTENDS Integers, FiniteSets, Functions

CONSTANTS
  WordBase,     \* 2^16: the values of a word
  LongsAtOnce,  \* 4: the longs that the assembly takes in one go
  SumJobs       \* [routine, stride, height, before, after], stride in words

LongBase == WordBase * WordBase

ASSUME SumAssumption ==
  /\ WordBase \in Nat \ {0} /\ LongsAtOnce \in Nat \ {0}
  /\ \A j \in SumJobs :
       /\ j.routine \in {"C", "fast"}
       /\ j.stride \in Nat \ {0} /\ j.stride % 2 = 0 /\ j.height \in Nat
       /\ {j.before, j.after} \subseteq [0..(j.stride * j.height - 1) -> 0..(WordBase - 1)]

VARIABLES
  sumJob,
  sweep,                  \* 1: over the picture before, 2: over the one after, 3: compared
  scrnPtr, sumRow,        \* scrnRowHashPtr is as far as row is
  rowSums, colSums,       \* rowHashNext, colHashNext
  rowSumsPrev, colSumsPrev

sums  == <<rowSums, colSums, rowSumsPrev, colSumsPrev>>
uvars == <<sumJob, sweep, scrnPtr, sumRow, sums>>

Picture == IF sweep = 1 THEN sumJob.before ELSE sumJob.after
SumRows == 0..(sumJob.height - 1)
SumCols == 0..(sumJob.stride \div 2 - 1)
NoSums(places) == [i \in places |-> 0]

LongAt(p, i) == p[i] * WordBase + p[i + 1]

\* adda.w extends the sign of the word.
Extended(word) == IF 2 * word < WordBase THEN word ELSE word - WordBase

\* add.w to a half of a long carries nothing into the other half; the first half is the
\* high one.
AddToHalf(long, half, word) ==
  LET high == long \div WordBase  low == long % WordBase IN
  IF half = 0 THEN ((high + word) % WordBase) * WordBase + low
  ELSE high * WordBase + ((low + word) % WordBase)

SumInit ==
  /\ sumJob \in SumJobs
  /\ sweep = 1 /\ scrnPtr = 0 /\ sumRow = 0
  /\ rowSums = NoSums(SumRows) /\ colSums = NoSums(SumCols)
  /\ rowSumsPrev = NoSums(SumRows) /\ colSumsPrev = NoSums(SumCols)

----------------------------------------------------------------------------
(* A line of the screen that begins at the word at.                          *)

\* A faulty variant: what is left is counted in longs, and taken in words.
RestInLongs == (sumJob.stride % (2 * LongsAtOnce)) \div 2

\* The words of a line that are left over by going LongsAtOnce longs at a time.
RestWords == sumJob.stride % (2 * LongsAtOnce)

WholeLongs == IF sumJob.routine = "C" THEN SumCols
              ELSE 0..((sumJob.stride \div (2 * LongsAtOnce)) * LongsAtOnce - 1)

\* The words that are added one by one, as offsets in the line.
SingleWords == IF sumJob.routine = "C" THEN {}
               ELSE LET first == 2 * Cardinality(WholeLongs) IN first..(first + RestWords - 1)

LineSum(at) ==
  (SumFunction([c \in WholeLongs |-> LongAt(Picture, at + 2 * c)])
   + SumFunction([w \in SingleWords |-> Extended(Picture[at + w])])) % LongBase

\* The words of a long are its two halves.
ColumnWith(c, at) ==
  LET half(h, long) == IF 2 * c + h \in SingleWords
                       THEN AddToHalf(long, h, Picture[at + 2 * c + h]) ELSE long IN
  IF c \in WholeLongs THEN (colSums[c] + LongAt(Picture, at + 2 * c)) % LongBase
  ELSE half(1, half(0, colSums[c]))

LineEnds(at) == at + 2 * Cardinality(WholeLongs) + Cardinality(SingleWords)

\* A line of a call, from where the last one has ended: the pointers are kept for the
\* next call.
SumLine ==
  /\ sweep < 3 /\ sumRow < sumJob.height
  /\ rowSums' = [rowSums EXCEPT ![sumRow] = LineSum(scrnPtr)]
  /\ colSums' = [c \in SumCols |-> ColumnWith(c, scrnPtr)]
  /\ scrnPtr' = LineEnds(scrnPtr) /\ sumRow' = sumRow + 1
  /\ UNCHANGED <<sumJob, sweep, rowSumsPrev, colSumsPrev>>

\* endCompute and beginCompute: the arrays change places, and only the columns are cleared.
SweepEnds ==
  /\ sweep < 3 /\ sumRow = sumJob.height
  /\ rowSumsPrev' = rowSums /\ colSumsPrev' = colSums
  /\ rowSums' = rowSumsPrev
  /\ colSums' = IF sweep = 1 THEN NoSums(SumCols) ELSE colSumsPrev
  /\ sweep' = sweep + 1 /\ scrnPtr' = 0 /\ sumRow' = 0
  /\ UNCHANGED sumJob

SumNext == SumLine \/ SweepEnds

SumSpec == SumInit /\ [][SumNext]_uvars

----------------------------------------------------------------------------
(* computeHashesFastest, for the picture before: LongsAtOnce columns a call.   *)

FastestColumns ==
  [c \in 0..((sumJob.stride \div (2 * LongsAtOnce)) * LongsAtOnce - 1) |->
     SumFunction([r \in SumRows |-> LongAt(sumJob.before, r * sumJob.stride + 2 * c)]) % LongBase]

\* The rows are added to what the array holds, which nothing has cleared.
FastestRows(held) ==
  [r \in SumRows |->
     (held[r] + SumFunction([c \in DOMAIN FastestColumns |->
                               LongAt(sumJob.before, r * sumJob.stride + 2 * c)])) % LongBase]

----------------------------------------------------------------------------

ChangedWords == {w \in DOMAIN sumJob.before : sumJob.before[w] # sumJob.after[w]}
ChangedRows  == {r \in SumRows : rowSums[r] # rowSumsPrev[r]}
ChangedCols  == {c \in SumCols : colSums[c] # colSumsPrev[c]}

\* Whichever routine adds them up, the sums of two sweeps differ in no row or column where
\* the picture is the same, and in the row and the column of a word that is the only one
\* to change: a carry that the word by word sums drop hides nothing. On lines that the
\* assembly takes whole the diagnostic routine finds the sums of the fast one, provided
\* that its rows start from nothing.
SumsNotice ==
  sweep = 3 =>
    /\ ChangedRows \subseteq {w \div sumJob.stride : w \in ChangedWords}
    /\ ChangedCols \subseteq {(w % sumJob.stride) \div 2 : w \in ChangedWords}
    /\ Cardinality(ChangedWords) = 1 => Cardinality(ChangedRows) = 1 /\ Cardinality(ChangedCols) = 1
    /\ RestWords = 0 =>
         FastestRows(NoSums(SumRows)) = rowSums /\ FastestColumns = colSums
=============================================================================
