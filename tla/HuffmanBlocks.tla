---------------------------- MODULE HuffmanBlocks ----------------------------
(***************************************************************************)
(* The blocks that miniz writes (tdefl_flush_block and below), and how a   *)
(* client inflates them. What is written is a sequence of <<bits, length>> *)
(* pairs, the arguments of TDEFL_PUT_BITS. A code of the parser is <<byte>>*)
(* or <<length, distance>>. A table is a function on the symbols in use.   *)
(***************************************************************************)
EXTENDS Integers, FiniteSetsExt, SequencesExt

CONSTANTS
  EndOfBlock,  \* the symbol after those of the bytes: 256
  LitLimit,    \* the longest code of the two tables of a block: 15
  SizesLimit,  \* the longest code of the table of code sizes: 7
  StaticBelow  \* a block of fewer bytes takes the static tables: 48

LitSyms == 0..(EndOfBlock + 31)

BitsLength(tokens) == FoldLeft(LAMBDA n, t : n + t[2], 0, tokens)

----------------------------------------------------------------------------
(* tdefl_calculate_minimum_redundancy, by Moffat and Katajainen: A holds the *)
(* sorted counts, then the parents and then the depths of the inner nodes.   *)

TakeSmaller(s, n, next) ==
  IF s.leaf >= n \/ (s.root < next /\ s.A[s.root] < s.A[s.leaf])
  THEN [s EXCEPT !.weight = @ + s.A[s.root], !.A[s.root] = next, !.root = @ + 1]
  ELSE [s EXCEPT !.weight = @ + s.A[s.leaf], !.leaf = @ + 1]

InnerNode(s, n, next) ==
  LET t == TakeSmaller(TakeSmaller([s EXCEPT !.weight = 0], n, next), n, next) IN
  [t EXCEPT !.A[next] = t.weight]

LeafDepths(A, n) ==
  FoldLeft(LAMBDA B, next : [B EXCEPT ![next] = B[B[next]] + 1],
           [A EXCEPT ![n - 2] = 0], [i \in 1..(n - 2) |-> n - 2 - i])

\* How many codes there are of each size, for counts in ascending order.
CalculateMinimumRedundancy(sorted) ==
  LET n     == Len(sorted)
      start == [A |-> [i \in 0..(n - 1) |-> IF i = 0 THEN sorted[1] + sorted[2] ELSE sorted[i + 1]],
                root |-> 0, leaf |-> 2, weight |-> 0]
      inner == LeafDepths(FoldLeft(LAMBDA s, next : InnerNode(s, n, next), start,
                               [i \in 1..(n - 2) |-> i]).A, n)
      used(depth) == Cardinality({i \in 0..(n - 2) : inner[i] = depth})
      avbl(depth) == IF depth = 0 THEN 1 ELSE 2 * used(depth - 1)
  IN IF n < 2 THEN [size \in 1..1 |-> n]
     ELSE [size \in 1..(n - 1) |-> avbl(size) - used(size)]

RECURSIVE Shortened(_, _, _)
Shortened(num, total, limit) ==
  IF total = 2 ^ limit THEN num
  ELSE LET less   == [num EXCEPT ![limit] = @ - 1]
           longer == {i \in 1..(limit - 1) : less[i] > 0}
       IN Shortened(IF longer = {} THEN less
                    ELSE [less EXCEPT ![Max(longer)] = @ - 1, ![Max(longer) + 1] = @ + 2],
                    total - 1, limit)

\* A faulty variant: what is too long is only taken for as long as is allowed.
EnforceByCutting(num, syms, limit) ==
  [i \in 1..limit |-> IF i < limit
                      THEN IF i \in DOMAIN num THEN num[i] ELSE 0
                      ELSE MapThenSumSet(LAMBDA j : num[j], {j \in DOMAIN num : j >= limit})]

HuffmanEnforceMaxCodeSize(num, syms, limit) ==
  LET within == [i \in 1..limit |->
                   IF i < limit THEN IF i \in DOMAIN num THEN num[i] ELSE 0
                   ELSE MapThenSumSet(LAMBDA j : num[j], {j \in DOMAIN num : j >= limit})]
  IN IF syms <= 1 THEN within
     ELSE Shortened(within, MapThenSumSet(LAMBDA i : within[i] * 2 ^ (limit - i), 1..limit), limit)

Ascending(syms) == SelectSeq([i \in 1..(EndOfBlock + 32) |-> i - 1], LAMBDA s : s \in syms)

\* The sizes of the codes: the symbols in the order of tdefl_radix_sort_syms, which is
\* stable, and the shortest code for the last of them.
CodeSizes(counts, limit) ==
  LET n      == Cardinality(DOMAIN counts)
      sorted == SortSeq(Ascending(DOMAIN counts), LAMBDA s, t : counts[s] < counts[t] \/ (counts[s] = counts[t] /\ s < t))
      num    == HuffmanEnforceMaxCodeSize(
                  CalculateMinimumRedundancy([i \in 1..n |-> counts[sorted[i]]]), n, limit)
      sizes  == FoldLeft(LAMBDA q, i : q \o [l \in 1..num[i] |-> i], <<>>, [i \in 1..limit |-> i])
      place  == [i \in 1..n |-> sizes[n + 1 - i]]
  IN [s \in DOMAIN counts |-> place[CHOOSE i \in 1..n : sorted[i] = s]]

RECURSIVE Reversed(_, _)
Reversed(code, l) == IF l = 0 THEN 0 ELSE (code % 2) * 2 ^ (l - 1) + Reversed(code \div 2, l - 1)

\* tdefl_optimize_huffman_table, the codes: in the order of the symbols within a size.
HuffCodes(sizes) ==
  LET longest == Max({sizes[s] : s \in DOMAIN sizes} \cup {1})
      ofSize  == [i \in 1..longest |-> {s \in DOMAIN sizes : sizes[s] = i}]
      first   == FoldLeft(LAMBDA q, i : Append(q, (q[i - 1] + Cardinality(ofSize[i - 1])) * 2),
                          <<0>>, [i \in 1..(longest - 1) |-> i + 1])
  IN [s \in DOMAIN sizes |->
        <<Reversed(first[sizes[s]] + Cardinality({t \in ofSize[sizes[s]] : t < s}), sizes[s]),
          sizes[s]>>]

----------------------------------------------------------------------------
(* tdefl_start_dynamic_block: the sizes of the codes go out as runs, in      *)
(* codes of their own.                                                       *)

Copies(n, code) == [i \in 1..n |-> <<code, 0>>]

RlePrevCodeSize(s) ==
  [s EXCEPT !.repeats = 0,
            !.packed  = @ \o IF s.repeats < 3 THEN Copies(s.repeats, s.prev)
                             ELSE <<<<16, s.repeats - 3>>>>]

RleZeroCodeSize(s) ==
  [s EXCEPT !.zeros  = 0,
            !.packed = @ \o IF s.zeros < 3 THEN Copies(s.zeros, 0)
                            ELSE IF s.zeros <= 10 THEN <<<<17, s.zeros - 3>>>>
                            ELSE <<<<18, s.zeros - 11>>>>]

PackSize(s, size) ==
  LET zero == [RlePrevCodeSize(s) EXCEPT !.zeros = @ + 1]
      t    == RleZeroCodeSize(s)
      next == IF size = 0 THEN IF zero.zeros = 138 THEN RleZeroCodeSize(zero) ELSE zero
              ELSE IF size # s.prev
              THEN [RlePrevCodeSize(t) EXCEPT !.packed = Append(@, <<size, 0>>)]
              ELSE IF t.repeats + 1 = 6 THEN RlePrevCodeSize([t EXCEPT !.repeats = 6])
              ELSE [t EXCEPT !.repeats = @ + 1]
  IN [next EXCEPT !.prev = size]

PackedCodeSizes(sizes) ==
  LET s == FoldLeft(PackSize, [packed |-> <<>>, zeros |-> 0, repeats |-> 0, prev |-> 255], sizes) IN
  IF s.repeats > 0 THEN RlePrevCodeSize(s).packed ELSE RleZeroCodeSize(s).packed

RepeatBits(code) == CASE code = 16 -> 2 [] code = 17 -> 3 [] code = 18 -> 7

Swizzle == <<16, 17, 18, 0, 8, 7, 9, 6, 10, 5, 11, 4, 12, 3, 13, 2, 14, 1, 15>>

\* How many sizes are written: those at the end that are zero are not.
NumCodes(sizes, least) == Max({least} \cup {s + 1 : s \in DOMAIN sizes})

SizeOf(sizes, s) == IF s \in DOMAIN sizes THEN sizes[s] ELSE 0

Occurrences(q) == [x \in {q[i] : i \in DOMAIN q} |-> Cardinality({i \in DOMAIN q : q[i] = x})]

StartDynamicBlock(lit, dist) ==
  LET numLit  == NumCodes(lit, EndOfBlock + 1)
      numDist == NumCodes(dist, 1)
      packed  == PackedCodeSizes([i \in 1..numLit |-> SizeOf(lit, i - 1)] \o
                                 [i \in 1..numDist |-> SizeOf(dist, i - 1)])
      sizes   == CodeSizes(Occurrences([i \in DOMAIN packed |-> packed[i][1]]), SizesLimit)
      codes   == HuffCodes(sizes)
      lengths == Max({4} \cup {i \in DOMAIN Swizzle : Swizzle[i] \in DOMAIN sizes})
  IN <<<<2, 2>>, <<numLit - EndOfBlock - 1, 5>>, <<numDist - 1, 5>>, <<lengths - 4, 4>>>> \o
     [i \in 1..lengths |-> <<SizeOf(sizes, Swizzle[i]), 3>>] \o
     FoldLeft(LAMBDA q, p : q \o <<codes[p[1]]>> \o
                            IF p[1] >= 16 THEN <<<<p[2], RepeatBits(p[1])>>>> ELSE <<>>,
              <<>>, packed)

\* tdefl_start_static_block.
StaticLit  == [s \in LitSyms |-> IF s \in 144..(EndOfBlock - 1) THEN 9
                              ELSE IF s \in EndOfBlock..(EndOfBlock + 23) THEN 7 ELSE 8]
StaticDist == [s \in 0..31 |-> 5]

StaticLitCodes  == HuffCodes(StaticLit)
StaticDistCodes == HuffCodes(StaticDist)

----------------------------------------------------------------------------
(* tdefl_compress_lz_codes, with the tables of symbols.                      *)

LengthBase == <<3, 4, 5, 6, 7, 8, 9, 10, 11, 13, 15, 17, 19, 23, 27, 31, 35, 43, 51, 59,
                67, 83, 99, 115, 131, 163, 195, 227, 258>>

LenSym(len)   == EndOfBlock + Max({i \in DOMAIN LengthBase : LengthBase[i] <= len})
LenExtra(sym) == LET i == sym - EndOfBlock IN IF i < 9 \/ i = 29 THEN 0 ELSE ((i - 1) \div 4) - 1

Log2(d)        == CHOOSE k \in 0..15 : 2 ^ k <= d /\ d < 2 ^ (k + 1)
DistSym(dist)  == LET d == dist - 1 IN
                  IF d < 2 THEN d ELSE 2 * Log2(d) + ((d \div 2 ^ (Log2(d) - 1)) % 2)
DistExtra(sym) == IF sym < 2 THEN 0 ELSE (sym \div 2) - 1

LzTokens(code, lit, dist) ==
  IF Len(code) = 1 THEN <<lit[code[1]]>>
  ELSE LET ls == LenSym(code[1])  ds == DistSym(code[2]) IN
       <<lit[ls],  <<(code[1] - 3) % 2 ^ LenExtra(ls), LenExtra(ls)>>,
         dist[ds], <<(code[2] - 1) % 2 ^ DistExtra(ds), DistExtra(ds)>>>>

CompressLzCodes(codes, lit, dist) ==
  FoldLeft(LAMBDA q, code : q \o LzTokens(code, lit, dist), <<>>, codes) \o <<lit[EndOfBlock]>>

\* m_huff_count of the literals and lengths, and of the distances.
LitCounts(codes) ==
  Occurrences(Append([i \in DOMAIN codes |-> IF Len(codes[i]) = 1 THEN codes[i][1] ELSE LenSym(codes[i][1])],
                     EndOfBlock))
DistCounts(codes) ==
  LET matches == SelectSeq(codes, LAMBDA code : Len(code) = 2) IN
  Occurrences([i \in DOMAIN matches |-> DistSym(matches[i][2])])

StaticBlock(codes) == <<<<1, 2>>>> \o CompressLzCodes(codes, StaticLitCodes, StaticDistCodes)

DynamicTables(codes, lit, dist) ==
  StartDynamicBlock(lit, dist) \o CompressLzCodes(codes, HuffCodes(lit), HuffCodes(dist))
DynamicBlock(codes) ==
  DynamicTables(codes, CodeSizes(LitCounts(codes), LitLimit), CodeSizes(DistCounts(codes), LitLimit))

Padding(bits) == IF bits % 8 = 0 THEN <<>> ELSE <<<<0, 8 - (bits % 8)>>>>

RawBlock(bytes, bits) ==
  <<<<0, 2>>>> \o Padding(bits + 2) \o
  <<<<Len(bytes), 16>>, <<65535 - Len(bytes), 16>>>> \o [i \in DOMAIN bytes |-> <<bytes[i], 8>>]

\* The coded block, or the bytes themselves if that is not shorter.
SmallerBlock(coded, bytes, bits, allRaw, inDict) ==
  IF inDict /\ (allRaw \/ (bytes # <<>> /\ ((bits % 8) + BitsLength(coded)) \div 8 + 1 >= Len(bytes)))
  THEN RawBlock(bytes, bits) ELSE coded

\* tdefl_flush_block: the codes of a block, the bytes they stand for as they are in the
\* dictionary, whether they are all there, and how many bits were written before.
Encoded(codes, bytes, bits, allRaw, inDict) ==
  <<<<0, 1>>>> \o
  SmallerBlock(IF Len(bytes) < StaticBelow THEN StaticBlock(codes) ELSE DynamicBlock(codes),
          bytes, bits + 1, allRaw, inDict)

\* The marker of a sync flush: an empty block.
SyncMarker(bits) == <<<<0, 3>>>> \o Padding(bits + 3) \o <<<<0, 16>>, <<65535, 16>>>>
=============================================================================
