-------------------------------- MODULE Deflate --------------------------------
(***************************************************************************)
(* What miniz makes of the bytes it is given: tdefl_compress with the      *)
(* dictionary, the hash chains, the search for matches and the parser of   *)
(* tdefl_compress_normal, and the blocks of HuffmanBlocks. Where the       *)
(* output goes is the matter of InPlaceDeflate. A client inflates.         *)
(***************************************************************************)
EXTENDS HuffmanBlocks

CONSTANTS
  DictSize,     \* TDEFL_LZ_DICT_SIZE
  MaxMatch,     \* TDEFL_MAX_MATCH_LEN, an even number
  PosMod,       \* 2^16: a position in m_hash and m_next
  HashSize,     \* TDEFL_LZ_HASH_SIZE
  HashBase,     \* 2^TDEFL_LZ_HASH_SHIFT
  LongMatch,    \* 32: from here on the fewer probes
  EnoughMatch,  \* 128: no better match is looked for
  TooFar,       \* 8192: a match of three bytes from there is not worth it
  CodeBuf,      \* TDEFL_LZ_CODE_BUF_SIZE - 8
  EarlyBlock,   \* 31 * 1024: a block of more bytes ends if coding them gains nothing
  Levels,       \* records of what the level of compression decides
  Data,         \* what is compressed
  CallLens      \* how many bytes a call gives

ASSUME DeflateAssumption ==
  /\ DictSize \in Nat \ {0} /\ MaxMatch \in Nat \ {0} /\ MaxMatch % 2 = 0
  /\ MaxMatch < DictSize /\ PosMod % DictSize = 0
  /\ CallLens \subseteq Nat \ {0}
  /\ \A q \in Data : \A i \in DOMAIN q : q[i] \in 0..(EndOfBlock - 1)

VARIABLES
  data, level,
  fed,       \* how many bytes of data were given to calls
  src_left,  \* m_src_buf_left: how many of them the parser has not taken
  flushing,  \* the call is one with TDEFL_SYNC_FLUSH
  dpc,       \* the place in tdefl_compress
  lz,         \* m_dict, m_next, m_hash, m_lookahead_pos, _size, m_dict_size
  saved,     \* m_saved_match_len, m_saved_match_dist, m_saved_lit
  codes,     \* m_lz_code_buf
  block_pos, \* m_lz_code_buf_dict_pos
  bits_in,   \* m_bits_in
  inflated   \* history: what the client has made of the blocks, or "bad"

dvars == <<data, level, fed, src_left, flushing, dpc, lz, saved, codes, block_pos, bits_in, inflated>>

NotSaved == [len |-> 0, dist |-> 0, lit |-> 0]

\* tdefl_init clears m_dict and m_hash; m_next is as it was.
DeflateInit ==
  /\ data \in Data /\ level \in Levels
  /\ fed = 0 /\ src_left = 0 /\ flushing = FALSE /\ dpc = "idle"
  /\ lz = [dict |-> [i \in 0..(DictSize + MaxMatch - 2) |-> 0], next |-> [i \in 0..(DictSize - 1) |-> PosMod - 1],
          hash |-> [h \in 0..(HashSize - 1) |-> 0], pos |-> 0, size |-> 0, dictSize |-> 0]
  /\ saved = NotSaved /\ codes = <<>> /\ block_pos = 0 /\ bits_in = 0 /\ inflated = <<>>

----------------------------------------------------------------------------
(* The dictionary: the bytes to look at are behind those already coded.      *)

\* The code shifts and xors; which places share a chain is all that matters here.
Hash(a, b, c) == (a * HashBase * HashBase + b * HashBase + c) % HashSize

\* One byte more to look at; its predecessors and it are a new place to search.
TakeByte(s, c) ==
  LET at   == (s.pos + s.size) % DictSize
      ins  == s.pos + s.size - 2
      dict == [i \in DOMAIN s.dict |-> IF i = at \/ (i = DictSize + at /\ at < MaxMatch - 1)
                                       THEN c ELSE s.dict[i]]
      h    == Hash(dict[ins % DictSize], dict[(ins + 1) % DictSize], c)
      t    == [s EXCEPT !.dict = dict, !.size = @ + 1]
  IN IF t.size + s.dictSize < 3 THEN t
     ELSE [t EXCEPT !.next[ins % DictSize] = s.hash[h], !.hash[h] = ins % PosMod]

Taken(s, n) == FoldLeft(LAMBDA t, i : TakeByte(t, data[fed - src_left + i]), s, [i \in 1..n |-> i])

\* The window shrinks by what is to come.
Windowed(s) == [s EXCEPT !.dictSize = Min({DictSize - s.size, @})]

----------------------------------------------------------------------------
(* tdefl_find_match, two bytes at a time.                                    *)

TwoBytes(dict, i) == <<dict[i], dict[i + 1]>>

\* The length of what p and q have in common.
Common(dict, p, q) ==
  Min({MaxMatch} \cup {i \in 0..(MaxMatch - 1) : dict[p + i] # dict[q + i]})

\* One TDEFL_PROBE; three to a count of num_probes_left.
Probe(s, m) ==
  LET pos   == s.pos % DictSize
      left  == IF m.turn = 0 THEN m.left - 1 ELSE m.left
      next  == s.next[m.at]
      dist  == ((s.pos % PosMod) + PosMod - next) % PosMod
      at    == next % DictSize
      same  == Common(s.dict, pos, at)
      moved == [m EXCEPT !.at = at, !.left = left]
  IN IF m.done \/ (m.turn = 0 /\ left = 0) \/ next = 0 \/ dist > s.dictSize THEN [m EXCEPT !.done = TRUE]
     ELSE IF TwoBytes(s.dict, at + m.len - 1) # TwoBytes(s.dict, pos + m.len - 1)
          THEN [moved EXCEPT !.turn = (@ + 1) % 3]
     ELSE IF dist = 0 THEN [m EXCEPT !.done = TRUE]
     ELSE IF TwoBytes(s.dict, at) # TwoBytes(s.dict, pos) \/ same <= m.len THEN [moved EXCEPT !.turn = 0]
     ELSE [moved EXCEPT !.turn = 0, !.dist = dist, !.len = Min({s.size, same}),
                        !.done = same >= s.size \/ same = MaxMatch]

\* The match found from a length on that is to be bettered: length and distance.
FindMatch(s, len) ==
  LET probes == IF len >= LongMatch THEN level.fewProbes ELSE level.probes IN
  IF s.size <= len THEN [len |-> len, dist |-> 0]
  ELSE FoldLeft(LAMBDA m, i : Probe(s, m),
                [at |-> s.pos % DictSize, left |-> probes, turn |-> 0, len |-> len, dist |-> 0, done |-> FALSE],
                [i \in 1..(3 * probes) |-> i])

\* The match that tdefl_compress_normal goes on with.
Match(s) ==
  LET least == IF saved.len > 0 THEN saved.len ELSE 2
      m     == IF level.raw THEN [len |-> least, dist |-> 0] ELSE FindMatch(s, least)
  IN IF (m.len = 3 /\ m.dist >= TooFar) \/ s.pos % DictSize = m.dist THEN [len |-> 0, dist |-> 0]
     ELSE [len |-> m.len, dist |-> m.dist]

----------------------------------------------------------------------------
(* tdefl_compress.                                                           *)

Call(n, flush) ==
  /\ dpc = "idle" /\ fed + n <= Len(data)
  /\ fed' = fed + n /\ src_left' = n /\ flushing' = flush /\ dpc' = "parse"
  /\ UNCHANGED <<data, level, lz, saved, codes, block_pos, bits_in, inflated>>

Going == src_left > 0 \/ (flushing /\ lz.size > 0)

\* The lookahead is filled, and then coded by so many bytes.
Filled == LET n == Min({src_left, MaxMatch - lz.size}) IN Windowed(Taken(lz, n))

Forward(s, n) == [s EXCEPT !.pos = @ + n, !.size = @ - n, !.dictSize = Min({@ + n, DictSize})]

Record(new, s, n, keep) ==
  /\ codes' = codes \o new /\ lz' = Forward(s, n) /\ saved' = keep

\* The lazy or greedy parser.
Parse(s, m) ==
  LET lit   == s.dict[s.pos % DictSize]
      later == [len |-> m.len, dist |-> m.dist, lit |-> lit]
      match == <<<<m.len, m.dist>>>>
  IN IF saved.len > 0
     THEN IF m.len > saved.len
          THEN IF m.len >= EnoughMatch THEN Record(<<<<saved.lit>>>> \o match, s, m.len, [saved EXCEPT !.len = 0])
               ELSE Record(<<<<saved.lit>>>>, s, 1, later)
          ELSE Record(<<<<saved.len, saved.dist>>>>, s, saved.len - 1, [saved EXCEPT !.len = 0])
     ELSE IF m.dist = 0 THEN Record(<<<<lit>>>>, s, 1, saved)
     ELSE IF level.greedy \/ m.len >= EnoughMatch THEN Record(match, s, m.len, saved)
     ELSE Record(<<>>, s, 1, later)

\* The bytes of m_lz_code_buf: the codes, and a byte of flags for eight of them.
CodeBytes(q) == FoldLeft(LAMBDA n, code : n + IF Len(code) = 1 THEN 1 ELSE 3, 1 + Len(q) \div 8, q)

Stands(q) == FoldLeft(LAMBDA n, code : n + IF Len(code) = 1 THEN 1 ELSE code[1], 0, q)

BlockIsFull(q) ==
  \/ CodeBytes(q) > CodeBuf
  \/ Stands(q) > EarlyBlock /\ (level.raw \/ (CodeBytes(q) * 115) \div 128 >= Stands(q))

ParseStep ==
  /\ dpc = "parse" /\ Going
  /\ LET s == Filled IN
     IF ~flushing /\ s.size < MaxMatch
     THEN lz' = s /\ src_left' = 0 /\ dpc' = "end" /\ UNCHANGED <<codes, saved>>
     ELSE /\ Parse(s, Match(s))
          /\ src_left' = src_left - (s.size - lz.size)
          /\ dpc' = IF BlockIsFull(codes') THEN "full" ELSE "parse"
  /\ UNCHANGED <<data, level, fed, flushing, block_pos, bits_in, inflated>>

ParseEnds ==
  /\ dpc = "parse" /\ ~Going
  /\ dpc' = "end"
  /\ UNCHANGED <<data, level, fed, src_left, flushing, lz, saved, codes, block_pos, bits_in, inflated>>

----------------------------------------------------------------------------
(* The client.                                                               *)

OfSize(sizes, l) == SelectSeq(Ascending(DOMAIN sizes), LAMBDA s : sizes[s] = l)

\* The first code of a size: all shorter ones, and what begins with them, are before it.
FirstOf(sizes, l) ==
  MapThenSumSet(LAMBDA k : Len(OfSize(sizes, k)) * 2 ^ (l - k), 1..(l - 1))

\* A code is taken if it is complete, or has one symbol.
Usable(sizes) ==
  FirstOf(sizes, 16) = 2 ^ 16 \/ Cardinality(DOMAIN sizes) <= 1

Symbol(sizes, t) ==
  LET k == Reversed(t[1], t[2]) - FirstOf(sizes, t[2])
      q == OfSize(sizes, t[2])
  IN IF t[2] > 0 /\ k \in 0..(Len(q) - 1) THEN q[k + 1] ELSE -1

\* The table of n sizes, from the first on; what has size zero has no code.
ClientTable(q, from, n) == [s \in {s \in 0..(n - 1) : q[from + s] > 0} |-> q[from + s]]

DistBase(sym) == 1 + IF sym < 2 THEN sym ELSE (2 + (sym % 2)) * 2 ^ DistExtra(sym)

Bad(c)           == [c EXCEPT !.mode = "bad"]
Goes(c, t, l, m) == IF t[2] = l THEN [c EXCEPT !.mode = m, !.val = t[1]] ELSE Bad(c)

RECURSIVE Copied(_, _, _)
Copied(out, len, dist) ==
  IF len = 0 THEN out ELSE Copied(Append(out, out[Len(out) + 1 - dist]), len - 1, dist)

\* All code sizes are there.
WithSizes(c) ==
  IF Len(c.sizes) < c.lits + c.dists THEN [c EXCEPT !.mode = "pack"]
  ELSE LET lit  == ClientTable(c.sizes, 1, c.lits)
           dist == ClientTable(c.sizes, c.lits + 1, c.dists)
       IN [c EXCEPT !.mode = IF Len(c.sizes) = c.lits + c.dists /\ Usable(lit) /\ Usable(dist)
                             THEN "body" ELSE "bad",
                    !.lit = lit, !.dist = dist]

More(c, n, size) == WithSizes([c EXCEPT !.sizes = @ \o [i \in 1..n |-> size]])

\* One pair of bits and length.
Inflate(c, t) ==
  LET sym(sizes) == Symbol(sizes, t)
      aligned    == (c.bits + t[2]) % 8 = 0
      e == [c EXCEPT !.bits = @ + t[2]]
  IN CASE c.mode = "final" -> Goes(e, t, 1, "type")
       [] c.mode = "type" /\ t = <<0, 2>> -> [e EXCEPT !.mode = IF aligned THEN "stored" ELSE "pad"]
       [] c.mode = "type" /\ t = <<1, 2>> ->
            [e EXCEPT !.mode = "body", !.lit = StaticLit, !.dist = StaticDist]
       [] c.mode = "type" /\ t = <<2, 2>> -> [e EXCEPT !.mode = "hlit"]
       [] c.mode = "final3" -> Goes(e, t, 3, IF aligned THEN "stored" ELSE "pad")
       [] c.mode = "pad" -> IF aligned /\ t[2] < 8 THEN [e EXCEPT !.mode = "stored"] ELSE Bad(c)
       [] c.mode = "stored" -> Goes(e, t, 16, "inverse")
       [] c.mode = "inverse" ->
            IF t = <<65535 - c.val, 16>> THEN [e EXCEPT !.mode = IF c.val = 0 THEN "done" ELSE "bytes"] ELSE Bad(c)
       [] c.mode = "bytes" ->
            [e EXCEPT !.out = Append(@, t[1]), !.val = @ - 1, !.mode = IF c.val = 1 THEN "done" ELSE "bytes"]
       [] c.mode = "hlit" -> [Goes(e, t, 5, "hdist") EXCEPT !.lits = t[1] + EndOfBlock + 1]
       [] c.mode = "hdist" -> [Goes(e, t, 5, "hclen") EXCEPT !.dists = t[1] + 1]
       [] c.mode = "hclen" -> [Goes(e, t, 4, "lengths") EXCEPT !.clens = t[1] + 4, !.sizes = <<>>]
       [] c.mode = "lengths" ->
            LET sizes == Append(c.sizes, t[1]) IN
            IF t[2] # 3 THEN Bad(c)
            ELSE IF Len(sizes) < c.clens THEN [e EXCEPT !.sizes = sizes]
            ELSE LET used  == {i \in DOMAIN sizes : sizes[i] > 0}
                     table == [s \in {Swizzle[i] : i \in used} |->
                                 sizes[CHOOSE i \in used : Swizzle[i] = s]]
                 IN [e EXCEPT !.mode = IF Usable(table) THEN "pack" ELSE "bad",
                              !.sizes = <<>>, !.lit = table]
       [] c.mode = "pack" ->
            IF sym(c.lit) \in 16..18 THEN [e EXCEPT !.mode = "repeat", !.val = sym(c.lit)]
            ELSE IF sym(c.lit) = -1 THEN Bad(c) ELSE More(e, 1, sym(c.lit))
       [] c.mode = "repeat" ->
            IF t[2] # RepeatBits(c.val) \/ (c.val = 16 /\ c.sizes = <<>>) THEN Bad(c)
            ELSE More(e, t[1] + (IF c.val = 18 THEN 11 ELSE 3), IF c.val = 16 THEN Last(c.sizes) ELSE 0)
       [] c.mode = "body" ->
            LET s == sym(c.lit) IN
            IF s = -1 THEN Bad(c)
            ELSE IF s < EndOfBlock THEN [e EXCEPT !.out = Append(@, s)]
            ELSE IF s = EndOfBlock THEN [e EXCEPT !.mode = "done"]
            ELSE [e EXCEPT !.mode = "length", !.val = s]
       [] c.mode = "length" ->
            IF t[2] # LenExtra(c.val) THEN Bad(c)
            ELSE [e EXCEPT !.mode = "distance", !.val = LengthBase[c.val - EndOfBlock] + t[1]]
       [] c.mode = "distance" ->
            IF sym(c.dist) = -1 THEN Bad(c) ELSE [e EXCEPT !.mode = "offset", !.clens = sym(c.dist)]
       [] c.mode = "offset" ->
            LET dist == DistBase(c.clens) + t[1] IN
            IF t[2] # DistExtra(c.clens) \/ dist > Len(c.out) THEN Bad(c)
            ELSE [e EXCEPT !.mode = "body", !.out = Copied(@, c.val, dist)]
       [] OTHER -> Bad(c)

Inflated(tokens, out, bits, mode) ==
  LET c == FoldLeft(Inflate, [mode |-> mode, out |-> out, bits |-> bits, val |-> 0, lits |-> 0, dists |-> 0,
                              clens |-> 0, sizes |-> <<>>, lit |-> <<>>, dist |-> <<>>], tokens)
  IN IF c.mode = "done" THEN c.out ELSE "bad"

----------------------------------------------------------------------------
(* The end of a block.                                                       *)

\* The bytes of the block, as the dictionary has them now.
BlockBytes == [i \in 1..Stands(codes) |-> lz.dict[(block_pos + i - 1) % DictSize]]

BlockTokens == Encoded(codes, BlockBytes, bits_in, level.raw, lz.pos - block_pos <= lz.dictSize)

Read(out, tokens, bits, mode) == IF out = "bad" THEN "bad" ELSE Inflated(tokens, out, bits, mode)

NewBlock == codes' = <<>> /\ block_pos' = block_pos + Stands(codes)

\* The code buffer is full, or the block ends early.
BlockFull ==
  /\ dpc = "full"
  /\ \E tokens \in {BlockTokens} :
       /\ inflated' = Read(inflated, tokens, bits_in, "final")
       /\ bits_in' = (bits_in + BitsLength(tokens)) % 8
  /\ NewBlock
  /\ dpc' = "parse"
  /\ UNCHANGED <<data, level, fed, src_left, flushing, lz, saved>>

\* Everything was coded, and the call is to flush it: the block and the marker, which
\* ends at a byte.
SyncFlush ==
  /\ dpc = "end" /\ flushing
  /\ \E tokens \in {BlockTokens} : \E bits \in {(bits_in + BitsLength(tokens)) % 8} :
       inflated' = Read(Read(inflated, tokens, bits_in, "final"), SyncMarker(bits), bits, "final3")
  /\ bits_in' = 0
  /\ NewBlock
  /\ dpc' = "idle"
  /\ UNCHANGED <<data, level, fed, src_left, flushing, lz, saved>>

CallEnds ==
  /\ dpc = "end" /\ ~flushing
  /\ dpc' = "idle"
  /\ UNCHANGED <<data, level, fed, src_left, flushing, lz, saved, codes, block_pos, bits_in, inflated>>

DeflateNext ==
  \/ \E n \in CallLens, flush \in BOOLEAN : Call(n, flush)
  \/ ParseStep \/ ParseEnds \/ BlockFull \/ SyncFlush \/ CallEnds

DeflateSpec == DeflateInit /\ [][DeflateNext]_dvars

\* A client that inflates the blocks gets the bytes that were compressed, in this order,
\* whatever matches the parser found in the dictionary and whatever tables the blocks
\* have; and all of them when a call that flushes is over.
DataInflated ==
  /\ inflated # "bad"
  /\ Len(inflated) <= fed
  /\ \A i \in DOMAIN inflated : inflated[i] = data[i]
  /\ dpc = "idle" /\ flushing => Len(inflated) = fed
=============================================================================
