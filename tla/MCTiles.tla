-------------------------------- MODULE MCTiles --------------------------------
(* Tiles for TileEncoder, for screens of 1, 2 and 8 bits.                    *)
EXTENDS TileEncoder

Tile(rows, cols, pixels) == [rows |-> rows, cols |-> cols, pixels |-> pixels]

\* The pixels of runs of these lengths and colours.
Spread(lengths, colours) ==
  Expand([i \in DOMAIN lengths |-> [color |-> colours[i], count |-> lengths[i] - 1]])

\* Three rows of one word: the last is half of a long. Runs end within words, at their
\* ends, and pass them.
Mono ==
  {Tile(3, 16, Spread(l, <<a, 1 - a, a, 1 - a>>)) : a \in {0, 1},
     l \in {<<48>>, <<20, 28>>, <<47, 1>>, <<1, 46, 1>>, <<32, 16>>, <<10, 10, 10, 18>>}}

\* Two, three and all of four colours, in long runs and in short ones; the end of a screen
\* whose rows are no whole longs, with half a long at the end.
FourColours ==
  {Tile(2, 16, Spread(l, c)) :
     l \in {<<1, 31>>, <<4, 12, 16>>, <<1, 1, 1, 29>>},
     c \in {<<0, 1, 0, 1>>, <<0, 3, 0, 0>>, <<0, 1, 3, 0>>, <<2, 2, 1, 1>>}} \cup
  {Tile(9, 8, Spread(<<40, 32>>, c)) : c \in {<<0, 3>>, <<3, 0>>}} \cup
  {Tile(2, 16, Spread(<<4, 3, 4, 21>>, <<0, 1, 2, 3>>)),
   Tile(2, 16, [i \in 1..32 |-> <<0, 1, 3>>[1 + (i % 3)]]),
   Tile(2, 16, [i \in 1..32 |-> (i + i \div 4) % 4]),
   Tile(2, 16, [i \in 1..32 |-> IF i % 3 = 0 THEN 2 ELSE i % 2])}

\* Tiles with the first and the last colour of 256, and tiles of which no form is short.
ManyColours ==
  {Tile(4, 4, Spread(l, c)) :
     l \in {<<1, 15>>, <<4, 8, 4>>, <<1, 1, 1, 13>>},
     c \in {<<0, 200, 0, 200>>, <<0, 255, 7, 0>>, <<7, 0, 200, 0>>}} \cup
  {Tile(9, 2, Spread(<<10, 8>>, c)) : c \in {<<0, 200>>, <<200, 0>>}} \cup
  {Tile(4, 4, [i \in 1..16 |-> 10 + i]), Tile(4, 4, [i \in 1..16 |-> i % 2])}

TilesTable == [d \in {1, 2, 8} |->
  CASE d = 1 -> Mono [] d = 2 -> FourColours [] d = 8 -> ManyColours]

MCTilesOf(depth) == TilesTable[depth]
=============================================================================
