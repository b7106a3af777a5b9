-------------------------------- MODULE MCWire --------------------------------
(* Formats, colours and tiles for WirePixels.                                *)
EXTENDS WirePixels

Format(bits, big, max, shift) ==
  [trueColor |-> TRUE, bits |-> bits, big |-> big, max |-> max, shift |-> shift]

\* 32 bits in either order of bytes and of colours, 16 bits in either order of bytes,
\* and 8 bits.
MCWireFormats ==
  {Format(32, b, <<255, 255, 255>>, s) : b \in BOOLEAN, s \in {<<16, 8, 0>>, <<0, 8, 16>>}} \cup
  {Format(16, b, <<31, 63, 31>>, <<11, 5, 0>>) : b \in BOOLEAN} \cup
  {Format(8, TRUE, <<7, 7, 3>>, <<0, 3, 6>>)}

\* Black, white, and colours in between.
MCWireColors ==
  <<<<0, 0, 0>>, <<65535, 65535, 65535>>, <<65535, 30000, 0>>, <<1, 40000, 52428>>>>

\* On true colour screens every value of a channel of five bits, and every eighth of one
\* of eight.
WireTilesTable ==
  [depth \in {8, 16, 32} |->
     CASE depth = 8  -> {<<a, b, c, d>> : a \in 1 .. 4, b \in {1, 4}, c \in {1, 3}, d \in {2, 4}}
       [] depth = 16 -> {[i \in 1 .. 32 |-> <<i - 1, (i * k) % 32, 32 - i>>] : k \in {1, 7}}
       [] depth = 32 -> {[i \in 1 .. 32 |-> <<8 * i - 8, 255 - ((i * k) % 256), 255>>] :
                           k \in {1, 85}}]

MCWireTilesOf(depth) == WireTilesTable[depth]

\* The proofs are about formats like these.
ASSUME MCOrdinary == OrdinaryFormats
=============================================================================
