------------------------------- MODULE MonoTiles -------------------------------
(***************************************************************************)
(* TRLE on a black and white Macintosh (VNCEncodeTRLEMono.cpp): a row of   *)
(* tiles is a chunk, every tile is packed with two colours until it turns  *)
(* out to be white all over, and the palette is sent again only where the  *)
(* client may have lost it. The routine in assembly and the one in C++     *)
(* decide that differently.                                                *)
(***************************************************************************)
EXTENDS Naturals, Sequences

CONSTANTS
  MonoCols,    \* tiles in a row
  MonoHeight,  \* fbUpdateRect.h, in rows of pixels
  MonoTileRows, \* 16
  MonoWords    \* what the 16 pixels of a tile in one row may be; White is one of them

White == 0

ASSUME MonoAssumption ==
  /\ MonoCols \in Nat \ {0} /\ MonoHeight \in Nat \ {0} /\ MonoTileRows \in Nat \ {0}
  /\ White \in MonoWords

VARIABLES
  assembly,      \* which routine was built
  mono_tile_y,   \* tile_y
  monoLastTile,  \* lastTile
  monoColumn,    \* how many tiles this chunk has
  monoPalette,   \* the client has the palette from the tile before
  monoShown      \* the last tile, and what the client sees of it

mvars == <<assembly, mono_tile_y, monoLastTile, monoColumn, monoPalette, monoShown>>

MonoSolid == 1
Mono2Color == 2
MonoReuse == 127

MonoInit ==
  /\ assembly \in BOOLEAN
  /\ mono_tile_y = MonoHeight /\ monoLastTile \in {0, MonoSolid, Mono2Color}
  /\ monoColumn = 0 /\ monoPalette = FALSE /\ monoShown = [pixels |-> <<>>, decoded |-> <<>>]

\* VNCEncoder::begin, with VNCEncodeTRLE::begin.
MonoBegin ==
  /\ mono_tile_y >= MonoHeight
  /\ mono_tile_y' = 0 /\ monoLastTile' = 0
  /\ monoColumn' = 0 /\ monoPalette' = FALSE
  /\ UNCHANGED <<assembly, monoShown>>

MonoRowCount ==
  IF MonoHeight - mono_tile_y < MonoTileRows THEN MonoHeight - mono_tile_y ELSE MonoTileRows

AllWhite(tile) == \A i \in DOMAIN tile : tile[i] = White

\* The C++ routine has no memory of the last tile. In the first row, and at the head of
\* every other, the palette is sent.
ReusesPalette ==
  IF assembly THEN monoLastTile = Mono2Color ELSE mono_tile_y > 0 /\ monoColumn > 0

\* A faulty variant: a white tile leaves lastTile as it was.
LastTileKept(tile) == Mono2Color

\* What the assembly keeps in lastTile: a tile that turns out white is written again.
LastTileAfter(tile) == IF AllWhite(tile) THEN MonoSolid ELSE Mono2Color

\* The client: [code, pixels]. The palette belongs to the tile before, and a solid tile
\* has none.
MonoSees(code, tile) ==
  CASE code = MonoSolid  -> [i \in DOMAIN tile |-> White]
    [] code = Mono2Color -> tile
    [] code = MonoReuse  -> IF monoPalette THEN tile ELSE <<>>

\* One round of the loop of getChunkMonochrome.
MonoEncodeTile(tile) ==
  /\ mono_tile_y < MonoHeight /\ monoColumn < MonoCols
  /\ Len(tile) = MonoRowCount
  /\ LET code == IF assembly /\ AllWhite(tile) THEN MonoSolid
                 ELSE IF ReusesPalette THEN MonoReuse ELSE Mono2Color IN
     /\ monoShown' = [pixels |-> tile, decoded |-> MonoSees(code, tile)]
     /\ monoPalette' = (code # MonoSolid)
  /\ monoLastTile' = IF assembly THEN LastTileAfter(tile) ELSE monoLastTile
  /\ monoColumn' = monoColumn + 1
  /\ UNCHANGED <<assembly, mono_tile_y>>

\* The end of the chunk: it is sent, and the next one begins with the row below.
MonoChunkSent ==
  /\ mono_tile_y < MonoHeight /\ monoColumn = MonoCols
  /\ mono_tile_y' = mono_tile_y + MonoTileRows /\ monoColumn' = 0
  /\ UNCHANGED <<assembly, monoLastTile, monoPalette, monoShown>>

MonoTilesOf == UNION {[1..n -> MonoWords] : n \in 1..MonoTileRows}

MonoNext ==
  \/ MonoBegin
  \/ \E tile \in MonoTilesOf : MonoEncodeTile(tile)
  \/ MonoChunkSent

MonoSpec == MonoInit /\ [][MonoNext]_mvars

\* A tile that uses the palette again follows one that had it, across chunks and frames,
\* and the client sees the tile that is on the screen.
MonoDecoded == monoShown.decoded = monoShown.pixels
=============================================================================
