------------------------------ MODULE Parts_proofs ------------------------------
(***************************************************************************)
(* Parts of the server that go on beside the stream of frames: the keys    *)
(* that a client presses, the tiles of a black and white screen, the       *)
(* settings of the user, the counters of the telemetry, the lines of the   *)
(* log and the files of a TightVNC client. Each has a specification of its *)
(* own, and its promise holds for all constants.                           *)
(***************************************************************************)
EXTENDS Integers, Keyboard, MonoTiles, Telemetry, Console, DebugLog, TightFiles,
        SequenceTheorems, WellFoundedInduction, TLAPS

----------------------------------------------------------------------------
(* The keyboard.                                                             *)

\* The keys of the keysyms that the client holds.
HeldKeys == {Key(s) : s \in keysHeld}

\* Two keysyms that are down have two keys. The modifiers are remembered as they are, and
\* shown with Cmd for Ctrl and Alt.
KeyInv ==
  /\ keysHeld \subseteq AllSyms
  /\ \A s, t \in keysHeld : s = t \/ Key(s) # Key(t) \/ Key(s) = NoKey
  /\ modifiedKeys = HeldKeys \cap ModifierKeys
  /\ getKeyBuffer \cap ModifierKeys = AsCmd(modifiedKeys)
  /\ getKeyBuffer \ ModifierKeys = HeldKeys \ (ModifierKeys \cup {NoKey})
  /\ lowMemKeys = AsCmd(modifiedKeys)

\* A keysym of a modifier has the key of a modifier, and a character has the key of a
\* character or none: the search of PressKey gives what Setup has put into the table.
LEMMA KeyKinds ==
  /\ \A s \in AllSyms \ CharSyms : Key(s) \in ModifierKeys /\ Key(s) = ModifierSyms[s]
  /\ \A s \in CharSyms : Key(s) \in CharKeys \cup {NoKey} /\ Key(s) = KeyOf(s)
<1>1. ASSUME NEW s \in AllSyms \ CharSyms
      PROVE  Key(s) \in ModifierKeys /\ Key(s) = ModifierSyms[s]
  BY KeyAssumption DEF Key, AllSyms
<1>2. ASSUME NEW s \in CharSyms
      PROVE  KeyOf(s) \in CharKeys \cup {NoKey}
  <2> DEFINE found == {d \in 0..2 : KeyTable[s][d] # NoKey}
             least == CHOOSE d \in found : \A e \in found : d <= e
  <2>1. CASE found = {}
    BY <2>1 DEF KeyOf
  <2>2. CASE found # {}
    <3>1. \E d \in found : \A e \in found : d <= e
      <4>1. CASE 0 \in found
        BY <4>1
      <4>2. CASE 0 \notin found /\ 1 \in found
        BY <4>2
      <4>3. CASE 0 \notin found /\ 1 \notin found
        BY <2>2, <4>3
      <4> QED BY <4>1, <4>2, <4>3
    <3>2. least \in 0..2
      BY <3>1
    <3>3. KeyOf(s) = KeyTable[s][least]
      BY <2>2 DEF KeyOf
    <3> HIDE DEF least
    <3> QED BY <3>2, <3>3, KeyAssumption
  <2> QED BY <2>1, <2>2
<1>3. \A s \in CharSyms : Key(s) = KeyOf(s)
  BY DEF Key
<1> QED BY <1>1, <1>2, <1>3

LEMMA KeysApart == NoKey \notin ModifierKeys /\ CharKeys \cap ModifierKeys = {}
                   /\ NoKey \notin CharKeys /\ \A k \in CharKeys : ~(k > 127)
BY DEF NoKey, ModifierKeys, CharKeys, Cmd, Shift, AlphaLock, Option, Control

\* The map shows what AsCmd makes of the modifiers, whatever was shown before.
LEMMA ShowsAsCmd ==
  ASSUME NEW map, NEW mods, NEW new, NEW key \in ModifierKeys, NEW down \in BOOLEAN,
         mods \subseteq ModifierKeys, map \cap ModifierKeys = AsCmd(mods),
         new = IF down THEN mods \cup {key} ELSE mods \ {key}
  PROVE  /\ Shows(map, key, down, new) \cap ModifierKeys = AsCmd(new)
         /\ Shows(map, key, down, new) \ ModifierKeys = map \ ModifierKeys
<1> DEFINE shown == Shows(map, key, down, new)
           Three == {Option, Control, Cmd}
<1>1. Three \subseteq ModifierKeys
  BY DEF ModifierKeys
<1>2. new \subseteq ModifierKeys
  OBVIOUS
<1>3. \A m : AsCmd(m) \ Three = m \ Three
  BY DEF AsCmd
<1>4. \A k \in Three : k \in shown <=> k \in AsCmd(new)
  BY DEF Shows
<1>5. \A k : k \notin Three => (k \in shown <=> (IF down THEN k \in map \/ k = key
                                                 ELSE k \in map /\ k # key))
  BY DEF Shows
<1>6. \A k \in ModifierKeys : k \notin Three => (k \in map <=> k \in mods)
  BY <1>3
<1>7. \A k \in ModifierKeys : k \notin Three => (k \in new <=> k \in AsCmd(new))
  BY <1>3
<1> HIDE DEF shown, Three
<1>8. shown \cap ModifierKeys \subseteq AsCmd(new) /\ AsCmd(new) \cap ModifierKeys \subseteq shown
  BY <1>4, <1>5, <1>6, <1>7
<1>9. AsCmd(new) \subseteq ModifierKeys
  BY <1>2 DEF AsCmd, ModifierKeys
<1>10. shown \ ModifierKeys = map \ ModifierKeys
  BY <1>1, <1>5
<1> QED BY <1>8, <1>9, <1>10 DEF shown

LEMMA HeldDown ==
  ASSUME NEW sym, keysHeld' = keysHeld \cup {sym}
  PROVE  HeldKeys' = HeldKeys \cup {Key(sym)}
BY DEF HeldKeys

LEMMA HeldUp ==
  ASSUME NEW sym \in keysHeld, keysHeld' = keysHeld \ {sym}, KeyInv, Key(sym) # NoKey
  PROVE  HeldKeys' = HeldKeys \ {Key(sym)}
BY DEF HeldKeys, KeyInv

LEMMA HeldNoKey ==
  ASSUME NEW sym \in keysHeld, keysHeld' = keysHeld \ {sym}, Key(sym) = NoKey
  PROVE  HeldKeys' \cup {NoKey} = HeldKeys \cup {NoKey}
BY DEF HeldKeys

LEMMA ModifierStep ==
  ASSUME KeyInv, "sharedKey" \notin KeyMishaps,
         NEW sym \in AllSyms \ CharSyms, NEW down \in BOOLEAN, PressKey(sym, down)
  PROVE  KeyInv'
<1> DEFINE key == Key(sym)
<1>1. key \in ModifierKeys /\ key = ModifierSyms[sym] /\ key # NoKey
  BY KeyKinds, KeysApart
<1>2. PressModifier(sym, down)
  BY DEF PressKey
<1>3. HeldKeys' = IF down THEN HeldKeys \cup {key} ELSE HeldKeys \ {key}
  BY <1>1, HeldDown, HeldUp DEF PressKey
<1>4. modifiedKeys' = IF down THEN modifiedKeys \cup {key} ELSE modifiedKeys \ {key}
  BY <1>1, <1>2 DEF PressModifier
<1>5. modifiedKeys' = HeldKeys' \cap ModifierKeys
  BY <1>1, <1>3, <1>4 DEF KeyInv
<1>6. modifiedKeys \subseteq ModifierKeys
  BY DEF KeyInv
<1>7. /\ getKeyBuffer' = Shows(getKeyBuffer, key, down, modifiedKeys')
      /\ lowMemKeys' = Shows(lowMemKeys, key, down, modifiedKeys')
  BY <1>1, <1>2, <1>4 DEF PressModifier
<1>8. lowMemKeys \cap ModifierKeys = AsCmd(modifiedKeys) /\ lowMemKeys \ ModifierKeys = {}
  BY <1>6 DEF KeyInv, AsCmd, ModifierKeys
<1>8a. getKeyBuffer \cap ModifierKeys = AsCmd(modifiedKeys)
  BY DEF KeyInv
<1>9. /\ getKeyBuffer' \cap ModifierKeys = AsCmd(modifiedKeys')
      /\ getKeyBuffer' \ ModifierKeys = getKeyBuffer \ ModifierKeys
  BY <1>1, <1>4, <1>6, <1>7, <1>8a, ShowsAsCmd
<1>10. /\ lowMemKeys' \cap ModifierKeys = AsCmd(modifiedKeys')
       /\ lowMemKeys' \ ModifierKeys = {}
  BY <1>1, <1>4, <1>6, <1>7, <1>8, ShowsAsCmd
<1>11. lowMemKeys' = AsCmd(modifiedKeys')
  BY <1>10
<1>12. keysHeld' \subseteq AllSyms
  BY DEF PressKey, KeyInv
<1>13. (\A s, t \in keysHeld : s = t \/ Key(s) # Key(t) \/ Key(s) = NoKey)'
  BY DEF PressKey, KeyInv
<1>14. getKeyBuffer' \ ModifierKeys = HeldKeys' \ (ModifierKeys \cup {NoKey})
  BY <1>1, <1>3, <1>9 DEF KeyInv
<1> QED BY <1>5, <1>9, <1>11, <1>12, <1>13, <1>14 DEF KeyInv

LEMMA CharStep ==
  ASSUME KeyInv, "sharedKey" \notin KeyMishaps,
         NEW sym \in CharSyms, NEW down \in BOOLEAN, PressKey(sym, down)
  PROVE  KeyInv'
<1> DEFINE key == Key(sym)
<1>1. key \in CharKeys \cup {NoKey} /\ key = KeyOf(sym) /\ key \notin ModifierKeys
  BY KeyKinds, KeysApart
<1>2. PressChar(sym, down)
  BY DEF PressKey
<1>3. keysHeld' \subseteq AllSyms
  BY DEF PressKey, KeyInv, AllSyms
<1>4. (\A s, t \in keysHeld : s = t \/ Key(s) # Key(t) \/ Key(s) = NoKey)'
  BY DEF PressKey, KeyInv
<1>5. HeldKeys' \cup {NoKey} = (IF down THEN HeldKeys \cup {key} ELSE HeldKeys \ {key}) \cup {NoKey}
  <2>1. CASE down
    BY <2>1, HeldDown DEF PressKey
  <2>2. CASE ~down /\ key = NoKey
    BY <2>2, HeldNoKey DEF PressKey
  <2>3. CASE ~down /\ key # NoKey
    BY <2>3, HeldUp DEF PressKey
  <2> QED BY <2>1, <2>2, <2>3
<1>6. /\ modifiedKeys' = modifiedKeys /\ lowMemKeys' = lowMemKeys
      /\ key = NoKey => getKeyBuffer' = getKeyBuffer
      /\ key # NoKey => getKeyBuffer' = IF down THEN getKeyBuffer \cup {key}
                                       ELSE getKeyBuffer \ {key}
  BY <1>1, <1>2, KeysApart DEF PressChar, NoKey
<1>7. HeldKeys' \cap ModifierKeys = HeldKeys \cap ModifierKeys
  BY <1>1, <1>5, KeysApart
<1>8. getKeyBuffer' \cap ModifierKeys = getKeyBuffer \cap ModifierKeys
  BY <1>1, <1>6
<1>9. getKeyBuffer' \ ModifierKeys = HeldKeys' \ (ModifierKeys \cup {NoKey})
  BY <1>1, <1>5, <1>6 DEF KeyInv
<1> QED BY <1>3, <1>4, <1>6, <1>7, <1>8, <1>9 DEF KeyInv

\* In whatever order keys go down and up, and whatever keys the layout of the keyboard has
\* for the characters, applications see the keys that the client holds, with Cmd for Ctrl
\* and Alt (VNCKeyboard.cpp:95-342), unless two keysyms of one key are down together or a
\* session ends with keys down.
THEOREM KeysFollowClient ==
  ASSUME KeyMishaps = {}
  PROVE  KeySpec => []KeysAsHeld
<1>1. KeyInit => KeyInv
  BY DEF KeyInit, KeyInv, HeldKeys, AsCmd, ModifierKeys
<1>2. ASSUME KeyInv, [KeyNext]_kvars PROVE KeyInv'
  <2>1. CASE KeySetup
    <3>1. keysHeld = {} /\ keysHeld' = {} /\ HeldKeys = {} /\ HeldKeys' = {}
      BY <2>1 DEF KeySetup, HeldKeys
    <3>2. AsCmd({}) = {}
      BY DEF AsCmd
    <3> QED BY <1>2, <2>1, <3>1, <3>2 DEF KeySetup, KeyInv
  <2>2. CASE ClientLeaves
    BY <1>2, <2>2 DEF ClientLeaves, KeyInv, HeldKeys
  <2>3. CASE \E sym \in AllSyms, down \in BOOLEAN : PressKey(sym, down)
    BY <1>2, <2>3, ModifierStep, CharStep DEF AllSyms
  <2>4. CASE UNCHANGED kvars
    BY <1>2, <2>4 DEF kvars, KeyInv, HeldKeys
  <2> QED BY <1>2, <2>1, <2>2, <2>3, <2>4 DEF KeyNext
<1>3. KeyInv => KeysAsHeld
  <2> SUFFICES ASSUME KeyInv PROVE KeysAsHeld
    OBVIOUS
  <2> DEFINE keys == HeldKeys \ {NoKey}
  <2>1. keys \cap ModifierKeys = modifiedKeys
    BY KeysApart DEF KeyInv
  <2>2. \A k \in {Option, Control, Cmd} : k \in keys <=> k \in modifiedKeys
    BY <2>1 DEF ModifierKeys
  <2>3. AsCmd(modifiedKeys) = IF {Option, Control} \subseteq keys /\ Cmd \notin keys
                              THEN ((keys \cap ModifierKeys) \ {Option, Control}) \cup {Cmd}
                              ELSE keys \cap ModifierKeys
    BY <2>1, <2>2 DEF AsCmd
  <2>4. getKeyBuffer \ ModifierKeys = keys \ ModifierKeys
    BY DEF KeyInv
  <2> QED BY <2>3, <2>4 DEF KeyInv, KeysAsHeld, HeldKeys
<1> QED BY <1>1, <1>2, <1>3, PTL DEF KeySpec

----------------------------------------------------------------------------
(* The tiles of a black and white screen.                                    *)

\* Where the encoder takes it that the client has the palette of the tile before, it has
\* it. The assembly knows by lastTile, which only begin makes valid, and the routine in
\* C++ by its place in the frame.
PaletteInv ==
  /\ mono_tile_y < MonoHeight /\ ReusesPalette => monoPalette
  /\ assembly \/ mono_tile_y = 0 \/ monoColumn = 0 \/ monoPalette

MonoInv ==
  /\ assembly \in BOOLEAN /\ mono_tile_y \in Nat /\ monoColumn \in Nat
  /\ monoLastTile \in {0, MonoSolid, Mono2Color}
  /\ PaletteInv /\ MonoDecoded

LEMMA MonoTileStep ==
  ASSUME MonoInv, NEW tile \in MonoTilesOf, MonoEncodeTile(tile)
  PROVE  MonoInv'
<1> DEFINE code == IF assembly /\ AllWhite(tile) THEN MonoSolid
                   ELSE IF ReusesPalette THEN MonoReuse ELSE Mono2Color
<1>1. /\ mono_tile_y < MonoHeight
      /\ monoShown' = [pixels |-> tile, decoded |-> MonoSees(code, tile)]
      /\ monoPalette' = (code # MonoSolid)
      /\ monoLastTile' = IF assembly THEN LastTileAfter(tile) ELSE monoLastTile
      /\ monoColumn' = monoColumn + 1
      /\ assembly' = assembly /\ mono_tile_y' = mono_tile_y
  BY DEF MonoEncodeTile
<1>2. MonoSees(code, tile) = tile
  <2>1. CASE assembly /\ AllWhite(tile)
    <3>1. tile = [i \in DOMAIN tile |-> tile[i]]
      BY DEF MonoTilesOf
    <3>2. tile = [i \in DOMAIN tile |-> White]
      BY <2>1, <3>1 DEF AllWhite
    <3>3. MonoSees(code, tile) = [i \in DOMAIN tile |-> White]
      BY <2>1 DEF MonoSees, MonoSolid, Mono2Color, MonoReuse
    <3> QED BY <3>2, <3>3
  <2>2. CASE ~(assembly /\ AllWhite(tile)) /\ ReusesPalette
    BY <1>1, <2>2 DEF MonoSees, MonoSolid, Mono2Color, MonoReuse, MonoInv, PaletteInv
  <2>3. CASE ~(assembly /\ AllWhite(tile)) /\ ~ReusesPalette
    BY <2>3 DEF MonoSees, MonoSolid, Mono2Color, MonoReuse
  <2> QED BY <2>1, <2>2, <2>3
<1>3. MonoDecoded'
  BY <1>1, <1>2 DEF MonoDecoded
<1>4. ASSUME assembly, monoLastTile' = Mono2Color PROVE monoPalette'
  <2>1. code # MonoSolid
    BY <1>1, <1>4 DEF LastTileAfter, MonoSolid, Mono2Color, MonoReuse
  <2> QED BY <1>1, <2>1, Zenon
<1>5. ASSUME ~assembly PROVE monoPalette'
  <2>1. code # MonoSolid
    BY <1>5 DEF MonoSolid, Mono2Color, MonoReuse
  <2> QED BY <1>1, <2>1, Zenon
<1>6. PaletteInv'
  BY <1>1, <1>4, <1>5 DEF PaletteInv, ReusesPalette, MonoInv
<1>7. monoColumn' \in Nat /\ monoLastTile' \in {0, MonoSolid, Mono2Color}
  BY <1>1 DEF MonoInv, LastTileAfter
<1> QED BY <1>1, <1>3, <1>6, <1>7 DEF MonoInv

\* The client sees the tile that is on the screen, for tiles and frames of any size and
\* both routines: a tile that uses the palette again follows one that had it, across the
\* chunks and the frames (VNCEncodeTRLEMono.cpp).
THEOREM MonoTilesSeen == MonoSpec => []MonoDecoded
<1>1. MonoInit => MonoInv
  BY MonoAssumption DEF MonoInit, MonoInv, PaletteInv, MonoDecoded
<1>2. ASSUME MonoInv, [MonoNext]_mvars PROVE MonoInv'
  <2>1. CASE MonoBegin
    BY <1>2, <2>1 DEF MonoBegin, MonoInv, PaletteInv, ReusesPalette, Mono2Color, MonoDecoded
  <2>2. CASE \E tile \in MonoTilesOf : MonoEncodeTile(tile)
    BY <1>2, <2>2, MonoTileStep
  <2>3. CASE MonoChunkSent
    <3>1. mono_tile_y' \in Nat
      BY <1>2, <2>3, MonoAssumption DEF MonoChunkSent, MonoInv
    <3>2. PaletteInv'
      BY <1>2, <2>3, <3>1 DEF MonoChunkSent, MonoInv, PaletteInv, ReusesPalette
    <3> QED BY <1>2, <2>3, <3>1, <3>2 DEF MonoChunkSent, MonoInv, MonoDecoded
  <2>4. CASE UNCHANGED mvars
    BY <1>2, <2>4 DEF mvars, MonoInv, PaletteInv, ReusesPalette, MonoDecoded
  <2> QED BY <1>2, <2>1, <2>2, <2>3, <2>4 DEF MonoNext
<1>3. MonoInv => MonoDecoded
  BY DEF MonoInv
<1> QED BY <1>1, <1>2, <1>3, PTL DEF MonoSpec

----------------------------------------------------------------------------
(* The settings of the user.                                                 *)

\* The boxes that are clicked and never turned on by the program.
Chosen == Boxes \ {"autoRestart"}

\* Settings agree with what the user last saw ticked, but for what a launch turned off.
Agree(boxes, c) ==
  /\ \A box \in Chosen : box \in boxes => box \in c.ticked
  /\ \A box \in Chosen : box \in c.ticked => box \in boxes \cup c.turnedOff

\* The pointer is only hidden while a client may move it.
HidesInControl(boxes) == "hideCursor" \in boxes => "allowControl" \in boxes

IsChoices(c) == c = [ticked |-> c.ticked, turnedOff |-> c.turnedOff]

\* What is in memory agrees with the choices, and what a launch would find in the file
\* with those at the last quit.
ChoicesInv ==
  /\ phase # "away" => Agree(config, choices) /\ HidesInControl(config)
  /\ LET found == LoadPreferences(Defaults) IN
     Agree(found, choicesAtQuit) /\ HidesInControl(found)
  /\ IsChoices(choices) /\ IsChoices(choicesAtQuit)
  /\ "hideCursor" \in enabled => phase # "away" /\ "allowControl" \in config
  /\ takes \subseteq EncodingBoxes

LEMMA DefaultsAgree == Agree(Defaults, NoChoices) /\ HidesInControl(Defaults) /\ IsChoices(NoChoices)
BY ConsoleAssumption DEF Agree, Chosen, NoChoices, Defaults, HidesInControl, IsChoices

\* Redrawing the boxes only turns off what the user has turned off with its box.
LEMMA RefreshKeeps ==
  ASSUME NEW boxes, NEW state, takes \subseteq EncodingBoxes, RefreshServerSettings(boxes, state)
  PROVE  /\ HidesInControl(boxes) => config' = boxes
         /\ config' = RefreshedConfig(boxes)
         /\ "hideCursor" \in enabled' => "allowControl" \in boxes
<1>1. config' = RefreshedConfig(boxes) /\ enabled' = Enabled(boxes, state, takes, setDepth)
  BY DEF RefreshServerSettings
<1>2. HidesInControl(boxes) => RefreshedConfig(boxes) = boxes
  BY DEF RefreshedConfig, HidesInControl
<1>3. "hideCursor" \notin EncodingBoxes
  BY DEF EncodingBoxes
<1>4. "hideCursor" \notin takes
  BY <1>3
<1>5. "hideCursor" \in Enabled(boxes, state, takes, setDepth) => "allowControl" \in boxes
  BY <1>3, <1>4 DEF Enabled
<1> QED BY <1>1, <1>2, <1>5

\* An action that leaves the settings, the file and the choices alone.
LEMMA ChoicesUntouched ==
  ASSUME ChoicesInv, UNCHANGED <<chosen, machine, enabled>>, takes' \subseteq EncodingBoxes,
         phase' # "away", phase # "away"
  PROVE  ChoicesInv'
BY DEF ChoicesInv, chosen, LoadPreferences, Agree, Defaults

LEMMA LaunchKeeps == ASSUME ChoicesInv, Launch PROVE ChoicesInv'
<1> DEFINE found == LoadPreferences(Defaults)
<1>1. /\ config' = (found \ Unsuited(screen)) \cup (Boxes \cap {"autoRestart"})
      /\ choices' = [choicesAtQuit EXCEPT !.turnedOff = @ \cup (Boxes \cap Unsuited(screen))]
      /\ machine' = machine /\ prefs' = OldRemoved /\ choicesAtQuit' = choicesAtQuit
      /\ phase = "away" /\ phase' = "event" /\ enabled' = enabled /\ takes' = takes
  BY DEF Launch
<1>2. /\ choices'.ticked = choicesAtQuit.ticked
      /\ choices'.turnedOff = choicesAtQuit.turnedOff \cup (Boxes \cap Unsuited(screen))
      /\ IsChoices(choices')
  BY <1>1 DEF ChoicesInv, IsChoices
<1>3. Agree(found, choicesAtQuit) /\ HidesInControl(found)
  BY DEF ChoicesInv
<1>4. Agree(config', choices')
  <2>1. \A box \in Chosen : box \in config' <=> box \in found \ Unsuited(screen)
    BY <1>1 DEF Chosen
  <2> QED BY <1>2, <1>3, <2>1 DEF Agree, Chosen
<1>5. HidesInControl(config')
  BY <1>1, <1>3 DEF HidesInControl, Unsuited
<1>6. LoadPreferences(Defaults)' = found
  BY <1>1 DEF LoadPreferences, Defaults, OldRemoved
<1>7. "hideCursor" \notin enabled
  BY <1>1 DEF ChoicesInv
<1> QED BY <1>1, <1>2, <1>3, <1>4, <1>5, <1>6, <1>7 DEF ChoicesInv

LEMMA SavedKeeps == ASSUME ChoicesInv, Saved PROVE ChoicesInv'
<1>1. /\ phase = "saving" /\ phase' = "away" /\ machine' = machine
      /\ choices' = NoChoices /\ enabled' = {} /\ takes' = {}
      /\ prefs' = IF machine.folder THEN File(config) ELSE prefs
      /\ choicesAtQuit' = IF machine.folder THEN choices ELSE choicesAtQuit
  BY DEF Saved, Gone, SavePreferences
<1>2. CASE machine.folder
  <2>1. File(config) \notin {NoFile, OldFile} /\ File(config).on = config
    BY DEF File, NoFile, OldFile
  <2>2. LoadPreferences(Defaults)' = config
    BY <1>1, <1>2, <2>1 DEF LoadPreferences
  <2> QED BY <1>1, <1>2, <2>2, DefaultsAgree DEF ChoicesInv
<1>3. CASE ~machine.folder
  <2>1. LoadPreferences(Defaults)' = LoadPreferences(Defaults)
    BY <1>1, <1>3 DEF LoadPreferences, Defaults
  <2> QED BY <1>1, <1>3, <2>1, DefaultsAgree DEF ChoicesInv
<1> QED BY <1>2, <1>3

LEMMA CrashKeeps == ASSUME ChoicesInv, Crash \/ SaveFails PROVE ChoicesInv'
<1>1. /\ phase' = "away" /\ machine' = machine /\ prefs' = prefs
      /\ choices' = NoChoices /\ enabled' = {} /\ takes' = {} /\ choicesAtQuit' = choicesAtQuit
  BY DEF Crash, SaveFails, Gone
<1>2. LoadPreferences(Defaults)' = LoadPreferences(Defaults)
  BY <1>1 DEF LoadPreferences, Defaults
<1> QED BY <1>1, <1>2, DefaultsAgree DEF ChoicesInv

LEMMA ClickKeeps ==
  ASSUME ChoicesInv, NEW box \in Boxes, ClickBox(box)
  PROVE  ChoicesInv'
<1> DEFINE ticked == IF box \in ticks THEN ticks \ {box} ELSE ticks \cup {box}
           boxes == IF box \in ticked THEN config \cup {box} ELSE config \ {box}
<1>1. /\ phase = "event" /\ phase' = "check" /\ box \in enabled
      /\ machine' = machine /\ prefs' = prefs /\ choicesAtQuit' = choicesAtQuit /\ takes' = takes
      /\ box = "allowControl" => RefreshServerSettings(boxes, serverState)
      /\ box # "allowControl" => config' = boxes /\ enabled' = enabled
      /\ choices' =
          [ticked |-> IF box \in ticked THEN choices.ticked \cup {box}
                      ELSE choices.ticked \ (IF box = "allowControl" THEN {box, "hideCursor"} ELSE {box}),
           turnedOff |-> choices.turnedOff \ {box}]
  BY DEF ClickBox, InLoop
<1> HIDE DEF ticked
<1>2. Agree(config, choices) /\ HidesInControl(config)
  BY <1>1 DEF ChoicesInv
<1>3. LoadPreferences(Defaults)' = LoadPreferences(Defaults)
  BY <1>1 DEF LoadPreferences, Defaults
<1>4. IsChoices(choices')
  BY <1>1 DEF IsChoices
<1>5. Agree(config', choices') /\ HidesInControl(config')
  <2>1. CASE box # "allowControl"
    <3>1. HidesInControl(config')
      BY <1>1, <1>2, <2>1 DEF HidesInControl, ChoicesInv
    <3>2. Agree(config', choices')
      BY <1>1, <1>2, <2>1 DEF Agree
    <3> QED BY <3>1, <3>2
  <2>2. CASE box = "allowControl" /\ box \in ticked
    <3>1. config' = config \cup {box}
      BY <1>1, <2>2, RefreshKeeps DEF ChoicesInv, HidesInControl
    <3> QED BY <1>1, <1>2, <2>2, <3>1 DEF Agree, HidesInControl
  <2>3. CASE box = "allowControl" /\ box \notin ticked
    <3>1. config' = config \ {box, "hideCursor"}
      BY <1>1, <2>3, RefreshKeeps DEF ChoicesInv, RefreshedConfig
    <3> QED BY <1>1, <1>2, <2>3, <3>1 DEF Agree, HidesInControl
  <2> QED BY <2>1, <2>2, <2>3
<1>6. "hideCursor" \in enabled' => "allowControl" \in config'
  <2>1. CASE box # "allowControl"
    BY <1>1, <2>1 DEF ChoicesInv
  <2>2. CASE box = "allowControl"
    <3>1. "hideCursor" \in enabled' => "allowControl" \in boxes
      BY <1>1, <2>2, RefreshKeeps DEF ChoicesInv
    <3>2. config' = RefreshedConfig(boxes)
      BY <1>1, <2>2, RefreshKeeps DEF ChoicesInv
    <3> QED BY <3>1, <3>2 DEF RefreshedConfig
  <2> QED BY <2>1, <2>2
<1> QED BY <1>1, <1>3, <1>4, <1>5, <1>6 DEF ChoicesInv

\* The boxes are redrawn, with the settings that there are.
LEMMA RedrawKeeps ==
  ASSUME ChoicesInv, NEW state, RefreshServerSettings(config, state), phase # "away",
         phase' # "away", UNCHANGED <<machine, prefs, choices, choicesAtQuit, takes>>
  PROVE  ChoicesInv'
<1>1. config' = config /\ ("hideCursor" \in enabled' => "allowControl" \in config')
  BY RefreshKeeps DEF ChoicesInv
<1>2. LoadPreferences(Defaults)' = LoadPreferences(Defaults)
  BY DEF LoadPreferences, Defaults
<1> QED BY <1>1, <1>2 DEF ChoicesInv

LEMMA ChoicesStep == ASSUME ChoicesInv, [ConsoleNext]_pvars PROVE ChoicesInv'
<1>1. CASE ServerMoves
  <2>1. takes' \subseteq EncodingBoxes
    BY <1>1 DEF ServerMoves, ChoicesInv
  <2>2. UNCHANGED <<chosen, machine, enabled>> /\ phase' = phase /\ phase # "away"
    BY <1>1 DEF ServerMoves, windows
  <2> QED BY <2>1, <2>2, ChoicesUntouched
<1>2. CASE ScreenChanges
  <2>1. UNCHANGED <<chosen, machine, enabled, phase, takes>>
    BY <1>2 DEF ScreenChanges, windows
  <2>2. LoadPreferences(Defaults)' = LoadPreferences(Defaults)
    BY <2>1 DEF chosen, LoadPreferences, Defaults
  <2> QED BY <2>1, <2>2 DEF ChoicesInv, chosen
<1>3. CASE Launch
  BY <1>3, LaunchKeeps
<1>4a. CASE Leave
  BY <1>4a, ChoicesUntouched DEF Leave, windows, ChoicesInv
<1>4. CASE Saved
  BY <1>4, SavedKeeps
<1>5. CASE Crash \/ SaveFails
  BY <1>5, CrashKeeps
<1>6. CASE NoEvent
  BY <1>6, ChoicesUntouched DEF NoEvent, InLoop, windows, ChoicesInv
<1>7. CASE ClickStart
  BY <1>7, ChoicesUntouched DEF ClickStart, InLoop, ChoicesInv
<1>8. CASE ClickQuit
  BY <1>8, ChoicesUntouched DEF ClickQuit, InLoop, windows, ChoicesInv
<1>9. CASE ToggleOptions
  <2>1. CASE optionsOpen
    BY <1>9, <2>1, ChoicesUntouched DEF ToggleOptions, InLoop, chosen, ChoicesInv
  <2>2. CASE ~optionsOpen
    BY <1>9, <2>2, RedrawKeeps DEF ToggleOptions, InLoop
  <2> QED BY <2>1, <2>2
<1>10. CASE \E box \in Boxes : ClickBox(box)
  BY <1>10, ClickKeeps
<1>11. CASE CheckServerState
  <2>1. phase = "check" /\ phase' = "idle" /\ machine' = machine /\ takes' = takes
    BY <1>11 DEF CheckServerState
  <2>2. CASE lastState = serverState
    BY <1>11, <2>1, <2>2, ChoicesUntouched DEF CheckServerState, windows, ChoicesInv
  <2>3. CASE lastState # serverState
    <3>1. /\ RefreshServerSettings(config, serverState')
          /\ UNCHANGED <<prefs, choices, choicesAtQuit>>
      BY <1>11, <2>3 DEF CheckServerState
    <3> DEFINE state == serverState'
    <3>2. RefreshServerSettings(config, state)
      BY <3>1
    <3> HIDE DEF state
    <3> QED BY <2>1, <3>1, <3>2, RedrawKeeps
  <2> QED BY <2>2, <2>3
<1>12. CASE IdleTasks
  BY <1>12, ChoicesUntouched DEF IdleTasks, windows, ChoicesInv
<1>13. CASE SyncTasksFailed
  BY <1>13, ChoicesUntouched DEF SyncTasksFailed, windows, ChoicesInv
<1>14. CASE UNCHANGED pvars
  <2>1. UNCHANGED <<config, prefs, choices, choicesAtQuit, machine, enabled, phase, takes>>
    BY <1>14 DEF pvars
  <2>2. LoadPreferences(Defaults)' = LoadPreferences(Defaults)
    BY <2>1 DEF LoadPreferences, Defaults
  <2> QED BY <2>1, <2>2 DEF ChoicesInv
<1> QED BY <1>1, <1>2, <1>3, <1>4a, <1>4, <1>5, <1>6, <1>7, <1>8, <1>9, <1>10, <1>11, <1>12, <1>13,
           <1>14 DEF ConsoleNext

\* For any boxes and machines: the settings are what the user last saw in the boxes, in
\* this launch and the ones after a quit has saved them, whatever sessions, screens and crashes come
\* between. Only what the screen of a launch cannot do (main.cpp) may be off, and it stays
\* off until it is clicked.
THEOREM ChoicesAreKept == ConsoleSpec => []ChoicesKept
<1>1. ConsoleInit => ChoicesInv
  <2> SUFFICES ASSUME ConsoleInit PROVE ChoicesInv
    OBVIOUS
  <2>1. LoadPreferences(Defaults) = Defaults
    BY DEF ConsoleInit, LoadPreferences
  <2> QED BY <2>1, DefaultsAgree DEF ConsoleInit, ChoicesInv
<1>2. ChoicesInv /\ [ConsoleNext]_pvars => ChoicesInv'
  BY ChoicesStep
<1>3. ChoicesInv => ChoicesKept
  BY DEF ChoicesInv, ChoicesKept, Agree, Chosen
<1> QED BY <1>1, <1>2, <1>3, PTL DEF ConsoleSpec

----------------------------------------------------------------------------
(* The counters of the telemetry.                                            *)

Counted == {"sessions", "bytes", "frames"}
Counts == [Counters -> Nat]

Datagram ==
  [to : Sinks, counts : Counts, boot : Nat, try : {"first", "look", "second"}, another : BOOLEAN]

CountTypes ==
  /\ g \in Counts /\ report \in Counts
  /\ happened \in Counts /\ told \in Counts /\ missed \in Counts
  /\ sending = NotSending \/ sending \in Datagram
  /\ uderr \in Nat /\ adding \in Nat /\ boot \in Nat

Formatting == tick.at = "format" /\ tick.i \in 1..5 /\ tick = [at |-> "format", i |-> tick.i]
ToSend     == tick = [at |-> "send", i |-> 1]
Sent       == tick = [at |-> "send", i |-> 2]
Resetting  == tick.at = "reset" /\ tick.i \in 2..5 /\ tick = [at |-> "reset", i |-> tick.i]

\* What the event loop is doing: at most one of adding to g_bytes, sending a datagram of no
\* counters, and the round of metrics_tick, whose datagram has what was formatted.
LoopInv ==
  /\ tick = NoTick \/ Formatting \/ ToSend \/ Sent \/ Resetting
  /\ adding # NotAdding => tick = NoTick /\ sending = NotSending
  /\ sending # NotSending => tick = NoTick \/ Sent
  /\ sending # NotSending => sending.counts = IF Sent THEN report ELSE Zeros
  /\ sending # NotSending /\ Sent => sending.to = "metrics"

\* A datagram waits for its error only while there is one, and when it is tried again it
\* finds an error only if another one waited or came since.
RetryInv ==
  /\ sending # NotSending /\ sending.try = "look" => uderr > 0
  /\ sending # NotSending /\ sending.try = "second" /\ uderr > 0 => sending.another

CountInv == CountTypes /\ LoopInv /\ RetryInv /\ ToldOnce

\* Each counter has one place among those that are formatted, and one among those that
\* are reset.
LEMMA Places ==
  /\ Len(Formatted) = 5 /\ Len(ResetOrder) = 5
  /\ \A i \in 1..5 : Formatted[i] \in Counters /\ ResetOrder[i] \in Counters
  /\ \A i, j \in 1..5 : Formatted[i] = Formatted[j] => i = j
  /\ \A i, j \in 1..5 : ResetOrder[i] = ResetOrder[j] => i = j
  /\ \A c \in Counters : \E i \in 1..5 : Formatted[i] = c
  /\ \A c \in Counters : \E i \in 1..5 : ResetOrder[i] = c
BY DEF Formatted, ResetOrder, Counters

\* Where the round of metrics_tick is, for one counter.
LEMMA RoundOf ==
  ASSUME NEW c \in Counters
  PROVE  /\ tick = NoTick => ~WillBeReset(c)
         /\ ToSend \/ Sent => WillBeReset(c)
         /\ Formatting => (WillBeReset(c) <=> \E i \in 1..5 : i < tick.i /\ Formatted[i] = c)
         /\ Resetting => (WillBeReset(c) <=> \E i \in 1..5 : i >= tick.i /\ ResetOrder[i] = c)
BY Places DEF WillBeReset, NoTick, ToSend, Sent, Formatting, Resetting

\* An action of the network, or of the endpoint, that leaves the counters alone.
LEMMA CountsUntouched ==
  ASSUME CountInv, UNCHANGED <<g, adding, tick, report, happened, told, missed, boot>>,
         sending' = NotSending <=> sending = NotSending,
         sending' # NotSending => sending' \in Datagram /\ sending'.counts = sending.counts
                                  /\ sending'.to = sending.to,
         uderr' \in Nat, RetryInv'
  PROVE  CountInv'
<1>1. CountTypes'
  BY DEF CountInv, CountTypes
<1>2. LoopInv'
  BY DEF CountInv, LoopInv, Formatting, ToSend, Sent, Resetting
<1>3. \A c : ToTell(c)' = ToTell(c)
  BY DEF ToTell, WillBeReset
<1>4. ToldOnce'
  BY <1>3 DEF CountInv, ToldOnce
<1> QED BY <1>1, <1>2, <1>4 DEF CountInv

LEMMA AddCounts == \A f \in Counts : \A cs : Add(f, cs) \in Counts
BY DEF Add, Counts

\* A counter at interrupt level: it goes up, or what it would have told is missed.
LEMMA InterruptCounts ==
  ASSUME CountInv, NEW cs \in SUBSET Counters, CountAtInterrupt(cs)
  PROVE  CountInv'
<1> DEFINE lost == {c \in cs : WillBeReset(c) \/ (c = "bytes" /\ adding # NotAdding)}
<1>1. /\ g' = Add(g, cs) /\ happened' = Add(happened, cs) /\ missed' = Add(missed, lost)
      /\ UNCHANGED <<boot, adding, tick, report, sending, uderr, told>>
  BY DEF CountAtInterrupt
<1>2. \A c \in Counters :
        /\ g'[c] = (IF c \in cs THEN g[c] + 1 ELSE g[c])
        /\ happened'[c] = (IF c \in cs THEN happened[c] + 1 ELSE happened[c])
        /\ missed'[c] = (IF c \in lost THEN missed[c] + 1 ELSE missed[c])
  BY <1>1 DEF Add
<1>3. g' \in Counts /\ happened' \in Counts /\ missed' \in Counts
  BY <1>1, AddCounts DEF CountInv, CountTypes
<1>4. CountTypes'
  BY <1>1, <1>3 DEF CountInv, CountTypes
<1>5. LoopInv' /\ RetryInv'
  BY <1>1 DEF CountInv, LoopInv, RetryInv, Formatting, ToSend, Sent, Resetting
<1>6. ASSUME NEW c \in Counted
      PROVE  happened'[c] = told'[c] + missed'[c] + ToTell(c)'
  <2>1. /\ c \in Counters /\ happened[c] = told[c] + missed[c] + ToTell(c)
        /\ told[c] \in Nat /\ missed[c] \in Nat /\ happened[c] \in Nat /\ g[c] \in Nat
    BY DEF CountInv, CountTypes, Counts, ToldOnce, Counted, Counters
  <2>2. WillBeReset(c)' = WillBeReset(c)
    BY <1>1 DEF WillBeReset
  <2>3. told'[c] = told[c]
    BY <1>1
  <2>4. CASE c \notin cs
    <3>1. ToTell(c)' = ToTell(c)
      BY <1>1, <1>2, <2>1, <2>2, <2>4 DEF ToTell
    <3> QED BY <1>2, <2>1, <2>3, <2>4, <3>1
  <2>5. CASE c \in lost
    <3>1. ToTell(c)' = ToTell(c)
      BY <1>1, <2>2, <2>5 DEF ToTell
    <3>2. happened'[c] = happened[c] + 1 /\ missed'[c] = missed[c] + 1
      BY <1>2, <2>1, <2>5
    <3>3. ToTell(c) \in Nat
      BY <2>1 DEF ToTell, CountInv, CountTypes, Counts
    <3> QED BY <2>1, <2>3, <3>1, <3>2, <3>3
  <2>6. CASE c \in cs /\ c \notin lost
    <3>1. ToTell(c) = g[c] /\ ToTell(c)' = g'[c]
      BY <1>1, <2>2, <2>6 DEF ToTell
    <3> QED BY <1>2, <2>1, <2>3, <2>6, <3>1
  <2> QED BY <2>4, <2>5, <2>6
<1> QED BY <1>4, <1>5, <1>6 DEF CountInv, ToldOnce, Counted

LEMMA LoopCounts ==
  ASSUME CountInv, ReadBytes \/ WriteBytes
  PROVE  CountInv'
<1>1. CASE ReadBytes
  <2>1. /\ tick = NoTick /\ adding = NotAdding /\ sending = NotSending /\ adding' = g["bytes"]
        /\ UNCHANGED <<g, boot, tick, report, sending, uderr, happened, told, missed>>
    BY <1>1 DEF ReadBytes, AtLoop
  <2>2. CountTypes'
    <3>1. g["bytes"] \in Nat
      BY DEF CountInv, CountTypes, Counts, Counters
    <3> QED BY <2>1, <3>1 DEF CountInv, CountTypes
  <2>2a. LoopInv' /\ RetryInv'
    BY <2>1 DEF CountInv, LoopInv, RetryInv, Formatting, ToSend, Sent, Resetting
  <2>3. \A c \in Counted : ~WillBeReset(c) /\ ~WillBeReset(c)'
    BY <2>1 DEF WillBeReset, NoTick
  <2>4. \A c \in Counted : ToTell(c)' = ToTell(c)
    BY <2>1, <2>3 DEF ToTell
  <2> QED BY <2>1, <2>2, <2>2a, <2>4 DEF CountInv, ToldOnce, Counted
<1>2. CASE WriteBytes
  <2>1. /\ adding # NotAdding /\ adding' = NotAdding
        /\ g' = [g EXCEPT !["bytes"] = adding + 1] /\ happened' = Add(happened, {"bytes"})
        /\ UNCHANGED <<boot, tick, report, sending, uderr, told, missed>>
    BY <1>2 DEF WriteBytes
  <2>2. tick = NoTick /\ sending = NotSending
    BY <2>1 DEF CountInv, LoopInv
  <2>3. CountTypes'
    <3>1. happened' \in Counts
      BY <2>1, AddCounts DEF CountInv, CountTypes
    <3>2. g' \in Counts
      <4>1. adding + 1 \in Nat /\ g \in [Counters -> Nat]
        BY DEF CountInv, CountTypes, Counts
      <4> QED BY <2>1, <4>1 DEF Counts
    <3>3. NotAdding \in Nat
      BY TelemetryAssumption DEF NotAdding
    <3> QED BY <2>1, <3>1, <3>2, <3>3 DEF CountInv, CountTypes
  <2>4. LoopInv' /\ RetryInv'
    BY <2>1, <2>2 DEF CountInv, LoopInv, RetryInv, Formatting, ToSend, Sent, Resetting
  <2>5. \A c \in Counted : ~WillBeReset(c) /\ ~WillBeReset(c)'
    BY <2>1, <2>2 DEF WillBeReset, NoTick
  <2>6. ASSUME NEW c \in Counted
        PROVE  happened'[c] = told'[c] + missed'[c] + ToTell(c)'
    <3>1. /\ c \in Counters /\ happened[c] = told[c] + missed[c] + ToTell(c)
          /\ told[c] \in Nat /\ missed[c] \in Nat /\ happened[c] \in Nat /\ g[c] \in Nat
          /\ adding \in Nat
      BY DEF CountInv, CountTypes, Counts, ToldOnce, Counted, Counters
    <3>2. ToTell(c)' = g'[c] /\ ToTell(c) = IF c = "bytes" THEN adding ELSE g[c]
      BY <2>1, <2>5 DEF ToTell
    <3>3. g'[c] = IF c = "bytes" THEN adding + 1 ELSE g[c]
      BY <2>1, <3>1 DEF CountInv, CountTypes, Counts
    <3>4. happened'[c] = IF c = "bytes" THEN happened[c] + 1 ELSE happened[c]
      BY <2>1, <3>1 DEF Add
    <3> QED BY <2>1, <3>1, <3>2, <3>3, <3>4
  <2> QED BY <2>3, <2>4, <2>6 DEF CountInv, ToldOnce, Counted
<1> QED BY <1>1, <1>2

\* What the datagram under way tells of a counter, when it goes or is lost.
LEMMA InDatagram ==
  ASSUME CountInv, sending # NotSending, NEW c \in Counted
  PROVE  /\ sending \in Datagram /\ adding = NotAdding
         /\ tick = NoTick => sending.counts[c] = 0 /\ ToTell(c) = g[c]
         /\ tick # NoTick => Sent /\ sending.counts[c] = ToTell(c) /\ sending.to = "metrics"
         /\ Sent => WillBeReset(c)
<1>1. c \in Counters
  BY DEF Counted, Counters
<1>2. sending \in Datagram /\ adding = NotAdding
  BY DEF CountInv, CountTypes, LoopInv
<1>3. tick = NoTick => ~Sent /\ ~WillBeReset(c)
  BY <1>1, RoundOf DEF NoTick, Sent
<1>4. Sent => WillBeReset(c)
  BY <1>1, RoundOf
<1>5. tick # NoTick => Sent
  BY DEF CountInv, LoopInv
<1>6. tick = NoTick => sending.counts = Zeros
  BY <1>3 DEF CountInv, LoopInv
<1>7. Sent => sending.counts = report /\ sending.to = "metrics"
  BY DEF CountInv, LoopInv
<1>8. tick = NoTick => ToTell(c) = g[c]
  BY <1>2, <1>3 DEF ToTell
<1>9. Sent => ToTell(c) = report[c]
  BY <1>2, <1>4 DEF ToTell
<1>10. tick = NoTick => sending.counts[c] = 0
  BY <1>1, <1>6 DEF Zeros
<1> QED BY <1>2, <1>4, <1>5, <1>7, <1>8, <1>9, <1>10

\* The datagram is gone, and its counts are told or missed.
LEMMA SendEnds ==
  ASSUME CountInv, sending # NotSending, Delivered \/ NotDelivered,
         UNCHANGED <<g, boot, adding, tick, report, uderr, happened>>
  PROVE  CountInv'
<1>1. sending' = NotSending
  BY DEF Delivered, NotDelivered
<1>2. sending \in Datagram
  BY DEF CountInv, CountTypes
<1>3. /\ told' \in Counts /\ missed' \in Counts
      /\ \A c \in Counters : told'[c] + missed'[c] =
           told[c] + missed[c] + (IF sending.to = "metrics" THEN sending.counts[c] ELSE 0)
  <2>1. /\ told \in Counts /\ missed \in Counts
        /\ sending.to = "metrics" => sending.counts \in Counts
    BY <1>2 DEF CountInv, CountTypes, Datagram
  <2>2. CASE Delivered /\ sending.to = "metrics"
    BY <2>1, <2>2 DEF Delivered, Counts
  <2>3. CASE NotDelivered /\ sending.to = "metrics"
    BY <2>1, <2>3 DEF NotDelivered, Counts
  <2>4. CASE sending.to # "metrics"
    BY <2>1, <2>4 DEF Delivered, NotDelivered, Counts
  <2> QED BY <2>2, <2>3, <2>4
<1>4. CountTypes'
  BY <1>1, <1>3 DEF CountInv, CountTypes
<1>5. LoopInv' /\ RetryInv'
  BY <1>1 DEF CountInv, LoopInv, RetryInv, Formatting, ToSend, Sent, Resetting

<1>6. ASSUME NEW c \in Counted
      PROVE  happened'[c] = told'[c] + missed'[c] + ToTell(c)'
  <2>1. /\ c \in Counters /\ happened[c] = told[c] + missed[c] + ToTell(c)
        /\ told[c] \in Nat /\ missed[c] \in Nat /\ told'[c] \in Nat /\ missed'[c] \in Nat
    BY <1>3 DEF CountInv, CountTypes, Counts, ToldOnce, Counted, Counters
  <2>2. WillBeReset(c)' = WillBeReset(c)
    BY DEF WillBeReset
  <2>3. adding = NotAdding
    BY InDatagram
  <2>4. CASE tick = NoTick
    <3>1. ToTell(c) = g[c] /\ ToTell(c)' = g[c]
      BY <2>1, <2>2, <2>3, <2>4, InDatagram, RoundOf DEF ToTell
    <3>2. told'[c] + missed'[c] = told[c] + missed[c]
      <4>1. sending.counts[c] = 0
        BY <2>4, InDatagram
      <4> QED BY <1>3, <2>1, <4>1
    <3>3. g[c] \in Nat
      BY <2>1 DEF CountInv, CountTypes, Counts
    <3> QED BY <2>1, <3>1, <3>2, <3>3
  <2>5. CASE tick # NoTick
    <3>1. Sent /\ sending.counts[c] = ToTell(c) /\ sending.to = "metrics" /\ WillBeReset(c)
      BY <2>5, InDatagram
    <3>2. ToTell(c)' = 0
      BY <1>1, <2>2, <2>3, <3>1 DEF ToTell, Sent
    <3>3. told'[c] + missed'[c] = told[c] + missed[c] + ToTell(c)
      BY <1>3, <2>1, <3>1
    <3> QED BY <2>1, <3>2, <3>3
  <2> QED BY <2>4, <2>5
<1> QED BY <1>4, <1>5, <1>6 DEF CountInv, ToldOnce, Counted

LEMMA NetworkStep ==
  ASSUME CountInv,
         \/ Arm \/ StatsdClose \/ NoEndpoint \/ SndUData \/ SndFlowErr \/ SndLookErr \/ RcvUDErr
         \/ GiveUp \/ PortUnreachable \/ SinkStartsOrStops
  PROVE  CountInv'
<1>1. CASE Arm \/ StatsdClose \/ SinkStartsOrStops
  <2>1. UNCHANGED <<g, adding, tick, report, happened, told, missed, sending, uderr>>
    BY <1>1 DEF Arm, StatsdClose, SinkStartsOrStops
  <2>2. boot' = boot
    BY <1>1 DEF Arm, StatsdClose, SinkStartsOrStops
  <2>3. uderr' \in Nat /\ (sending' # NotSending => sending' \in Datagram) /\ RetryInv'
    BY <2>1 DEF CountInv, CountTypes, RetryInv
  <2> QED BY <2>1, <2>2, <2>3, CountsUntouched
<1>2. CASE NoEndpoint
  BY <1>2, SendEnds DEF NoEndpoint
<1>3. CASE SndUData \/ SndFlowErr
  BY <1>3, SendEnds DEF SndUData, SndFlowErr
<1>4. CASE SndLookErr
  <2>1. /\ sending # NotSending /\ sending' = [sending EXCEPT !.try = "look"] /\ uderr' = uderr
        /\ UNCHANGED <<g, adding, tick, report, happened, told, missed, boot>>
    BY <1>4 DEF SndLookErr
  <2>2. /\ sending' \in Datagram /\ sending'.counts = sending.counts /\ sending'.try = "look"
        /\ sending'.to = sending.to /\ uderr > 0
    BY <1>4, <2>1 DEF CountInv, CountTypes, Datagram, SndLookErr
  <2>3. uderr' \in Nat /\ RetryInv' /\ sending' # NotSending
    BY <2>1, <2>2 DEF CountInv, CountTypes, RetryInv, Datagram, NotSending
  <2> QED BY <2>1, <2>2, <2>3, CountsUntouched
<1>5. CASE RcvUDErr
  <2>1. /\ sending # NotSending /\ uderr' = uderr - 1
        /\ sending' = [sending EXCEPT !.try = "second", !.another = uderr' > 0]
        /\ UNCHANGED <<g, adding, tick, report, happened, told, missed, boot>>
    BY <1>5 DEF RcvUDErr
  <2>2. uderr' \in Nat
    BY <1>5, <2>1 DEF CountInv, CountTypes, RetryInv, RcvUDErr
  <2> DEFINE more == uderr' > 0
  <2>3a. more \in BOOLEAN
    OBVIOUS
  <2>3b. sending' = [sending EXCEPT !.try = "second", !.another = more]
    BY <2>1
  <2> HIDE DEF more
  <2>3. more \in BOOLEAN /\ sending' = [sending EXCEPT !.try = "second", !.another = more]
    BY <2>3a, <2>3b
  <2>4. /\ sending' \in Datagram /\ sending'.counts = sending.counts
        /\ sending'.to = sending.to /\ sending'.try = "second" /\ sending'.another = more
    BY <2>1, <2>3 DEF CountInv, CountTypes, Datagram
  <2>5. uderr' > 0 => sending'.another
    BY <2>4, Zenon DEF more
  <2>6. RetryInv' /\ sending' # NotSending
    BY <2>4, <2>5 DEF RetryInv, Datagram, NotSending
  <2> QED BY <2>1, <2>2, <2>4, <2>6, CountsUntouched
<1>6. CASE GiveUp
  <2>1. sending # NotSending /\ UNCHANGED <<g, boot, adding, tick, report, uderr, happened>>
    BY <1>6 DEF GiveUp
  <2>2. sending.another
    BY <1>6 DEF GiveUp, CountInv, RetryInv
  <2>3. NotDelivered
    BY <1>6, <2>2, Zenon DEF GiveUp
  <2> QED BY <2>1, <2>3, SendEnds
<1>7. CASE PortUnreachable
  <2>1. /\ uderr' \in {uderr, uderr + 1}
        /\ UNCHANGED <<g, adding, tick, report, happened, told, missed, boot>>
        /\ sending' = IF sending = NotSending \/ sending.try # "second"
                      THEN sending ELSE [sending EXCEPT !.another = uderr' > 0]
    BY <1>7 DEF PortUnreachable
  <2>2. uderr' \in Nat /\ (uderr > 0 => uderr' > 0)
    BY <2>1 DEF CountInv, CountTypes
  <2>3. CASE sending = NotSending
    BY <2>1, <2>2, <2>3, CountsUntouched DEF RetryInv
  <2>4. CASE sending # NotSending
    <3> DEFINE more == uderr' > 0
    <3>a. more \in BOOLEAN
      OBVIOUS
    <3>b. sending' = IF sending = NotSending \/ sending.try # "second"
                    THEN sending ELSE [sending EXCEPT !.another = more]
      BY <2>1
    <3> HIDE DEF more
    <3>1. /\ sending \in Datagram /\ more \in BOOLEAN
          /\ sending' = IF sending.try # "second" THEN sending ELSE [sending EXCEPT !.another = more]
      BY <2>4, <3>a, <3>b DEF CountInv, CountTypes
    <3>2. /\ sending' \in Datagram /\ sending'.counts = sending.counts /\ sending'.to = sending.to
          /\ sending'.try = sending.try
          /\ sending'.try = "second" => sending'.another = more
      BY <3>1 DEF Datagram
    <3>3. sending' # NotSending
      BY <3>2 DEF Datagram, NotSending
    <3>4. uderr' > 0 /\ sending'.try = "second" => sending'.another
      BY <3>2, Zenon DEF more
    <3>5. RetryInv'
      BY <2>2, <2>4, <3>2, <3>4 DEF CountInv, RetryInv
    <3> QED BY <2>1, <2>2, <2>4, <3>2, <3>3, <3>5, CountsUntouched
  <2> QED BY <2>3, <2>4
<1> QED BY <1>1, <1>2, <1>3, <1>4, <1>5, <1>6, <1>7

\* A datagram of no counters: a boot stage, or a line of the log.
LEMMA OtherDatagrams ==
  ASSUME CountInv, NEW to \in Sinks, NEW stage \in Nat, AtLoop, StartSend(to, Zeros, stage),
         boot' \in Nat,
         UNCHANGED <<g, adding, tick, report, uderr, happened, told, missed>>
  PROVE  CountInv'
<1>1. tick = NoTick /\ adding = NotAdding /\ sending = NotSending
  BY DEF AtLoop
<1>2. sending' = [to |-> to, counts |-> Zeros, boot |-> stage, try |-> "first", another |-> FALSE]
  BY DEF StartSend
<1>3. Zeros \in Counts
  BY DEF Zeros, Counts
<1>4. sending' \in Datagram
  BY <1>2, <1>3 DEF Datagram
<1>5. CountTypes'
  BY <1>4 DEF CountInv, CountTypes
<1>6. LoopInv' /\ RetryInv'
  BY <1>1, <1>2 DEF LoopInv, RetryInv, NoTick, Formatting, ToSend, Sent, Resetting
<1>7. \A c \in Counted : ~WillBeReset(c) /\ ~WillBeReset(c)'
  BY <1>1 DEF WillBeReset, NoTick
<1>8. \A c \in Counted : ToTell(c)' = ToTell(c)
  BY <1>7 DEF ToTell
<1> QED BY <1>5, <1>6, <1>8 DEF CountInv, ToldOnce, Counted

LEMMA TickBegins == ASSUME CountInv, TickStart PROVE CountInv'
<1>1. /\ tick = NoTick /\ adding = NotAdding /\ sending = NotSending
      /\ tick' = [at |-> "format", i |-> 1] /\ report' = Zeros
      /\ UNCHANGED <<g, boot, adding, sending, uderr, happened, told, missed>>
  BY DEF TickStart, AtLoop
<1>2. CountTypes'
  BY <1>1 DEF CountInv, CountTypes, Counts, Zeros
<1>3. Formatting' /\ LoopInv' /\ RetryInv'
  BY <1>1 DEF LoopInv, RetryInv, Formatting, ToSend, Sent, Resetting
<1>4. \A c \in Counted : ~WillBeReset(c) /\ ~WillBeReset(c)'
  BY <1>1 DEF WillBeReset, NoTick
<1>5. \A c \in Counted : ToTell(c)' = ToTell(c)
  BY <1>1, <1>4 DEF ToTell
<1> QED BY <1>1, <1>2, <1>3, <1>5 DEF CountInv, ToldOnce, Counted

\* A counter that has been read is told as it was then.
LEMMA TickFormats == ASSUME CountInv, TickFormat PROVE CountInv'
<1> DEFINE c0 == Formatted[tick.i]
<1>1. /\ Formatting /\ adding = NotAdding /\ sending = NotSending
      /\ UNCHANGED <<g, boot, adding, sending, uderr, happened, told, missed>>
  BY DEF TickFormat, CountInv, LoopInv, NoTick, Formatting, ToSend, Sent, Resetting
<1>2. c0 \in Counters /\ tick.i \in 1..5
  BY <1>1, Places DEF Formatting
<1>3. report' = [report EXCEPT ![c0] = IF c0 = "ms_sum" /\ g["ms_cnt"] = 0 THEN 0 ELSE g[c0]]
  BY DEF TickFormat
<1>4. \/ tick.i < 5 /\ tick' = [at |-> "format", i |-> tick.i + 1]
      \/ tick.i = 5 /\ ToSend'
  BY <1>1, <1>2, Places DEF TickFormat, Formatting, ToSend
<1>5. CountTypes'
  <2>1. g \in [Counters -> Nat] /\ report \in [Counters -> Nat]
    BY DEF CountInv, CountTypes, Counts
  <2>2. g[c0] \in Nat
    BY <1>2, <2>1
  <2>3. report' \in [Counters -> Nat]
    BY <1>2, <1>3, <2>1, <2>2
  <2> QED BY <1>1, <2>3 DEF CountInv, CountTypes, Counts
<1>6. (Formatting \/ ToSend)'
  BY <1>2, <1>4 DEF Formatting
<1>7. LoopInv' /\ RetryInv'
  BY <1>1, <1>6 DEF LoopInv, RetryInv, ToSend, Sent
<1>8. ASSUME NEW c \in Counted
      PROVE  ToTell(c)' = ToTell(c)
  <2>1. c \in Counters /\ c # "ms_sum"
    BY DEF Counted, Counters
  <2>2. WillBeReset(c) <=> \E i \in 1..5 : i < tick.i /\ Formatted[i] = c
    BY <1>1, <2>1, RoundOf
  <2>3. WillBeReset(c)' <=> \E i \in 1..5 : i <= tick.i /\ Formatted[i] = c
    <3>1. CASE tick.i < 5
      <4>1. Formatting' /\ tick'.i = tick.i + 1
        BY <1>2, <1>4, <3>1 DEF Formatting
      <4>2. WillBeReset(c)' <=> \E i \in 1..5 : i < tick'.i /\ Formatted[i] = c
        BY <2>1, <4>1, Places DEF WillBeReset, Formatting
      <4> QED BY <1>2, <4>1, <4>2
    <3>2. CASE tick.i = 5
      <4>1. WillBeReset(c)'
        BY <1>4, <3>2 DEF WillBeReset, ToSend
      <4> QED BY <2>1, <3>2, <4>1, Places
    <3> QED BY <1>2, <3>1, <3>2
  <2>4. CASE c = c0
    <3>1. ~WillBeReset(c)
      BY <1>2, <2>2, <2>4, Places
    <3>2. WillBeReset(c)'
      BY <1>2, <2>3, <2>4
    <3>3. ToTell(c) = g[c]
      BY <1>1, <3>1 DEF ToTell
    <3>4. ToTell(c)' = report'[c]
      BY <1>1, <1>6, <3>2 DEF ToTell, Formatting, ToSend
    <3>5. report'[c] = g[c]
      BY <1>3, <2>1, <2>4 DEF CountInv, CountTypes, Counts
    <3> QED BY <3>3, <3>4, <3>5
  <2>5. CASE c # c0
    <3>1. WillBeReset(c)' <=> WillBeReset(c)
      BY <1>2, <2>2, <2>3, <2>5
    <3>2. report'[c] = report[c]
      BY <1>3, <2>1, <2>5 DEF CountInv, CountTypes, Counts
    <3>3. ToTell(c) = IF ~WillBeReset(c) THEN g[c] ELSE report[c]
      BY <1>1 DEF ToTell, Formatting
    <3>4. ToTell(c)' = IF ~WillBeReset(c)' THEN g[c] ELSE report'[c]
      BY <1>1, <1>6 DEF ToTell, Formatting, ToSend
    <3> QED BY <3>1, <3>2, <3>3, <3>4
  <2> QED BY <2>4, <2>5
<1> QED BY <1>1, <1>5, <1>7, <1>8 DEF CountInv, ToldOnce, Counted

LEMMA TickSends == ASSUME CountInv, TickSend PROVE CountInv'
<1>1. /\ ToSend /\ Sent' /\ adding = NotAdding /\ sending = NotSending
      /\ UNCHANGED <<g, boot, adding, report, uderr, happened, told, missed>>
  BY DEF TickSend, CountInv, LoopInv, NoTick, ToSend, Sent
<1>2. sending' = [to |-> "metrics", counts |-> report, boot |-> boot, try |-> "first",
                  another |-> FALSE]
  BY DEF TickSend, StartSend
<1>3. sending' \in Datagram
  BY <1>2 DEF CountInv, CountTypes, Datagram, Sinks
<1>4. CountTypes'
  BY <1>1, <1>3 DEF CountInv, CountTypes
<1>5. LoopInv' /\ RetryInv'
  BY <1>1, <1>2 DEF LoopInv, RetryInv
<1>6. sending' # NotSending
  BY <1>3 DEF Datagram, NotSending
<1>7. \A c \in Counted : WillBeReset(c) /\ WillBeReset(c)'
  BY <1>1 DEF WillBeReset, ToSend, Sent
<1>8. \A c \in Counted : ToTell(c)' = ToTell(c)
  BY <1>1, <1>6, <1>7 DEF ToTell, ToSend, Sent
<1> QED BY <1>1, <1>4, <1>5, <1>8 DEF CountInv, ToldOnce, Counted

\* A counter is reset when nothing of it is left to tell.
LEMMA TickResets == ASSUME CountInv, TickReset PROVE CountInv'
<1> DEFINE i == IF tick.at = "send" THEN 1 ELSE tick.i
           c0 == ResetOrder[i]
<1>1. /\ (Sent /\ i = 1) \/ (Resetting /\ i = tick.i)
      /\ adding = NotAdding /\ sending = NotSending
      /\ UNCHANGED <<boot, adding, report, sending, uderr, happened, told, missed>>
  BY DEF TickReset, CountInv, LoopInv, NoTick, Formatting, ToSend, Sent, Resetting
<1>2. i \in 1..5 /\ c0 \in Counters
  BY <1>1, Places DEF Resetting
<1>3. g' = [g EXCEPT ![c0] = 0]
  BY DEF TickReset
<1>4. \/ i < 5 /\ tick' = [at |-> "reset", i |-> i + 1]
      \/ i = 5 /\ tick' = NoTick
  BY <1>2, Places DEF TickReset
<1> HIDE DEF i
<1>5. CountTypes'
  BY <1>1, <1>2, <1>3 DEF CountInv, CountTypes, Counts
<1>6. Resetting' \/ tick' = NoTick
  BY <1>2, <1>4 DEF Resetting
<1>7. LoopInv' /\ RetryInv'
  BY <1>1, <1>6 DEF LoopInv, RetryInv
<1>8. ASSUME NEW c \in Counted
      PROVE  ToTell(c)' = ToTell(c)
  <2>1. c \in Counters
    BY DEF Counted, Counters
  <2>2. WillBeReset(c) <=> \E j \in 1..5 : j >= i /\ ResetOrder[j] = c
    <3>1. CASE Resetting /\ i = tick.i
      BY <2>1, <3>1, RoundOf
    <3>2. CASE Sent /\ i = 1
      <4>1. WillBeReset(c)
        BY <2>1, <3>2, RoundOf
      <4> QED BY <2>1, <3>2, <4>1, Places
    <3> QED BY <1>1, <3>1, <3>2
  <2>3. WillBeReset(c)' <=> \E j \in 1..5 : j > i /\ ResetOrder[j] = c
    <3>1. CASE i < 5
      <4>1. tick' = [at |-> "reset", i |-> i + 1]
        BY <1>4, <3>1
      <4>2. WillBeReset(c)' <=> \E j \in (i + 1)..5 : ResetOrder[j] = c
        BY <4>1, Places DEF WillBeReset
      <4> QED BY <1>2, <4>2
    <3>2. CASE i = 5
      <4>1. ~WillBeReset(c)'
        BY <1>4, <3>2 DEF WillBeReset, NoTick
      <4> QED BY <3>2, <4>1
    <3> QED BY <1>2, <3>1, <3>2
  <2>4. ToTell(c) = IF WillBeReset(c) THEN 0 ELSE g[c]
    BY <1>1 DEF ToTell, Sent, Resetting
  <2>5. ToTell(c)' = IF WillBeReset(c)' THEN 0 ELSE g'[c]
    <3>1. tick' = NoTick => ~WillBeReset(c)'
      BY DEF WillBeReset, NoTick
    <3> QED BY <1>1, <1>6, <3>1 DEF ToTell, Resetting
  <2>6. CASE c = c0
    <3>1. WillBeReset(c) /\ ~WillBeReset(c)'
      BY <1>2, <2>2, <2>3, <2>6, Places
    <3>2. g'[c] = 0
      BY <1>3, <2>1, <2>6 DEF CountInv, CountTypes, Counts
    <3> QED BY <2>4, <2>5, <3>1, <3>2
  <2>7. CASE c # c0
    <3>1. WillBeReset(c) <=> WillBeReset(c)'
      BY <1>2, <2>2, <2>3, <2>7
    <3>2. g'[c] = g[c]
      BY <1>3, <2>1, <2>7 DEF CountInv, CountTypes, Counts
    <3> QED BY <2>4, <2>5, <3>1, <3>2
  <2> QED BY <2>6, <2>7
<1> QED BY <1>1, <1>5, <1>7, <1>8 DEF CountInv, ToldOnce, Counted

\* Each session, byte and frame is told to the collector once, or still to be told, or
\* known to be missed, for any number of counts and datagrams: an error of one datagram
\* (statsd.c), of the log's even, never silences the ones after it, and a count between the
\* reading and the resetting of its counter (metrics.c) is all that the counters lose.
THEOREM CountsToldOnce == TelemetrySpec => []ToldOnce
<1>1. TelemetryInit => CountInv
  <2> SUFFICES ASSUME TelemetryInit PROVE CountInv
    OBVIOUS
  <2>1. \A c : ~WillBeReset(c)
    BY DEF TelemetryInit, WillBeReset, NoTick
  <2>2. \A c \in Counted : ToTell(c) = 0
    BY <2>1 DEF TelemetryInit, ToTell, Zeros, Counted, Counters
  <2>3. ToldOnce
    BY <2>2 DEF TelemetryInit, ToldOnce, Zeros, Counted, Counters
  <2>4. NotAdding \in Nat /\ Zeros \in Counts
    BY TelemetryAssumption DEF NotAdding, Zeros, Counts
  <2>5. CountTypes
    BY <2>4 DEF TelemetryInit, CountTypes
  <2>6. LoopInv /\ RetryInv
    BY DEF TelemetryInit, LoopInv, RetryInv
  <2> QED BY <2>3, <2>5, <2>6 DEF CountInv
<1>2. ASSUME CountInv, [TelemetryNext]_mtvars PROVE CountInv'
  <2>1. CASE \E cs \in {{"sessions"}, {"bytes"}, {"frames", "ms_sum", "ms_cnt"}} :
               CountAtInterrupt(cs)
    BY <1>2, <2>1, InterruptCounts DEF Counters
  <2>2. CASE ReadBytes \/ WriteBytes
    BY <1>2, <2>2, LoopCounts
  <2>3. CASE \/ Arm \/ StatsdClose \/ NoEndpoint \/ SndUData \/ SndFlowErr \/ SndLookErr \/ RcvUDErr
             \/ GiveUp \/ PortUnreachable \/ SinkStartsOrStops
    BY <1>2, <2>3, NetworkStep
  <2>4. CASE \E stage \in Stages : BootStage(stage)
    BY <1>2, <2>4, OtherDatagrams, TelemetryAssumption DEF BootStage, Sinks
  <2>5. CASE StatsdLog
    BY <1>2, <2>5, OtherDatagrams DEF StatsdLog, Sinks, CountInv, CountTypes
  <2>6. CASE TickStart
    BY <1>2, <2>6, TickBegins
  <2>7. CASE TickFormat
    BY <1>2, <2>7, TickFormats
  <2>8. CASE TickSend
    BY <1>2, <2>8, TickSends
  <2>9. CASE TickReset
    BY <1>2, <2>9, TickResets
  <2>10. CASE UNCHANGED mtvars
    <3>1. UNCHANGED <<g, adding, tick, report, happened, told, missed, boot, sending, uderr>>
      BY <2>10 DEF mtvars
    <3>2. uderr' \in Nat /\ (sending' # NotSending => sending' \in Datagram) /\ RetryInv'
      BY <1>2, <3>1 DEF CountInv, CountTypes, RetryInv
    <3> QED BY <1>2, <3>1, <3>2, CountsUntouched
  <2> QED BY <1>2, <2>1, <2>2, <2>3, <2>4, <2>5, <2>6, <2>7, <2>8, <2>9, <2>10 DEF TelemetryNext
<1>3. CountInv => ToldOnce
  BY DEF CountInv
<1> QED BY <1>1, <1>2, <1>3, PTL DEF TelemetrySpec

----------------------------------------------------------------------------
(* The ring of deferred output.                                              *)

\* The characters of a line, as they lie in the ring.
CharsOf(text) == Append(text, Nul)

Chars == UNION {{text[i] : i \in DOMAIN text} : text \in LogLines}

\* Where the lines would lie in a ring without an end: start[i] is the place of the first
\* character of line i, and the last of start that of a line to come.
LogEnd(start) == start[Len(logged) + 1]
WriteAt(start) == LogEnd(start) - Len(copying)

Laid(start) ==
  /\ start = [i \in 1..(Len(logged) + 1) |-> start[i]]
  /\ \A i \in 1..(Len(logged) + 1) : start[i] \in Nat
  /\ \A i, j \in 1..(Len(logged) + 1) : i <= j => start[i] <= start[j]
  /\ \A i \in 1..Len(logged) : start[i + 1] = start[i] + Len(logged[i]) + 1

\* What is written and not read yet is in the ring.
RingHolds(start, read) ==
  \A i \in 1..Len(logged) : \A k \in 0..Len(logged[i]) :
    /\ read <= start[i] + k
    /\ start[i] + k < WriteAt(start) + (IF loaded = Capacity THEN 0 ELSE 1)
    => buffer[(start[i] + k) % Capacity] = CharsOf(logged[i])[k + 1]

\* What is left to copy is the end of the last line.
CopyingLast ==
  copying # <<>> =>
    /\ logged # <<>> /\ Len(copying) <= Len(logged[Len(logged)]) + 1
    /\ \A k \in 1..Len(copying) :
         copying[k] = CharsOf(logged[Len(logged)])[Len(logged[Len(logged)]) + 1 - Len(copying) + k]

\* The output is within the first line that is not printed.
ReadWithin(start, read) ==
  /\ read \in Nat /\ read <= WriteAt(start) /\ LogEnd(start) - read < Capacity
  /\ ~draining => read = start[Len(printed) + 1]
  /\ draining =>
       /\ read = start[Len(printed) + 1] + Len(line)
       /\ line # <<>> => /\ Len(printed) < Len(logged)
                         /\ Len(line) <= Len(logged[Len(printed) + 1])
       /\ \A k \in 1..Len(line) : line[k] = logged[Len(printed) + 1][k]

LogTypes ==
  /\ buffer = [p \in 0..(Capacity - 1) |-> buffer[p]]
  /\ wrpos \in 0..(Capacity - 1) /\ rdpos \in 0..(Capacity - 1)
  /\ loaded \in {Capacity, wrpos}
  /\ draining \in BOOLEAN
  /\ copying \in Seq(Chars \cup {Nul}) /\ line \in Seq(Chars)
  /\ logged \in Seq(LogLines) /\ printed \in Seq(LogLines)
  /\ loaded # Capacity => copying # <<>>
  /\ draining => copying = <<>>

LogAt(start, read) ==
  /\ Laid(start) /\ ReadWithin(start, read) /\ RingHolds(start, read)
  /\ wrpos = WriteAt(start) % Capacity /\ rdpos = read % Capacity

LogInv ==
  /\ LogTypes
  /\ Len(printed) <= Len(logged) /\ \A i \in 1..Len(printed) : printed[i] = logged[i]
  /\ CopyingLast
  /\ \E start, read : LogAt(start, read)

LEMMA RemainderIs ==
  ASSUME NEW m \in Nat \ {0}, NEW z \in Nat, NEW t \in 0 .. m - 1
  PROVE  (m * z + t) % m = t
<1> DEFINE n == m * z + t
           q == n \div m
           r == n % m
<1>1. n \in Nat
  OBVIOUS
<1>2. n = m * q + r /\ q \in Nat /\ r \in 0 .. m - 1
  BY <1>1
<1>3. m * q + r = m * z + t
  BY <1>2
<1> HIDE DEF n, q, r
<1>4. CASE q = z
  BY <1>2, <1>3, <1>4 DEF n, r
<1>5. CASE q < z
  <2>1. PICK d \in Nat : z = q + d + 1
    <3>1. z - q - 1 \in Nat
      BY <1>2, <1>5
    <3> QED BY <1>2, <3>1
  <2>2. m * z = m * q + m * d + m
    BY <1>2, <2>1
  <2>3. m * d \in Nat /\ m * q \in Nat
    BY <1>2, <2>1
  <2> QED BY <1>2, <1>3, <2>2, <2>3
<1>6. CASE q > z
  <2>1. PICK d \in Nat : q = z + d + 1
    <3>1. q - z - 1 \in Nat
      BY <1>2, <1>6
    <3> QED BY <1>2, <3>1
  <2>2. m * q = m * z + m * d + m
    BY <1>2, <2>1
  <2>3. m * d \in Nat /\ m * z \in Nat
    BY <1>2, <2>1
  <2> QED BY <1>2, <1>3, <2>2, <2>3
<1> QED BY <1>2, <1>4, <1>5, <1>6

\* Two places less than a ring apart are as far apart in the ring, the way round it.
LEMMA RingApart ==
  ASSUME NEW C \in Nat \ {0}, NEW a \in Nat, NEW b \in Nat, b <= a, a - b < C
  PROVE  /\ ((a % C) + C - (b % C)) % C = a - b
         /\ b < a => ((b % C) + C - (a % C)) % C = C - (a - b)
<1> DEFINE p == a \div C
           q == b \div C
           r == a % C
           s == b % C
           d == p - q
<1>1. a = C * p + r /\ p \in Nat /\ r \in 0 .. C - 1
  OBVIOUS
<1>2. b = C * q + s /\ q \in Nat /\ s \in 0 .. C - 1
  OBVIOUS
<1> HIDE DEF p, q, r, s
<1>3. d \in Int /\ a - b = C * d + (r - s)
  BY <1>1, <1>2
<1> HIDE DEF d
<1>4. d \in {0, 1}
  <2>1. CASE d >= 2
    <3>1. PICK e \in Nat : d = e + 2
      <4>1. d - 2 \in Nat
        BY <1>3, <2>1
      <4> QED BY <1>3, <4>1
    <3>2. C * d = C * e + 2 * C /\ C * e \in Nat
      BY <3>1
    <3> QED BY <1>1, <1>2, <1>3, <3>2
  <2>2. CASE d <= -1
    <3>1. PICK e \in Nat : d = -1 - e
      <4>1. -1 - d \in Nat
        BY <1>3, <2>2
      <4> QED BY <1>3, <4>1
    <3>2. C * d = -C - C * e /\ C * e \in Nat
      BY <3>1
    <3> QED BY <1>1, <1>2, <1>3, <3>2
  <2> QED BY <1>3, <2>1, <2>2
<1>5. CASE d = 0
  <2>1. a - b = r - s
    BY <1>1, <1>2, <1>3, <1>5
  <2>2. r + C - s = C * 1 + (a - b) /\ a - b \in 0 .. C - 1
    BY <1>1, <1>2, <2>1
  <2>3. (r + C - s) % C = a - b
    BY <2>2, RemainderIs
  <2>4. b < a => s + C - r = C * 0 + (C - (a - b)) /\ C - (a - b) \in 0 .. C - 1
    BY <1>1, <1>2, <2>1
  <2>5. b < a => (s + C - r) % C = C - (a - b)
    <3> HAVE b < a
    <3> QED BY <2>4, RemainderIs
  <2> QED BY <2>3, <2>5 DEF r, s
<1>6. CASE d = 1
  <2>1. a - b = C + r - s
    BY <1>1, <1>2, <1>3, <1>6
  <2>2. r + C - s = C * 0 + (a - b) /\ a - b \in 0 .. C - 1
    BY <1>1, <1>2, <2>1
  <2>3. (r + C - s) % C = a - b
    BY <2>2, RemainderIs
  <2>4. b < a => s + C - r = C * 1 + (C - (a - b)) /\ C - (a - b) \in 0 .. C - 1
    BY <1>1, <1>2, <2>1
  <2>5. b < a => (s + C - r) % C = C - (a - b)
    <3> HAVE b < a
    <3> QED BY <2>4, RemainderIs
  <2> QED BY <2>3, <2>5 DEF r, s
<1> QED BY <1>4, <1>5, <1>6
LEMMA PlacesDiffer ==
  ASSUME NEW C \in Nat \ {0}, NEW a \in Nat, NEW b \in Nat, b < a, a - b < C
  PROVE  a % C # b % C
<1>0. b <= a
  OBVIOUS
<1>1. ((a % C) + C - (b % C)) % C = a - b
  BY <1>0, RingApart
<1>2. a % C \in Nat /\ b % C \in Nat
  OBVIOUS
<1>3. a % C = b % C => (a % C) + C - (b % C) = C * 1 + 0
  BY <1>2
<1>4. (C * 1 + 0) % C = 0
  BY RemainderIs
<1> QED BY <1>1, <1>3, <1>4

LEMMA LogConstants ==
  /\ Capacity \in Nat \ {0}
  /\ \A text \in LogLines : /\ text \in Seq(Chars)
                           /\ \A i \in 1..Len(text) : text[i] # Nul
  /\ Nul \notin Chars
<1>1. Capacity \in Nat \ {0}
  BY LogAssumption
<1>2. ASSUME NEW text \in LogLines PROVE text \in Seq(Chars) /\ \A i \in 1..Len(text) : text[i] # Nul
  <2> DEFINE own == {text[i] : i \in DOMAIN text}
  <2>1. text \in Seq(own \ {Nul})
    BY LogAssumption
  <2>2. own \subseteq Chars
    BY DEF Chars
  <2>3. \A i \in 1..Len(text) : text[i] \in own \ {Nul}
    BY <2>1
  <2> HIDE DEF own
  <2> QED BY <2>1, <2>2, <2>3
<1>3. Nul \notin Chars
  <2> SUFFICES ASSUME NEW text \in LogLines, NEW i \in DOMAIN text PROVE text[i] # Nul
    BY DEF Chars
  <2> QED BY <1>2
<1> QED BY <1>1, <1>2, <1>3

LEMMA CharsAt ==
  ASSUME NEW text \in LogLines
  PROVE  /\ CharsOf(text) \in Seq(Chars \cup {Nul}) /\ Len(CharsOf(text)) = Len(text) + 1
         /\ Len(text) \in Nat
         /\ \A k \in 1..Len(text) : CharsOf(text)[k] = text[k] /\ text[k] # Nul /\ text[k] \in Chars
         /\ CharsOf(text)[Len(text) + 1] = Nul
BY LogConstants DEF CharsOf

LEMMA LogBegins == LogInit => LogInv
<1> SUFFICES ASSUME LogInit PROVE LogInv
  OBVIOUS
<1> DEFINE start == [i \in 1..1 |-> 0]
<1>1. LogTypes
  BY LogConstants DEF LogInit, LogTypes
<1>2. Laid(start) /\ ReadWithin(start, 0) /\ RingHolds(start, 0)
  BY LogConstants DEF LogInit, Laid, ReadWithin, RingHolds, WriteAt, LogEnd
<1>3. 0 % Capacity = 0
  BY LogConstants
<1>4. LogAt(start, 0)
  BY <1>2, <1>3 DEF LogAt, LogInit, WriteAt, LogEnd
<1> HIDE DEF start
<1>5. CopyingLast /\ Len(printed) <= Len(logged) /\ \A i \in 1..Len(printed) : printed[i] = logged[i]
  BY DEF LogInit, CopyingLast
<1> QED BY <1>1, <1>4, <1>5 DEF LogInv

\* The counts that the facts of LogAt are about.
LEMMA LogNumbers ==
  ASSUME LogInv, NEW start, NEW read, LogAt(start, read)
  PROVE  /\ Len(logged) \in Nat /\ Len(printed) \in Nat /\ Len(line) \in Nat /\ Len(copying) \in Nat
         /\ Len(printed) <= Len(logged)
         /\ \A i \in 1..Len(logged) : logged[i] \in LogLines /\ Len(logged[i]) \in Nat
         /\ \A i \in 1..(Len(logged) + 1) : start[i] \in Nat /\ start[i] <= LogEnd(start)
         /\ \A i, j \in 1..(Len(logged) + 1) : i <= j => start[i] <= start[j]
         /\ \A i \in 1..Len(logged) : start[i + 1] = start[i] + Len(logged[i]) + 1
         /\ LogEnd(start) \in Nat /\ WriteAt(start) \in Nat /\ read \in Nat
         /\ read <= WriteAt(start) /\ WriteAt(start) <= LogEnd(start)
         /\ LogEnd(start) - read < Capacity
         /\ Capacity \in Nat \ {0}
<1>1. LogTypes /\ Len(printed) <= Len(logged) /\ Laid(start) /\ ReadWithin(start, read)
  BY DEF LogInv, LogAt
<1>2. /\ Len(logged) \in Nat /\ Len(printed) \in Nat /\ Len(line) \in Nat /\ Len(copying) \in Nat
      /\ \A i \in 1..Len(logged) : logged[i] \in LogLines
  BY <1>1 DEF LogTypes
<1>3. \A i \in 1..Len(logged) : Len(logged[i]) \in Nat
  BY <1>2, CharsAt
<1>4. LogEnd(start) \in Nat
  <2>1. Len(logged) + 1 \in 1..(Len(logged) + 1)
    BY <1>2
  <2>2. \A i \in 1..(Len(logged) + 1) : start[i] \in Nat
    BY <1>1 DEF Laid
  <2> QED BY <2>1, <2>2 DEF LogEnd
<1>5. read \in Nat /\ read <= WriteAt(start) /\ LogEnd(start) - read < Capacity
  BY <1>1 DEF ReadWithin
<1>6. WriteAt(start) \in Nat /\ WriteAt(start) <= LogEnd(start)
  BY <1>2, <1>4, <1>5 DEF WriteAt
<1>7. /\ \A i \in 1..(Len(logged) + 1) : start[i] \in Nat
      /\ \A i, j \in 1..(Len(logged) + 1) : i <= j => start[i] <= start[j]
      /\ \A i \in 1..Len(logged) : start[i + 1] = start[i] + Len(logged[i]) + 1
  BY <1>1 DEF Laid
<1>8. \A i \in 1..(Len(logged) + 1) : start[i] <= LogEnd(start)
  BY <1>2, <1>7 DEF LogEnd
<1> QED BY <1>1, <1>2, <1>3, <1>4, <1>5, <1>6, <1>7, <1>8, LogConstants

\* The ring is empty when all that was logged is printed.
LEMMA AllRead ==
  ASSUME LogInv, NEW start, NEW read, LogAt(start, read)
  PROVE  /\ rdpos = wrpos <=> read = WriteAt(start)
         /\ read = LogEnd(start) => Len(printed) = Len(logged) /\ (draining => line = <<>>)
         /\ Used = WriteAt(start) - read
<1>1. rdpos = wrpos <=> read = WriteAt(start)
  <2>1. wrpos = WriteAt(start) % Capacity /\ rdpos = read % Capacity
    BY DEF LogAt
  <2>2. read # WriteAt(start) => read < WriteAt(start) /\ WriteAt(start) - read < Capacity
    BY LogNumbers
  <2>3. read # WriteAt(start) => WriteAt(start) % Capacity # read % Capacity
    BY <2>2, LogNumbers, PlacesDiffer
  <2> QED BY <2>1, <2>3
<1>2. ASSUME read = LogEnd(start)
      PROVE  Len(printed) = Len(logged) /\ (draining => line = <<>>)
  <2>1. ReadWithin(start, read) /\ draining \in BOOLEAN
    BY DEF LogAt, LogInv, LogTypes
  <2>2. ASSUME Len(printed) < Len(logged) PROVE FALSE
    <3> DEFINE p == Len(printed) + 1
    <3>1. p \in 1..Len(logged) /\ p + 1 \in 1..(Len(logged) + 1)
      BY <2>2, LogNumbers
    <3>2. start[p + 1] = start[p] + Len(logged[p]) + 1 /\ start[p + 1] <= LogEnd(start)
      BY <3>1, LogNumbers
    <3>3. start[p] \in Nat /\ Len(logged[p]) \in Nat
      BY <3>1, LogNumbers
    <3>4. read <= start[p] + Len(logged[p])
      <4>1. CASE ~draining
        BY <2>1, <3>3, <4>1 DEF ReadWithin
      <4>2. CASE draining /\ line = <<>>
        BY <2>1, <3>3, <4>2 DEF ReadWithin
      <4>3. CASE draining /\ line # <<>>
        <5>1. read = start[p] + Len(line) /\ Len(line) <= Len(logged[p])
          BY <2>1, <4>3 DEF ReadWithin
        <5> QED BY <3>3, <5>1, LogNumbers
      <4> QED BY <2>1, <4>1, <4>2, <4>3
    <3> QED BY <1>2, <3>2, <3>3, <3>4, LogNumbers
  <2>3. Len(printed) = Len(logged)
    BY <2>2, LogNumbers
  <2> QED BY <2>1, <2>3, LogNumbers DEF ReadWithin
<1>3. Used = WriteAt(start) - read
  <2>1. wrpos = WriteAt(start) % Capacity /\ rdpos = read % Capacity
    BY DEF LogAt
  <2>2. read <= WriteAt(start) /\ WriteAt(start) - read < Capacity
    BY LogNumbers
  <2> DEFINE w == WriteAt(start)
  <2>2a. w \in Nat /\ read \in Nat /\ Capacity \in Nat \ {0}
    BY LogNumbers
  <2> HIDE DEF w
  <2>2b. read <= w /\ w - read < Capacity
    BY <2>2 DEF w
  <2>3. ((w % Capacity) + Capacity - (read % Capacity)) % Capacity = w - read
    BY <2>2a, <2>2b, RingApart
  <2> QED BY <2>1, <2>3 DEF Used, w
<1> QED BY <1>1, <1>2, <1>3

LEMMA LogInOrder == LogInv => LinesInOrder
<1> SUFFICES ASSUME LogInv PROVE LinesInOrder
  OBVIOUS
<1>1. PICK start, read : LogAt(start, read)
  BY DEF LogInv
<1>2. ASSUME rdpos = wrpos, copying = <<>> PROVE Len(printed) = Len(logged)
  <2>1. read = WriteAt(start)
    BY <1>1, <1>2, AllRead
  <2>2. WriteAt(start) = LogEnd(start)
    BY <1>1, <1>2, LogNumbers DEF WriteAt
  <2>3. read = LogEnd(start)
    BY <2>1, <2>2
  <2> QED BY <1>1, <2>3, AllRead
<1>3. DOMAIN printed = 1..Len(printed)
  BY DEF LogInv, LogTypes
<1> QED BY <1>2, <1>3 DEF LinesInOrder, LogInv
----------------------------------------------------------------------------
(* The steps of the ring.                                                    *)

LEMMA RemainderAdd ==
  ASSUME NEW a \in Nat, NEW b \in Nat, NEW m \in Nat \ {0}
  PROVE  ((a % m) + b) % m = (a + b) % m
<1> DEFINE q == a \div m
           r == a % m
           k == (r + b) \div m
           t == (r + b) % m
<1>1. a = m * q + r /\ q \in Nat /\ r \in 0 .. m - 1
  OBVIOUS
<1>2. r + b = m * k + t /\ k \in Nat /\ t \in 0 .. m - 1
  BY <1>1
<1> HIDE DEF q, r, k, t
<1>3. a + b = m * (q + k) + t
  BY <1>1, <1>2
<1>4. (a + b) % m = t
  <2>1. q + k \in Nat
    BY <1>1, <1>2
  <2> QED BY <1>2, <1>3, <2>1, RemainderIs
<1> QED BY <1>4 DEF t, r

\* The places of the lines with one more.
More(start, text) ==
  [i \in 1..(Len(logged) + 2) |->
     IF i <= Len(logged) + 1 THEN start[i] ELSE LogEnd(start) + Len(text) + 1]

LEMMA LaidMore ==
  ASSUME LogInv, NEW start, NEW read, LogAt(start, read), NEW text \in LogLines,
         logged' = Append(logged, text), NEW more, more = More(start, text)
  PROVE  /\ Laid(more)'
         /\ LogEnd(more)' = LogEnd(start) + Len(text) + 1
         /\ \A i \in 1..(Len(logged) + 1) : more[i] = start[i]
         /\ Len(logged') = Len(logged) + 1 /\ logged'[Len(logged) + 1] = text
         /\ \A i \in 1..Len(logged) : logged'[i] = logged[i]
         /\ logged' \in Seq(LogLines)
<1> DEFINE n == Len(logged)
<1>1. logged \in Seq(LogLines)
  BY DEF LogInv, LogTypes
<1>2. /\ Len(logged') = n + 1 /\ logged'[n + 1] = text /\ logged' \in Seq(LogLines)
      /\ \A i \in 1..n : logged'[i] = logged[i]
  BY <1>1
<1>3. n \in Nat /\ Len(text) \in Nat
  BY <1>1, CharsAt
<1>4. more = [i \in 1..(n + 2) |-> more[i]]
  BY DEF More
<1>5. /\ \A i \in 1..(n + 1) : more[i] = start[i]
      /\ more[n + 2] = LogEnd(start) + Len(text) + 1
  BY <1>3 DEF More
<1>5a. /\ \A i \in 1..(n + 1) : start[i] \in Nat /\ start[i] <= LogEnd(start)
       /\ \A i, j \in 1..(n + 1) : i <= j => start[i] <= start[j]
       /\ \A i \in 1..n : start[i + 1] = start[i] + Len(logged[i]) + 1 /\ Len(logged[i]) \in Nat
       /\ LogEnd(start) \in Nat /\ LogEnd(start) = start[n + 1]
  BY LogNumbers DEF LogEnd
<1> HIDE DEF n
<1>6. \A i \in 1..(n + 2) : more[i] \in Nat
  <2>1. \A i \in 1..(n + 1) : start[i] \in Nat
    BY <1>5a
  <2> QED BY <1>3, <1>5, <2>1, <1>5a
<1>7. \A i, j \in 1..(n + 2) : i <= j => more[i] <= more[j]
  <2> SUFFICES ASSUME NEW i \in 1..(n + 2), NEW j \in 1..(n + 2), i <= j
               PROVE  more[i] <= more[j]
    OBVIOUS
  <2>1. CASE j <= n + 1
    BY <1>3, <1>5, <2>1, <1>5a
  <2>2. CASE j = n + 2 /\ i <= n + 1
    <3>1. start[i] \in Nat /\ start[i] <= LogEnd(start)
      BY <1>3, <2>2, <1>5a
    <3> QED BY <1>3, <1>5, <2>2, <3>1, <1>5a
  <2>3. CASE j = n + 2 /\ i = n + 2
    BY <1>6, <2>3
  <2> QED BY <1>3, <2>1, <2>2, <2>3
<1>8. \A i \in 1..(n + 1) : more[i + 1] = more[i] + Len(logged'[i]) + 1
  <2> SUFFICES ASSUME NEW i \in 1..(n + 1) PROVE more[i + 1] = more[i] + Len(logged'[i]) + 1
    OBVIOUS
  <2>1. CASE i <= n
    BY <1>2, <1>3, <1>5, <2>1, <1>5a
  <2>2. CASE i = n + 1
    <3>1. i + 1 = n + 2 /\ n + 1 \in 1..(n + 1)
      BY <1>3, <2>2
    <3>2. more[n + 1] = LogEnd(start)
      BY <1>5, <1>5a, <3>1
    <3>3. more[n + 2] = more[n + 1] + Len(logged'[n + 1]) + 1
      BY <1>2, <1>5, <3>2
    <3> QED BY <2>2, <3>1, <3>3
  <2>3. i <= n \/ i = n + 1
    BY <1>3
  <2> QED BY <2>1, <2>2, <2>3
<1>9. LogEnd(more)' = more[n + 2]
  <2>1. Len(logged') + 1 = n + 2
    BY <1>2, <1>3
  <2> QED BY <2>1 DEF LogEnd
<1>10. Laid(more)'
  <2>1. Len(logged') + 1 = n + 2 /\ Len(logged') = n + 1
    BY <1>2, <1>3
  <2> QED BY <1>4, <1>6, <1>7, <1>8, <2>1 DEF Laid
<1> QED BY <1>2, <1>5, <1>9, <1>10 DEF n

\* What is common to the two ways of logging: the ring has room, and the line is the last.
LEMMA LogsMore ==
  ASSUME LogInv, NEW start, NEW read, LogAt(start, read), NEW text \in LogLines,
         Logs(text), copying = <<>>, "fullRing" \notin LogMishaps,
         NEW more, more = More(start, text), UNCHANGED <<draining, line, printed>>
  PROVE  /\ LogEnd(more)' = LogEnd(start) + Len(text) + 1
         /\ LogEnd(more)' - read < Capacity
         /\ WriteAt(start) = LogEnd(start) /\ loaded = Capacity
         /\ Laid(more)'
         /\ WriteAt(more)' \in Nat /\ WriteAt(more)' >= WriteAt(start) => ReadWithin(more, read)'
         /\ Len(printed') <= Len(logged') /\ \A i \in 1..Len(printed') : printed'[i] = logged'[i]
<1>1. Laid(more)' /\ LogEnd(more)' = LogEnd(start) + Len(text) + 1
  BY LaidMore DEF Logs
<1>2. /\ \A i \in 1..(Len(logged) + 1) : more[i] = start[i]
      /\ Len(logged') = Len(logged) + 1
      /\ \A i \in 1..Len(logged) : logged'[i] = logged[i]
  BY LaidMore DEF Logs
<1>3. WriteAt(start) = LogEnd(start) /\ Len(copying) = 0
  BY LogNumbers DEF WriteAt
<1>4. loaded = Capacity
  BY DEF LogInv, LogTypes
<1>5. Used + 0 + Len(text) + 1 < Capacity
  BY <1>3 DEF Logs, Fits
<1>6. Used = LogEnd(start) - read
  BY <1>3, AllRead
<1>7. LogEnd(start) \in Nat /\ read \in Nat /\ Len(text) \in Nat /\ Capacity \in Nat
  BY LogNumbers, CharsAt
<1>8. LogEnd(more)' - read < Capacity
  BY <1>1, <1>5, <1>6, <1>7
<1>9. Len(printed) \in Nat /\ Len(logged) \in Nat /\ Len(printed) <= Len(logged)
  BY LogNumbers
<1>10. ASSUME WriteAt(more)' \in Nat, WriteAt(more)' >= WriteAt(start) PROVE ReadWithin(more, read)'
  <2>1. ReadWithin(start, read) /\ draining \in BOOLEAN
    BY DEF LogAt, LogInv, LogTypes
  <2>2. more[Len(printed) + 1] = start[Len(printed) + 1]
    BY <1>2, <1>9
  <2>3. read <= WriteAt(more)'
    <3>1. read <= WriteAt(start) /\ WriteAt(start) \in Nat
      BY LogNumbers
    <3> QED BY <1>7, <1>10, <3>1
  <2>4. ~draining => read = more[Len(printed) + 1]
    BY <2>1, <2>2 DEF ReadWithin
  <2>5. draining => /\ read = more[Len(printed) + 1] + Len(line)
                    /\ line # <<>> => /\ Len(printed) < Len(logged')
                                      /\ Len(line) <= Len(logged'[Len(printed) + 1])
                    /\ \A k \in 1..Len(line) : line[k] = logged'[Len(printed) + 1][k]
    <3> HAVE draining
    <3>1. CASE line = <<>>
      <4>1. \A k \in 1..Len(line) : FALSE
        BY <3>1
      <4> QED BY <2>1, <2>2, <3>1, <4>1 DEF ReadWithin
    <3>2. CASE line # <<>>
      <4>1. Len(printed) < Len(logged) /\ Len(line) <= Len(logged[Len(printed) + 1])
        BY <2>1, <3>2 DEF ReadWithin
      <4>2. Len(printed) + 1 \in 1..Len(logged) /\ Len(printed) < Len(logged')
        BY <1>2, <1>9, <4>1
      <4>3. logged'[Len(printed) + 1] = logged[Len(printed) + 1]
        BY <1>2, <4>2
      <4> QED BY <2>1, <2>2, <4>1, <4>2, <4>3 DEF ReadWithin
    <3> QED BY <3>1, <3>2
  <2> QED BY <1>7, <1>8, <2>3, <2>4, <2>5 DEF ReadWithin
<1>11. Len(printed') <= Len(logged') /\ \A i \in 1..Len(printed') : printed'[i] = logged'[i]
  BY <1>2, <1>9 DEF LogInv
<1> QED BY <1>1, <1>3, <1>4, <1>8, <1>10, <1>11

\* A line that is logged while the event loop copies none goes into the ring behind the
\* others.
LEMMA InterruptWrites ==
  ASSUME LogInv, NEW start, NEW read, LogAt(start, read), NEW text \in LogLines,
         LogEnd(start) + Len(text) + 1 - read < Capacity, WriteAt(start) = LogEnd(start),
         NEW a \in Nat, read <= a, a < LogEnd(start) + Len(text) + 1,
         buffer' = [p \in DOMAIN buffer |->
                      LET i == ((p + Capacity - wrpos) % Capacity) + 1 IN
                      IF i <= Len(CharsOf(text)) THEN CharsOf(text)[i] ELSE buffer[p]]
  PROVE  buffer'[a % Capacity] = IF a < LogEnd(start) THEN buffer[a % Capacity]
                                 ELSE CharsOf(text)[a - LogEnd(start) + 1]
<1> DEFINE w == LogEnd(start)
           n == Len(text) + 1
           at == a % Capacity
           i == ((at + Capacity - wrpos) % Capacity) + 1
<1>1. w \in Nat /\ n \in Nat /\ Capacity \in Nat \ {0} /\ read \in Nat /\ read <= w
  BY LogNumbers, CharsAt
<1>2. wrpos = w % Capacity
  BY DEF LogAt
<1>3. DOMAIN buffer = 0..(Capacity - 1)
  BY DEF LogInv, LogTypes
<1>4. at \in 0..(Capacity - 1)
  BY <1>1
<1>5. buffer'[at] = IF i <= n THEN CharsOf(text)[i] ELSE buffer[at]
  BY <1>3, <1>4, CharsAt
<1>6. w + n - read < Capacity /\ a < w + n
  BY <1>1
<1> HIDE DEF w, n, i
<1>7. CASE a < w
  <2>1. w - a < Capacity /\ a <= w
    BY <1>1, <1>6, <1>7
  <2>2. ((a % Capacity) + Capacity - (w % Capacity)) % Capacity = Capacity - (w - a)
    BY <1>1, <1>7, <2>1, RingApart
  <2>3. i = Capacity - (w - a) + 1
    BY <1>2, <2>2 DEF i
  <2>4. ~(i <= n)
    BY <1>1, <1>6, <2>3
  <2> QED BY <1>5, <1>7, <2>4 DEF w
<1>8. CASE a >= w
  <2>1. a - w < Capacity /\ w <= a
    BY <1>1, <1>6, <1>8
  <2>2. ((a % Capacity) + Capacity - (w % Capacity)) % Capacity = a - w
    BY <1>1, <2>1, RingApart
  <2>3. i = a - w + 1
    BY <1>2, <2>2 DEF i
  <2>4. i <= n /\ ~(a < w)
    BY <1>1, <1>6, <1>8, <2>3
  <2> QED BY <1>5, <2>3, <2>4 DEF w
<1> QED BY <1>1, <1>7, <1>8

LEMMA InterruptKeeps ==
  ASSUME LogInv, NEW text \in LogLines, LogAtInterrupt(text), LogMishaps = {}
  PROVE  LogInv'
<1>1. PICK start, read : LogAt(start, read)
  BY DEF LogInv
<1>2. PICK more : more = More(start, text)
  OBVIOUS
<1>3. copying = <<>> /\ Logs(text) /\ UNCHANGED <<rdpos, copying, loaded, draining, line, printed>>
  BY DEF LogAtInterrupt
<1>4. /\ LogEnd(more)' = LogEnd(start) + Len(text) + 1
      /\ LogEnd(more)' - read < Capacity
      /\ WriteAt(start) = LogEnd(start) /\ loaded = Capacity
      /\ Laid(more)'
      /\ WriteAt(more)' \in Nat /\ WriteAt(more)' >= WriteAt(start) => ReadWithin(more, read)'
      /\ Len(printed') <= Len(logged') /\ \A i \in 1..Len(printed') : printed'[i] = logged'[i]
  BY <1>1, <1>2, <1>3, LogsMore
<1>5. /\ \A i \in 1..(Len(logged) + 1) : more[i] = start[i]
      /\ Len(logged') = Len(logged) + 1 /\ logged'[Len(logged) + 1] = text
      /\ \A i \in 1..Len(logged) : logged'[i] = logged[i]
      /\ logged' \in Seq(LogLines)
  BY <1>1, <1>2, <1>3, LaidMore DEF Logs
<1>6. /\ LogEnd(start) \in Nat /\ Len(text) \in Nat /\ Len(logged) \in Nat /\ read \in Nat
      /\ Capacity \in Nat \ {0} /\ read <= WriteAt(start)
      /\ \A i \in 1..(Len(logged) + 1) : start[i] \in Nat /\ start[i] <= LogEnd(start)
      /\ \A i \in 1..Len(logged) : start[i + 1] = start[i] + Len(logged[i]) + 1 /\ Len(logged[i]) \in Nat
  BY <1>1, CharsAt, LogNumbers
<1>7. WriteAt(more)' = LogEnd(more)'
  BY <1>3, <1>4, <1>6 DEF WriteAt
<1>8. ReadWithin(more, read)'
  BY <1>4, <1>6, <1>7
<1>9. /\ buffer' = [p \in DOMAIN buffer |->
                      LET i == ((p + Capacity - wrpos) % Capacity) + 1 IN
                      IF i <= Len(CharsOf(text)) THEN CharsOf(text)[i] ELSE buffer[p]]
      /\ wrpos' = (wrpos + Len(CharsOf(text))) % Capacity
  BY DEF LogAtInterrupt, CharsOf
<1>10. wrpos' = WriteAt(more)' % Capacity
  <2>1. wrpos = LogEnd(start) % Capacity
    BY <1>1, <1>4 DEF LogAt
  <2>2. Len(CharsOf(text)) = Len(text) + 1
    BY CharsAt
  <2> DEFINE w == LogEnd(start)  n == Len(text) + 1
  <2>3. w \in Nat /\ n \in Nat
    BY <1>6
  <2>4. w + n = LogEnd(more)'
    BY <1>4, <1>6
  <2> HIDE DEF w, n
  <2>5. ((w % Capacity) + n) % Capacity = (w + n) % Capacity
    BY <1>6, <2>3, RemainderAdd
  <2> QED BY <1>7, <1>9, <2>1, <2>2, <2>4, <2>5 DEF w, n
<1>11. ASSUME NEW a \in Nat, read <= a, a < LogEnd(more)'
       PROVE  buffer'[a % Capacity] = IF a < LogEnd(start) THEN buffer[a % Capacity]
                                      ELSE CharsOf(text)[a - LogEnd(start) + 1]
  <2>0. /\ LogEnd(more)' = LogEnd(start) + Len(text) + 1
        /\ LogEnd(more)' - read < Capacity
    BY <1>4
  <2>1a. a < LogEnd(start) + Len(text) + 1
    BY <1>11, <2>0, Zenon
  <2>1b. LogEnd(start) + Len(text) + 1 - read < Capacity
    BY <1>6, <2>0
  <2>1. LogEnd(start) + Len(text) + 1 - read < Capacity /\ a < LogEnd(start) + Len(text) + 1
    BY <2>1a, <2>1b, Zenon
  <2> QED BY <1>1, <1>4, <1>9, <1>11, <2>1, InterruptWrites
<1>11a. WriteAt(more)' + (IF loaded' = Capacity THEN 0 ELSE 1) = LogEnd(more)'
  <2>1. LogEnd(more)' \in Nat /\ loaded' = Capacity
    BY <1>3, <1>4, <1>6
  <2> QED BY <1>7, <2>1
<1>12. RingHolds(more, read)'
  <2> SUFFICES ASSUME NEW i \in 1..Len(logged'), NEW k \in 0..Len(logged'[i]),
                      read <= more[i] + k, more[i] + k < LogEnd(more)'
               PROVE  buffer'[(more[i] + k) % Capacity] = CharsOf(logged'[i])[k + 1]
    BY <1>11a DEF RingHolds
  <2> DEFINE a == more[i] + k
  <2>1. CASE i <= Len(logged)
    <3>1. i \in 1..Len(logged) /\ i + 1 \in 1..(Len(logged) + 1)
      BY <1>5, <1>6, <2>1
    <3>2. logged'[i] = logged[i] /\ more[i] = start[i] /\ start[i] \in Nat
      BY <1>5, <1>6, <3>1
    <3>3. start[i + 1] = start[i] + Len(logged[i]) + 1 /\ start[i + 1] <= LogEnd(start)
          /\ Len(logged[i]) \in Nat
      BY <1>6, <3>1
    <3>4. k \in 0..Len(logged[i]) /\ k \in Nat
      BY <3>2, <3>3
    <3>5. a \in Nat /\ a < LogEnd(start)
      <4>1. LogEnd(start) \in Nat
        BY <1>6
      <4>2. k <= Len(logged[i])
        BY <3>3, <3>4
      <4> QED BY <3>2, <3>3, <3>4, <4>1, <4>2
    <3>6. buffer'[a % Capacity] = buffer[a % Capacity]
      BY <1>11, <3>5
    <3>7. buffer[(start[i] + k) % Capacity] = CharsOf(logged[i])[k + 1]
      <4>1. RingHolds(start, read)
        BY <1>1 DEF LogAt
      <4>2. read <= start[i] + k /\ start[i] + k < WriteAt(start)
        BY <1>4, <3>2, <3>5
      <4>3. start[i] + k < WriteAt(start) + (IF loaded = Capacity THEN 0 ELSE 1)
        BY <1>4, <1>6, <4>2
      <4> QED BY <3>1, <3>4, <4>1, <4>2, <4>3 DEF RingHolds
    <3> QED BY <3>2, <3>6, <3>7
  <2>2. CASE i = Len(logged) + 1
    <3>1. more[i] = start[i] /\ start[i] = LogEnd(start) /\ logged'[i] = text
      BY <1>5, <1>6, <2>2 DEF LogEnd
    <3>2. k \in Nat /\ k <= Len(text)
      BY <1>6, <3>1
    <3>3. a \in Nat /\ ~(a < LogEnd(start)) /\ a - LogEnd(start) + 1 = k + 1
      BY <1>6, <3>1, <3>2
    <3>4. buffer'[a % Capacity] = CharsOf(text)[a - LogEnd(start) + 1]
      BY <1>11, <3>3
    <3> QED BY <3>1, <3>3, <3>4
  <2>3. i <= Len(logged) \/ i = Len(logged) + 1
    BY <1>5, <1>6
  <2> QED BY <2>1, <2>2, <2>3
<1>13. LogTypes'
  <2>1. LogTypes
    BY DEF LogInv
  <2>2. buffer' = [p \in 0..(Capacity - 1) |-> buffer'[p]]
    <3>1. DOMAIN buffer = 0..(Capacity - 1)
      BY <2>1 DEF LogTypes
    <3> HIDE DEF CharsOf
    <3> QED BY <1>9, <3>1
  <2>3. wrpos' \in 0..(Capacity - 1)
    <3>1. LogEnd(more)' \in Nat
      BY <1>4, <1>6
    <3> QED BY <1>6, <1>7, <1>10, <3>1
  <2>4. loaded' \in {Capacity, wrpos'}
    BY <1>3, <1>4
  <2> QED BY <1>3, <1>4, <1>5, <2>1, <2>2, <2>3, <2>4 DEF LogTypes
<1>14. CopyingLast'
  BY <1>3 DEF CopyingLast
<1>15. LogAt(more, read)'
  BY <1>1, <1>3, <1>4, <1>8, <1>10, <1>12 DEF LogAt
<1> QED BY <1>4, <1>13, <1>14, <1>15 DEF LogInv

LEMMA MainLoopKeeps ==
  ASSUME LogInv, NEW text \in LogLines, LogInMainLoop(text), LogMishaps = {}
  PROVE  LogInv'
<1>1. PICK start, read : LogAt(start, read)
  BY DEF LogInv
<1>2. PICK more : more = More(start, text)
  OBVIOUS
<1>3. /\ copying = <<>> /\ ~draining /\ Logs(text) /\ copying' = CharsOf(text)
      /\ UNCHANGED <<buffer, wrpos, rdpos, loaded, draining, line, printed>>
  BY DEF LogInMainLoop, CharsOf
<1>4. /\ LogEnd(more)' = LogEnd(start) + Len(text) + 1
      /\ LogEnd(more)' - read < Capacity
      /\ WriteAt(start) = LogEnd(start) /\ loaded = Capacity
      /\ Laid(more)'
      /\ WriteAt(more)' \in Nat /\ WriteAt(more)' >= WriteAt(start) => ReadWithin(more, read)'
      /\ Len(printed') <= Len(logged') /\ \A i \in 1..Len(printed') : printed'[i] = logged'[i]
  BY <1>1, <1>2, <1>3, LogsMore
<1>5. /\ \A i \in 1..(Len(logged) + 1) : more[i] = start[i]
      /\ Len(logged') = Len(logged) + 1 /\ logged'[Len(logged) + 1] = text
      /\ \A i \in 1..Len(logged) : logged'[i] = logged[i]
      /\ logged' \in Seq(LogLines)
  BY <1>1, <1>2, <1>3, LaidMore DEF Logs
<1>6. /\ LogEnd(start) \in Nat /\ Len(text) \in Nat /\ Len(logged) \in Nat
      /\ \A i \in 1..(Len(logged) + 1) : start[i] \in Nat
  BY <1>1, CharsAt, LogNumbers
<1>7. WriteAt(more)' = LogEnd(start)
  <2>1. Len(copying') = Len(text) + 1
    BY <1>3, CharsAt
  <2>1a. LogEnd(more)' = LogEnd(start) + Len(text) + 1
    BY <1>4
  <2>1b. LogEnd(start) \in Nat /\ Len(text) \in Nat
    BY <1>6
  <2>2. LogEnd(more)' - (Len(text) + 1) = LogEnd(start)
    BY <2>1a, <2>1b
  <2> QED BY <2>1, <2>2 DEF WriteAt
<1>8. ReadWithin(more, read)'
  BY <1>4, <1>6, <1>7
<1>8a. WriteAt(more)' + (IF loaded' = Capacity THEN 0 ELSE 1) = LogEnd(start)
  <2>1. LogEnd(start) \in Nat /\ loaded' = Capacity
    BY <1>3, <1>4, <1>6
  <2> QED BY <1>7, <2>1
<1>9. RingHolds(more, read)'
  <2> SUFFICES ASSUME NEW i \in 1..Len(logged'), NEW k \in 0..Len(logged'[i]),
                      read <= more[i] + k, more[i] + k < LogEnd(start)
               PROVE  buffer[(more[i] + k) % Capacity] = CharsOf(logged'[i])[k + 1]
    BY <1>3, <1>8a DEF RingHolds
  <2>1. CASE i <= Len(logged)
    <3>1. i \in 1..Len(logged) /\ i \in 1..(Len(logged) + 1)
      BY <1>5, <1>6, <2>1
    <3>2. logged'[i] = logged[i] /\ more[i] = start[i]
      BY <1>5, <3>1
    <3>3. RingHolds(start, read)
      BY <1>1 DEF LogAt
    <3>4. start[i] + k < WriteAt(start) + (IF loaded = Capacity THEN 0 ELSE 1)
      BY <1>4, <1>6, <3>2
    <3> QED BY <3>1, <3>2, <3>3, <3>4 DEF RingHolds
  <2>2. CASE i = Len(logged) + 1
    <3>1. more[i] = LogEnd(start) /\ logged'[i] = text
      BY <1>5, <1>6, <2>2 DEF LogEnd
    <3>2. k \in Nat
      BY <1>6, <3>1
    <3> QED BY <1>6, <3>1, <3>2
  <2>3. i <= Len(logged) \/ i = Len(logged) + 1
    BY <1>5, <1>6
  <2> QED BY <2>1, <2>2, <2>3
<1>10. LogTypes'
  <2>1. LogTypes
    BY DEF LogInv
  <2>2. copying' \in Seq(Chars \cup {Nul})
    BY <1>3, CharsAt
  <2> QED BY <1>3, <1>4, <1>5, <2>1, <2>2 DEF LogTypes
<1>11. CopyingLast'
  <2> DEFINE n == Len(text)
  <2>1. logged' # <<>> /\ logged'[Len(logged')] = text /\ Len(copying') = n + 1
    BY <1>3, <1>5, <1>6, CharsAt
  <2>2. \A k \in 1..(n + 1) : n + 1 - (n + 1) + k = k
    BY <1>6
  <2> HIDE DEF n
  <2>3. \A k \in 1..(n + 1) : copying'[k] = CharsOf(text)[n + 1 - (n + 1) + k]
    BY <1>3, <2>2
  <2>4. n + 1 <= n + 1
    BY <1>6 DEF n
  <2> QED BY <2>1, <2>3, <2>4 DEF CopyingLast, n
<1>12. LogAt(more, read)'
  BY <1>1, <1>3, <1>4, <1>7, <1>8, <1>9 DEF LogAt
<1> QED BY <1>4, <1>10, <1>11, <1>12 DEF LogInv

\* The place that the event loop writes next is that of the next character to copy.
LEMMA NextToCopy ==
  ASSUME LogInv, NEW start, NEW read, LogAt(start, read), copying # <<>>,
         NEW i \in 1..Len(logged), NEW k \in 0..Len(logged[i]), start[i] + k = WriteAt(start)
  PROVE  Head(copying) = CharsOf(logged[i])[k + 1]
<1> DEFINE n == Len(logged)
           c == Len(copying)
<1>1. /\ n \in Nat /\ c \in Nat /\ LogEnd(start) \in Nat /\ WriteAt(start) = LogEnd(start) - c
      /\ LogEnd(start) = start[n + 1]
      /\ \A j \in 1..(n + 1) : start[j] \in Nat
      /\ \A j \in 1..n : Len(logged[j]) \in Nat /\ start[j + 1] = start[j] + Len(logged[j]) + 1
      /\ \A h, j \in 1..(n + 1) : h <= j => start[h] <= start[j]
  BY LogNumbers DEF WriteAt, LogEnd
<1>2. c > 0 /\ Head(copying) = copying[1]
  BY DEF LogInv, LogTypes
<1>3. n > 0 /\ c <= Len(logged[n]) + 1 /\ copying[1] = CharsOf(logged[n])[Len(logged[n]) + 1 - c + 1]
  BY <1>1, <1>2 DEF LogInv, CopyingLast
<1> HIDE DEF n, c
<1>4. /\ start[n + 1] = start[n] + Len(logged[n]) + 1 /\ Len(logged[n]) \in Nat /\ start[n] \in Nat
  BY <1>1, <1>3
<1>5. ASSUME i < n PROVE FALSE
  <2>1. i \in 1..n /\ i + 1 \in 1..(n + 1) /\ n \in 1..(n + 1) /\ i + 1 <= n
    BY <1>1, <1>3, <1>5 DEF n
  <2>2. start[i + 1] = start[i] + Len(logged[i]) + 1 /\ start[i + 1] <= start[n]
        /\ Len(logged[i]) \in Nat /\ start[i] \in Nat
    BY <1>1, <2>1
  <2>3. start[i] + k < start[n] /\ k \in Nat
    BY <1>4, <2>2
  <2> QED BY <1>1, <1>3, <1>4, <2>3
<1>6. i = n
  BY <1>1, <1>5 DEF n
<1>7. k = Len(logged[n]) + 1 - c
  BY <1>1, <1>4, <1>6
<1> QED BY <1>2, <1>3, <1>6, <1>7

LEMMA CopyKeeps ==
  ASSUME LogInv, CopyChar PROVE LogInv'
<1>1. PICK start, read : LogAt(start, read)
  BY DEF LogInv
<1>2. /\ copying # <<>> /\ loaded = Capacity /\ loaded' = wrpos
      /\ buffer' = [buffer EXCEPT ![wrpos] = Head(copying)]
      /\ UNCHANGED <<wrpos, rdpos, copying, draining, line, logged, printed>>
  BY DEF CopyChar
<1>3. LogTypes /\ Laid(start) /\ ReadWithin(start, read) /\ RingHolds(start, read)
      /\ wrpos = WriteAt(start) % Capacity
  BY <1>1 DEF LogInv, LogAt
<1>4. Laid(start)' /\ ReadWithin(start, read)' /\ WriteAt(start)' = WriteAt(start)
  BY <1>2, <1>3 DEF Laid, ReadWithin, WriteAt, LogEnd
<1>5. /\ Capacity \in Nat \ {0} /\ WriteAt(start) \in Nat /\ read \in Nat
      /\ WriteAt(start) <= LogEnd(start) /\ LogEnd(start) \in Nat /\ LogEnd(start) - read < Capacity
      /\ \A i \in 1..Len(logged) : start[i] \in Nat /\ Len(logged[i]) \in Nat
  BY <1>1, LogNumbers
<1>6. wrpos \in 0..(Capacity - 1) /\ DOMAIN buffer = 0..(Capacity - 1) /\ loaded' # Capacity
  BY <1>2, <1>3, <1>5 DEF LogTypes
<1>7. RingHolds(start, read)'
  <2> SUFFICES ASSUME NEW i \in 1..Len(logged), NEW k \in 0..Len(logged[i]),
                      read <= start[i] + k, start[i] + k < WriteAt(start) + 1
               PROVE  buffer'[(start[i] + k) % Capacity] = CharsOf(logged[i])[k + 1]
    BY <1>2, <1>4, <1>6 DEF RingHolds
  <2> DEFINE a == start[i] + k
             w == WriteAt(start)
  <2>1. a \in Nat /\ w \in Nat /\ read \in Nat
    BY <1>5
  <2>2. read <= a /\ a < w + 1 /\ w - read < Capacity
    BY <1>5
  <2>3. CASE a < w
    <3> HIDE DEF a, w
    <3>1. w - a < Capacity
      BY <1>5, <2>1, <2>2
    <3>2. a % Capacity # w % Capacity
      BY <1>5, <2>1, <2>3, <3>1, PlacesDiffer
    <3>3. a % Capacity # wrpos
      BY <1>3, <3>2 DEF w
    <3>4. buffer'[a % Capacity] = buffer[a % Capacity]
      BY <1>2, <1>5, <1>6, <2>1, <3>3
    <3>5. a < WriteAt(start) + (IF loaded = Capacity THEN 0 ELSE 1)
      BY <1>2, <2>1, <2>3 DEF w
    <3>6. buffer[a % Capacity] = CharsOf(logged[i])[k + 1]
      BY <1>3, <2>2, <3>5 DEF a, RingHolds
    <3> QED BY <3>4, <3>6 DEF a
  <2>4. CASE a = w
    <3>1. Head(copying) = CharsOf(logged[i])[k + 1]
      BY <1>1, <1>2, <2>4, NextToCopy
    <3>2. a % Capacity = wrpos
      BY <1>3, <2>4
    <3> HIDE DEF a, w
    <3>3. buffer'[a % Capacity] = Head(copying)
      BY <1>2, <1>6, <3>2
    <3> QED BY <3>1, <3>3 DEF a
  <2> QED BY <2>1, <2>2, <2>3, <2>4
<1>8. LogTypes'
  <2>1. buffer' = [p \in 0..(Capacity - 1) |-> buffer'[p]]
    BY <1>2, <1>6
  <2> QED BY <1>2, <1>3, <2>1 DEF LogTypes
<1>9. CopyingLast' /\ Len(printed') <= Len(logged')
      /\ \A i \in 1..Len(printed') : printed'[i] = logged'[i]
  BY <1>2 DEF LogInv, CopyingLast
<1>10. LogAt(start, read)'
  BY <1>1, <1>2, <1>4, <1>7 DEF LogAt
<1> QED BY <1>8, <1>9, <1>10 DEF LogInv

LEMMA MoveKeeps ==
  ASSUME LogInv, MoveOn PROVE LogInv'
<1>1. PICK start, read : LogAt(start, read)
  BY DEF LogInv
<1>2. /\ loaded # Capacity /\ wrpos' = (loaded + 1) % Capacity
      /\ copying' = Tail(copying) /\ loaded' = Capacity
      /\ UNCHANGED <<buffer, rdpos, draining, line, logged, printed>>
  BY DEF MoveOn
<1>3. LogTypes /\ Laid(start) /\ ReadWithin(start, read) /\ RingHolds(start, read)
      /\ wrpos = WriteAt(start) % Capacity
  BY <1>1 DEF LogInv, LogAt
<1>4. loaded = wrpos /\ copying # <<>> /\ copying \in Seq(Chars \cup {Nul}) /\ ~draining
  BY <1>2, <1>3 DEF LogTypes
<1>5. /\ Len(copying') = Len(copying) - 1 /\ copying' \in Seq(Chars \cup {Nul})
      /\ \A k \in 1..Len(copying') : copying'[k] = copying[k + 1]
      /\ Len(copying) \in Nat \ {0}
  BY <1>2, <1>4
<1>6. /\ Capacity \in Nat \ {0} /\ WriteAt(start) \in Nat /\ read \in Nat /\ LogEnd(start) \in Nat
      /\ Len(logged) \in Nat /\ \A i \in 1..Len(logged) : Len(logged[i]) \in Nat
  BY <1>1, LogNumbers
<1>7. WriteAt(start)' = WriteAt(start) + 1
  BY <1>2, <1>5, <1>6 DEF WriteAt, LogEnd
<1>8. Laid(start)'
  BY <1>2, <1>3 DEF Laid, LogEnd
<1>9. ReadWithin(start, read)'
  <2>1. read <= WriteAt(start)'
    BY <1>3, <1>6, <1>7 DEF ReadWithin
  <2> QED BY <1>2, <1>3, <1>4, <2>1 DEF ReadWithin, LogEnd
<1>10. RingHolds(start, read)'
  <2>1. WriteAt(start)' + (IF loaded' = Capacity THEN 0 ELSE 1)
          = WriteAt(start) + (IF loaded = Capacity THEN 0 ELSE 1)
    BY <1>2, <1>6, <1>7
  <2> QED BY <1>2, <1>3, <2>1 DEF RingHolds
<1>11. wrpos' = WriteAt(start)' % Capacity
  <2> DEFINE w == WriteAt(start)
  <2>1. w \in Nat
    BY <1>6
  <2>2. wrpos' = ((w % Capacity) + 1) % Capacity
    BY <1>2, <1>3, <1>4
  <2> HIDE DEF w
  <2>3. ((w % Capacity) + 1) % Capacity = (w + 1) % Capacity
    BY <1>6, <2>1, RemainderAdd
  <2> QED BY <1>7, <2>2, <2>3 DEF w
<1>12. wrpos' \in 0..(Capacity - 1)
  BY <1>6, <1>7, <1>11
<1>13. LogTypes'
  BY <1>2, <1>3, <1>4, <1>5, <1>12 DEF LogTypes
<1>14. CopyingLast'
  <2> SUFFICES ASSUME copying' # <<>>
               PROVE  /\ logged # <<>> /\ Len(copying') <= Len(logged[Len(logged)]) + 1
                      /\ \A k \in 1..Len(copying') :
                           copying'[k] = CharsOf(logged[Len(logged)])
                                           [Len(logged[Len(logged)]) + 1 - Len(copying') + k]
    BY <1>2 DEF CopyingLast
  <2> DEFINE n == Len(logged[Len(logged)])
             last == CharsOf(logged[Len(logged)])
             c == Len(copying)
  <2>1. /\ logged # <<>> /\ c <= n + 1
        /\ \A k \in 1..c : copying[k] = last[n + 1 - c + k]
    BY <1>4 DEF LogInv, CopyingLast
  <2>2. n \in Nat /\ c \in Nat \ {0} /\ Len(copying') = c - 1
    <3>1. Len(logged) \in 1..Len(logged)
      BY <1>3, <1>6, <2>1 DEF LogTypes
    <3> QED BY <1>5, <1>6, <3>1
  <2> HIDE DEF n, last, c
  <2>3. ASSUME NEW k \in 1..(c - 1) PROVE copying'[k] = last[n + 1 - (c - 1) + k]
    <3>1. copying'[k] = copying[k + 1] /\ k + 1 \in 1..c
      BY <1>5, <2>2
    <3>2. n + 1 - c + (k + 1) = n + 1 - (c - 1) + k
      BY <2>2
    <3> QED BY <2>1, <3>1, <3>2
  <2>4. c - 1 <= n + 1
    BY <2>1, <2>2
  <2> QED BY <2>1, <2>2, <2>3, <2>4 DEF n, last
<1>15. Len(printed') <= Len(logged') /\ \A i \in 1..Len(printed') : printed'[i] = logged'[i]
  BY <1>2 DEF LogInv
<1>16. LogAt(start, read)'
  BY <1>1, <1>2, <1>8, <1>9, <1>10, <1>11 DEF LogAt
<1> QED BY <1>13, <1>14, <1>15, <1>16 DEF LogInv

LEMMA StartKeeps ==
  ASSUME LogInv, StartOutput PROVE LogInv'
<1>1. PICK start, read : LogAt(start, read)
  BY DEF LogInv
<1>2. /\ copying = <<>> /\ ~draining /\ draining' = TRUE /\ line' = <<>>
      /\ UNCHANGED <<buffer, wrpos, rdpos, copying, loaded, logged, printed>>
  BY DEF StartOutput
<1>3. LogTypes /\ Laid(start) /\ ReadWithin(start, read) /\ RingHolds(start, read)
  BY <1>1 DEF LogInv, LogAt
<1>4. Laid(start)' /\ RingHolds(start, read)' /\ WriteAt(start)' = WriteAt(start)
      /\ LogEnd(start)' = LogEnd(start)
  BY <1>2, <1>3 DEF Laid, RingHolds, WriteAt, LogEnd
<1>5. ReadWithin(start, read)'
  <2>1. read = start[Len(printed) + 1] /\ read \in Nat
    BY <1>2, <1>3 DEF ReadWithin
  <2>2. Len(line') = 0 /\ start[Len(printed) + 1] + Len(line') = read
    BY <1>2, <2>1
  <2>3. \A k \in 1..Len(line') : FALSE
    BY <2>2
  <2> QED BY <1>2, <1>3, <1>4, <2>2, <2>3 DEF ReadWithin
<1>6. LogTypes'
  BY <1>2, <1>3 DEF LogTypes
<1>7. CopyingLast' /\ Len(printed') <= Len(logged')
      /\ \A i \in 1..Len(printed') : printed'[i] = logged'[i]
  BY <1>2 DEF LogInv, CopyingLast
<1>8. LogAt(start, read)'
  BY <1>1, <1>2, <1>4, <1>5 DEF LogAt
<1> QED BY <1>6, <1>7, <1>8 DEF LogInv

LEMMA EndKeeps ==
  ASSUME LogInv, EndOutput PROVE LogInv'
<1>1. PICK start, read : LogAt(start, read)
  BY DEF LogInv
<1>2. /\ draining /\ rdpos = wrpos /\ draining' = FALSE
      /\ UNCHANGED <<buffer, wrpos, rdpos, copying, loaded, line, logged, printed>>
  BY DEF EndOutput
<1>3. LogTypes /\ Laid(start) /\ ReadWithin(start, read) /\ RingHolds(start, read)
  BY <1>1 DEF LogInv, LogAt
<1>4. Laid(start)' /\ RingHolds(start, read)' /\ WriteAt(start)' = WriteAt(start)
      /\ LogEnd(start)' = LogEnd(start)
  BY <1>2, <1>3 DEF Laid, RingHolds, WriteAt, LogEnd
<1>5. ReadWithin(start, read)'
  <2>1. copying = <<>>
    BY <1>2, <1>3 DEF LogTypes
  <2>2. read = WriteAt(start)
    BY <1>1, <1>2, AllRead
  <2>3. WriteAt(start) = LogEnd(start)
    BY <1>1, <2>1, LogNumbers DEF WriteAt
  <2>4. read = LogEnd(start)
    BY <2>2, <2>3
  <2>5. Len(printed) = Len(logged)
    BY <1>1, <2>4, AllRead
  <2>6. read = start[Len(printed) + 1]
    BY <2>4, <2>5 DEF LogEnd
  <2> QED BY <1>2, <1>3, <1>4, <2>6 DEF ReadWithin
<1>6. LogTypes'
  BY <1>2, <1>3 DEF LogTypes
<1>7. CopyingLast' /\ Len(printed') <= Len(logged')
      /\ \A i \in 1..Len(printed') : printed'[i] = logged'[i]
  BY <1>2 DEF LogInv, CopyingLast
<1>8. LogAt(start, read)'
  BY <1>1, <1>2, <1>4, <1>5 DEF LogAt
<1> QED BY <1>6, <1>7, <1>8 DEF LogInv

\* The character that is taken is the next one of the first line that is not printed.
LEMMA NextToTake ==
  ASSUME LogInv, NEW start, NEW read, LogAt(start, read), draining, rdpos # wrpos
  PROVE  /\ Len(printed) < Len(logged) /\ Len(line) <= Len(logged[Len(printed) + 1])
         /\ read = start[Len(printed) + 1] + Len(line) /\ read < WriteAt(start)
         /\ buffer[rdpos] = CharsOf(logged[Len(printed) + 1])[Len(line) + 1]
<1> DEFINE p == Len(printed) + 1
           k == Len(line)
<1>1. /\ ReadWithin(start, read) /\ RingHolds(start, read) /\ rdpos = read % Capacity
      /\ copying = <<>> /\ loaded = Capacity
  BY DEF LogAt, LogInv, LogTypes
<1>2. read # WriteAt(start) /\ read <= WriteAt(start) /\ read \in Nat /\ WriteAt(start) \in Nat
      /\ Len(printed) \in Nat /\ Len(logged) \in Nat /\ k \in Nat /\ Len(printed) <= Len(logged)
      /\ WriteAt(start) <= LogEnd(start) /\ LogEnd(start) \in Nat
  BY AllRead, LogNumbers
<1>3. read < WriteAt(start)
  BY <1>2
<1>4. read = start[p] + k /\ (line # <<>> => p - 1 < Len(logged) /\ k <= Len(logged[p]))
  BY <1>1, <1>2 DEF ReadWithin
<1>5. Len(printed) < Len(logged)
  <2>1. CASE line # <<>>
    BY <1>2, <1>4, <2>1
  <2>2. CASE line = <<>> /\ Len(printed) = Len(logged)
    <3>1. k = 0 /\ read = LogEnd(start)
      BY <1>2, <1>4, <2>2 DEF LogEnd
    <3> QED BY <1>2, <1>3, <3>1
  <2> QED BY <1>2, <2>1, <2>2
<1>6. p \in 1..Len(logged)
  BY <1>2, <1>5
<1>7. Len(logged[p]) \in Nat /\ k <= Len(logged[p])
  <2>1. Len(logged[p]) \in Nat
    BY <1>6, LogNumbers
  <2>2. line = <<>> => k = 0
    OBVIOUS
  <2> QED BY <1>4, <2>1, <2>2
<1> HIDE DEF p, k
<1>8. k \in 0..Len(logged[p])
  BY <1>2, <1>7
<1>9. start[p] + k < WriteAt(start) + (IF loaded = Capacity THEN 0 ELSE 1) /\ read <= start[p] + k
  BY <1>1, <1>2, <1>3, <1>4
<1>10. buffer[(start[p] + k) % Capacity] = CharsOf(logged[p])[k + 1]
  BY <1>1, <1>6, <1>8, <1>9 DEF RingHolds
<1> QED BY <1>1, <1>3, <1>4, <1>5, <1>7, <1>10 DEF p, k

LEMMA TakeKeeps ==
  ASSUME LogInv, TakeChar PROVE LogInv'
<1>1. PICK start, read : LogAt(start, read)
  BY DEF LogInv
<1>2. /\ draining /\ rdpos # wrpos /\ rdpos' = (rdpos + 1) % Capacity
      /\ UNCHANGED <<buffer, wrpos, copying, loaded, draining, logged>>
  BY DEF TakeChar
<1>3. LogTypes /\ Laid(start) /\ ReadWithin(start, read) /\ RingHolds(start, read)
  BY <1>1 DEF LogInv, LogAt
<1> DEFINE p == Len(printed) + 1
           k == Len(line)
           text == logged[p]
<1>4. /\ Len(printed) < Len(logged) /\ k <= Len(text)
      /\ read = start[p] + k /\ read < WriteAt(start)
      /\ buffer[rdpos] = CharsOf(text)[k + 1]
  BY <1>1, <1>2, NextToTake
<1>5. /\ Len(printed) \in Nat /\ Len(logged) \in Nat /\ k \in Nat /\ read \in Nat
      /\ WriteAt(start) \in Nat /\ Capacity \in Nat \ {0} /\ LogEnd(start) \in Nat
      /\ LogEnd(start) - read < Capacity
  BY <1>1, LogNumbers
<1>6. p \in 1..Len(logged)
  BY <1>4, <1>5
<1>7. start[p + 1] = start[p] + Len(text) + 1 /\ start[p] \in Nat /\ Len(text) \in Nat
      /\ text \in LogLines
  <2>1. p \in 1..(Len(logged) + 1)
    BY <1>5, <1>6
  <2> QED BY <1>1, <1>6, <2>1, LogNumbers
<1>8. Laid(start)' /\ WriteAt(start)' = WriteAt(start) /\ LogEnd(start)' = LogEnd(start)
  BY <1>2, <1>3 DEF Laid, WriteAt, LogEnd
<1>9. RingHolds(start, read + 1)'
  <2> SUFFICES ASSUME NEW i \in 1..Len(logged), NEW h \in 0..Len(logged[i]),
                      read + 1 <= start[i] + h,
                      start[i] + h < WriteAt(start) + (IF loaded = Capacity THEN 0 ELSE 1)
               PROVE  buffer[(start[i] + h) % Capacity] = CharsOf(logged[i])[h + 1]
    BY <1>2, <1>8 DEF RingHolds
  <2>1. start[i] \in Nat /\ h \in Nat
    <3>1. i \in 1..(Len(logged) + 1) /\ Len(logged[i]) \in Nat
      BY <1>1, <1>5, LogNumbers
    <3> QED BY <1>1, <3>1, LogNumbers
  <2>2. read <= start[i] + h
    BY <1>5, <2>1
  <2> QED BY <1>3, <2>2 DEF RingHolds
<1>10. rdpos' = (read + 1) % Capacity
  <2>1. rdpos = read % Capacity
    BY <1>1 DEF LogAt
  <2>2. ((read % Capacity) + 1) % Capacity = (read + 1) % Capacity
    BY <1>5, RemainderAdd
  <2> QED BY <1>2, <2>1, <2>2
<1>11. rdpos' \in 0..(Capacity - 1)
  BY <1>5, <1>10
<1>12. /\ \A j \in 1..Len(text) : CharsOf(text)[j] = text[j] /\ text[j] # Nul /\ text[j] \in Chars
       /\ CharsOf(text)[Len(text) + 1] = Nul
  BY <1>7, CharsAt
<1>13. /\ line \in Seq(Chars) /\ printed \in Seq(LogLines) /\ logged \in Seq(LogLines)
       /\ \A j \in 1..k : line[j] = text[j]
       /\ \A i \in 1..Len(printed) : printed[i] = logged[i]
  BY <1>2, <1>3 DEF LogTypes, ReadWithin, LogInv
<1> HIDE DEF p, k, text
<1>14. CASE k = Len(text)
  <2>1. buffer[rdpos] = Nul
    BY <1>4, <1>12, <1>14
  <2>2. printed' = Append(printed, line) /\ line' = <<>>
    BY <2>1 DEF TakeChar
  <2>3. line = text
    <3>1. text \in Seq(Chars)
      BY <1>7, LogConstants
    <3>2. Len(line) = Len(text) /\ \A j \in 1..Len(line) : line[j] = text[j]
      BY <1>13, <1>14 DEF k
    <3> QED BY <1>13, <3>1, <3>2
  <2>4. Len(printed') = p /\ printed' \in Seq(LogLines)
        /\ \A i \in 1..p : printed'[i] = logged[i]
    <3>1. printed' = Append(printed, text) /\ text \in LogLines
      BY <1>7, <2>2, <2>3
    <3>2. Len(printed') = Len(printed) + 1 /\ printed' \in Seq(LogLines)
          /\ printed'[Len(printed) + 1] = text
          /\ \A i \in 1..Len(printed) : printed'[i] = printed[i]
      BY <1>13, <3>1
    <3>3. \A i \in 1..p : i \in 1..Len(printed) \/ i = p
      BY <1>5 DEF p
    <3>4. printed'[p] = logged[p] /\ Len(printed') = p
      BY <3>2 DEF p, text
    <3>5. \A i \in 1..Len(printed) : printed'[i] = logged[i]
      BY <1>13, <3>2
    <3> QED BY <3>2, <3>3, <3>4, <3>5
  <2>5. read + 1 = start[p + 1]
    BY <1>4, <1>5, <1>7, <1>14
  <2>6. ReadWithin(start, read + 1)'
    <3>1. read + 1 \in Nat /\ read + 1 <= WriteAt(start) /\ LogEnd(start) - (read + 1) < Capacity
      BY <1>4, <1>5
    <3>2. Len(line') = 0 /\ start[Len(printed') + 1] + Len(line') = read + 1
      BY <1>5, <2>2, <2>4, <2>5
    <3>3. \A j \in 1..Len(line') : FALSE
      BY <3>2
    <3> QED BY <1>2, <1>8, <2>2, <3>1, <3>2, <3>3 DEF ReadWithin
  <2>7. LogTypes'
    BY <1>2, <1>3, <1>11, <2>2, <2>4 DEF LogTypes
  <2>8. Len(printed') <= Len(logged') /\ \A i \in 1..Len(printed') : printed'[i] = logged'[i]
    BY <1>2, <1>6, <2>4
  <2>9. CopyingLast'
    BY <1>2 DEF LogInv, CopyingLast
  <2>10. LogAt(start, read + 1)'
    BY <1>1, <1>2, <1>8, <1>9, <1>10, <2>6 DEF LogAt
  <2> QED BY <2>7, <2>8, <2>9, <2>10 DEF LogInv
<1>15. CASE k < Len(text)
  <2>1. k + 1 \in 1..Len(text) /\ k + 1 <= Len(text)
    BY <1>5, <1>7, <1>15 DEF k
  <2>2. buffer[rdpos] = text[k + 1] /\ buffer[rdpos] # Nul /\ text[k + 1] \in Chars
    BY <1>4, <1>12, <2>1
  <2>3. line' = Append(line, text[k + 1]) /\ UNCHANGED printed
    BY <2>2 DEF TakeChar
  <2>4. Len(line') = k + 1 /\ line' \in Seq(Chars) /\ \A j \in 1..(k + 1) : line'[j] = text[j]
    BY <1>13, <2>2, <2>3 DEF k
  <2>5. ReadWithin(start, read + 1)'
    <3>1. read + 1 \in Nat /\ read + 1 <= WriteAt(start) /\ LogEnd(start) - (read + 1) < Capacity
      BY <1>4, <1>5
    <3>2. read + 1 = start[p] + (k + 1)
      BY <1>4, <1>5, <1>7 DEF k
    <3> QED BY <1>2, <1>4, <1>8, <2>1, <2>3, <2>4, <3>1, <3>2 DEF ReadWithin, p, text
  <2>6. LogTypes'
    BY <1>2, <1>3, <1>11, <2>3, <2>4 DEF LogTypes
  <2>7. CopyingLast' /\ Len(printed') <= Len(logged')
        /\ \A i \in 1..Len(printed') : printed'[i] = logged'[i]
    BY <1>2, <2>3 DEF LogInv, CopyingLast
  <2>8. LogAt(start, read + 1)'
    BY <1>1, <1>2, <1>8, <1>9, <1>10, <2>5 DEF LogAt
  <2> QED BY <2>6, <2>7, <2>8 DEF LogInv
<1>16. k < Len(text) \/ k = Len(text)
  BY <1>4, <1>5, <1>7 DEF k
<1> QED BY <1>14, <1>15, <1>16

LEMMA LogKeeps ==
  ASSUME LogInv, [LogNext]_lvars, LogMishaps = {} PROVE LogInv'
<1>1. CASE LogNext
  <2>1. ASSUME NEW text \in LogLines, LogAtInterrupt(text) \/ LogInMainLoop(text) PROVE LogInv'
    BY <2>1, InterruptKeeps, MainLoopKeeps
  <2> QED BY <1>1, <2>1, CopyKeeps, MoveKeeps, StartKeeps, TakeKeeps, EndKeeps DEF LogNext
<1>2. CASE UNCHANGED lvars
  <2>1. PICK start, read : LogAt(start, read)
    BY DEF LogInv
  <2>2. UNCHANGED <<buffer, wrpos, rdpos, copying, loaded, draining, line, logged, printed>>
    BY <1>2 DEF lvars
  <2>3. LogAt(start, read)'
    BY <2>1, <2>2 DEF LogAt, Laid, ReadWithin, RingHolds, WriteAt, LogEnd
  <2>4. LogTypes' /\ CopyingLast'
    BY <2>2 DEF LogInv, LogTypes, CopyingLast
  <2>5. Len(printed') <= Len(logged') /\ \A i \in 1..Len(printed') : printed'[i] = logged'[i]
    BY <2>2 DEF LogInv
  <2> QED BY <2>3, <2>4, <2>5 DEF LogInv
<1> QED BY <1>1, <1>2

\* What is logged comes out line by line, whole and in its order, however the interrupts and
\* the output take turns, for rings of any size, when there is room for the lines and no
\* interrupt logs into a line that the event loop copies.
THEOREM LogComesOut == ASSUME LogMishaps = {} PROVE LogSpec => []LinesInOrder
<1>1. LogInv /\ [LogNext]_lvars => LogInv'
  BY LogKeeps
<1> QED BY <1>1, LogBegins, LogInOrder, PTL DEF LogSpec

----------------------------------------------------------------------------
(* The files of a TightVNC client: sums of lengths.                          *)

\* A set of natural numbers has a least one: what an induction would be used for.
LEMMA LeastOf ==
  ASSUME NEW B \in SUBSET Nat, B # {}
  PROVE  \E n \in B : \A k \in B : n <= k
<1>1. PICK n \in B : \A k \in B : ~(<<k, n>> \in OpToRel(<, Nat))
  BY NatLessThanWellFounded, WFMin, Zenon
<1>2. \A k \in B : ~(k < n)
  BY <1>1 DEF OpToRel
<1> QED BY <1>2

\* What FoldLeft defines for the places of a sequence: the sum at a set of places is the
\* sum at the set without its last, and the element there.
SumsAt(h, q, n) ==
  h = [s \in SUBSET (1..n) |-> IF s = {} THEN 0 ELSE h[s \ {Max(s)}] + q[Max(s)]]

LEMMA SumsAtIs ==
  ASSUME NEW h, NEW q, NEW n, SumsAt(h, q, n), NEW s \in SUBSET (1..n)
  PROVE  h[s] = IF s = {} THEN 0 ELSE h[s \ {Max(s)}] + q[Max(s)]
BY DEF SumsAt

\* What Max finds is the largest, where there is one.
LEMMA LargestIs ==
  ASSUME NEW T \in SUBSET Int, NEW m \in T, \A e \in T : e <= m
  PROVE  Max(T) = m
<1>1. \E x \in T : \A y \in T : x >= y
  OBVIOUS
<1>2. Max(T) \in T /\ \A y \in T : Max(T) >= y
  BY <1>1 DEF Max
<1>3. Max(T) <= m /\ Max(T) >= m /\ Max(T) \in Int /\ m \in Int
  BY <1>2
<1> QED BY <1>3

\* Such a function exists for every sequence: with one place more it is the one before, and
\* the last element added.
LEMMA SumsAtExist == \A q : \A n \in Nat : \E h : SumsAt(h, q, n)
<1> SUFFICES ASSUME NEW q PROVE \A n \in Nat : \E h : SumsAt(h, q, n)
  OBVIOUS
<1> DEFINE B == {n \in Nat : ~ \E h : SumsAt(h, q, n)}
<1> SUFFICES ASSUME B # {} PROVE FALSE
  OBVIOUS
<1>1. PICK n \in B : \A k \in B : n <= k
  <2>1. B \in SUBSET Nat
    OBVIOUS
  <2> HIDE DEF B
  <2> QED BY <2>1, LeastOf
<1>2. n \in Nat /\ ~ \E h : SumsAt(h, q, n)
  OBVIOUS
<1>3. CASE n = 0
  <2>1. 1..0 = {}
    OBVIOUS
  <2>2. SumsAt([s \in SUBSET (1..0) |-> 0], q, 0)
    <3> DEFINE sum == [s \in SUBSET (1..0) |-> 0]
    <3>1. \A s \in SUBSET (1..0) : s = {}
      BY <2>1
    <3>2. sum = [s \in SUBSET (1..0) |-> IF s = {} THEN 0 ELSE sum[s \ {Max(s)}] + q[Max(s)]]
      BY <3>1
    <3> QED BY <3>2 DEF SumsAt
  <2> QED BY <1>2, <1>3, <2>2
<1>4. CASE n # 0
  <2>1. n - 1 \in Nat /\ n - 1 \notin B
    BY <1>1, <1>2, <1>4
  <2>2. PICK h : SumsAt(h, q, n - 1)
    BY <2>1
  <2> DEFINE sum == [s \in SUBSET (1..n) |-> IF n \in s THEN h[s \ {n}] + q[n] ELSE h[s]]
  <2>3. ASSUME NEW s \in SUBSET (1..n)
        PROVE  sum[s] = IF s = {} THEN 0 ELSE sum[s \ {Max(s)}] + q[Max(s)]
    <3>1. CASE n \in s
      <4>1. Max(s) = n
        <5>1. s \in SUBSET Int /\ \A e \in s : e <= n
          BY <1>2
        <5> QED BY <3>1, <5>1, LargestIs
      <4>2. s \ {n} \in SUBSET (1..n) /\ n \notin s \ {n}
        OBVIOUS
      <4>3. sum[s \ {n}] = h[s \ {n}]
        BY <4>2
      <4>4. sum[s] = h[s \ {n}] + q[n]
        BY <3>1
      <4>5. s # {}
        BY <3>1
      <4> HIDE DEF sum
      <4> QED BY <4>1, <4>3, <4>4, <4>5
    <3>2. CASE n \notin s
      <4> DEFINE m == n - 1
      <4>1. s \in SUBSET (1..m)
        BY <3>2, <1>2
      <4>2. h[s] = IF s = {} THEN 0 ELSE h[s \ {Max(s)}] + q[Max(s)]
        <5>1. SumsAt(h, q, m)
          BY <2>2
        <5> HIDE DEF m, sum
        <5> QED BY <4>1, <5>1 DEF SumsAt
      <4>3. sum[s] = h[s] /\ sum[s \ {Max(s)}] = h[s \ {Max(s)}]
        BY <3>2
      <4> HIDE DEF sum
      <4> QED BY <4>2, <4>3
    <3> QED BY <3>1, <3>2
  <2>4. SumsAt(sum, q, n)
    <3>1. sum = [s \in SUBSET (1..n) |-> sum[s]]
      OBVIOUS
    <3> HIDE DEF sum
    <3> QED BY <2>3, <3>1 DEF SumsAt
  <2> QED BY <1>2, <2>4
<1> QED BY <1>3, <1>4

\* The sums of what a sequence begins with.
Running(p, q) == p[0] = 0 /\ \A i \in 1..Len(q) : p[i] = p[i - 1] + q[i]

\* SumOf is the last of the running sums.
LEMMA SumOfRunning ==
  ASSUME NEW q, Len(q) \in Nat, DOMAIN q = 1..Len(q)
  PROVE  \E p : Running(p, q) /\ SumOf(q) = p[Len(q)]
<1> DEFINE n == Len(q)
           h == CHOOSE sum : SumsAt(sum, q, n)
           p == [i \in 0..n |-> h[1..i]]
<1>1. SumsAt(h, q, n)
  BY SumsAtExist
<1>2. SumOf(q) = h[1..n]
  BY DEF SumOf, FoldLeft, MapThenFoldSet, SumsAt
<1> HIDE DEF h
<1>3. h[1..0] = 0
  <2>1. 1..0 = {} /\ {} \in SUBSET (1..n)
    OBVIOUS
  <2> QED BY <1>1, <2>1, SumsAtIs
<1>4. ASSUME NEW i \in 1..n PROVE h[1..i] = h[1..(i - 1)] + q[i]
  <2> DEFINE t == 1..i
  <2>1. t \in SUBSET (1..n) /\ i \in t /\ t \ {i} = 1..(i - 1)
    OBVIOUS
  <2>2. Max(t) = i
    <3>1. t \in SUBSET Int /\ \A e \in t : e <= i
      OBVIOUS
    <3> HIDE DEF t
    <3> QED BY <2>1, <3>1, LargestIs
  <2>3. h[t] = h[t \ {i}] + q[i]
    <3>1. h[t] = IF t = {} THEN 0 ELSE h[t \ {Max(t)}] + q[Max(t)]
      <4> HIDE DEF t, n
      <4> QED BY <1>1, <2>1 DEF SumsAt
    <3> HIDE DEF t
    <3> QED BY <2>1, <2>2, <3>1
  <2> QED BY <2>1, <2>3
<1>5. p[0] = 0 /\ p[n] = h[1..n] /\ \A i \in 1..n : p[i] = h[1..i] /\ p[i - 1] = h[1..(i - 1)]
  BY <1>3
<1> HIDE DEF p
<1>6. Running(p, q)
  BY <1>4, <1>5 DEF Running
<1> QED BY <1>2, <1>5, <1>6

Requests == DOMAIN FileRequests
Chunk(i) == FileRequests[i].chunk
Asks(i)  == FileRequests[i].ask

\* The running sums of what begins in the same way are the same.
LEMMA RunningSame ==
  ASSUME NEW p, NEW q, NEW r, NEW s, Running(p, q), Running(r, s),
         Len(q) \in Nat, Len(s) \in Nat, Len(s) <= Len(q), \A i \in 1..Len(s) : s[i] = q[i]
  PROVE  \A i \in 0..Len(s) : r[i] = p[i]
<1> DEFINE B == {i \in 0..Len(s) : r[i] # p[i]}
<1> SUFFICES ASSUME B # {} PROVE FALSE
  OBVIOUS
<1>1. PICK n \in B : \A k \in B : n <= k
  <2>1. B \in SUBSET Nat
    OBVIOUS
  <2> HIDE DEF B
  <2> QED BY <2>1, LeastOf
<1>2. n \in 0..Len(s) /\ r[n] # p[n]
  OBVIOUS
<1>3. CASE n = 0
  BY <1>2, <1>3 DEF Running
<1>4. CASE n # 0
  <2>1. n - 1 \in 0..Len(s) /\ n - 1 \notin B /\ n \in 1..Len(s) /\ n \in 1..Len(q)
    BY <1>1, <1>2, <1>4
  <2>2. r[n - 1] = p[n - 1]
    BY <2>1
  <2>3. r[n] = r[n - 1] + s[n] /\ p[n] = p[n - 1] + q[n] /\ s[n] = q[n]
    BY <2>1 DEF Running
  <2> QED BY <1>2, <2>2, <2>3
<1> QED BY <1>3, <1>4

\* The sum of no lengths, and of one.
LEMMA SumOfFew ==
  /\ \A q \in Seq(Nat) : Len(q) = 0 => SumOf(q) = 0
  /\ \A q \in Seq(Nat) : Len(q) = 1 => SumOf(q) = q[1]
<1>1. ASSUME NEW q \in Seq(Nat), Len(q) = 0 PROVE SumOf(q) = 0
  <2>1. PICK p : Running(p, q) /\ SumOf(q) = p[Len(q)]
    BY SumOfRunning
  <2> QED BY <1>1, <2>1 DEF Running
<1>2. ASSUME NEW q \in Seq(Nat), Len(q) = 1 PROVE SumOf(q) = q[1]
  <2>1. PICK p : Running(p, q) /\ SumOf(q) = p[Len(q)]
    BY SumOfRunning
  <2>2. p[1] = p[0] + q[1] /\ p[0] = 0 /\ q[1] \in Nat
    BY <1>2, <2>1 DEF Running
  <2> QED BY <1>2, <2>1, <2>2
<1> QED BY <1>1, <1>2

\* The requests and their bytes.
LEMMA RequestFacts ==
  /\ Len(FileRequests) \in Nat /\ Requests = 1..Len(FileRequests)
  /\ \A i \in Requests : Chunk(i) \in Nat /\ Asks(i) \in {"list", "start", "data", "end"}
<1> DEFINE R == [ask : {"list", "start", "data", "end"}, chunk : Nat]
<1>1. FileRequests \in Seq(R)
  BY FileAssumption
<1>2. Len(FileRequests) \in Nat /\ DOMAIN FileRequests = 1..Len(FileRequests)
      /\ \A i \in DOMAIN FileRequests : FileRequests[i] \in R
  <2> HIDE DEF R
  <2> QED BY <1>1
<1>3. \A r \in R : r.chunk \in Nat /\ r.ask \in {"list", "start", "data", "end"}
  OBVIOUS
<1> QED BY <1>2, <1>3 DEF Requests, Chunk, Asks

\* A request brings its bytes after those of the requests before it.
LEMMA BytesStep ==
  /\ BytesUpTo(0) = 0
  /\ \A i \in Requests : BytesUpTo(i) = BytesUpTo(i - 1) + Chunk(i)
  /\ \A i \in 0..Len(FileRequests) : BytesUpTo(i) \in Nat
<1> DEFINE N == Len(FileRequests)
           Q(i) == [j \in 1..i |-> Chunk(j)]
           all == Q(N)
<1>1. PICK p : Running(p, all) /\ SumOf(all) = p[Len(all)]
  <2>1. Len(all) \in Nat /\ DOMAIN all = 1..Len(all)
    BY RequestFacts
  <2> HIDE DEF all
  <2> QED BY <2>1, SumOfRunning
<1>2. Len(all) = N /\ N \in Nat /\ \A i \in 1..N : all[i] = Chunk(i)
  BY RequestFacts
<1>3. \A i \in 1..N : p[i] = p[i - 1] + Chunk(i)
  <2> HIDE DEF all
  <2> QED BY <1>1, <1>2 DEF Running
<1>4. p[0] = 0
  BY <1>1 DEF Running
<1>5. ASSUME NEW i \in 0..N PROVE BytesUpTo(i) = p[i]
  <2>1. Len(Q(i)) = i /\ DOMAIN Q(i) = 1..i /\ \A j \in 1..i : Q(i)[j] = all[j]
    BY RequestFacts
  <2>2. BytesUpTo(i) = SumOf(Q(i))
    BY DEF BytesUpTo, Chunk
  <2> DEFINE q == Q(i)
  <2>3. Len(q) = i /\ DOMAIN q = 1..i /\ \A j \in 1..i : q[j] = all[j]
    BY <2>1
  <2> HIDE DEF Q, all, N, q
  <2>4. i \in Nat /\ i <= Len(all) /\ Len(all) \in Nat
    BY <1>2
  <2>5. PICK r : Running(r, q) /\ SumOf(q) = r[i]
    BY <2>3, <2>4, SumOfRunning
  <2>6. \A j \in 0..i : r[j] = p[j]
    BY <1>1, <2>3, <2>4, <2>5, RunningSame
  <2>7. BytesUpTo(i) = SumOf(q)
    BY <2>2 DEF q
  <2> QED BY <2>4, <2>5, <2>6, <2>7
<1>6. \A i \in 0..N : p[i] \in Nat
  <2> DEFINE B == {i \in 0..N : p[i] \notin Nat}
  <2> SUFFICES ASSUME B # {} PROVE FALSE
    OBVIOUS
  <2>1. PICK n \in B : \A k \in B : n <= k
    <3>1. B \in SUBSET Nat
      OBVIOUS
    <3> HIDE DEF B
    <3> QED BY <3>1, LeastOf
  <2>2. n \in 0..N /\ p[n] \notin Nat /\ n # 0
    BY <1>4
  <2>3. n - 1 \in 0..N /\ n \in 1..N /\ n - 1 \notin B
    BY <1>2, <2>1, <2>2
  <2>4. p[n - 1] \in Nat
    BY <2>3
  <2>5. Chunk(n) \in Nat
    BY <2>3, RequestFacts
  <2> HIDE DEF B
  <2> QED BY <1>3, <2>2, <2>3, <2>4, <2>5
<1>7. \A i \in 1..N : i \in 0..N /\ i - 1 \in 0..N
  BY <1>2
<1>8. 0 \in 0..N
  BY <1>2
<1> HIDE DEF N, all, Q
<1>9. Requests = 1..N
  BY RequestFacts DEF N
<1>10. \A i \in 1..N : BytesUpTo(i) = BytesUpTo(i - 1) + Chunk(i)
  BY <1>3, <1>5, <1>7
<1> QED BY <1>4, <1>5, <1>6, <1>8, <1>9, <1>10 DEF N

\* What the client sends, one by one.
Unit == ({"ask", "byte"} \X Nat) \cup {AnOther}

\* What is on its way: what is left of the buffers and what was not lent.
Coming == Block \o net

OnlyOthers(s) == \A j \in 1..Len(s) : s[j] = AnOther

\* Request i at place p, with its bytes, between other messages.
AskedAt(s, p, i) ==
  /\ p \in 1..Len(s) /\ p + Chunk(i) <= Len(s)
  /\ s[p] = Ask(i)
  /\ \A k \in 1..Chunk(i) : s[p + k] = Byte(BytesUpTo(i - 1) + k)
  /\ \A j \in 1..Len(s) : j < p \/ j > p + Chunk(i) => s[j] = AnOther

\* The next n bytes after w bytes, before other messages.
BytesNext(s, n, w) ==
  /\ n \in 0..Len(s)
  /\ \A k \in 1..n : s[k] = Byte(w + k)
  /\ \A j \in 1..Len(s) : j > n => s[j] = AnOther

\* What is left when n have been read.
After(s, n) == SubSeq(s, n + 1, Len(s))

\* What is left behind the first units.
LEMMA AfterIs ==
  ASSUME NEW s \in Seq(Unit), NEW n \in 0..Len(s)
  PROVE  /\ After(s, n) \in Seq(Unit) /\ Len(After(s, n)) = Len(s) - n
         /\ \A k \in 1..(Len(s) - n) : After(s, n)[k] = s[n + k]
BY DEF After

\* What is lent and what is not make what there was.
LEMMA LentIs ==
  ASSUME NEW s \in Seq(Unit), NEW n \in 1..Len(s)
  PROVE  /\ SubSeq(s, 1, n) \in Seq(Unit) /\ SubSeq(s, 1, n) # <<>>
         /\ SubSeq(s, n + 1, Len(s)) \in Seq(Unit)
         /\ SubSeq(s, 1, n) \o SubSeq(s, n + 1, Len(s)) = s
OBVIOUS

\* To read on in the buffer is to read on in what is on its way.
LEMMA AfterJoined ==
  ASSUME NEW s \in Seq(Unit), NEW t \in Seq(Unit), NEW n \in 0..Len(s)
  PROVE  /\ After(s, n) \o t = After(s \o t, n)
         /\ s \o t \in Seq(Unit) /\ Len(s \o t) >= Len(s)
         /\ \A k \in 1..Len(s) : (s \o t)[k] = s[k]
<1> DEFINE c == s \o t
           a == After(s, n)
<1>1. /\ c \in Seq(Unit) /\ Len(c) = Len(s) + Len(t) /\ Len(s) \in Nat /\ Len(t) \in Nat
      /\ \A k \in 1..(Len(s) + Len(t)) : c[k] = IF k <= Len(s) THEN s[k] ELSE t[k - Len(s)]
  BY ConcatProperties
<1>2. a \in Seq(Unit) /\ Len(a) = Len(s) - n /\ \A k \in 1..(Len(s) - n) : a[k] = s[n + k]
  BY AfterIs
<1>3. /\ a \o t \in Seq(Unit) /\ Len(a \o t) = Len(a) + Len(t)
      /\ \A k \in 1..(Len(a) + Len(t)) : (a \o t)[k] = IF k <= Len(a) THEN a[k] ELSE t[k - Len(a)]
  BY <1>2, ConcatProperties
<1> HIDE DEF a, c
<1>4. n \in 0..Len(c)
  BY <1>1
<1>5. /\ After(c, n) \in Seq(Unit) /\ Len(After(c, n)) = Len(c) - n
      /\ \A k \in 1..(Len(c) - n) : After(c, n)[k] = c[n + k]
  BY <1>1, <1>4, AfterIs
<1>6. Len(a \o t) = Len(c) - n
  BY <1>1, <1>2, <1>3
<1>7. ASSUME NEW k \in 1..(Len(c) - n) PROVE (a \o t)[k] = After(c, n)[k]
  <2>1. k \in 1..(Len(a) + Len(t)) /\ n + k \in 1..(Len(s) + Len(t)) /\ k \in Int
    BY <1>1, <1>2
  <2>2. CASE k <= Len(a)
    <3>1. k \in 1..(Len(s) - n) /\ n + k <= Len(s)
      BY <1>1, <1>2, <2>1, <2>2
    <3> QED BY <1>1, <1>2, <1>3, <1>5, <1>7, <2>1, <2>2, <3>1
  <2>3. CASE ~(k <= Len(a))
    <3>1. ~(n + k <= Len(s)) /\ k - Len(a) = n + k - Len(s)
      BY <1>1, <1>2, <2>1, <2>3
    <3> QED BY <1>1, <1>3, <1>5, <1>7, <2>1, <2>3, <3>1
  <2> QED BY <2>2, <2>3
<1>8. a \o t = After(c, n)
  BY <1>3, <1>5, <1>6, <1>7, SeqEqual
<1>9. Len(c) >= Len(s) /\ \A k \in 1..Len(s) : c[k] = s[k]
  BY <1>1
<1> QED BY <1>1, <1>8, <1>9 DEF a, c

\* When another message has been read, the request is nearer.
LEMMA AfterOther ==
  ASSUME NEW s \in Seq(Unit), s # <<>>, Head(s) = AnOther
  PROVE  /\ OnlyOthers(s) => OnlyOthers(After(s, 1))
         /\ \A i \in Requests : \A p \in 1..Len(s) :
              AskedAt(s, p, i) => p - 1 \in 1..Len(After(s, 1)) /\ AskedAt(After(s, 1), p - 1, i)
<1> DEFINE r == After(s, 1)
<1>1. r \in Seq(Unit) /\ Len(r) = Len(s) - 1 /\ \A k \in 1..(Len(s) - 1) : r[k] = s[1 + k]
  <2>1. 1 \in 0..Len(s)
    OBVIOUS
  <2> QED BY <2>1, AfterIs
<1>2. s[1] = AnOther /\ Len(s) \in Nat /\ Len(s) >= 1
  OBVIOUS
<1> HIDE DEF r
<1>3. OnlyOthers(s) => OnlyOthers(r)
  BY <1>1, <1>2 DEF OnlyOthers
<1>4. ASSUME NEW i \in Requests, NEW p \in 1..Len(s), AskedAt(s, p, i)
      PROVE  p - 1 \in 1..Len(r) /\ AskedAt(r, p - 1, i)
  <2>1. Chunk(i) \in Nat
    BY RequestFacts
  <2>2. p # 1
    BY <1>2, <1>4 DEF AskedAt, Ask, AnOther
  <2>3. p - 1 \in 1..Len(r) /\ p - 1 + Chunk(i) <= Len(r)
    BY <1>1, <1>2, <1>4, <2>1, <2>2 DEF AskedAt
  <2>4. r[p - 1] = Ask(i)
    BY <1>1, <1>2, <1>4, <2>1, <2>2, <2>3 DEF AskedAt
  <2>5. ASSUME NEW k \in 1..Chunk(i) PROVE r[p - 1 + k] = Byte(BytesUpTo(i - 1) + k)
    <3>1. p - 1 + k \in 1..(Len(s) - 1) /\ 1 + (p - 1 + k) = p + k
      BY <1>1, <2>1, <2>3
    <3>2. s[p + k] = Byte(BytesUpTo(i - 1) + k)
      BY <1>4 DEF AskedAt
    <3> QED BY <1>1, <3>1, <3>2
  <2>6. ASSUME NEW j \in 1..Len(r), j < p - 1 \/ j > p - 1 + Chunk(i) PROVE r[j] = AnOther
    <3>1. 1 + j \in 1..Len(s) /\ (1 + j < p \/ 1 + j > p + Chunk(i)) /\ j \in 1..(Len(s) - 1)
      BY <1>1, <1>2, <2>1, <2>6
    <3>2. s[1 + j] = AnOther
      BY <1>4, <3>1 DEF AskedAt
    <3> QED BY <1>1, <3>1, <3>2
  <2> QED BY <2>3, <2>4, <2>5, <2>6 DEF AskedAt
<1> QED BY <1>3, <1>4 DEF r

\* When the request has been read, its bytes come next.
LEMMA AfterAsk ==
  ASSUME NEW s \in Seq(Unit), NEW i \in Requests, AskedAt(s, 1, i)
  PROVE  /\ BytesNext(After(s, 1), Chunk(i), BytesUpTo(i - 1))
         /\ Chunk(i) = 0 => OnlyOthers(After(s, 1))
<1> DEFINE r == After(s, 1)
<1>1. Len(s) \in Nat /\ Len(s) >= 1 /\ Chunk(i) \in Nat
  BY RequestFacts DEF AskedAt
<1>2. r \in Seq(Unit) /\ Len(r) = Len(s) - 1 /\ \A k \in 1..(Len(s) - 1) : r[k] = s[1 + k]
  <2>1. 1 \in 0..Len(s)
    BY <1>1
  <2> QED BY <2>1, AfterIs
<1> HIDE DEF r
<1>3. BytesNext(r, Chunk(i), BytesUpTo(i - 1))
  BY <1>1, <1>2 DEF AskedAt, BytesNext
<1>4. Chunk(i) = 0 => OnlyOthers(r)
  BY <1>1, <1>3 DEF BytesNext, OnlyOthers
<1> QED BY <1>3, <1>4 DEF r

\* When some of the bytes have been read, the others come next.
LEMMA AfterBytes ==
  ASSUME NEW s \in Seq(Unit), NEW n \in Nat, NEW w \in Nat, BytesNext(s, n, w), NEW m \in 0..n
  PROVE  BytesNext(After(s, m), n - m, w + m)
<1> DEFINE r == After(s, m)
<1>1. m \in 0..Len(s) /\ n <= Len(s) /\ Len(s) \in Nat
  BY DEF BytesNext
<1>2. r \in Seq(Unit) /\ Len(r) = Len(s) - m /\ \A k \in 1..(Len(s) - m) : r[k] = s[m + k]
  BY <1>1, AfterIs
<1> HIDE DEF r
<1>3. ASSUME NEW k \in 1..(n - m) PROVE r[k] = Byte(w + m + k)
  <2>1. m + k \in 1..n /\ k \in 1..(Len(s) - m) /\ w + (m + k) = w + m + k
    BY <1>1
  <2> QED BY <1>2, <2>1 DEF BytesNext
<1>4. ASSUME NEW j \in 1..Len(r), j > n - m PROVE r[j] = AnOther
  <2>1. m + j \in 1..Len(s) /\ m + j > n /\ j \in 1..(Len(s) - m)
    BY <1>1, <1>2, <1>4
  <2> QED BY <1>2, <2>1 DEF BytesNext
<1>5. n - m \in 0..Len(r)
  BY <1>1, <1>2
<1> QED BY <1>3, <1>4, <1>5 DEF BytesNext, r

\* Another message, which comes last, changes nothing of this.
LEMMA OtherComes ==
  ASSUME NEW s \in Seq(Unit)
  PROVE  /\ OnlyOthers(s) => OnlyOthers(Append(s, AnOther))
         /\ \A i \in Requests : \A p \in 1..Len(s) :
              AskedAt(s, p, i) => p \in 1..Len(Append(s, AnOther)) /\ AskedAt(Append(s, AnOther), p, i)
         /\ \A n, w \in Nat : BytesNext(s, n, w) => BytesNext(Append(s, AnOther), n, w)
<1> DEFINE r == Append(s, AnOther)
<1>1. Len(s) \in Nat /\ Len(r) = Len(s) + 1 /\ r[Len(s) + 1] = AnOther
      /\ \A j \in 1..Len(s) : r[j] = s[j]
  OBVIOUS
<1> HIDE DEF r
<1>2. OnlyOthers(s) => OnlyOthers(r)
  <2>1. \A j \in 1..Len(r) : j \in 1..Len(s) \/ j = Len(s) + 1
    BY <1>1
  <2> QED BY <1>1, <2>1 DEF OnlyOthers
<1>3. ASSUME NEW i \in Requests, NEW p \in 1..Len(s), AskedAt(s, p, i)
      PROVE  p \in 1..Len(r) /\ AskedAt(r, p, i)
  <2>1. Chunk(i) \in Nat
    BY RequestFacts
  <2>2. \A k \in 1..Chunk(i) : p + k \in 1..Len(s)
    BY <1>1, <1>3, <2>1 DEF AskedAt
  <2>3. \A j \in 1..Len(r) : j \in 1..Len(s) \/ j = Len(s) + 1
    BY <1>1
  <2>4. \A j \in 1..Len(r) : j < p \/ j > p + Chunk(i) => r[j] = AnOther
    BY <1>1, <1>3, <2>1, <2>3 DEF AskedAt
  <2>5. p \in 1..Len(r) /\ p + Chunk(i) <= Len(r)
    BY <1>1, <1>3, <2>1 DEF AskedAt
  <2> QED BY <1>1, <1>3, <2>2, <2>4, <2>5 DEF AskedAt
<1>4. ASSUME NEW n \in Nat, NEW w \in Nat, BytesNext(s, n, w)
      PROVE  BytesNext(r, n, w)
  <2>1. \A j \in 1..Len(r) : j \in 1..Len(s) \/ j = Len(s) + 1
    BY <1>1
  <2>2. n \in 0..Len(r) /\ \A k \in 1..n : k \in 1..Len(s)
    BY <1>1, <1>4 DEF BytesNext
  <2> QED BY <1>1, <1>4, <2>1, <2>2 DEF BytesNext
<1> QED BY <1>2, <1>3, <1>4 DEF r

\* A request is sent behind the other messages.
LEMMA RequestComes ==
  ASSUME NEW s \in Seq(Unit), OnlyOthers(s), NEW i \in Requests,
         NEW b, b = [k \in 1..Chunk(i) |-> Byte(BytesUpTo(i - 1) + k)]
  PROVE  \E p \in 1..Len(s \o <<Ask(i)>> \o b) : AskedAt(s \o <<Ask(i)>> \o b, p, i)
<1> DEFINE r == s \o <<Ask(i)>> \o b
           n == Len(s)
<1>1. Chunk(i) \in Nat /\ n \in Nat
  BY RequestFacts
<1>2. BytesUpTo(i - 1) \in Nat
  BY BytesStep, RequestFacts
<1>3. b \in Seq(Unit) /\ Len(b) = Chunk(i)
  BY <1>1, <1>2 DEF Unit, Byte
<1>4. <<Ask(i)>> \in Seq(Unit)
  BY RequestFacts DEF Unit, Ask
<1>5. /\ Len(r) = n + 1 + Chunk(i) /\ r[n + 1] = Ask(i)
      /\ \A j \in 1..n : r[j] = s[j]
      /\ \A k \in 1..Chunk(i) : r[n + 1 + k] = b[k]
  <2> DEFINE a == <<Ask(i)>>
  <2>1. a \in Seq(Unit) /\ Len(a) = 1 /\ a[1] = Ask(i)
    BY <1>4
  <2> HIDE DEF a
  <2>2. s \o a \o b = r
    BY DEF a
  <2>3. /\ Len(s \o a) = n + 1 /\ (s \o a)[n + 1] = a[1] /\ \A j \in 1..n : (s \o a)[j] = s[j]
        /\ s \o a \in Seq(Unit)
    <3>1. /\ s \o a \in Seq(Unit) /\ Len(s \o a) = n + Len(a)
          /\ \A k \in 1..(n + Len(a)) : (s \o a)[k] = IF k <= n THEN s[k] ELSE a[k - n]
      BY <2>1, ConcatProperties
    <3> HIDE DEF n
    <3> QED BY <1>1, <2>1, <3>1
  <2> DEFINE c == s \o a
  <2>4. c \in Seq(Unit) /\ Len(c) = n + 1 /\ c[n + 1] = Ask(i) /\ \A j \in 1..n : c[j] = s[j]
    BY <2>1, <2>3
  <2> HIDE DEF c, r
  <2>5. r = c \o b
    BY <2>2 DEF c
  <2>6. /\ Len(r) = n + 1 + Chunk(i)
        /\ \A j \in 1..(n + 1) : r[j] = c[j]
        /\ \A k \in 1..Chunk(i) : r[n + 1 + k] = b[k]
    <3>1. /\ Len(r) = Len(c) + Len(b)
          /\ \A k \in 1..(Len(c) + Len(b)) : r[k] = IF k <= Len(c) THEN c[k] ELSE b[k - Len(c)]
      BY <1>3, <2>4, <2>5, ConcatProperties
    <3>2. \A k \in 1..Chunk(i) : n + 1 + k \in 1..(Len(c) + Len(b)) /\ ~(n + 1 + k <= Len(c))
                               /\ n + 1 + k - Len(c) = k
      BY <1>1, <1>3, <2>4
    <3> HIDE DEF n
    <3> QED BY <1>1, <1>3, <2>4, <3>1, <3>2
  <2> QED BY <1>1, <2>4, <2>6
<1> HIDE DEF r
<1>6. AskedAt(r, n + 1, i)
  <2>1. n + 1 \in 1..Len(r) /\ n + 1 + Chunk(i) <= Len(r)
    BY <1>1, <1>5
  <2>2. \A k \in 1..Chunk(i) : r[n + 1 + k] = Byte(BytesUpTo(i - 1) + k)
    BY <1>5
  <2>3. \A j \in 1..Len(r) : j < n + 1 \/ j > n + 1 + Chunk(i) => j \in 1..n
    BY <1>1, <1>5
  <2>4. \A j \in 1..n : r[j] = AnOther
    BY <1>5 DEF OnlyOthers
  <2> QED BY <1>5, <2>1, <2>2, <2>3, <2>4 DEF AskedAt
<1>7. n + 1 \in 1..Len(r)
  BY <1>1, <1>5
<1> QED BY <1>6, <1>7 DEF r

\* Only a request for data brings bytes, and it comes after the start of an upload, with no
\* other start behind it.
OneUpload ==
  /\ \A i \in Requests : Asks(i) # "data" => Chunk(i) = 0
  /\ \A i \in Requests : Asks(i) = "data" => \E j \in 1..i : Asks(j) = "start"
  /\ \A i, j \in Requests : i < j /\ Asks(i) = "data" => Asks(j) # "start"

UnderWay == requested = answered + 1

FilePlaces ==
  {"receive", "process", "deferred", "fragment", "receiveMore", "reply", "listing"}

FileTypes ==
  /\ rds = <<Block>> /\ Block \in Seq(Unit) /\ net \in Seq(Unit) /\ written \in Seq(Unit)
  /\ place \in FilePlaces
  /\ compressedSize \in Nat /\ directory = Directory
  /\ answered \in Nat /\ requested \in 0..Len(FileRequests)
  /\ UnderWay \/ requested = answered

\* Where the reply is made, all of the request has been read; until then what it brings is
\* still to come, or, for data, the rest of it.
WrittenLength ==
  IF place \in {"reply", "listing"} THEN BytesUpTo(requested)
  ELSE IF place \in {"fragment", "receiveMore"} THEN BytesUpTo(requested) - compressedSize
  ELSE BytesUpTo(answered)

FileSoFar ==
  /\ \A k \in 1..Len(written) : written[k] = Byte(k)
  /\ Len(written) = WrittenLength
  /\ (\A i \in 1..requested : Asks(i) # "data") => written = <<>>
  /\ (\E i \in 1..answered : Asks(i) = "start") => fRefNum = OurFile
  /\ place = "reply" /\ Asks(requested) = "start" => fRefNum = OurFile

ListedAll == listed = Directory /\ announced = SumOf(Directory)

\* The entries that were sent are the first ones, and the frames are elsewhere.
ListSoFar ==
  /\ place = "listing" =>
       /\ nEntries = Len(Directory) /\ announced = SumOf(Directory)
       /\ index \in 0..nEntries /\ (nEntries > 0 => index < nEntries)
       /\ listed = SubSeq(Directory, 1, index)
       /\ ~frameOn /\ Asks(requested) = "list"
  /\ place = "reply" /\ Asks(requested) = "list" => ListedAll
  /\ answered > 0 /\ requested = answered /\ Asks(answered) = "list" => ListedAll
  /\ frameOn => inProgress

\* Where the request under way is: behind other messages until it is taken up, and then its
\* bytes come next, with nothing but other messages behind them.
StreamSoFar ==
  /\ place \in {"receive", "receiveMore"} => Block = <<>>
  /\ place \in {"process", "deferred"} => Block # <<>>
  /\ requested = answered => place \in {"receive", "process"} /\ OnlyOthers(Coming)
  /\ UnderWay /\ place \in {"receive", "process"} =>
       \E p \in 1..Len(Coming) : AskedAt(Coming, p, requested)
  /\ place = "deferred" => AskedAt(Coming, 1, requested)
  /\ place \in {"fragment", "receiveMore"} =>
       /\ Asks(requested) = "data" /\ fRefNum = OurFile
       /\ BytesNext(Coming, compressedSize, Len(written))
  /\ place \in {"reply", "listing"} => OnlyOthers(Coming)

FileInv == FileTypes /\ FileSoFar /\ ListSoFar /\ StreamSoFar

\* Nothing is on its way, and nothing was written.
LEMMA FileBegins == FileInit => FileInv
<1> SUFFICES ASSUME FileInit PROVE FileInv
  OBVIOUS
<1> USE DEF FileInit
<1>1. Block = <<>> /\ rds = <<Block>> /\ <<>> \in Seq(Unit) /\ Len(<<>>) = 0
  BY DEF Block
<1>2. FileTypes
  BY <1>1, RequestFacts DEF FileTypes, FilePlaces
<1>3. FileSoFar
  BY <1>1, BytesStep DEF FileSoFar, WrittenLength
<1>4. ListSoFar
  BY DEF ListSoFar
<1>5. Coming = <<>>
  BY <1>1 DEF Coming
<1>6. StreamSoFar
  BY <1>1, <1>5 DEF StreamSoFar, UnderWay, OnlyOthers
<1> QED BY <1>2, <1>3, <1>4, <1>6 DEF FileInv

\* What is in the buffer comes first.
LEMMA InHand ==
  ASSUME FileTypes
  PROVE  /\ Coming \in Seq(Unit) /\ Len(Coming) >= Len(Block) /\ Len(Block) \in Nat
         /\ \A k \in 1..Len(Block) : Coming[k] = Block[k]
         /\ Block # <<>> => Head(Block) = Coming[1] /\ Head(Coming) = Coming[1] /\ Coming # <<>>
<1>1. Block \in Seq(Unit) /\ net \in Seq(Unit) /\ 0 \in 0..Len(Block)
  BY DEF FileTypes
<1>2. /\ Coming \in Seq(Unit) /\ Len(Coming) >= Len(Block)
      /\ \A k \in 1..Len(Block) : Coming[k] = Block[k]
  BY <1>1, AfterJoined DEF Coming
<1>3. Len(Block) \in Nat /\ Len(Coming) \in Nat
  BY <1>1, <1>2
<1>4. ASSUME Block # <<>>
      PROVE  Head(Block) = Coming[1] /\ Head(Coming) = Coming[1] /\ Coming # <<>>
  <2>1. Len(Block) >= 1 /\ Head(Block) = Block[1]
    BY <1>1, <1>4
  <2>2. Coming[1] = Block[1] /\ Len(Coming) >= 1
    BY <1>2, <1>3, <2>1
  <2> QED BY <1>2, <2>1, <2>2
<1> QED BY <1>2, <1>3, <1>4

\* Reading on in the buffer: what comes is what came, without what was read.
LEMMA SkipIs ==
  ASSUME FileTypes, NEW n \in 0..Len(Block), Skip(n), UNCHANGED net
  PROVE  rds' = <<Block'>> /\ Block' \in Seq(Unit) /\ Coming' = After(Coming, n)
<1>1. rds = <<Block>> /\ Block \in Seq(Unit) /\ net \in Seq(Unit)
  BY DEF FileTypes
<1>2. rds' = <<After(Block, n)>>
  <2>1. rds' = [rds EXCEPT ![1] = SubSeq(rds[1], n + 1, Len(rds[1]))]
    BY DEF Skip
  <2>2. rds = <<rds[1]>>
    BY <1>1 DEF Block
  <2>3. rds' = <<SubSeq(rds[1], n + 1, Len(rds[1]))>>
    BY <2>1, <2>2
  <2> QED BY <2>3 DEF After, Block
<1>3. Block' = After(Block, n)
  BY <1>2 DEF Block
<1>4. After(Block, n) \in Seq(Unit)
  BY <1>1, AfterIs
<1>5. Coming' = After(Block, n) \o net
  BY <1>3 DEF Coming
<1>6. Coming' = After(Coming, n)
  BY <1>1, <1>5, AfterJoined DEF Coming
<1> QED BY <1>2, <1>3, <1>4, <1>6

\* The request under way is the one behind those that were answered.
LEMMA UnderWayIs ==
  ASSUME FileTypes, UnderWay
  PROVE  /\ requested \in Requests /\ answered = requested - 1 /\ answered # requested
         /\ BytesUpTo(requested) = BytesUpTo(answered) + Chunk(requested)
         /\ BytesUpTo(answered) \in Nat /\ BytesUpTo(requested) \in Nat /\ Chunk(requested) \in Nat
<1>1. /\ answered \in Nat /\ requested \in 0..Len(FileRequests) /\ requested = answered + 1
      /\ Len(FileRequests) \in Nat
  BY RequestFacts DEF FileTypes, UnderWay
<1>2. /\ requested \in 1..Len(FileRequests) /\ answered = requested - 1
      /\ answered \in 0..Len(FileRequests)
  BY <1>1
<1> QED BY <1>1, <1>2, BytesStep, RequestFacts

\* Where the receive chain has stopped, a request is under way.
LEMMA UnderWayOrNot ==
  ASSUME FileTypes, StreamSoFar, place \notin {"receive", "process"}
  PROVE  UnderWay
BY DEF FileTypes, StreamSoFar

\* A request that the event loop takes up is the one under way, and lies at the beginning.
LEMMA DispatchIs ==
  ASSUME FileInv, OneUpload, NEW a, Dispatches(a), UNCHANGED <<net, directory, answered, requested>>
  PROVE  /\ UnderWay /\ Asks(requested) = a /\ Head(Block)[2] = requested
         /\ rds' = <<Block'>> /\ Block' \in Seq(Unit)
         /\ BytesNext(Coming', Chunk(requested), BytesUpTo(answered))
         /\ a # "data" => OnlyOthers(Coming') /\ BytesUpTo(requested) = BytesUpTo(answered)
         /\ Len(written) = BytesUpTo(answered) /\ ~inProgress
<1>1. FileTypes /\ StreamSoFar /\ FileSoFar
  BY DEF FileInv
<1>2. place = "deferred" /\ ~inProgress /\ Skip(1) /\ FileRequests[Head(Block)[2]].ask = a
  BY DEF Dispatches
<1>3. UnderWay /\ Block # <<>> /\ AskedAt(Coming, 1, requested)
  BY <1>1, <1>2, UnderWayOrNot DEF StreamSoFar
<1>4. requested \in Requests /\ answered = requested - 1
      /\ BytesUpTo(requested) = BytesUpTo(answered) + Chunk(requested) /\ BytesUpTo(answered) \in Nat
  BY <1>1, <1>3, UnderWayIs
<1>5. Head(Block) = Ask(requested)
  BY <1>1, <1>3, InHand DEF AskedAt
<1>6. Head(Block)[2] = requested /\ Asks(requested) = a
  BY <1>2, <1>5 DEF Ask, Asks
<1>7. 1 \in 0..Len(Block)
  BY <1>1, <1>3 DEF FileTypes
<1>8. rds' = <<Block'>> /\ Block' \in Seq(Unit) /\ Coming' = After(Coming, 1)
  BY <1>1, <1>2, <1>7, SkipIs
<1>9. /\ BytesNext(Coming', Chunk(requested), BytesUpTo(answered))
      /\ Chunk(requested) = 0 => OnlyOthers(Coming')
  BY <1>1, <1>3, <1>4, <1>8, InHand, AfterAsk
<1>10. a # "data" => Chunk(requested) = 0
  BY <1>4, <1>6 DEF OneUpload
<1>11. Len(written) = BytesUpTo(answered)
  BY <1>1, <1>2 DEF FileSoFar, WrittenLength
<1> QED BY <1>2, <1>3, <1>4, <1>6, <1>8, <1>9, <1>10, <1>11

\* The steps, one by one. The client asks, and only others are on their way.
LEMMA RequestSent == ASSUME FileInv, ClientRequests PROVE FileInv'
<1>1. FileTypes /\ FileSoFar /\ ListSoFar /\ StreamSoFar
  BY DEF FileInv
<1> DEFINE i == requested + 1
           b == [k \in 1..Chunk(i) |-> Byte(BytesUpTo(i - 1) + k)]
<1>2. /\ requested = answered /\ requested' = i /\ i \in Requests /\ i - 1 = requested
      /\ requested \in Nat
  BY <1>1, RequestFacts DEF ClientRequests, FileTypes
<1>3. net' = net \o <<Ask(i)>> \o b
  BY <1>2 DEF ClientRequests, Chunk
<1>4. UNCHANGED <<rds, place, compressedSize, fRefNum, listing, inProgress, frameOn, directory, answered, written>>
  BY DEF ClientRequests, upload, frames
<1>5. place \in {"receive", "process"} /\ OnlyOthers(Coming)
  BY <1>1, <1>2 DEF StreamSoFar
<1>6. UnderWay' /\ Block' = Block
  BY <1>2, <1>4 DEF UnderWay, Block
<1>7. b \in Seq(Unit) /\ <<Ask(i)>> \in Seq(Unit)
  <2>1. Chunk(i) \in Nat /\ BytesUpTo(i - 1) \in Nat /\ i \in Nat
    BY <1>2, BytesStep, RequestFacts
  <2> QED BY <2>1 DEF Unit, Byte, Ask
<1> HIDE DEF i, b
<1>8. net' \in Seq(Unit)
  BY <1>1, <1>3, <1>7, ConcatProperties DEF FileTypes
<1>9. Coming' = Coming \o <<Ask(i)>> \o b
  <2> DEFINE a == <<Ask(i)>>
  <2> HIDE DEF a
  <2>1. a \in Seq(Unit) /\ Block \in Seq(Unit) /\ net \in Seq(Unit) /\ net' = net \o a \o b
    BY <1>1, <1>3, <1>7 DEF a, FileTypes
  <2>2. Block \o (net \o a \o b) = Block \o net \o a \o b
    <3>1. net \o a \in Seq(Unit) /\ Block \o net \in Seq(Unit)
      BY <2>1, ConcatProperties
    <3>2. Block \o ((net \o a) \o b) = (Block \o (net \o a)) \o b
      <4> DEFINE c == net \o a
      <4>1. c \in Seq(Unit)
        BY <3>1
      <4> HIDE DEF c
      <4>2. Block \o (c \o b) = (Block \o c) \o b
        <5>1. Block \in Seq(Unit) /\ b \in Seq(Unit)
          BY <1>7, <2>1
        <5> QED BY <4>1, <5>1, ConcatAssociative
      <4> QED BY <4>2 DEF c
    <3>3. Block \o (net \o a) = (Block \o net) \o a
      BY <2>1, ConcatAssociative
    <3> QED BY <3>2, <3>3
  <2> QED BY <1>6, <2>1, <2>2 DEF Coming, a
<1>10. FileTypes'
  BY <1>1, <1>2, <1>4, <1>6, <1>8, RequestFacts DEF FileTypes
<1>11. FileSoFar'
  <2>1. WrittenLength' = WrittenLength
    BY <1>4, <1>5 DEF WrittenLength
  <2>2. \A j \in 1..requested : j \in 1..requested'
    BY <1>1, <1>2 DEF i, FileTypes
  <2> QED BY <1>1, <1>4, <1>5, <2>1, <2>2 DEF FileSoFar
<1>12. ListSoFar'
  BY <1>1, <1>4, <1>5, <1>2, <1>6, <1>10, UnderWayIs DEF ListSoFar, listing, UnderWay, i
<1>13. StreamSoFar'
  <2>1. \E p \in 1..Len(Coming') : AskedAt(Coming', p, requested')
    <3>1. b = [k \in 1..Chunk(i) |-> Byte(BytesUpTo(i - 1) + k)]
      BY DEF b
    <3> QED BY <1>1, <1>2, <1>5, <1>9, <3>1, InHand, RequestComes
  <2>2. requested' # answered'
    BY <1>2, <1>4 DEF i
  <2> QED BY <1>1, <1>4, <1>5, <1>6, <2>1, <2>2 DEF StreamSoFar
<1> QED BY <1>10, <1>11, <1>12, <1>13 DEF FileInv

\* The client sends something else.
LEMMA OtherSent == ASSUME FileInv, ClientSendsOther PROVE FileInv'
<1>1. FileTypes /\ FileSoFar /\ ListSoFar /\ StreamSoFar
  BY DEF FileInv
<1>2. UNCHANGED <<rds, place, compressedSize, fRefNum, listing, inProgress, frameOn, directory, requested,
                  answered, written>> /\ net' = Append(net, AnOther)
  BY DEF ClientSendsOther, upload, frames
<1>3. Block' = Block /\ WrittenLength' = WrittenLength /\ UnderWay' = UnderWay
  BY <1>2 DEF Block, WrittenLength, UnderWay
<1>4. net' \in Seq(Unit) /\ Coming' = Append(Coming, AnOther)
  <2>1. net \in Seq(Unit) /\ Block \in Seq(Unit) /\ AnOther \in Unit
    BY <1>1 DEF FileTypes, Unit
  <2>2. Block \o Append(net, AnOther) = Append(Block \o net, AnOther)
    BY <2>1, AppendIsConcat, ConcatProperties, ConcatAssociative
  <2> QED BY <1>2, <1>3, <2>1, <2>2 DEF Coming
<1>5. FileTypes' /\ FileSoFar' /\ ListSoFar'
  BY <1>1, <1>2, <1>3, <1>4 DEF FileTypes, FileSoFar, ListSoFar, ListedAll, listing
<1>6. StreamSoFar'
  <2>1. /\ OnlyOthers(Coming) => OnlyOthers(Coming')
        /\ \A i \in Requests : \A p \in 1..Len(Coming) :
             AskedAt(Coming, p, i) => p \in 1..Len(Coming') /\ AskedAt(Coming', p, i)
        /\ \A n, w \in Nat : BytesNext(Coming, n, w) => BytesNext(Coming', n, w)
    BY <1>1, <1>4, InHand, OtherComes
  <2>2. UnderWay => requested \in Requests
    BY <1>1, UnderWayIs
  <2>3. compressedSize \in Nat /\ Len(written) \in Nat
    BY <1>1 DEF FileTypes
  <2>4. place = "deferred" => UnderWay /\ AskedAt(Coming', 1, requested)
    <3>1. place = "deferred" => UnderWay /\ AskedAt(Coming, 1, requested)
      BY <1>1, UnderWayOrNot DEF StreamSoFar
    <3>2. AskedAt(Coming, 1, requested) => 1 \in 1..Len(Coming)
      BY DEF AskedAt
    <3> QED BY <2>1, <2>2, <3>1, <3>2
  <2> QED BY <1>1, <1>2, <1>3, <2>1, <2>2, <2>3, <2>4 DEF StreamSoFar
<1> QED BY <1>5, <1>6 DEF FileInv

\* Buffers are lent: what is on its way stays.
LEMMA LentNext == ASSUME FileInv, BuffersLent, FileMishaps = {} PROVE FileInv'
<1>1. FileTypes /\ FileSoFar /\ ListSoFar /\ StreamSoFar
  BY DEF FileInv
<1>2. PICK n \in 1..Len(net) :
        net' = SubSeq(net, n + 1, Len(net)) /\ rds' = <<SubSeq(net, 1, n)>>
  BY DEF BuffersLent, Lent
<1>3. /\ UNCHANGED <<compressedSize, fRefNum, listing, inProgress, frameOn, directory, requested, answered, written>>
      /\ \/ place = "receive" /\ place' = "process"
         \/ place = "receiveMore" /\ place' = "fragment"
  <2>1. UNCHANGED <<upload, listing, frames, directory, peer, answered, written>>
    BY DEF BuffersLent
  <2>2. \/ place = "receive" /\ place' = "process"
        \/ place = "receiveMore" /\ place' = "fragment"
    BY DEF BuffersLent
  <2> QED BY <2>1, <2>2 DEF upload, frames, peer
<1>4. /\ Block' = SubSeq(net, 1, n) /\ rds' = <<Block'>> /\ Block' \in Seq(Unit) /\ Block' # <<>>
      /\ net' \in Seq(Unit) /\ Block' \o net' = net
  BY <1>1, <1>2, LentIs DEF FileTypes, Block
<1>5. Coming' = Coming
  <2>1. Block = <<>> /\ net \in Seq(Unit)
    BY <1>1, <1>3 DEF StreamSoFar, FileTypes
  <2>2. Coming = net
    BY <2>1, ConcatEmptySeq DEF Coming
  <2> QED BY <1>4, <2>2 DEF Coming
<1>6. WrittenLength' = WrittenLength /\ UnderWay' = UnderWay
  BY <1>3 DEF WrittenLength, UnderWay
<1>7. FileTypes' /\ FileSoFar' /\ ListSoFar'
  BY <1>1, <1>3, <1>4, <1>6 DEF FileTypes, FilePlaces, FileSoFar, ListSoFar, ListedAll, listing
<1>8. StreamSoFar'
  BY <1>1, <1>3, <1>4, <1>5, <1>6 DEF StreamSoFar
<1> QED BY <1>7, <1>8 DEF FileInv

\* Another message is read.
LEMMA OtherRead == ASSUME FileInv, OtherMessage, FileMishaps = {} PROVE FileInv'
<1>1. FileTypes /\ FileSoFar /\ ListSoFar /\ StreamSoFar
  BY DEF FileInv
<1>2. /\ UNCHANGED <<net, compressedSize, fRefNum, listing, inProgress, frameOn, directory, requested, answered, written>>
      /\ place = "process" /\ Head(Block) = AnOther /\ Skip(1)
      /\ place' = IF rds'[1] = <<>> THEN "receive" ELSE "process"
  BY DEF OtherMessage, GoesOn, frames, peer
<1>3. Block # <<>> /\ 1 \in 0..Len(Block)
  BY <1>1, <1>2 DEF StreamSoFar, FileTypes
<1>4. rds' = <<Block'>> /\ Block' \in Seq(Unit) /\ Coming' = After(Coming, 1)
  BY <1>1, <1>2, <1>3, SkipIs
<1>5. place' = (IF Block' = <<>> THEN "receive" ELSE "process")
  BY <1>2 DEF Block
<1>6. WrittenLength' = WrittenLength /\ UnderWay' = UnderWay
  BY <1>2, <1>5 DEF WrittenLength, UnderWay
<1>7. FileTypes' /\ FileSoFar' /\ ListSoFar'
  BY <1>1, <1>2, <1>4, <1>5, <1>6 DEF FileTypes, FilePlaces, FileSoFar, ListSoFar, ListedAll, listing
<1>8. StreamSoFar'
  <2>1. Coming \in Seq(Unit) /\ Coming # <<>> /\ Head(Coming) = AnOther
    BY <1>1, <1>2, <1>3, InHand
  <2>2. /\ OnlyOthers(Coming) => OnlyOthers(Coming')
        /\ \A i \in Requests : \A p \in 1..Len(Coming) :
             AskedAt(Coming, p, i) => p - 1 \in 1..Len(Coming') /\ AskedAt(Coming', p - 1, i)
    BY <1>4, <2>1, AfterOther
  <2>3. UnderWay => requested \in Requests
    BY <1>1, UnderWayIs
  <2> QED BY <1>1, <1>2, <1>5, <1>6, <2>2, <2>3 DEF StreamSoFar
<1> QED BY <1>7, <1>8 DEF FileInv

\* The request waits for the event loop, which finds it first in the buffer.
LEMMA PutAsideNext == ASSUME FileInv, PutAside PROVE FileInv'
<1>1. FileTypes /\ FileSoFar /\ ListSoFar /\ StreamSoFar
  BY DEF FileInv
<1>2. /\ UNCHANGED <<net, rds, compressedSize, fRefNum, listing, inProgress, frameOn, directory, requested, answered, written>>
      /\ place = "process" /\ Head(Block)[1] = "ask" /\ place' = "deferred"
  BY DEF PutAside, upload, frames, peer
<1>3. WrittenLength' = WrittenLength /\ UnderWay' = UnderWay /\ Block' = Block /\ Coming' = Coming
  BY <1>2 DEF WrittenLength, UnderWay, Block, Coming
<1>4. FileTypes' /\ FileSoFar' /\ ListSoFar'
  BY <1>1, <1>2, <1>3 DEF FileTypes, FilePlaces, FileSoFar, ListSoFar, ListedAll, listing
<1>5. StreamSoFar'
  <2>1. Block # <<>> /\ Coming[1][1] = "ask" /\ Len(Coming) \in Nat /\ 1 \in 1..Len(Coming)
    <3>1. Block # <<>>
      BY <1>1, <1>2 DEF StreamSoFar
    <3>2. Coming \in Seq(Unit) /\ Coming # <<>> /\ Head(Block) = Coming[1]
      BY <1>1, <3>1, InHand
    <3> QED BY <1>2, <3>1, <3>2
  <2>2. Coming[1] # AnOther
    BY <2>1 DEF AnOther
  <2>3. UnderWay
    BY <1>1, <2>1, <2>2 DEF FileTypes, StreamSoFar, OnlyOthers
  <2>4. PICK p \in 1..Len(Coming) : AskedAt(Coming, p, requested)
    BY <1>1, <1>2, <2>3 DEF StreamSoFar
  <2>5. p = 1
    BY <2>1, <2>2, <2>4 DEF AskedAt
  <2>6. requested # answered
    BY <1>1, <2>3, UnderWayIs
  <2> QED BY <1>1, <1>2, <1>3, <2>1, <2>4, <2>5, <2>6 DEF StreamSoFar
<1> QED BY <1>4, <1>5 DEF FileInv

\* An upload begins, before any data.
LEMMA StartTaken == ASSUME FileInv, OneUpload, FileUploadStart PROVE FileInv'
<1>1. FileTypes /\ FileSoFar /\ ListSoFar /\ StreamSoFar
  BY DEF FileInv
<1>2. /\ UNCHANGED <<net, compressedSize, listing, inProgress, frameOn, directory, requested, answered>>
      /\ Dispatches("start") /\ fRefNum' = OurFile /\ written' = <<>> /\ place' = "reply"
      /\ place = "deferred"
  BY DEF FileUploadStart, Dispatches, frames, peer
<1>3. /\ UnderWay /\ Asks(requested) = "start" /\ rds' = <<Block'>> /\ Block' \in Seq(Unit)
      /\ OnlyOthers(Coming') /\ BytesUpTo(requested) = BytesUpTo(answered)
      /\ Len(written) = BytesUpTo(answered)
  BY <1>2, DispatchIs
<1>4. requested \in Requests /\ requested # answered
  BY <1>1, <1>3, UnderWayIs
<1>5. written = <<>>
  <2>1. \A i \in 1..requested : i \in Requests /\ (i < requested \/ i = requested)
    BY <1>4, RequestFacts
  <2>2. \A i \in 1..requested : Asks(i) # "data"
    BY <1>3, <1>4, <2>1 DEF OneUpload
  <2> QED BY <1>1, <2>2 DEF FileSoFar
<1>6. FileTypes'
  BY <1>1, <1>2, <1>3 DEF FileTypes, FilePlaces, UnderWay
<1>7. FileSoFar'
  BY <1>1, <1>2, <1>3, <1>5 DEF FileSoFar, WrittenLength
<1>8. ListSoFar'
  BY <1>1, <1>2, <1>3, <1>4 DEF ListSoFar, ListedAll, listing
<1>9. StreamSoFar'
  BY <1>2, <1>3, <1>4 DEF StreamSoFar
<1> QED BY <1>6, <1>7, <1>8, <1>9 DEF FileInv

\* Data are announced, and the file is open.
LEMMA DataTaken == ASSUME FileInv, OneUpload, FileUploadData PROVE FileInv'
<1>1. FileTypes /\ FileSoFar /\ ListSoFar /\ StreamSoFar
  BY DEF FileInv
<1>2. /\ UNCHANGED <<net, fRefNum, listing, inProgress, frameOn, directory, requested, answered, written>>
      /\ Dispatches("data") /\ compressedSize' = FileRequests[Head(Block)[2]].chunk
      /\ place' = "fragment" /\ place = "deferred"
  BY DEF FileUploadData, Dispatches, frames, peer
<1>3. /\ UnderWay /\ Asks(requested) = "data" /\ rds' = <<Block'>> /\ Block' \in Seq(Unit)
      /\ BytesNext(Coming', Chunk(requested), BytesUpTo(answered))
      /\ Len(written) = BytesUpTo(answered) /\ Head(Block)[2] = requested
  BY <1>2, DispatchIs
<1>4. /\ requested \in Requests /\ requested # answered /\ answered = requested - 1
      /\ BytesUpTo(requested) = BytesUpTo(answered) + Chunk(requested)
      /\ BytesUpTo(answered) \in Nat /\ Chunk(requested) \in Nat /\ answered \in Nat
  BY <1>1, <1>3, UnderWayIs DEF FileTypes
<1>5. compressedSize' = Chunk(requested)
  BY <1>2, <1>3 DEF Chunk
<1>6. fRefNum = OurFile
  <2>1. PICK j \in 1..requested : Asks(j) = "start"
    BY <1>3, <1>4 DEF OneUpload
  <2>2. j \in 1..answered
    BY <1>3, <1>4, <2>1, RequestFacts
  <2> QED BY <1>1, <2>1, <2>2 DEF FileSoFar
<1>7. FileTypes'
  BY <1>1, <1>2, <1>3, <1>4, <1>5 DEF FileTypes, FilePlaces, UnderWay
<1>8. FileSoFar'
  <2>1. WrittenLength' = BytesUpTo(answered)
    BY <1>2, <1>4, <1>5 DEF WrittenLength
  <2> QED BY <1>1, <1>2, <1>3, <2>1 DEF FileSoFar
<1>9. ListSoFar'
  BY <1>1, <1>2, <1>4 DEF ListSoFar, ListedAll, listing
<1>10. StreamSoFar'
  BY <1>2, <1>3, <1>4, <1>5, <1>6 DEF StreamSoFar
<1> QED BY <1>7, <1>8, <1>9, <1>10 DEF FileInv

\* The upload ends.
LEMMA EndTaken == ASSUME FileInv, OneUpload, FileUploadEnd PROVE FileInv'
<1>1. FileTypes /\ FileSoFar /\ ListSoFar /\ StreamSoFar
  BY DEF FileInv
<1>2. /\ UNCHANGED <<net, compressedSize, fRefNum, listing, inProgress, frameOn, directory, requested, answered, written>>
      /\ Dispatches("end") /\ place' = "reply" /\ place = "deferred"
  BY DEF FileUploadEnd, Dispatches, frames, peer, upload
<1>3. /\ UnderWay /\ Asks(requested) = "end" /\ rds' = <<Block'>> /\ Block' \in Seq(Unit)
      /\ OnlyOthers(Coming') /\ BytesUpTo(requested) = BytesUpTo(answered)
      /\ Len(written) = BytesUpTo(answered)
  BY <1>2, DispatchIs
<1>4. requested \in Requests /\ requested # answered
  BY <1>1, <1>3, UnderWayIs
<1>5. FileTypes'
  BY <1>1, <1>2, <1>3 DEF FileTypes, FilePlaces, UnderWay
<1>6. FileSoFar'
  BY <1>1, <1>2, <1>3 DEF FileSoFar, WrittenLength
<1>7. ListSoFar'
  BY <1>1, <1>2, <1>3, <1>4 DEF ListSoFar, ListedAll, listing
<1>8. StreamSoFar'
  BY <1>2, <1>3, <1>4 DEF StreamSoFar
<1> QED BY <1>5, <1>6, <1>7, <1>8 DEF FileInv

\* A round of an upload writes what the buffer has of the rest.
LEMMA FragmentRead == ASSUME FileInv, UploadDataFragment PROVE FileInv'
<1>1. FileTypes /\ FileSoFar /\ ListSoFar /\ StreamSoFar
  BY DEF FileInv
<1> DEFINE n == BytesRead
<1>2. /\ UNCHANGED <<net, fRefNum, listing, inProgress, frameOn, directory, requested, answered>>
      /\ place = "fragment" /\ compressedSize > 0 /\ Skip(n) /\ compressedSize' = compressedSize - n
      /\ written' = IF fRefNum = OurFile THEN written \o SubSeq(Block, 1, n) ELSE written
      /\ place' = IF rds'[1] = <<>> THEN "receiveMore" ELSE "fragment"
  BY DEF UploadDataFragment, frames, peer
<1>3. /\ Asks(requested) = "data" /\ fRefNum = OurFile /\ UnderWay
      /\ BytesNext(Coming, compressedSize, Len(written))
  BY <1>1, <1>2, UnderWayOrNot DEF StreamSoFar
<1>4. /\ Block \in Seq(Unit) /\ written \in Seq(Unit) /\ compressedSize \in Nat
      /\ Len(Block) \in Nat /\ Len(written) \in Nat
  BY <1>1 DEF FileTypes
<1>5. n \in 0..Len(Block) /\ n \in 0..compressedSize
  BY <1>4 DEF BytesRead
<1> HIDE DEF n
<1>6. rds' = <<Block'>> /\ Block' \in Seq(Unit) /\ Coming' = After(Coming, n)
  BY <1>1, <1>2, <1>5, SkipIs
<1>7. BytesNext(Coming', compressedSize', Len(written) + n)
  BY <1>1, <1>2, <1>3, <1>4, <1>5, <1>6, InHand, AfterBytes
<1>8. /\ written' \in Seq(Unit) /\ Len(written') = Len(written) + n
      /\ \A k \in 1..Len(written') : written'[k] = Byte(k)
  <2> DEFINE b == SubSeq(Block, 1, n)
  <2>1. b \in Seq(Unit) /\ Len(b) = n /\ \A k \in 1..n : b[k] = Block[k]
    BY <1>4, <1>5
  <2>2. written' = written \o b
    BY <1>2, <1>3
  <2> HIDE DEF b
  <2>3. /\ written' \in Seq(Unit) /\ Len(written') = Len(written) + n
        /\ \A k \in 1..(Len(written) + n) :
             written'[k] = IF k <= Len(written) THEN written[k] ELSE b[k - Len(written)]
    BY <1>4, <2>1, <2>2, ConcatProperties
  <2>4. ASSUME NEW k \in 1..(Len(written) + n) PROVE written'[k] = Byte(k)
    <3>1. CASE k <= Len(written)
      <4>1. k \in 1..Len(written)
        BY <1>4, <1>5, <3>1
      <4> QED BY <1>1, <2>3, <2>4, <3>1, <4>1 DEF FileSoFar
    <3>2. CASE ~(k <= Len(written))
      <4> DEFINE m == k - Len(written)
      <4>1. m \in 1..n /\ m \in 1..Len(Block) /\ m \in 1..compressedSize /\ Len(written) + m = k
        BY <1>4, <1>5, <3>2
      <4>2. written'[k] = b[m]
        BY <2>3, <2>4, <3>2
      <4> HIDE DEF m
      <4>3. b[m] = Coming[m]
        BY <1>1, <2>1, <4>1, InHand
      <4>4. Coming[m] = Byte(Len(written) + m)
        BY <1>3, <4>1 DEF BytesNext
      <4> QED BY <4>1, <4>2, <4>3, <4>4
    <3> QED BY <3>1, <3>2
  <2> QED BY <2>3, <2>4
<1>9. compressedSize' \in Nat /\ place' \in {"fragment", "receiveMore"}
      /\ (place' = "receiveMore" => Block' = <<>>)
  BY <1>2, <1>4, <1>5 DEF Block
<1>10. requested \in Requests /\ requested # answered /\ BytesUpTo(requested) \in Nat
  BY <1>1, <1>3, UnderWayIs
<1>11. FileTypes'
  BY <1>1, <1>2, <1>3, <1>6, <1>8, <1>9 DEF FileTypes, FilePlaces, UnderWay
<1>12. FileSoFar'
  <2>1. WrittenLength' = BytesUpTo(requested) - (compressedSize - n)
    BY <1>2, <1>9 DEF WrittenLength
  <2>2. Len(written) = BytesUpTo(requested) - compressedSize
    BY <1>1, <1>2 DEF FileSoFar, WrittenLength
  <2>3. Len(written') = WrittenLength'
    BY <1>4, <1>5, <1>8, <1>10, <2>1, <2>2
  <2>4. requested \in 1..requested
    BY <1>10, RequestFacts
  <2> QED BY <1>1, <1>2, <1>3, <1>8, <1>9, <2>3, <2>4 DEF FileSoFar
<1>13. ListSoFar'
  BY <1>1, <1>2, <1>9, <1>10 DEF ListSoFar, ListedAll, listing
<1>14. StreamSoFar'
  BY <1>2, <1>3, <1>7, <1>8, <1>9, <1>10 DEF StreamSoFar
<1> QED BY <1>11, <1>12, <1>13, <1>14 DEF FileInv

\* All data were read.
LEMMA DataRead == ASSUME FileInv, UploadedData PROVE FileInv'
<1>1. FileTypes /\ FileSoFar /\ ListSoFar /\ StreamSoFar
  BY DEF FileInv
<1>2. /\ UNCHANGED <<net, rds, compressedSize, fRefNum, listing, inProgress, frameOn, directory, requested, answered, written>>
      /\ place = "fragment" /\ compressedSize = 0 /\ place' = "reply"
  BY DEF UploadedData, frames, peer, upload
<1>3. /\ Asks(requested) = "data" /\ UnderWay /\ BytesNext(Coming, 0, Len(written))
  BY <1>1, <1>2, UnderWayOrNot DEF StreamSoFar
<1>4. requested \in Requests /\ requested # answered /\ BytesUpTo(requested) \in Nat
  BY <1>1, <1>3, UnderWayIs
<1>5. OnlyOthers(Coming)
  <2>1. Len(Coming) \in Nat
    BY <1>1, InHand
  <2> QED BY <1>3, <2>1 DEF BytesNext, OnlyOthers
<1>6. Block' = Block /\ Coming' = Coming
  BY <1>2 DEF Block, Coming
<1>7. FileTypes'
  BY <1>1, <1>2, <1>6 DEF FileTypes, FilePlaces, UnderWay
<1>8. FileSoFar'
  BY <1>1, <1>2, <1>3, <1>4 DEF FileSoFar, WrittenLength
<1>9. ListSoFar'
  BY <1>1, <1>2, <1>3, <1>4 DEF ListSoFar, ListedAll, listing
<1>10. StreamSoFar'
  BY <1>2, <1>4, <1>5, <1>6 DEF StreamSoFar
<1> QED BY <1>7, <1>8, <1>9, <1>10 DEF FileInv

\* The reply ends the request.
LEMMA ReplyIsSent == ASSUME FileInv, ReplySent, FileMishaps = {} PROVE FileInv'
<1>1. FileTypes /\ FileSoFar /\ ListSoFar /\ StreamSoFar
  BY DEF FileInv
<1>2. /\ UNCHANGED <<net, rds, compressedSize, fRefNum, listing, frameOn, directory, requested, written>>
      /\ place = "reply" /\ ~frameOn /\ answered' = answered + 1
      /\ place' = IF rds'[1] = <<>> THEN "receive" ELSE "process"
  BY DEF ReplySent, GoesOn, peer, upload
<1>3. UnderWay /\ OnlyOthers(Coming)
  BY <1>1, <1>2, UnderWayOrNot DEF StreamSoFar
<1>4. requested = answered' /\ answered' # requested + 1 /\ answered \in Nat /\ requested # answered
  BY <1>1, <1>2, <1>3 DEF UnderWay, FileTypes
<1>5. /\ Block' = Block /\ Coming' = Coming /\ place' \in {"receive", "process"}
      /\ (place' = "receive" => Block = <<>>) /\ (place' = "process" => Block # <<>>)
  BY <1>2 DEF Block, Coming
<1>6. ~UnderWay'
  BY <1>1, <1>2, <1>4 DEF UnderWay, FileTypes
<1>7. FileTypes'
  BY <1>1, <1>2, <1>4, <1>5 DEF FileTypes, FilePlaces
<1>8. FileSoFar'
  <2>1. WrittenLength' = BytesUpTo(requested) /\ WrittenLength = BytesUpTo(requested)
    BY <1>2, <1>4, <1>5 DEF WrittenLength
  <2>2. \A i \in 1..answered' : i \in 1..answered \/ i = requested
    BY <1>2, <1>4
  <2> QED BY <1>1, <1>2, <1>5, <2>1, <2>2 DEF FileSoFar
<1>9. ListSoFar'
  BY <1>1, <1>2, <1>4, <1>5 DEF ListSoFar, ListedAll, listing
<1>10. StreamSoFar'
  BY <1>2, <1>3, <1>4, <1>5, <1>6 DEF StreamSoFar
<1> QED BY <1>7, <1>8, <1>9, <1>10 DEF FileInv

\* A frame begins and ends where no list is made.
LEMMA FramesApart ==
  ASSUME FileInv, (FrameBegins /\ FileMishaps = {}) \/ FrameEnds
  PROVE  FileInv'
<1>1. FileTypes /\ FileSoFar /\ ListSoFar /\ StreamSoFar
  BY DEF FileInv
<1>2. /\ UNCHANGED <<net, rds, place, compressedSize, fRefNum, listing, directory, requested, answered, written>>
      /\ frameOn' => inProgress' /\ place # "listing"
      /\ frameOn' = FALSE \/ frameOn' = TRUE
  <2>1. CASE FrameBegins /\ FileMishaps = {}
    BY <2>1 DEF FrameBegins, upload, peer
  <2>2. CASE FrameEnds
    BY <2>2 DEF FrameEnds, upload, peer
  <2> QED BY <2>1, <2>2
<1>3. /\ Block' = Block /\ Coming' = Coming /\ UnderWay' = UnderWay
      /\ WrittenLength' = WrittenLength
  BY <1>2 DEF Block, Coming, UnderWay, WrittenLength
<1>4. FileTypes' /\ FileSoFar'
  BY <1>1, <1>2, <1>3 DEF FileTypes, FileSoFar
<1>5. ListSoFar'
  BY <1>1, <1>2, <1>3 DEF ListSoFar, ListedAll, listing
<1>6. StreamSoFar'
  BY <1>1, <1>2, <1>3 DEF StreamSoFar
<1> QED BY <1>4, <1>5, <1>6 DEF FileInv

\* A directory is counted.
LEMMA ListTaken == ASSUME FileInv, OneUpload, FileList PROVE FileInv'
<1>1. FileTypes /\ FileSoFar /\ ListSoFar /\ StreamSoFar
  BY DEF FileInv
<1>2. /\ UNCHANGED <<net, compressedSize, fRefNum, inProgress, frameOn, directory, requested, answered, written>>
      /\ Dispatches("list") /\ place' = "listing" /\ place = "deferred"
      /\ nEntries' = Len(directory) /\ announced' = SumOf(directory) /\ index' = 0 /\ listed' = <<>>
  BY DEF FileList, Dispatches, frames, peer, upload
<1>3. /\ UnderWay /\ Asks(requested) = "list" /\ rds' = <<Block'>> /\ Block' \in Seq(Unit)
      /\ OnlyOthers(Coming') /\ BytesUpTo(requested) = BytesUpTo(answered)
      /\ Len(written) = BytesUpTo(answered) /\ ~inProgress
  BY <1>2, DispatchIs
<1>4. requested \in Requests /\ requested # answered
  BY <1>1, <1>3, UnderWayIs
<1>5. FileTypes'
  BY <1>1, <1>2, <1>3 DEF FileTypes, FilePlaces, UnderWay
<1>6. FileSoFar'
  BY <1>1, <1>2, <1>3 DEF FileSoFar, WrittenLength
<1>7. ListSoFar'
  <2>1. Len(Directory) \in Nat /\ SubSeq(Directory, 1, 0) = <<>> /\ directory = Directory
    BY <1>1, FileAssumption, SubSeqEmpty DEF FileTypes
  <2>2. ~frameOn
    BY <1>1, <1>3 DEF ListSoFar
  <2> QED BY <1>1, <1>2, <1>3, <1>4, <2>1, <2>2 DEF ListSoFar
<1>8. StreamSoFar'
  BY <1>2, <1>3, <1>4 DEF StreamSoFar
<1> QED BY <1>5, <1>6, <1>7, <1>8 DEF FileInv

\* Some of the entries find room, when there are any, and no more than there are.
LEMMA SomeFit ==
  ASSUME NEW e \in Seq(Nat), NEW room \in Nat, Len(e) > 0 => e[1] <= room
  PROVE  Fitting(e, room) \in 0..Len(e) /\ (Len(e) > 0 => Fitting(e, room) > 0)
<1> DEFINE fits == {n \in 0..Len(e) : SumOf(SubSeq(e, 1, n)) <= room}
           most == CHOOSE n \in fits : \A k \in fits : k <= n
<1>1. 0 \in fits
  <2>1. SubSeq(e, 1, 0) \in Seq(Nat) /\ Len(SubSeq(e, 1, 0)) = 0 /\ 0 \in 0..Len(e)
    OBVIOUS
  <2>2. SumOf(SubSeq(e, 1, 0)) = 0
    BY <2>1, SumOfFew
  <2> QED BY <2>1, <2>2
<1>2. Len(e) > 0 => 1 \in fits
  <2> SUFFICES ASSUME Len(e) > 0 PROVE 1 \in fits
    OBVIOUS
  <2>1. SubSeq(e, 1, 1) \in Seq(Nat) /\ Len(SubSeq(e, 1, 1)) = 1 /\ SubSeq(e, 1, 1)[1] = e[1]
        /\ 1 \in 0..Len(e)
    OBVIOUS
  <2>2. SumOf(SubSeq(e, 1, 1)) = e[1]
    BY <2>1, SumOfFew
  <2> QED BY <2>1, <2>2
<1>3. \E n \in fits : \A k \in fits : k <= n
  <2> DEFINE left == {Len(e) - n : n \in fits}
  <2>1. left \in SUBSET Nat /\ left # {} /\ fits \in SUBSET (0..Len(e)) /\ Len(e) \in Nat
    BY <1>1
  <2> HIDE DEF fits
  <2>2. PICK m \in left : \A k \in left : m <= k
    <3> HIDE DEF left
    <3> QED BY <2>1, LeastOf
  <2>3. PICK n \in fits : m = Len(e) - n
    OBVIOUS
  <2>4. \A k \in fits : m <= Len(e) - k
    BY <2>2
  <2> QED BY <2>1, <2>3, <2>4
<1>4. Fitting(e, room) = most
  BY DEF Fitting
<1>5. most \in fits /\ \A k \in fits : k <= most
  <2> HIDE DEF fits
  <2> QED BY <1>3
<1>6. most \in 0..Len(e)
  <2>1. \A n \in fits : n \in 0..Len(e)
    OBVIOUS
  <2> HIDE DEF fits
  <2> QED BY <1>5, <2>1
<1> HIDE DEF most, fits
<1> QED BY <1>2, <1>4, <1>5, <1>6

\* A piece of the list has at least one more entry.
LEMMA EntriesSent == ASSUME FileInv, DirEntries, FileMishaps = {} PROVE FileInv'
<1>1. FileTypes /\ FileSoFar /\ ListSoFar /\ StreamSoFar
  BY DEF FileInv
<1> DEFINE e == SubSeq(Directory, index + 1, Len(Directory))
           room == RoomFor(index = 0)
           n == Fitting(e, room)
<1>2. directory' = Directory
  BY <1>1 DEF DirEntries, MayFind, FileTypes
<1>3. /\ UNCHANGED <<net, rds, compressedSize, fRefNum, nEntries, announced, frameOn, requested, answered, written>>
      /\ place = "listing" /\ index' = index + n
      /\ listed' = listed \o [i \in 1..n |-> Directory[index + i]]
      /\ inProgress' = TRUE /\ place' = IF index' = nEntries THEN "reply" ELSE "listing"
  BY <1>2 DEF DirEntries, peer, upload
<1>4. /\ nEntries = Len(Directory) /\ announced = SumOf(Directory) /\ Asks(requested) = "list"
      /\ index \in 0..nEntries /\ (nEntries > 0 => index < nEntries)
      /\ listed = SubSeq(Directory, 1, index) /\ ~frameOn /\ UnderWay /\ OnlyOthers(Coming)
  BY <1>1, <1>3, UnderWayOrNot DEF ListSoFar, StreamSoFar
<1>5. /\ Directory \in Seq(Nat) /\ Len(Directory) \in Nat /\ ListBuffer \in Nat /\ ListHeader \in 0..ListBuffer
      /\ \A i \in 1..Len(Directory) : ListHeader + Directory[i] <= ListBuffer /\ Directory[i] \in Nat
  <2>1. Directory \in Seq(Nat \ {0})
    BY FileAssumption
  <2> QED BY <2>1, FileAssumption
<1>6. /\ e \in Seq(Nat) /\ Len(e) = Len(Directory) - index
      /\ Len(e) > 0 => e[1] = Directory[index + 1] /\ index + 1 \in 1..Len(Directory)
  <2>1. index \in 0..Len(Directory)
    BY <1>4
  <2> QED BY <1>5, <2>1
<1>7. room \in Nat /\ (Len(e) > 0 => e[1] <= room)
  <2>1. room = ListBuffer \/ room = ListBuffer - ListHeader
    BY <1>5 DEF RoomFor
  <2>2. room \in Nat
    BY <1>5, <2>1
  <2>3. ASSUME Len(e) > 0 PROVE e[1] <= room
    <3>1. /\ e[1] \in Nat /\ ListHeader + e[1] <= ListBuffer
      BY <1>5, <1>6, <2>3
    <3> HIDE DEF e, room
    <3> QED BY <1>5, <2>1, <3>1
  <2> QED BY <2>2, <2>3
<1>8. n \in 0..Len(e) /\ (Len(e) > 0 => n > 0)
  <2> HIDE DEF e, room
  <2> QED BY <1>6, <1>7, SomeFit
<1> HIDE DEF n, e, room
<1>9. index' \in 0..nEntries /\ n \in 0..(Len(Directory) - index)
      /\ (place' = "listing" => index' < nEntries)
      /\ (place' = "reply" => index' = Len(Directory)) /\ place' \in {"listing", "reply"}
  BY <1>3, <1>4, <1>5, <1>6, <1>8
<1>10. listed' = SubSeq(Directory, 1, index')
  <2> DEFINE a == SubSeq(Directory, 1, index)
             b == [i \in 1..n |-> Directory[index + i]]
             c == SubSeq(Directory, 1, index')
  <2>0. index \in 0..Len(Directory) /\ n \in Nat /\ index' = index + n /\ index + n <= Len(Directory)
    BY <1>3, <1>4, <1>5, <1>9
  <2>1. a \in Seq(Nat) /\ Len(a) = index /\ \A k \in 1..index : a[k] = Directory[k]
    BY <1>5, <2>0
  <2>2. b \in Seq(Nat) /\ Len(b) = n /\ \A k \in 1..n : b[k] = Directory[index + k]
    <3>1. \A i \in 1..n : index + i \in 1..Len(Directory)
      BY <1>5, <2>0
    <3> QED BY <1>5, <2>0, <3>1
  <2>3. c \in Seq(Nat) /\ Len(c) = index + n /\ \A k \in 1..(index + n) : c[k] = Directory[k]
    BY <1>5, <2>0
  <2>4. listed' = a \o b
    BY <1>3, <1>4
  <2> HIDE DEF a, b, c
  <2>5. /\ a \o b \in Seq(Nat) /\ Len(a \o b) = index + n
        /\ \A k \in 1..(index + n) : (a \o b)[k] = IF k <= index THEN a[k] ELSE b[k - index]
    BY <2>1, <2>2, ConcatProperties
  <2>6. ASSUME NEW k \in 1..(index + n) PROVE (a \o b)[k] = c[k]
    <3>1. CASE k <= index
      <4>1. k \in 1..index
        BY <2>0, <3>1
      <4> QED BY <2>1, <2>3, <2>5, <3>1, <4>1
    <3>2. CASE ~(k <= index)
      <4>1. k - index \in 1..n /\ index + (k - index) = k
        BY <2>0, <3>2
      <4>2. b[k - index] = Directory[index + (k - index)]
        BY <2>2, <4>1
      <4> QED BY <2>3, <2>5, <3>2, <4>1, <4>2
    <3> QED BY <3>1, <3>2
  <2>7. a \o b = c
    BY <2>3, <2>5, <2>6, SeqEqual
  <2> QED BY <2>4, <2>7 DEF c
<1>11. Block' = Block /\ Coming' = Coming
  BY <1>3 DEF Block, Coming
<1>12. requested # answered
  BY <1>1, <1>4, UnderWayIs
<1>13. FileTypes'
  BY <1>1, <1>2, <1>3, <1>9, <1>11 DEF FileTypes, FilePlaces, UnderWay
<1>14. FileSoFar'
  BY <1>1, <1>3, <1>4, <1>9 DEF FileSoFar, WrittenLength
<1>15. ListSoFar'
  <2>1. index' = Len(Directory) => listed' = Directory
    <3>1. SubSeq(Directory, 1, Len(Directory)) = Directory
      BY <1>5
    <3> QED BY <1>10, <3>1
  <2> QED BY <1>3, <1>4, <1>9, <1>10, <1>12, <2>1 DEF ListSoFar, ListedAll
<1>16. StreamSoFar'
  BY <1>3, <1>4, <1>9, <1>11, <1>12 DEF StreamSoFar
<1> QED BY <1>13, <1>14, <1>15, <1>16 DEF FileInv

\* No step breaks the invariant.
LEMMA FileStep ==
  ASSUME FileInv, OneUpload, FileMishaps = {}, [FileNext]_fvars
  PROVE  FileInv'
<1>1. CASE UNCHANGED fvars
  <2>1. UNCHANGED <<net, rds, place, inProgress, compressedSize, fRefNum, nEntries, index, directory,
                    frameOn, requested, answered, written, listed, announced>>
    BY <1>1 DEF fvars, upload, listing, frames, peer
  <2>2. /\ Block' = Block /\ Coming' = Coming /\ UnderWay' = UnderWay
        /\ WrittenLength' = WrittenLength
    BY <2>1 DEF Block, Coming, UnderWay, WrittenLength
  <2> QED BY <2>1, <2>2 DEF FileInv, FileTypes, FileSoFar, ListSoFar, ListedAll, StreamSoFar
<1> QED BY <1>1, RequestSent, OtherSent, LentNext, OtherRead, PutAsideNext, StartTaken, DataTaken,
           EndTaken, FragmentRead, DataRead, ListTaken, EntriesSent, ReplyIsSent, FramesApart
        DEF FileNext

\* The file on the server is, at any time, what the client has sent, in this order, and
\* whole when a request was answered, over any number of receives and with any other
\* messages between; and every entry of a directory is listed once, in the order, as long as
\* was announced. This for one upload, with other requests before, between and after.
THEOREM FilesWhole ==
  ASSUME FileMishaps = {}, OneUpload
  PROVE  FileSpec => []TransfersWhole
<1>1. FileInv => TransfersWhole
  <2> SUFFICES ASSUME FileInv PROVE TransfersWhole
    OBVIOUS
  <2>1. FileTypes /\ FileSoFar /\ ListSoFar /\ StreamSoFar
    BY DEF FileInv
  <2>2. \A k \in DOMAIN written : written[k] = Byte(k)
    BY <2>1 DEF FileTypes, FileSoFar
  <2>3. answered = requested => Len(written) = BytesUpTo(answered)
    BY <2>1 DEF FileSoFar, WrittenLength, StreamSoFar
  <2>4. /\ answered > 0 /\ answered = requested /\ Asks(answered) = "list" => ListedAll
        /\ place = "listing" /\ nEntries > 0 => index < Len(directory)
        /\ ~(frameOn /\ place = "listing")
    BY <2>1 DEF ListSoFar, FileTypes
  <2> QED BY <2>2, <2>3, <2>4 DEF TransfersWhole, ListedAll, Asks
<1>2. FileInv /\ [FileNext]_fvars => FileInv'
  BY FileStep
<1> QED BY <1>1, <1>2, FileBegins, PTL DEF FileSpec
=============================================================================
