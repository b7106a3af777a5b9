-------------------------- MODULE EncoderSetup_proofs --------------------------
(* Proofs about EncoderSetup: what is in place when a frame is sent, for all  *)
(* depths, settings, formats and sizes; and about WirePixels: the colours of  *)
(* a frame. Each theorem names the mishaps that it does not admit; memory may *)
(* run out in all those about EncoderSetup.                                   *)
EXTENDS EncoderSetup, WirePixels, SequenceTheorems, WellFoundedInduction, TLAPS

USE DEF settings, encoder, memory, formats, colours, history

----------------------------------------------------------------------------
(* Types.                                                                    *)

Formats == {Indexed(8), NoFormat} \cup {TrueColor(b) : b \in {8, 16, 32}}

SetupTypes ==
  /\ selectedEncoder \in Encodings \cup {None} /\ lastSelectedEncoder \in Encodings \cup {None}
  /\ fbUpdateBufferSize \in Nat /\ allowed \subseteq Encodings
  /\ fbPixFormat \in Formats /\ pendingPixFormat \in Formats
  /\ table \in Nat /\ ctSeed \in Int /\ due \in Int /\ clientTable \in Int

\* What a format is.
LEMMA FormatFacts ==
  /\ \A f \in Formats : f.bitsPerPixel \in {0, 8, 16, 32}
  /\ AskedFormats \subseteq Formats \ {NoFormat}
  /\ \A depth : ScreenFormat(depth) \in Formats \ {NoFormat}
  /\ NoFormat \in Formats
  BY SetupAssumption DEF Formats, AskedFormats, ScreenFormat, NoFormat, Indexed, TrueColor

\* A row has some bytes, or none in the format that is no format.
LEMMA RowFacts ==
  /\ \A f \in Formats : RowBytes(f) \in Nat
  /\ RowBytes(NoFormat) = 0
  /\ \A a, b \in Int : Larger(a, b) \in Int /\ Larger(a, b) >= a /\ Larger(a, b) >= b
  <1>1. ASSUME NEW f \in Formats PROVE RowBytes(f) \in Nat
    <2>1. f.bitsPerPixel \div 8 \in {0, 1, 2, 4}
      BY FormatFacts
    <2> QED
      BY <2>1, SetupAssumption DEF RowBytes
  <1>2. RowBytes(NoFormat) = 0
    BY SetupAssumption DEF RowBytes, NoFormat, TrueColor
  <1> QED
    BY <1>1, <1>2 DEF Larger

\* minBufferSize() of an encoder other than Raw.
BufferOf(e) ==
  CASE e = "TRLE" -> Larger(TrleBuffer, SmallBuffer)
    [] e = "Hextile" -> Larger(HextileBuffer, SmallBuffer)
    [] e = "ZRLE" -> Larger(ZrleBuffer, SmallBuffer)
    [] OTHER -> SmallBuffer

LEMMA BufferFacts ==
  ASSUME fbPixFormat \in Formats, selectedEncoder \in Encodings \cup {None}
  PROVE  /\ MinBufferSize \in Nat \ {0}
         /\ selectedEncoder # "Raw" => MinBufferSize = BufferOf(selectedEncoder)
         /\ selectedEncoder = "Raw" => MinBufferSize = Larger(RowBytes(fbPixFormat), SmallBuffer)
  BY RowFacts, SetupAssumption DEF MinBufferSize, BufferOf, Larger, Encodings, None

LEMMA TypeStep ==
  ASSUME SetupTypes, [SetupNext]_svars
  PROVE  SetupTypes'
  <1> USE DEF SetupTypes
  <1>1. CASE NewSession
    BY <1>1, FormatFacts DEF NewSession, NoFormat
  <1>2. CASE EndSession
    BY <1>2 DEF EndSession
  <1>3. CASE Stop
    BY <1>3 DEF Stop, FreeMemory
  <1>4. CASE Start
    BY <1>4, SetupAssumption DEF Start
  <1>5. ASSUME NEW e \in ClientEncodings, ClientEncoding(e) PROVE SetupTypes'
    BY <1>5 DEF ClientEncoding
  <1>6. ASSUME NEW f \in AskedFormats, SetPixelFormat(f) PROVE SetupTypes'
    BY <1>6, FormatFacts DEF SetPixelFormat
  <1>7. CASE SetTable
    BY <1>7, SetupAssumption DEF SetTable
  <1>8. CASE CheckColorTable
    BY <1>8 DEF CheckColorTable
  <1>9. CASE Prepare
    BY <1>9 DEF Prepare, Begin, Choice, Encodings
  <1>10. CASE EncoderTasks
    BY <1>10, BufferFacts DEF EncoderTasks, FreeMemory
  <1>11. CASE CopyFormat
    BY <1>11 DEF CopyFormat
  <1>12. CASE ClearFormat
    BY <1>12, FormatFacts DEF ClearFormat
  <1>13. CASE ReadColorTable
    BY <1>13 DEF ReadColorTable
  <1>14. CASE SendColorMap
    BY <1>14 DEF SendColorMap
  <1>15. CASE SendFrame
    BY <1>15 DEF SendFrame
  <1>16. CASE UNCHANGED svars
    BY <1>16 DEF svars
  <1> QED
    BY <1>1, <1>2, <1>3, <1>4, <1>5, <1>6, <1>7, <1>8, <1>9, <1>10, <1>11, <1>12,
       <1>13, <1>14, <1>15, <1>16 DEF SetupNext

\* Formats, buffer sizes, encoders and tables stay what they are declared to be, whatever the
\* client, the settings and the memory do (VNCEncoder.cpp, VNCPalette.cpp).
THEOREM SetupTypesSafe == SetupSpec => []SetupTypes
<1>1. SetupInit => SetupTypes
  BY FormatFacts, SetupAssumption DEF SetupInit, SetupTypes, Formats, ScreenFormat
<1> QED
  BY <1>1, TypeStep, PTL DEF SetupSpec

----------------------------------------------------------------------------
(* The encoder of a frame.                                                   *)

Busy == {"sync", "palette", "clearing", "table", "colormap", "send"}

\* begin() sets both variables alike; only a new session clears one of them.
ChoiceInv ==
  /\ InSession => selectedEncoder \in {None, lastSelectedEncoder}
  /\ spc \in Busy => selectedEncoder = lastSelectedEncoder

LEMMA ChoiceStep ==
  ASSUME ChoiceInv, [SetupNext]_svars
  PROVE  ChoiceInv'
  <1> USE DEF ChoiceInv, InSession, Busy
  <1>1. CASE NewSession
    BY <1>1 DEF NewSession
  <1>2. CASE EndSession
    BY <1>2 DEF EndSession
  <1>3. CASE Stop
    BY <1>3 DEF Stop
  <1>4. CASE Start
    BY <1>4 DEF Start
  <1>5. ASSUME NEW e \in ClientEncodings, ClientEncoding(e) PROVE ChoiceInv'
    BY <1>5 DEF ClientEncoding
  <1>6. ASSUME NEW f \in AskedFormats, SetPixelFormat(f) PROVE ChoiceInv'
    BY <1>6 DEF SetPixelFormat
  <1>7. CASE SetTable
    BY <1>7 DEF SetTable
  <1>8. CASE CheckColorTable
    BY <1>8 DEF CheckColorTable
  <1>9. CASE Prepare
    BY <1>9 DEF Prepare, Begin
  <1>10. CASE EncoderTasks
    BY <1>10 DEF EncoderTasks
  <1>11. CASE CopyFormat
    BY <1>11 DEF CopyFormat
  <1>12. CASE ClearFormat
    BY <1>12 DEF ClearFormat
  <1>13. CASE ReadColorTable
    BY <1>13 DEF ReadColorTable
  <1>14. CASE SendColorMap
    BY <1>14 DEF SendColorMap
  <1>15. CASE SendFrame
    BY <1>15 DEF SendFrame
  <1>16. CASE UNCHANGED svars
    BY <1>16 DEF svars
  <1> QED
    BY <1>1, <1>2, <1>3, <1>4, <1>5, <1>6, <1>7, <1>8, <1>9, <1>10, <1>11, <1>12,
       <1>13, <1>14, <1>15, <1>16 DEF SetupNext

\* What a client takes it has named, but for Tight.
NamedInv ==
  /\ InSession => clientTakes \subseteq named \cup {"Tight"}
  /\ spc \in Busy => /\ selectedEncoder \in allowed
                     /\ selectedEncoder \in named \/ selectedEncoder = "Raw"

\* No frame begins without an encoder, nor in Tight for a client that does not know it.
EncoderKnown == "noEncoder" \notin Mishaps /\ "tightKept" \notin Mishaps

LEMMA NamedStep ==
  ASSUME EncoderKnown, NamedInv, [SetupNext]_svars
  PROVE  NamedInv'
  <1> USE DEF EncoderKnown, NamedInv, InSession, Busy
  <1>1. CASE NewSession
    BY <1>1 DEF NewSession
  <1>2. CASE EndSession
    BY <1>2 DEF EndSession
  <1>3. CASE Stop
    BY <1>3 DEF Stop
  <1>4. CASE Start
    BY <1>4 DEF Start
  <1>5. ASSUME NEW e \in ClientEncodings, ClientEncoding(e) PROVE NamedInv'
    BY <1>5 DEF ClientEncoding
  <1>6. ASSUME NEW f \in AskedFormats, SetPixelFormat(f) PROVE NamedInv'
    BY <1>6 DEF SetPixelFormat
  <1>7. CASE SetTable
    BY <1>7 DEF SetTable
  <1>8. CASE CheckColorTable
    BY <1>8 DEF CheckColorTable
  <1>9. CASE Prepare
    BY <1>9 DEF Prepare, Begin, Choice, None
  <1>10. CASE EncoderTasks
    BY <1>10 DEF EncoderTasks
  <1>11. CASE CopyFormat
    BY <1>11 DEF CopyFormat
  <1>12. CASE ClearFormat
    BY <1>12 DEF ClearFormat
  <1>13. CASE ReadColorTable
    BY <1>13 DEF ReadColorTable
  <1>14. CASE SendColorMap
    BY <1>14 DEF SendColorMap
  <1>15. CASE SendFrame
    BY <1>15 DEF SendFrame
  <1>16. CASE UNCHANGED svars
    BY <1>16 DEF svars
  <1> QED
    BY <1>1, <1>2, <1>3, <1>4, <1>5, <1>6, <1>7, <1>8, <1>9, <1>10, <1>11, <1>12,
       <1>13, <1>14, <1>15, <1>16 DEF SetupNext

----------------------------------------------------------------------------
(* The buffer and the compressor.                                            *)

\* From fbSyncTasks on the buffer is that of the encoder, into the frames that follow.
SizeInv ==
  /\ spc = "stopped" => fbUpdateBufferSize = 0
  /\ spc \in Busy \ {"sync"} => fbUpdateBufferSize # 0
  /\ fbUpdateBufferSize # 0 /\ spc # "sync" /\ lastSelectedEncoder \notin {"Raw", None}
       => fbUpdateBufferSize = BufferOf(lastSelectedEncoder)

LEMMA SizeStep ==
  ASSUME SetupTypes, ChoiceInv, SizeInv, [SetupNext]_svars
  PROVE  SizeInv'
  <1> USE DEF SizeInv, Busy
  <1>1. CASE NewSession
    BY <1>1 DEF NewSession
  <1>2. CASE EndSession
    BY <1>2 DEF EndSession
  <1>3. CASE Stop
    BY <1>3 DEF Stop, FreeMemory
  <1>4. CASE Start
    BY <1>4 DEF Start
  <1>5. ASSUME NEW e \in ClientEncodings, ClientEncoding(e) PROVE SizeInv'
    BY <1>5 DEF ClientEncoding
  <1>6. ASSUME NEW f \in AskedFormats, SetPixelFormat(f) PROVE SizeInv'
    BY <1>6 DEF SetPixelFormat
  <1>7. CASE SetTable
    BY <1>7 DEF SetTable
  <1>8. CASE CheckColorTable
    BY <1>8 DEF CheckColorTable
  <1>9. CASE Prepare
    BY <1>9 DEF Prepare, Begin
  <1>10. CASE EncoderTasks
    BY <1>10, BufferFacts DEF EncoderTasks, FreeMemory, ChoiceInv, SetupTypes
  <1>11. CASE CopyFormat
    BY <1>11 DEF CopyFormat
  <1>12. CASE ClearFormat
    BY <1>12 DEF ClearFormat
  <1>13. CASE ReadColorTable
    BY <1>13 DEF ReadColorTable
  <1>14. CASE SendColorMap
    BY <1>14 DEF SendColorMap
  <1>15. CASE SendFrame
    BY <1>15 DEF SendFrame
  <1>16. CASE UNCHANGED svars
    BY <1>16 DEF svars
  <1> QED
    BY <1>1, <1>2, <1>3, <1>4, <1>5, <1>6, <1>7, <1>8, <1>9, <1>10, <1>11, <1>12,
       <1>13, <1>14, <1>15, <1>16 DEF SetupNext

\* The buffer of Raw has room for a row in the format installed, and in the one that waits.
RawInv ==
  /\ (fbUpdateBufferSize # 0 \/ spc \in Busy) /\ lastSelectedEncoder = "Raw" => "Raw" \in allowed
  /\ fbUpdateBufferSize # 0 /\ spc # "sync" /\ lastSelectedEncoder = "Raw"
       => fbUpdateBufferSize >= Larger(SmallBuffer, RowBytes(fbPixFormat))
  /\ InSession => RawFits(pendingPixFormat)

LEMMA RawStep ==
  ASSUME "rawGrows" \notin Mishaps, SetupTypes, ChoiceInv, SizeInv, RawInv, [SetupNext]_svars
  PROVE  RawInv'
  <1> USE DEF RawInv, InSession, Busy, RawFits, SetupTypes
  <1>1. CASE NewSession
    BY <1>1, RowFacts, FormatFacts, SetupAssumption DEF NewSession, Larger
  <1>2. CASE EndSession
    BY <1>2 DEF EndSession
  <1>3. CASE Stop
    BY <1>3 DEF Stop, FreeMemory
  <1>4. CASE Start
    BY <1>4 DEF Start, SizeInv
  <1>5. ASSUME NEW e \in ClientEncodings, ClientEncoding(e) PROVE RawInv'
    BY <1>5 DEF ClientEncoding
  <1>6. ASSUME NEW f \in AskedFormats, SetPixelFormat(f) PROVE RawInv'
    BY <1>6 DEF SetPixelFormat
  <1>7. CASE SetTable
    BY <1>7 DEF SetTable
  <1>8. CASE CheckColorTable
    BY <1>8 DEF CheckColorTable
  <1>9. CASE Prepare
    <2>1. Choice = "Raw" => "Raw" \in allowed
      BY DEF Choice, None
    <2>2. spc = "idle" /\ lastSelectedEncoder' = Choice /\ spc' \in {"sync", "colormap"}
      BY <1>9 DEF Prepare, Begin
    <2>3. spc' = "colormap" => Choice = lastSelectedEncoder
      BY <1>9 DEF Prepare, Begin
    <2> QED
      BY <1>9, <2>1, <2>2, <2>3 DEF Prepare
  <1>10. CASE EncoderTasks
    BY <1>10, BufferFacts, RowFacts, SetupAssumption DEF EncoderTasks, FreeMemory, ChoiceInv, Larger
  <1>11. CASE CopyFormat
    BY <1>11, RowFacts, FormatFacts, SetupAssumption DEF CopyFormat, Larger
  <1>12. CASE ClearFormat
    <2>1. SmallBuffer \in Nat /\ RowBytes(fbPixFormat) \in Nat /\ RowBytes(NoFormat) = 0
      BY RowFacts, SetupAssumption
    <2>2. RowBytes(NoFormat) <= Larger(SmallBuffer, RowBytes(fbPixFormat))
      BY <2>1 DEF Larger
    <2> QED
      BY <1>12, <2>2 DEF ClearFormat
  <1>13. CASE ReadColorTable
    BY <1>13 DEF ReadColorTable
  <1>14. CASE SendColorMap
    BY <1>14 DEF SendColorMap
  <1>15. CASE SendFrame
    BY <1>15 DEF SendFrame
  <1>16. CASE UNCHANGED svars
    BY <1>16 DEF svars
  <1> QED
    BY <1>1, <1>2, <1>3, <1>4, <1>5, <1>6, <1>7, <1>8, <1>9, <1>10, <1>11, <1>12,
       <1>13, <1>14, <1>15, <1>16 DEF SetupNext

\* The compressor is there when it is needed.
ZLibInv == spc \in Busy \ {"sync"} /\ NeedsZLib => deflator # None

LEMMA ZLibStep ==
  ASSUME "noCompressor" \notin Mishaps, ZLibInv, [SetupNext]_svars
  PROVE  ZLibInv'
  <1> USE DEF ZLibInv, Busy, NeedsZLib
  <1>1. CASE NewSession
    BY <1>1 DEF NewSession
  <1>2. CASE EndSession
    BY <1>2 DEF EndSession
  <1>3. CASE Stop
    BY <1>3 DEF Stop
  <1>4. CASE Start
    BY <1>4 DEF Start
  <1>5. ASSUME NEW e \in ClientEncodings, ClientEncoding(e) PROVE ZLibInv'
    BY <1>5 DEF ClientEncoding
  <1>6. ASSUME NEW f \in AskedFormats, SetPixelFormat(f) PROVE ZLibInv'
    BY <1>6 DEF SetPixelFormat
  <1>7. CASE SetTable
    BY <1>7 DEF SetTable
  <1>8. CASE CheckColorTable
    BY <1>8 DEF CheckColorTable
  <1>9. CASE Prepare
    BY <1>9 DEF Prepare, Begin
  <1>10. CASE EncoderTasks
    BY <1>10 DEF EncoderTasks, CompressSetup, None
  <1>11. CASE CopyFormat
    BY <1>11 DEF CopyFormat
  <1>12. CASE ClearFormat
    BY <1>12 DEF ClearFormat
  <1>13. CASE ReadColorTable
    BY <1>13 DEF ReadColorTable
  <1>14. CASE SendColorMap
    BY <1>14 DEF SendColorMap
  <1>15. CASE SendFrame
    BY <1>15 DEF SendFrame, None
  <1>16. CASE UNCHANGED svars
    BY <1>16 DEF svars
  <1> QED
    BY <1>1, <1>2, <1>3, <1>4, <1>5, <1>6, <1>7, <1>8, <1>9, <1>10, <1>11, <1>12,
       <1>13, <1>14, <1>15, <1>16 DEF SetupNext

ReadyInv == SetupTypes /\ ChoiceInv /\ NamedInv /\ SizeInv /\ RawInv /\ ZLibInv

LEMMA ReadyEnough == ReadyInv => EncoderReady
<1> SUFFICES ASSUME ReadyInv, Sending PROVE EncoderReady
  BY DEF EncoderReady
<1> USE DEF ReadyInv, Sending, Busy
<1>1. selectedEncoder \in allowed /\ (selectedEncoder \in named \/ selectedEncoder = "Raw")
  BY DEF NamedInv
<1>2. selectedEncoder = lastSelectedEncoder /\ selectedEncoder # None /\ fbUpdateBufferSize # 0
  BY <1>1 DEF ChoiceInv, SizeInv, SetupTypes, Encodings, None
<1>3. fbUpdateBufferSize >= MinBufferSize
  <2>1. CASE selectedEncoder = "Raw"
    <3>1. fbUpdateBufferSize >= Larger(SmallBuffer, RowBytes(fbPixFormat))
      BY <1>2, <2>1 DEF RawInv
    <3>2. MinBufferSize = Larger(RowBytes(fbPixFormat), SmallBuffer)
      BY <2>1, BufferFacts DEF SetupTypes
    <3>3. RowBytes(fbPixFormat) \in Nat /\ SmallBuffer \in Nat
      BY RowFacts, SetupAssumption DEF SetupTypes
    <3> QED
      BY <3>1, <3>2, <3>3 DEF Larger
  <2>2. CASE selectedEncoder # "Raw"
    <3>1. fbUpdateBufferSize = BufferOf(selectedEncoder)
      BY <1>2, <2>2 DEF SizeInv
    <3> QED
      BY <3>1, <2>2, BufferFacts DEF SetupTypes
  <2> QED
    BY <2>1, <2>2
<1>4. NeedsZLib => deflator # None
  BY DEF ZLibInv
<1> QED
  BY <1>1, <1>3, <1>4 DEF EncoderReady

\* A frame is sent in an encoding that settings and client have, with the buffer and the
\* compressor that it needs, whatever sessions, formats, encodings and shortages of memory
\* come in between (VNCEncoder::begin and fbSyncTasks), when no client is left without
\* an encoding, or with the Tight of the one before it, when Raw gets no format with
\* longer rows than its buffer has, and when there is memory for the compressor.
THEOREM EncoderIsReady ==
  ASSUME EncoderKnown, "rawGrows" \notin Mishaps, "noCompressor" \notin Mishaps
  PROVE  SetupSpec => []EncoderReady
<1>1. SetupInit => ReadyInv
  <2> SUFFICES ASSUME SetupInit PROVE ReadyInv
    OBVIOUS
  <2>1. SetupTypes
    BY FormatFacts, SetupAssumption DEF SetupInit, SetupTypes, Formats, ScreenFormat
  <2>2. ChoiceInv /\ NamedInv /\ SizeInv /\ RawInv /\ ZLibInv
    BY DEF SetupInit, ChoiceInv, NamedInv, SizeInv, RawInv, ZLibInv, InSession, Busy
  <2> QED
    BY <2>1, <2>2 DEF ReadyInv
<1>2. ReadyInv /\ [SetupNext]_svars => ReadyInv'
  BY TypeStep, ChoiceStep, NamedStep, SizeStep, RawStep, ZLibStep DEF ReadyInv
<1> QED
  BY <1>1, <1>2, ReadyEnough, PTL DEF SetupSpec

----------------------------------------------------------------------------
(* The format.                                                               *)

\* The last format that was asked for is the one that waits, or the one installed.
FormatInv ==
  /\ asked \in expected
  /\ InSession =>
       /\ asked \in Formats \ {NoFormat} /\ pendingPixFormat.trueColor
       /\ asked = IF pendingPixFormat = NoFormat THEN fbPixFormat ELSE pendingPixFormat
  /\ spc = "clearing" => pendingPixFormat = fbPixFormat
  /\ spc \in {"clearing", "table", "colormap", "send"} => fbPixFormat \in expected

LEMMA FormatStep ==
  ASSUME "formatRace" \notin Mishaps, "backToIndexed" \notin Mishaps,
         SetupTypes, FormatInv, [SetupNext]_svars
  PROVE  FormatInv'
  <1> USE DEF FormatInv, InSession
  <1>1. CASE NewSession
    BY <1>1, FormatFacts DEF NewSession, NoFormat, TrueColor
  <1>2. CASE EndSession
    BY <1>2 DEF EndSession
  <1>3. CASE Stop
    BY <1>3 DEF Stop
  <1>4. CASE Start
    BY <1>4 DEF Start
  <1>5. ASSUME NEW e \in ClientEncodings, ClientEncoding(e) PROVE FormatInv'
    BY <1>5 DEF ClientEncoding
  <1>6. ASSUME NEW f \in AskedFormats, SetPixelFormat(f) PROVE FormatInv'
    <2>1. f \in Formats /\ f # NoFormat
      BY FormatFacts
    <2>2. CASE f.trueColor
      BY <1>6, <2>1, <2>2 DEF SetPixelFormat
    <2>3. CASE ~f.trueColor
      <3>1. ~asked.trueColor
        BY <1>6, <2>3 DEF SetPixelFormat
      <3>2. \A g \in Formats : ~g.trueColor => g = Indexed(8)
        BY DEF Formats, NoFormat, TrueColor, Indexed
      <3>3. asked = Indexed(8) /\ f = Indexed(8)
        BY <1>6, <2>1, <2>3, <3>1, <3>2 DEF SetPixelFormat
      <3> QED
        BY <1>6, <2>1, <2>3, <3>3 DEF SetPixelFormat
    <2> QED
      BY <2>2, <2>3
  <1>7. CASE SetTable
    BY <1>7 DEF SetTable
  <1>8. CASE CheckColorTable
    BY <1>8 DEF CheckColorTable
  <1>9. CASE Prepare
    BY <1>9 DEF Prepare, Begin, HasChangesPending
  <1>10. CASE EncoderTasks
    BY <1>10 DEF EncoderTasks
  <1>11. CASE CopyFormat
    BY <1>11 DEF CopyFormat
  <1>12. CASE ClearFormat
    BY <1>12 DEF ClearFormat, NoFormat, TrueColor
  <1>13. CASE ReadColorTable
    BY <1>13 DEF ReadColorTable
  <1>14. CASE SendColorMap
    BY <1>14 DEF SendColorMap
  <1>15. CASE SendFrame
    BY <1>15 DEF SendFrame
  <1>16. CASE UNCHANGED svars
    BY <1>16 DEF svars
  <1> QED
    BY <1>1, <1>2, <1>3, <1>4, <1>5, <1>6, <1>7, <1>8, <1>9, <1>10, <1>11, <1>12,
       <1>13, <1>14, <1>15, <1>16 DEF SetupNext

\* A frame has the pixel format that the client had asked for when it began, or one it has
\* asked for since, and the last one asked for is never lost (VNCPalette::setPixelFormat and
\* fbSyncTasks), unless one comes while its predecessor is being cleared away, or indices
\* are asked for after true colour.
THEOREM FormatIsFollowed ==
  ASSUME "formatRace" \notin Mishaps, "backToIndexed" \notin Mishaps
  PROVE  SetupSpec => []FormatFollowed
<1>1. SetupInit => SetupTypes /\ FormatInv
  <2> SUFFICES ASSUME SetupInit PROVE SetupTypes /\ FormatInv
    OBVIOUS
  <2>1. SetupTypes
    BY FormatFacts, SetupAssumption DEF SetupInit, SetupTypes, Formats, ScreenFormat
  <2>2. FormatInv
    BY DEF SetupInit, FormatInv, InSession
  <2> QED
    BY <2>1, <2>2
<1>2. SetupTypes /\ FormatInv /\ [SetupNext]_svars => SetupTypes' /\ FormatInv'
  BY TypeStep, FormatStep
<1>3. FormatInv => FormatFollowed
  BY DEF FormatInv, FormatFollowed, Sending
<1> QED
  BY <1>1, <1>2, <1>3, PTL DEF SetupSpec

----------------------------------------------------------------------------
(* The colours.                                                              *)

\* The format that waits is one of true colour; no seed is ahead of the table.
SeedInv ==
  /\ pendingPixFormat.trueColor
  /\ ctSeed <= table /\ 0 <= table
  /\ InSession => due <= table

\* In true colour the flag stays up, so that every frame makes its colours anew.
TrueInv ==
  InSession /\ ~OnTrueColor /\ fbPixFormat.trueColor =>
    /\ spc # "clearing" => fbColorMapNeedsUpdate
    /\ spc \notin {"clearing", "table"} => vncTrueColors = [seed |-> table, format |-> fbPixFormat]

\* In indices the flag goes when the client gets the table that was read.
IndexedInv ==
  InSession /\ ~OnTrueColor /\ ~fbPixFormat.trueColor =>
    /\ ~fbColorMapNeedsUpdate =>
         clientTable = ctSeed /\ ctSeed >= 0 /\ (spc \in Busy => ctSeed >= due)
    /\ spc = "colormap" => ctSeed >= due /\ ctSeed >= 0
    /\ spc = "send" => clientTable >= due /\ clientTable >= 0

LEMMA SeedStep ==
  ASSUME SetupTypes, SeedInv, [SetupNext]_svars
  PROVE  SeedInv'
  <1> USE DEF SeedInv, InSession, SetupTypes
  <1>1. CASE NewSession
    BY <1>1 DEF NewSession, NoFormat, TrueColor
  <1>2. CASE EndSession
    BY <1>2 DEF EndSession
  <1>3. CASE Stop
    BY <1>3 DEF Stop
  <1>4. CASE Start
    BY <1>4 DEF Start
  <1>5. ASSUME NEW e \in ClientEncodings, ClientEncoding(e) PROVE SeedInv'
    BY <1>5 DEF ClientEncoding
  <1>6. ASSUME NEW f \in AskedFormats, SetPixelFormat(f) PROVE SeedInv'
    BY <1>6 DEF SetPixelFormat
  <1>7. CASE SetTable
    BY <1>7 DEF SetTable
  <1>8. CASE CheckColorTable
    BY <1>8 DEF CheckColorTable
  <1>9. CASE Prepare
    BY <1>9 DEF Prepare, Begin
  <1>10. CASE EncoderTasks
    BY <1>10 DEF EncoderTasks
  <1>11. CASE CopyFormat
    BY <1>11 DEF CopyFormat
  <1>12. CASE ClearFormat
    BY <1>12 DEF ClearFormat, NoFormat, TrueColor
  <1>13. CASE ReadColorTable
    BY <1>13 DEF ReadColorTable
  <1>14. CASE SendColorMap
    BY <1>14 DEF SendColorMap
  <1>15. CASE SendFrame
    BY <1>15 DEF SendFrame
  <1>16. CASE UNCHANGED svars
    BY <1>16 DEF svars
  <1> QED
    BY <1>1, <1>2, <1>3, <1>4, <1>5, <1>6, <1>7, <1>8, <1>9, <1>10, <1>11, <1>12,
       <1>13, <1>14, <1>15, <1>16 DEF SetupNext

LEMMA TrueStep ==
  ASSUME "trueTable" \notin Mishaps, "noTable" \notin Mishaps,
         SetupTypes, SeedInv, TrueInv, [SetupNext]_svars
  PROVE  TrueInv'
  <1> USE DEF TrueInv, InSession, OnTrueColor
  <1>1. CASE NewSession
    BY <1>1 DEF NewSession, ScreenFormat, Indexed
  <1>2. CASE EndSession
    BY <1>2 DEF EndSession
  <1>3. CASE Stop
    BY <1>3 DEF Stop
  <1>4. CASE Start
    BY <1>4 DEF Start
  <1>5. ASSUME NEW e \in ClientEncodings, ClientEncoding(e) PROVE TrueInv'
    BY <1>5 DEF ClientEncoding
  <1>6. ASSUME NEW f \in AskedFormats, SetPixelFormat(f) PROVE TrueInv'
    BY <1>6 DEF SetPixelFormat
  <1>7. CASE SetTable
    BY <1>7 DEF SetTable, HasWaitingColorMapUpdate
  <1>8. CASE CheckColorTable
    BY <1>8 DEF CheckColorTable
  <1>9. CASE Prepare
    BY <1>9 DEF Prepare, Begin, HasChangesPending, HasWaitingColorMapUpdate
  <1>10. CASE EncoderTasks
    BY <1>10 DEF EncoderTasks
  <1>11. CASE CopyFormat
    BY <1>11 DEF CopyFormat
  <1>12. CASE ClearFormat
    BY <1>12 DEF ClearFormat
  <1>13. CASE ReadColorTable
    BY <1>13 DEF ReadColorTable
  <1>14. CASE SendColorMap
    BY <1>14 DEF SendColorMap, HasWaitingColorMapUpdate
  <1>15. CASE SendFrame
    BY <1>15 DEF SendFrame
  <1>16. CASE UNCHANGED svars
    BY <1>16 DEF svars
  <1> QED
    BY <1>1, <1>2, <1>3, <1>4, <1>5, <1>6, <1>7, <1>8, <1>9, <1>10, <1>11, <1>12,
       <1>13, <1>14, <1>15, <1>16 DEF SetupNext

LEMMA IndexedStep ==
  ASSUME "noTable" \notin Mishaps, SetupTypes, SeedInv, IndexedInv, [SetupNext]_svars
  PROVE  IndexedInv'
  <1> USE DEF IndexedInv, InSession, OnTrueColor, Busy, SetupTypes, SeedInv
  <1>1. CASE NewSession
    BY <1>1 DEF NewSession, ScreenFormat, Indexed
  <1>2. CASE EndSession
    BY <1>2 DEF EndSession
  <1>3. CASE Stop
    BY <1>3 DEF Stop
  <1>4. CASE Start
    BY <1>4 DEF Start
  <1>5. ASSUME NEW e \in ClientEncodings, ClientEncoding(e) PROVE IndexedInv'
    BY <1>5 DEF ClientEncoding
  <1>6. ASSUME NEW f \in AskedFormats, SetPixelFormat(f) PROVE IndexedInv'
    BY <1>6 DEF SetPixelFormat
  <1>7. CASE SetTable
    BY <1>7 DEF SetTable
  <1>8. CASE CheckColorTable
    BY <1>8 DEF CheckColorTable
  <1>9. CASE Prepare
    BY <1>9 DEF Prepare, Begin, HasChangesPending, HasWaitingColorMapUpdate
  <1>10. CASE EncoderTasks
    BY <1>10 DEF EncoderTasks
  <1>11. CASE CopyFormat
    BY <1>11 DEF CopyFormat
  <1>12. CASE ClearFormat
    BY <1>12 DEF ClearFormat
  <1>13. CASE ReadColorTable
    BY <1>13 DEF ReadColorTable
  <1>14. CASE SendColorMap
    BY <1>14 DEF SendColorMap, HasWaitingColorMapUpdate
  <1>15. CASE SendFrame
    BY <1>15 DEF SendFrame
  <1>16. CASE UNCHANGED svars
    BY <1>16 DEF svars
  <1> QED
    BY <1>1, <1>2, <1>3, <1>4, <1>5, <1>6, <1>7, <1>8, <1>9, <1>10, <1>11, <1>12,
       <1>13, <1>14, <1>15, <1>16 DEF SetupNext

ColourInv == SetupTypes /\ SeedInv /\ TrueInv /\ IndexedInv

\* On an indexed screen the client decodes a frame with a colour table that is not older
\* than the one known when the frame began (updateColorTable, vncSendFBUpdateColorMap and
\* the idle task that looks at the seed), whatever tables, formats and sessions follow each
\* other, when the table does not change for a client in true colour and can be read.
THEOREM ColoursAreCurrent ==
  ASSUME "trueTable" \notin Mishaps, "noTable" \notin Mishaps
  PROVE  SetupSpec => []ColoursCurrent
<1>1. SetupInit => ColourInv
  <2> SUFFICES ASSUME SetupInit PROVE ColourInv
    OBVIOUS
  <2>1. SetupTypes
    BY FormatFacts, SetupAssumption DEF SetupInit, SetupTypes, Formats, ScreenFormat
  <2>2. SeedInv
    BY DEF SetupInit, SeedInv, InSession, NoFormat, TrueColor
  <2>3. TrueInv /\ IndexedInv
    BY DEF SetupInit, TrueInv, IndexedInv, InSession
  <2> QED
    BY <2>1, <2>2, <2>3 DEF ColourInv
<1>2. ColourInv /\ [SetupNext]_svars => ColourInv'
  BY TypeStep, SeedStep, TrueStep, IndexedStep DEF ColourInv
<1>3. ColourInv => ColoursCurrent
  <2> SUFFICES ASSUME ColourInv, Sending, ~OnTrueColor PROVE ColoursCurrent
    BY DEF ColoursCurrent
  <2>1. InSession /\ due <= table
    BY DEF ColourInv, SeedInv, Sending, InSession
  <2>2. CASE fbPixFormat.trueColor
    <3>1. vncTrueColors = [seed |-> table, format |-> fbPixFormat]
      BY <2>1, <2>2 DEF ColourInv, TrueInv, Sending
    <3> QED
      BY <2>1, <2>2, <3>1 DEF ColoursCurrent
  <2>3. CASE ~fbPixFormat.trueColor
    BY <2>1, <2>3 DEF ColourInv, IndexedInv, Sending, ColoursCurrent
  <2> QED
    BY <2>2, <2>3
<1> QED
  BY <1>1, <1>2, <1>3, PTL DEF SetupSpec

----------------------------------------------------------------------------
(* The compressed stream.                                                    *)

\* The encoder of the last frame is one that settings and client have; on a screen in true
\* colour it is the only one there is to choose.
AvailInv ==
  InSession /\ selectedEncoder # None =>
    IF OnTrueColor THEN selectedEncoder = Choice ELSE selectedEncoder \in allowed \cap clientTakes

\* The compressor has given something out if and only if the client has seen it; one that is
\* not needed has not, or is about to be freed with a buffer of another size.
StreamInv ==
  /\ fbUpdateBufferSize = 0 => deflator = None
  /\ spc = "listening" /\ ~NeedsZLib => deflator # "used"
  /\ InSession =>
       /\ inflating /\ ~NeedsZLib => ~OnTrueColor /\ selectedEncoder \in {"TRLE", "Hextile"}
       /\ spc # "sync" =>
            IF NeedsZLib THEN deflator = "used" <=> inflating ELSE deflator # "used"
  /\ spc = "sync" =>
       IF NeedsZLib
       THEN \/ ~inflating /\ deflator # "used"
            \/ inflating /\ deflator = "used" /\ fbUpdateBufferSize = BufferOf(selectedEncoder)
       ELSE deflator = "used" => fbUpdateBufferSize # MinBufferSize

\* The buffer of ZRLE is larger than the others, so that a change to or from it is seen.
SizesDiffer ==
  SmallBuffer < TrleBuffer /\ TrleBuffer < ZrleBuffer /\ HextileBuffer < ZrleBuffer

StreamTypes == deflator \in {None, "fresh", "used"} /\ inflating \in BOOLEAN

LEMMA AvailStep ==
  ASSUME SetupTypes, AvailInv, [SetupNext]_svars
  PROVE  AvailInv'
  <1> USE DEF AvailInv, InSession, OnTrueColor, Choice
  <1>1. CASE NewSession
    BY <1>1 DEF NewSession, None
  <1>2. CASE EndSession
    BY <1>2 DEF EndSession
  <1>3. CASE Stop
    BY <1>3 DEF Stop
  <1>4. CASE Start
    BY <1>4 DEF Start
  <1>5. ASSUME NEW e \in ClientEncodings, ClientEncoding(e) PROVE AvailInv'
    BY <1>5 DEF ClientEncoding, None
  <1>6. ASSUME NEW f \in AskedFormats, SetPixelFormat(f) PROVE AvailInv'
    BY <1>6 DEF SetPixelFormat
  <1>7. CASE SetTable
    BY <1>7 DEF SetTable
  <1>8. CASE CheckColorTable
    BY <1>8 DEF CheckColorTable
  <1>9. CASE Prepare
    BY <1>9 DEF Prepare, Begin, None
  <1>10. CASE EncoderTasks
    BY <1>10 DEF EncoderTasks
  <1>11. CASE CopyFormat
    BY <1>11 DEF CopyFormat
  <1>12. CASE ClearFormat
    BY <1>12 DEF ClearFormat
  <1>13. CASE ReadColorTable
    BY <1>13 DEF ReadColorTable
  <1>14. CASE SendColorMap
    BY <1>14 DEF SendColorMap
  <1>15. CASE SendFrame
    BY <1>15 DEF SendFrame
  <1>16. CASE UNCHANGED svars
    BY <1>16 DEF svars
  <1> QED
    BY <1>1, <1>2, <1>3, <1>4, <1>5, <1>6, <1>7, <1>8, <1>9, <1>10, <1>11, <1>12,
       <1>13, <1>14, <1>15, <1>16 DEF SetupNext

LEMMA StreamTypeStep ==
  ASSUME StreamTypes, [SetupNext]_svars
  PROVE  StreamTypes'
  <1> USE DEF StreamTypes
  <1>1. CASE NewSession
    BY <1>1 DEF NewSession, Reset
  <1>2. CASE EndSession
    BY <1>2 DEF EndSession
  <1>3. CASE Stop
    BY <1>3 DEF Stop, FreeMemory, CompressDestroy
  <1>4. CASE Start
    BY <1>4 DEF Start
  <1>5. ASSUME NEW e \in ClientEncodings, ClientEncoding(e) PROVE StreamTypes'
    BY <1>5 DEF ClientEncoding
  <1>6. ASSUME NEW f \in AskedFormats, SetPixelFormat(f) PROVE StreamTypes'
    BY <1>6 DEF SetPixelFormat
  <1>7. CASE SetTable
    BY <1>7 DEF SetTable
  <1>8. CASE CheckColorTable
    BY <1>8 DEF CheckColorTable
  <1>9. CASE Prepare
    BY <1>9 DEF Prepare, Begin
  <1>10. CASE EncoderTasks
    BY <1>10 DEF EncoderTasks, CompressSetup, FreeMemory, CompressDestroy
  <1>11. CASE CopyFormat
    BY <1>11 DEF CopyFormat
  <1>12. CASE ClearFormat
    BY <1>12 DEF ClearFormat
  <1>13. CASE ReadColorTable
    BY <1>13 DEF ReadColorTable
  <1>14. CASE SendColorMap
    BY <1>14 DEF SendColorMap
  <1>15. CASE SendFrame
    BY <1>15 DEF SendFrame
  <1>16. CASE UNCHANGED svars
    BY <1>16 DEF svars
  <1> QED
    BY <1>1, <1>2, <1>3, <1>4, <1>5, <1>6, <1>7, <1>8, <1>9, <1>10, <1>11, <1>12,
       <1>13, <1>14, <1>15, <1>16 DEF SetupNext

LEMMA BufferKept ==
  ASSUME fbPixFormat' = fbPixFormat, selectedEncoder' = selectedEncoder
  PROVE  MinBufferSize' = MinBufferSize
  BY DEF MinBufferSize, RowBytes

LEMMA StreamStep ==
  ASSUME "tightThenZrle" \notin Mishaps, "tightThenHextile" \notin Mishaps, SizesDiffer,
         SetupTypes, StreamTypes, ChoiceInv, SizeInv, AvailInv, StreamInv, [SetupNext]_svars
  PROVE  StreamInv'
  <1> USE DEF StreamInv, InSession, NeedsZLib, OnTrueColor
  <1>1. CASE NewSession
    BY <1>1 DEF NewSession, Reset, None
  <1>2. CASE EndSession
    BY <1>2 DEF EndSession
  <1>3. CASE Stop
    BY <1>3 DEF Stop, FreeMemory, CompressDestroy, None
  <1>4. CASE Start
    BY <1>4 DEF Start, SizeInv, None
  <1>5. ASSUME NEW e \in ClientEncodings, ClientEncoding(e) PROVE StreamInv'
    BY <1>5, BufferKept DEF ClientEncoding
  <1>6. ASSUME NEW f \in AskedFormats, SetPixelFormat(f) PROVE StreamInv'
    BY <1>6, BufferKept DEF SetPixelFormat
  <1>7. CASE SetTable
    BY <1>7, BufferKept DEF SetTable
  <1>8. CASE CheckColorTable
    BY <1>8, BufferKept DEF CheckColorTable
  <1>9. CASE Prepare
    <2> USE DEF StreamTypes
    <2>1. spc = "idle" /\ selectedEncoder' = Choice /\ spc' \in {"sync", "colormap"}
      BY <1>9 DEF Prepare, Begin
    <2>2. UNCHANGED <<fbDepth, allowed, clientTakes, memory, formats, inflating>>
      BY <1>9 DEF Prepare
    <2>3. ~(inflating /\ selectedEncoder = "Tight" /\ Choice \in {"ZRLE", "Hextile"})
      BY <1>9 DEF Prepare
    <2>4. inflating => selectedEncoder \in {"TRLE", "Hextile", "ZRLE", "Tight"}
      BY <2>1
    <2>5. inflating /\ NeedsZLib => Choice \in {selectedEncoder, "TRLE", "Hextile"}
      BY <2>1, <2>3 DEF AvailInv, Choice, None
    <2>6. inflating /\ ~NeedsZLib => Choice \in {"TRLE", "Hextile"} /\ ~OnTrueColor
      BY <2>1, <2>4 DEF AvailInv, Choice, None
    <2>7. spc' = "colormap" => Choice = lastSelectedEncoder /\ fbUpdateBufferSize # 0
      BY <1>9 DEF Prepare, Begin
    <2>8. inflating => selectedEncoder = lastSelectedEncoder
      BY <2>1, <2>4 DEF ChoiceInv, None
    <2>9. inflating /\ NeedsZLib
            => deflator = "used" /\ fbUpdateBufferSize = BufferOf(selectedEncoder)
      BY <2>1, <2>8 DEF SizeInv, None
    <2>10. deflator = "used" => inflating /\ NeedsZLib
      BY <2>1
    <2>11. deflator = "used" /\ ~NeedsZLib' => fbUpdateBufferSize' # MinBufferSize'
      <3>1. SUFFICES ASSUME deflator = "used", ~NeedsZLib' PROVE fbUpdateBufferSize # MinBufferSize'
        BY <2>2
      <3>2. selectedEncoder' \in {"TRLE", "Hextile"}
        BY <2>1, <2>5, <2>10, <3>1
      <3>3. fbUpdateBufferSize = BufferOf(selectedEncoder) /\ selectedEncoder \in {"ZRLE", "Tight"}
        BY <2>9, <2>10, <3>1
      <3>4. selectedEncoder = "Tight" => selectedEncoder' = "TRLE"
        BY <2>1, <2>3, <2>10, <3>1, <3>2
      <3>5. MinBufferSize' = IF selectedEncoder' = "TRLE" THEN Larger(TrleBuffer, SmallBuffer)
                                                         ELSE Larger(HextileBuffer, SmallBuffer)
        BY <3>2 DEF MinBufferSize
      <3>6. {SmallBuffer, TrleBuffer, HextileBuffer, ZrleBuffer} \subseteq Nat
        BY SetupAssumption
      <3>7. CASE selectedEncoder = "ZRLE"
        BY <3>2, <3>3, <3>5, <3>6, <3>7 DEF BufferOf, Larger, SizesDiffer
      <3>8. CASE selectedEncoder = "Tight"
        BY <3>3, <3>4, <3>5, <3>6, <3>8 DEF BufferOf, Larger, SizesDiffer
      <3> QED
        BY <3>3, <3>7, <3>8
    <2>12. inflating' /\ ~NeedsZLib' => ~OnTrueColor' /\ selectedEncoder' \in {"TRLE", "Hextile"}
      <3>1. inflating /\ NeedsZLib /\ Choice \in {"TRLE", "Hextile"} => ~OnTrueColor
        BY DEF Choice, None
      <3> QED
        BY <2>1, <2>2, <2>5, <2>6, <3>1
    <2>13. spc' = "colormap" => IF NeedsZLib' THEN deflator' = "used" <=> inflating'
                                             ELSE deflator' # "used"
      <3>1. spc' = "colormap" /\ inflating => Choice = selectedEncoder
        BY <2>7, <2>8
      <3> QED
        BY <2>1, <2>2, <2>9, <2>10, <3>1
    <2>14. NeedsZLib' /\ inflating
             => fbUpdateBufferSize = BufferOf(selectedEncoder') /\ deflator = "used"
      BY <2>1, <2>5, <2>6, <2>9
    <2>15. NeedsZLib' /\ ~inflating => deflator # "used"
      BY <2>10
    <2> QED
      BY <2>1, <2>2, <2>11, <2>12, <2>13, <2>14, <2>15
  <1>10. CASE EncoderTasks
    <2> USE DEF StreamTypes
    <2> DEFINE kept == IF fbUpdateBufferSize # MinBufferSize /\ fbUpdateBufferSize # 0
                       THEN None ELSE deflator
    <2>1. /\ spc = "sync" /\ spc' \in {"palette", "failed"}
          /\ UNCHANGED <<settings, selectedEncoder, inflating>>
      BY <1>10 DEF EncoderTasks
    <2>2. \/ spc' = "failed" /\ fbUpdateBufferSize' = 0 /\ deflator' = None
          \/ /\ fbUpdateBufferSize' # 0 /\ spc' = "palette"
             /\ deflator' = IF NeedsZLib THEN CompressSetup(kept) ELSE kept
          \/ /\ fbUpdateBufferSize' # 0 /\ spc' = "palette"
             /\ NeedsZLib /\ kept = None /\ deflator' = None
      BY <1>10, BufferFacts DEF EncoderTasks, FreeMemory, CompressDestroy, SetupTypes
    <2>3. NeedsZLib /\ inflating => kept = "used"
      <3>1. NeedsZLib /\ inflating
              => deflator = "used" /\ fbUpdateBufferSize = BufferOf(selectedEncoder)
        BY <2>1
      <3>2. NeedsZLib => MinBufferSize = BufferOf(selectedEncoder)
        BY BufferFacts DEF SetupTypes
      <3> QED
        BY <3>1, <3>2
    <2>4. NeedsZLib /\ ~inflating => kept # "used"
      BY <2>1 DEF None
    <2>5. ~NeedsZLib => kept # "used"
      BY <2>1 DEF None
    <2>6. spc' = "palette" => IF NeedsZLib THEN deflator' = "used" <=> inflating
                                           ELSE deflator' # "used"
      BY <2>2, <2>3, <2>4, <2>5 DEF CompressSetup, None
    <2>7. fbUpdateBufferSize' = 0 => deflator' = None
      BY <2>2
    <2>8. inflating /\ ~NeedsZLib => ~OnTrueColor /\ selectedEncoder \in {"TRLE", "Hextile"}
      BY <2>1
    <2> QED
      BY <2>1, <2>6, <2>7, <2>8
  <1>11. CASE CopyFormat
    BY <1>11 DEF CopyFormat
  <1>12. CASE ClearFormat
    BY <1>12 DEF ClearFormat
  <1>13. CASE ReadColorTable
    BY <1>13 DEF ReadColorTable
  <1>14. CASE SendColorMap
    BY <1>14 DEF SendColorMap
  <1>15. CASE SendFrame
    BY <1>15 DEF SendFrame, None
  <1>16. CASE UNCHANGED svars
    BY <1>16, BufferKept DEF svars
  <1> QED
    BY <1>1, <1>2, <1>3, <1>4, <1>5, <1>6, <1>7, <1>8, <1>9, <1>10, <1>11, <1>12,
       <1>13, <1>14, <1>15, <1>16 DEF SetupNext

StreamAll ==
  SetupTypes /\ StreamTypes /\ ChoiceInv /\ SizeInv /\ AvailInv /\ StreamInv

\* What ZRLE and Tight send is one compressed stream for each session (VNCEncoderZLib, with
\* clear(), begin() and fbSyncTasks of VNCEncoder): a compressor that another client has heard
\* is never used for this one, and one that this client has heard is never replaced, when
\* the buffer of ZRLE is larger than those of the other encoders and no client that was
\* sent Tight is found to know ZRLE or Hextile.
THEOREM OneStreamPerSession ==
  ASSUME "tightThenZrle" \notin Mishaps, "tightThenHextile" \notin Mishaps, SizesDiffer
  PROVE  SetupSpec => []StreamPerSession
<1>1. SetupInit => StreamAll
  <2> SUFFICES ASSUME SetupInit PROVE StreamAll
    OBVIOUS
  <2>1. SetupTypes
    BY FormatFacts, SetupAssumption DEF SetupInit, SetupTypes, Formats, ScreenFormat
  <2>2. StreamTypes
    BY DEF SetupInit, StreamTypes
  <2>3. ChoiceInv /\ SizeInv /\ AvailInv /\ StreamInv
    BY DEF SetupInit, ChoiceInv, SizeInv, AvailInv, StreamInv, InSession, Busy, None
  <2> QED
    BY <2>1, <2>2, <2>3 DEF StreamAll
<1>2. StreamAll /\ [SetupNext]_svars => StreamAll'
  BY TypeStep, StreamTypeStep, ChoiceStep, SizeStep, AvailStep, StreamStep DEF StreamAll
<1>3. StreamAll => StreamPerSession
  <2> SUFFICES ASSUME StreamAll, Sending, NeedsZLib PROVE deflator = "used" <=> inflating
    BY DEF StreamPerSession
  <2>1. InSession /\ spc # "sync"
    BY DEF Sending, InSession
  <2> QED
    BY <2>1 DEF StreamAll, StreamInv
<1> QED
  BY <1>1, <1>2, <1>3, PTL DEF SetupSpec

----------------------------------------------------------------------------
(* Colours on the wire: what WirePixels sends is what the client reads. First   *)
(* come facts about powers of two, bytes and channels, then the bytes of a pixel *)
(* and the pixels behind one another, last the session.                          *)

\* The powers of two up to the size of a colour.
LEMMA TwoPowers ==
  /\ 2 ^ 0 = 1 /\ 2 ^ 1 = 2 /\ 2 ^ 2 = 4 /\ 2 ^ 3 = 8
  /\ 2 ^ 4 = 16 /\ 2 ^ 5 = 32 /\ 2 ^ 6 = 64 /\ 2 ^ 7 = 128
  /\ 2 ^ 8 = 256 /\ 2 ^ 9 = 512 /\ 2 ^ 10 = 1024 /\ 2 ^ 11 = 2048
  /\ 2 ^ 12 = 4096 /\ 2 ^ 13 = 8192 /\ 2 ^ 14 = 16384 /\ 2 ^ 15 = 32768
  /\ 2 ^ 16 = 65536 /\ 2 ^ 17 = 131072 /\ 2 ^ 18 = 262144 /\ 2 ^ 19 = 524288
  /\ 2 ^ 20 = 1048576 /\ 2 ^ 21 = 2097152 /\ 2 ^ 22 = 4194304 /\ 2 ^ 23 = 8388608
  /\ 2 ^ 24 = 16777216
OBVIOUS

\* A shift by one more doubles.
LEMMA Doubling ==
  ASSUME NEW k \in 0 .. 23
  PROVE  2 ^ (k + 1) = 2 * 2 ^ k /\ 2 ^ k \in Nat \ {0} /\ 2 ^ (k + 1) \in Nat \ {0}
<1> SUFFICES ASSUME NEW m, m = k + 1 PROVE 2 ^ m = 2 * 2 ^ k /\ 2 ^ k \in Nat \ {0} /\ 2 ^ m \in Nat \ {0}
  OBVIOUS
<1>1. CASE k = 0
  BY <1>1, TwoPowers
<1>2. CASE k = 1
  BY <1>2, TwoPowers
<1>3. CASE k = 2
  BY <1>3, TwoPowers
<1>4. CASE k = 3
  BY <1>4, TwoPowers
<1>5. CASE k = 4
  BY <1>5, TwoPowers
<1>6. CASE k = 5
  BY <1>6, TwoPowers
<1>7. CASE k = 6
  BY <1>7, TwoPowers
<1>8. CASE k = 7
  BY <1>8, TwoPowers
<1>9. CASE k = 8
  BY <1>9, TwoPowers
<1>10. CASE k = 9
  BY <1>10, TwoPowers
<1>11. CASE k = 10
  BY <1>11, TwoPowers
<1>12. CASE k = 11
  BY <1>12, TwoPowers
<1>13. CASE k = 12
  BY <1>13, TwoPowers
<1>14. CASE k = 13
  BY <1>14, TwoPowers
<1>15. CASE k = 14
  BY <1>15, TwoPowers
<1>16. CASE k = 15
  BY <1>16, TwoPowers
<1>17. CASE k = 16
  BY <1>17, TwoPowers
<1>18. CASE k = 17
  BY <1>18, TwoPowers
<1>19. CASE k = 18
  BY <1>19, TwoPowers
<1>20. CASE k = 19
  BY <1>20, TwoPowers
<1>21. CASE k = 20
  BY <1>21, TwoPowers
<1>22. CASE k = 21
  BY <1>22, TwoPowers
<1>23. CASE k = 22
  BY <1>23, TwoPowers
<1>24. CASE k = 23
  BY <1>24, TwoPowers
<1> QED BY <1>1, <1>2, <1>3, <1>4, <1>5, <1>6, <1>7, <1>8, <1>9, <1>10, <1>11, <1>12, <1>13,
           <1>14, <1>15, <1>16, <1>17, <1>18, <1>19, <1>20, <1>21, <1>22, <1>23, <1>24

\* The least number of a set.
LEMMA LeastNumber ==
  ASSUME NEW B \in SUBSET Nat, B # {}
  PROVE  \E n \in B : \A k \in B : n <= k
<1>1. PICK n \in B : \A k \in B : ~(<<k, n>> \in OpToRel(<, Nat))
  BY NatLessThanWellFounded, WFMin, Zenon
<1>2. \A k \in B : ~(k < n)
  BY <1>1 DEF OpToRel
<1> QED BY <1>2

\* Powers are positive.
LEMMA PowerOf ==
  ASSUME NEW a \in 0 .. 24
  PROVE  2 ^ a \in Nat \ {0}
<1>1. CASE a = 24
  BY <1>1, TwoPowers
<1>2. CASE a # 24
  <2>1. a \in 0 .. 23
    BY <1>2
  <2> QED BY <2>1, Doubling
<1> QED BY <1>1, <1>2

\* A power is the product of two.
PowersAt(a) == \A b \in a .. 24 : 2 ^ b = 2 ^ a * 2 ^ (b - a)

\* The same of all powers up to the size of a colour.
LEMMA PowersDivide == \A a \in 0 .. 24 : PowersAt(a)
<1> DEFINE B == {a \in 0 .. 24 : ~PowersAt(a)}
<1> SUFFICES ASSUME B # {} PROVE FALSE
  OBVIOUS
<1>1. PICK a \in B : \A k \in B : a <= k
  <2>1. B \in SUBSET Nat
    OBVIOUS
  <2> HIDE DEF B
  <2> QED BY <2>1, LeastNumber
<1>2. a \in 0 .. 24 /\ ~PowersAt(a)
  OBVIOUS
<1>3. a # 0
  <2> SUFFICES ASSUME a = 0, NEW b \in 0 .. 24 PROVE 2 ^ b = 2 ^ a * 2 ^ (b - a)
    BY <1>2 DEF PowersAt
  <2>1. 2 ^ b \in Nat
    BY PowerOf
  <2>2. b - a = b /\ 2 ^ a = 1
    BY TwoPowers
  <2> QED BY <2>1, <2>2
<1>4. PowersAt(a - 1) /\ a - 1 \in 0 .. 23
  <2>1. a - 1 \in 0 .. 23 /\ ~(a <= a - 1)
    BY <1>2, <1>3
  <2>2. a - 1 \notin B
    <3> HIDE DEF B
    <3> QED BY <1>1, <2>1
  <2> QED BY <2>1, <2>2
<1>5. ASSUME NEW b \in a .. 24 PROVE 2 ^ b = 2 ^ a * 2 ^ (b - a)
  <2> DEFINE x == 2 ^ (a - 1)
             y == 2 ^ (b - a)
             z == 2 ^ ((b - a) + 1)
             u == 2 ^ a
  <2>1. b - (a - 1) = (b - a) + 1 /\ b - a \in 0 .. 23 /\ b \in (a - 1) .. 24 /\ (a - 1) + 1 = a
    BY <1>2, <1>3
  <2>2. 2 ^ b = x * z
    BY <1>4, <2>1 DEF PowersAt
  <2>3. z = 2 * y /\ y \in Nat
    BY <2>1, Doubling
  <2>4. u = 2 * x /\ x \in Nat
    BY <1>4, <2>1, Doubling
  <2> HIDE DEF x, y, z, u
  <2>5. x * (2 * y) = (2 * x) * y
    BY <2>3, <2>4
  <2>6. 2 ^ b = u * y
    BY <2>2, <2>3, <2>4, <2>5
  <2> QED BY <2>6 DEF u, y
<1> QED BY <1>2, <1>5 DEF PowersAt

\* A power that is no smaller is a multiple.
LEMMA PowerDivides ==
  ASSUME NEW a \in 0 .. 24, NEW b \in a .. 24
  PROVE  \E q \in Nat \ {0} : 2 ^ b = 2 ^ a * q
<1>1. b - a \in 0 .. 24
  OBVIOUS
<1>2. 2 ^ (b - a) \in Nat \ {0}
  BY <1>1, PowerOf
<1>3. 2 ^ b = 2 ^ a * 2 ^ (b - a)
  BY PowersDivide DEF PowersAt
<1> QED BY <1>2, <1>3

\* What three bytes count to.
ColorValue(b0, b1, b2) == b0 + 256 * b1 + 65536 * b2

\* The low three bytes of a value that is shifted make it up again.
LEMMA ThreeBytes ==
  ASSUME NEW s \in 0 .. 23, NEW v \in Nat, v * 2 ^ s < 2 ^ 24
  PROVE  /\ ShiftedByte(v, s, 0) \in 0 .. 255 /\ ShiftedByte(v, s, 1) \in 0 .. 255
         /\ ShiftedByte(v, s, 2) \in 0 .. 255
         /\ ColorValue(ShiftedByte(v, s, 0), ShiftedByte(v, s, 1), ShiftedByte(v, s, 2))
              = v * 2 ^ s
<1>1. CASE s = 0
  BY <1>1, TwoPowers, SMT DEF ShiftedByte, ColorValue
<1>2. CASE s = 1
  BY <1>2, TwoPowers, SMT DEF ShiftedByte, ColorValue
<1>3. CASE s = 2
  BY <1>3, TwoPowers, SMT DEF ShiftedByte, ColorValue
<1>4. CASE s = 3
  BY <1>4, TwoPowers, SMT DEF ShiftedByte, ColorValue
<1>5. CASE s = 4
  BY <1>5, TwoPowers, SMT DEF ShiftedByte, ColorValue
<1>6. CASE s = 5
  BY <1>6, TwoPowers, SMT DEF ShiftedByte, ColorValue
<1>7. CASE s = 6
  BY <1>7, TwoPowers, SMT DEF ShiftedByte, ColorValue
<1>8. CASE s = 7
  BY <1>8, TwoPowers, SMT DEF ShiftedByte, ColorValue
<1>9. CASE s = 8
  BY <1>9, TwoPowers, SMT DEF ShiftedByte, ColorValue
<1>10. CASE s = 9
  BY <1>10, TwoPowers, SMT DEF ShiftedByte, ColorValue
<1>11. CASE s = 10
  BY <1>11, TwoPowers, SMT DEF ShiftedByte, ColorValue
<1>12. CASE s = 11
  BY <1>12, TwoPowers, SMT DEF ShiftedByte, ColorValue
<1>13. CASE s = 12
  BY <1>13, TwoPowers, SMT DEF ShiftedByte, ColorValue
<1>14. CASE s = 13
  BY <1>14, TwoPowers, SMT DEF ShiftedByte, ColorValue
<1>15. CASE s = 14
  BY <1>15, TwoPowers, SMT DEF ShiftedByte, ColorValue
<1>16. CASE s = 15
  BY <1>16, TwoPowers, SMT DEF ShiftedByte, ColorValue
<1>17. CASE s = 16
  BY <1>17, TwoPowers, SMT DEF ShiftedByte, ColorValue
<1>18. CASE s = 17
  BY <1>18, TwoPowers, SMT DEF ShiftedByte, ColorValue
<1>19. CASE s = 18
  BY <1>19, TwoPowers, SMT DEF ShiftedByte, ColorValue
<1>20. CASE s = 19
  BY <1>20, TwoPowers, SMT DEF ShiftedByte, ColorValue
<1>21. CASE s = 20
  BY <1>21, TwoPowers, SMT DEF ShiftedByte, ColorValue
<1>22. CASE s = 21
  BY <1>22, TwoPowers, SMT DEF ShiftedByte, ColorValue
<1>23. CASE s = 22
  BY <1>23, TwoPowers, SMT DEF ShiftedByte, ColorValue
<1>24. CASE s = 23
  BY <1>24, TwoPowers, SMT DEF ShiftedByte, ColorValue
<1> QED BY <1>1, <1>2, <1>3, <1>4, <1>5, <1>6, <1>7, <1>8, <1>9, <1>10, <1>11, <1>12, <1>13,
           <1>14, <1>15, <1>16, <1>17, <1>18, <1>19, <1>20, <1>21, <1>22, <1>23, <1>24

\* What is shifted out.
LEMMA ShiftedOut ==
  ASSUME NEW s \in 0 .. 23, NEW low \in Nat, low < 2 ^ s, NEW high \in Nat
  PROVE  (low + 2 ^ s * high) \div 2 ^ s = high
<1>1. CASE s = 0
  BY <1>1, TwoPowers
<1>2. CASE s = 1
  BY <1>2, TwoPowers
<1>3. CASE s = 2
  BY <1>3, TwoPowers
<1>4. CASE s = 3
  BY <1>4, TwoPowers
<1>5. CASE s = 4
  BY <1>5, TwoPowers
<1>6. CASE s = 5
  BY <1>6, TwoPowers
<1>7. CASE s = 6
  BY <1>7, TwoPowers
<1>8. CASE s = 7
  BY <1>8, TwoPowers
<1>9. CASE s = 8
  BY <1>9, TwoPowers
<1>10. CASE s = 9
  BY <1>10, TwoPowers
<1>11. CASE s = 10
  BY <1>11, TwoPowers
<1>12. CASE s = 11
  BY <1>12, TwoPowers
<1>13. CASE s = 12
  BY <1>13, TwoPowers
<1>14. CASE s = 13
  BY <1>14, TwoPowers
<1>15. CASE s = 14
  BY <1>15, TwoPowers
<1>16. CASE s = 15
  BY <1>16, TwoPowers
<1>17. CASE s = 16
  BY <1>17, TwoPowers
<1>18. CASE s = 17
  BY <1>18, TwoPowers
<1>19. CASE s = 18
  BY <1>19, TwoPowers
<1>20. CASE s = 19
  BY <1>20, TwoPowers
<1>21. CASE s = 20
  BY <1>21, TwoPowers
<1>22. CASE s = 21
  BY <1>22, TwoPowers
<1>23. CASE s = 22
  BY <1>23, TwoPowers
<1>24. CASE s = 23
  BY <1>24, TwoPowers
<1> QED BY <1>1, <1>2, <1>3, <1>4, <1>5, <1>6, <1>7, <1>8, <1>9, <1>10, <1>11, <1>12, <1>13,
           <1>14, <1>15, <1>16, <1>17, <1>18, <1>19, <1>20, <1>21, <1>22, <1>23, <1>24

\* What is cut off.
LEMMA CutOff ==
  ASSUME NEW w \in 1 .. 8, NEW v \in Nat, v < 2 ^ w, NEW high \in Nat
  PROVE  (v + 2 ^ w * high) % 2 ^ w = v
<1>1. CASE w = 1
  BY <1>1, TwoPowers
<1>2. CASE w = 2
  BY <1>2, TwoPowers
<1>3. CASE w = 3
  BY <1>3, TwoPowers
<1>4. CASE w = 4
  BY <1>4, TwoPowers
<1>5. CASE w = 5
  BY <1>5, TwoPowers
<1>6. CASE w = 6
  BY <1>6, TwoPowers
<1>7. CASE w = 7
  BY <1>7, TwoPowers
<1>8. CASE w = 8
  BY <1>8, TwoPowers
<1> QED BY <1>1, <1>2, <1>3, <1>4, <1>5, <1>6, <1>7, <1>8

\* Products with a larger factor are larger.
LEMMA TimesMonotone ==
  ASSUME NEW a \in Nat, NEW b \in Nat, NEW p \in Nat, a <= b
  PROVE  a * p <= b * p /\ a * p \in Nat /\ b * p \in Nat
OBVIOUS

\* A channel below another stays below it.
LEMMA LowChannel ==
  ASSUME NEW s \in 0 .. 23, NEW w \in 1 .. 8, NEW t \in 0 .. 24, s + w <= t,
         NEW v \in Nat, v < 2 ^ w
  PROVE  v * 2 ^ s + 2 ^ s <= 2 ^ t /\ v * 2 ^ s \in Nat /\ 2 ^ s \in Nat \ {0}
<1> DEFINE p == 2 ^ s
           m == 2 ^ w
           e == 2 ^ (s + w)
           f == 2 ^ t
<1>1. s + w \in s .. 24 /\ (s + w) - s = w /\ t \in (s + w) .. 24 /\ s + w \in 0 .. 24 /\ w \in 0 .. 24
      /\ s \in 0 .. 24
  OBVIOUS
<1>2. p \in Nat \ {0} /\ m \in Nat \ {0} /\ e \in Nat \ {0}
  BY <1>1, PowerOf
<1>3. e = p * m
  BY <1>1, PowersDivide DEF PowersAt
<1>4. PICK q \in Nat \ {0} : f = e * q
  BY <1>1, PowerDivides
<1>5. v + 1 <= m
  BY <1>2
<1> HIDE DEF p, m, e, f
<1>6. (v + 1) * p <= m * p /\ (v + 1) * p = v * p + p /\ v * p \in Nat
  <2>1. (v + 1) * p <= m * p
    BY <1>2, <1>5, TimesMonotone
  <2> QED BY <1>2, <2>1
<1>7. 1 * e <= q * e
  BY <1>2, <1>4, TimesMonotone
<1>8. e <= f
  <2>1. 1 * e = e /\ q * e = e * q
    BY <1>2
  <2> QED BY <1>4, <1>7, <2>1
<1>9. m * p = e
  BY <1>2, <1>3
<1>10. v * p + p <= f
  BY <1>2, <1>4, <1>6, <1>8, <1>9
<1> QED BY <1>2, <1>6, <1>10 DEF p, f

\* A channel above another is a multiple of what is beyond that one.
LEMMA HighChannel ==
  ASSUME NEW t \in 0 .. 24, NEW s \in t .. 24, NEW v \in Nat
  PROVE  \E h \in Nat : v * 2 ^ s = 2 ^ t * h
<1> DEFINE p == 2 ^ s
           e == 2 ^ t
<1>1. PICK q \in Nat \ {0} : p = e * q
  BY PowerDivides
<1>2. e \in Nat
  BY PowerOf
<1> HIDE DEF p, e
<1>3. v * q \in Nat /\ v * (e * q) = e * (v * q)
  BY <1>1, <1>2
<1>4. v * p = e * (v * q)
  BY <1>1, <1>3
<1> QED BY <1>3, <1>4 DEF p, e

\* A channel between what lies below it and what lies above it.
LEMMA ChannelBetween ==
  \A s, w, v, low, high :
    /\ s \in 0 .. 23 /\ w \in 1 .. 8 /\ s + w <= 24 /\ v \in Nat /\ v < 2 ^ w
    /\ low \in Nat /\ low < 2 ^ s /\ high \in Nat
    => ((low + v * 2 ^ s + 2 ^ (s + w) * high) \div 2 ^ s) % 2 ^ w = v
<1> TAKE s, w, v, low, high
<1> HAVE /\ s \in 0 .. 23 /\ w \in 1 .. 8 /\ s + w <= 24 /\ v \in Nat /\ v < 2 ^ w
         /\ low \in Nat /\ low < 2 ^ s /\ high \in Nat
<1> DEFINE p == 2 ^ s
           m == 2 ^ w
           e == 2 ^ (s + w)
           k == v + m * high
<1>1. p \in Nat /\ m \in Nat
  BY PowerOf
<1>2. e = p * m
  <2>1. s + w \in s .. 24 /\ (s + w) - s = w /\ s \in 0 .. 24
    OBVIOUS
  <2> QED BY <2>1, PowersDivide DEF PowersAt
<1> HIDE DEF e
<1>3. k \in Nat
  <2> HIDE DEF m
  <2> QED BY <1>1
<1>4. low + v * p + e * high = low + p * k
  <2> HIDE DEF p, m
  <2>1. (p * m) * high = p * (m * high)
    BY <1>1
  <2>2. p * (v + m * high) = p * v + p * (m * high)
    BY <1>1
  <2> QED BY <1>1, <1>2, <2>1, <2>2
<1>5. (low + p * k) \div p = k
  <2> HIDE DEF k
  <2> QED BY <1>3, ShiftedOut
<1>6. k % m = v
  BY CutOff
<1> HIDE DEF p, m, k
<1>7. ((low + v * p + e * high) \div p) % m = v
  BY <1>4, <1>5, <1>6
<1> QED BY <1>7 DEF p, m, e

\* A value of w bits that is shifted by s.
ChannelFits(s, w, v) == s \in 0 .. 23 /\ w \in 1 .. 8 /\ s + w <= 24 /\ v \in Nat /\ v < 2 ^ w

\* It is found in the sum with others.
Extracted(v, s, w, x, y) == ((v * 2 ^ s + x + y) \div 2 ^ s) % 2 ^ w = v

\* The same of one channel below another.
LEMMA LowerChannel ==
  \A s \in 0 .. 23 : \A w \in 1 .. 8 : \A t \in 0 .. 24 : \A v \in Nat :
    s + w <= t /\ v < 2 ^ w => v * 2 ^ s + 2 ^ s <= 2 ^ t
BY LowChannel

\* A channel is found again among the three, which lie beside each other.
LEMMA OneOfThree ==
  \A s1, w1, v1, s2, w2, v2, s3, w3, v3 :
    /\ ChannelFits(s1, w1, v1) /\ ChannelFits(s2, w2, v2) /\ ChannelFits(s3, w3, v3)
    /\ Beside(s1, w1, s2, w2) /\ Beside(s1, w1, s3, w3) /\ Beside(s2, w2, s3, w3)
    => Extracted(v1, s1, w1, v2 * 2 ^ s2, v3 * 2 ^ s3)
<1> TAKE s1, w1, v1, s2, w2, v2, s3, w3, v3
<1> HAVE /\ ChannelFits(s1, w1, v1) /\ ChannelFits(s2, w2, v2) /\ ChannelFits(s3, w3, v3)
         /\ Beside(s1, w1, s2, w2) /\ Beside(s1, w1, s3, w3) /\ Beside(s2, w2, s3, w3)
<1> USE DEF ChannelFits, Extracted
<1> DEFINE x1 == v1 * 2 ^ s1
           x2 == v2 * 2 ^ s2
           x3 == v3 * 2 ^ s3
           p == 2 ^ s1
           e == 2 ^ (s1 + w1)
           Between(low, high) == low \in Nat /\ low < p /\ high \in Nat
                                 /\ x1 + x2 + x3 = low + x1 + e * high
<1>a. /\ s1 \in 0 .. 24 /\ s2 \in 0 .. 24 /\ s3 \in 0 .. 24 /\ s1 + w1 \in 0 .. 24
      /\ s1 \in Int /\ s2 \in Int /\ s3 \in Int
  OBVIOUS
<1>b. 2 ^ s1 \in Nat \ {0} /\ 2 ^ s2 \in Nat \ {0} /\ 2 ^ s3 \in Nat \ {0} /\ e \in Nat \ {0}
  <2>1. 2 ^ s1 \in Nat \ {0}
    BY <1>a, PowerOf
  <2>2. 2 ^ s2 \in Nat \ {0}
    BY <1>a, PowerOf
  <2>3. 2 ^ s3 \in Nat \ {0}
    BY <1>a, PowerOf
  <2>4. e \in Nat \ {0}
    BY <1>a, PowerOf
  <2> QED BY <2>1, <2>2, <2>3, <2>4
<1>1. x1 \in Nat /\ x2 \in Nat /\ x3 \in Nat /\ p \in Nat \ {0} /\ e \in Nat \ {0}
  BY <1>b
<1>2. s2 + w2 <= s1 => x2 + 2 ^ s2 <= p /\ 2 ^ s2 \in Nat \ {0}
  BY <1>a, <1>b, LowerChannel
<1>3. s3 + w3 <= s1 => x3 + 2 ^ s3 <= p /\ 2 ^ s3 \in Nat \ {0}
  BY <1>a, <1>b, LowerChannel
<1>4. s1 + w1 <= s2 => \E h \in Nat : x2 = e * h
  <2> SUFFICES ASSUME s1 + w1 <= s2 PROVE \E h \in Nat : x2 = e * h
    OBVIOUS
  <2>1. s1 + w1 \in 0 .. 24 /\ s2 \in (s1 + w1) .. 24
    OBVIOUS
  <2> QED BY <2>1, HighChannel
<1>5. s1 + w1 <= s3 => \E h \in Nat : x3 = e * h
  <2> SUFFICES ASSUME s1 + w1 <= s3 PROVE \E h \in Nat : x3 = e * h
    OBVIOUS
  <2>1. s1 + w1 \in 0 .. 24 /\ s3 \in (s1 + w1) .. 24
    OBVIOUS
  <2> QED BY <2>1, HighChannel
<1>6. s2 + w2 <= s3 => x2 + 2 ^ s2 <= 2 ^ s3
  BY <1>a, <1>b, LowerChannel
<1>7. s3 + w3 <= s2 => x3 + 2 ^ s3 <= 2 ^ s2
  BY <1>a, <1>b, LowerChannel
<1>8. \E low, high : Between(low, high)
  <2>1. CASE s2 + w2 <= s1 /\ s3 + w3 <= s1
    <3>1. Between(x2 + x3, 0)
      <4> DEFINE q2 == 2 ^ s2
                 q3 == 2 ^ s3
      <4>1. q2 \in Nat \ {0} /\ q3 \in Nat \ {0} /\ x2 + q2 <= p /\ x3 + q3 <= p
        BY <1>2, <1>3, <2>1
      <4>2. x2 + q2 <= q3 \/ x3 + q3 <= q2
        BY <1>6, <1>7 DEF Beside
      <4> HIDE DEF x1, x2, x3, p, e, q2, q3
      <4> QED BY <1>1, <4>1, <4>2
    <3> QED BY <3>1
  <2>2. CASE s2 + w2 <= s1 /\ s1 + w1 <= s3
    <3>1. PICK h \in Nat : x3 = e * h
      BY <1>5, <2>2
    <3>2. Between(x2, h)
      <4> DEFINE q2 == 2 ^ s2
      <4>1. q2 \in Nat \ {0} /\ x2 + q2 <= p
        BY <1>2, <2>2
      <4> HIDE DEF x1, x2, x3, p, e, q2
      <4> QED BY <1>1, <3>1, <4>1
    <3> QED BY <3>2
  <2>3. CASE s1 + w1 <= s2 /\ s3 + w3 <= s1
    <3>1. PICK h \in Nat : x2 = e * h
      BY <1>4, <2>3
    <3>2. Between(x3, h)
      <4> DEFINE q3 == 2 ^ s3
      <4>1. q3 \in Nat \ {0} /\ x3 + q3 <= p
        BY <1>3, <2>3
      <4> HIDE DEF x1, x2, x3, p, e, q3
      <4> QED BY <1>1, <3>1, <4>1
    <3> QED BY <3>2
  <2>4. CASE s1 + w1 <= s2 /\ s1 + w1 <= s3
    <3>1. PICK h \in Nat : x2 = e * h
      BY <1>4, <2>4
    <3>2. PICK g \in Nat : x3 = e * g
      BY <1>5, <2>4
    <3>3. Between(0, h + g)
      <4> HIDE DEF x1, x2, x3, p, e
      <4>1. e * (h + g) = e * h + e * g
        BY <1>1
      <4> QED BY <1>1, <3>1, <3>2, <4>1
    <3> QED BY <3>3
  <2> QED BY <2>1, <2>2, <2>3, <2>4 DEF Beside
<1>9. PICK low, high : Between(low, high)
  BY <1>8
<1>9a. /\ low \in Nat /\ low < 2 ^ s1 /\ high \in Nat
       /\ x1 + x2 + x3 = low + x1 + e * high
  BY <1>9
<1>10. ((low + x1 + e * high) \div p) % 2 ^ w1 = v1
  <2>1. /\ s1 \in 0 .. 23 /\ w1 \in 1 .. 8 /\ s1 + w1 <= 24 /\ v1 \in Nat /\ v1 < 2 ^ w1
        /\ low \in Nat /\ low < 2 ^ s1 /\ high \in Nat
    BY <1>9a
  <2> QED BY <2>1, ChannelBetween, Zenon
<1> HIDE DEF x1, x2, x3, p, e
<1>11. ((x1 + x2 + x3) \div p) % 2 ^ w1 = v1
  BY <1>9a, <1>10
<1> QED BY <1>11 DEF x1, x2, x3, p

\* The format of a client in true colour.
FormatTyped(f) ==
  /\ f.trueColor /\ f.bits \in {8, 16, 32} /\ f.big \in BOOLEAN
  /\ f.max \in [Channels -> Nat] /\ f.shift \in [Channels -> Nat]

\* The bytes of a pixel in a format: all four, three of a long, or those of a short format.
SizeFits(f, n) == n \in 1 .. 4 /\ (8 * n = f.bits \/ (n = 3 /\ f.bits = 32))

\* The bits of a colour in n bytes.
ColorBits(n) == IF n >= 3 THEN 24 ELSE 8 * n

\* A colour of few bytes has none above.
NoMore(n, b1, b2) == (n = 1 => b1 = 0 /\ b2 = 0) /\ (n = 2 => b2 = 0)

\* The bytes of one channel.
ChannelParts(s, w, v, n, b0, b1, b2) ==
  /\ b0 \in Nat /\ b1 \in Nat /\ b2 \in Nat
  /\ b0 = ShiftedByte(v, s, 0) /\ b1 = ShiftedByte(v, s, 1) /\ b2 = ShiftedByte(v, s, 2)
  /\ ColorValue(b0, b1, b2) = v * 2 ^ s /\ NoMore(n, b1, b2)

\* The bytes of a channel exist, and make up its shifted value.
LEMMA ChannelBytes ==
  \A s, w, v, n :
    /\ s \in Nat /\ w \in 1 .. 8 /\ v \in Nat /\ v < 2 ^ w /\ n \in 1 .. 4
    /\ s + w <= ColorBits(n)
    => \E b0, b1, b2 : ChannelParts(s, w, v, n, b0, b1, b2)
<1> TAKE s, w, v, n
<1> HAVE /\ s \in Nat /\ w \in 1 .. 8 /\ v \in Nat /\ v < 2 ^ w /\ n \in 1 .. 4
         /\ s + w <= ColorBits(n)
<1> DEFINE b0 == ShiftedByte(v, s, 0)
           b1 == ShiftedByte(v, s, 1)
           b2 == ShiftedByte(v, s, 2)
           x == v * 2 ^ s
           t == ColorBits(n)
<1>1. /\ s \in 0 .. 23 /\ t \in 0 .. 24 /\ s + w <= t
      /\ (n = 1 => t = 8) /\ (n = 2 => t = 16) /\ (n >= 3 => t = 24)
  BY DEF ColorBits
<1>2. x < 2 ^ t /\ x < 2 ^ 24 /\ x \in Nat
  <2> DEFINE p == 2 ^ s
             e == 2 ^ t
             l == 2 ^ 24
  <2>1. s \in 0 .. 24 /\ s + w <= 24 /\ 24 \in 0 .. 24
    BY <1>1
  <2>2. p \in Nat \ {0} /\ e \in Nat /\ l \in Nat
    BY <1>1, <2>1, PowerOf
  <2>3. x + p <= e
    BY <1>1, LowerChannel
  <2>4. x + p <= l
    BY <1>1, <2>1, LowerChannel
  <2>5. x \in Nat
    BY <2>2
  <2> HIDE DEF x, p, e, l
  <2>6. x < e /\ x < l
    BY <2>2, <2>3, <2>4, <2>5
  <2> QED BY <2>5, <2>6 DEF e, l
<1>4. b0 \in 0 .. 255 /\ b1 \in 0 .. 255 /\ b2 \in 0 .. 255 /\ ColorValue(b0, b1, b2) = x
  BY <1>1, <1>2, ThreeBytes
<1> HIDE DEF b0, b1, b2, x, t
<1>5. CASE n = 1
  <2>1. b1 = 0 /\ b2 = 0
    BY <1>1, <1>2, <1>4, <1>5, TwoPowers, SMT DEF ColorValue
  <2> QED BY <1>4, <1>5, <2>1 DEF ChannelParts, NoMore, b0, b1, b2, x
<1>6. CASE n = 2
  <2>1. b2 = 0
    BY <1>1, <1>2, <1>4, <1>6, TwoPowers, SMT DEF ColorValue
  <2> QED BY <1>4, <1>6, <2>1 DEF ChannelParts, NoMore, b0, b1, b2, x
<1>7. CASE n >= 3
  BY <1>4, <1>7 DEF ChannelParts, NoMore, b0, b1, b2, x
<1> QED BY <1>5, <1>6, <1>7

\* The client finds the values side by side as they were packed.
LEMMA ValueIs ==
  ASSUME FormatTyped(wireFormat), Ordinary(wireFormat), NEW n, SizeFits(wireFormat, n),
         NEW w \in [Channels -> 1 .. 8], NEW v,
         \A c \in Channels :
           /\ wireFormat.max[c] = 2 ^ w[c] - 1 /\ v[c] \in 0 .. wireFormat.max[c]
           /\ wireFormat.shift[c] + w[c] <= IF wireFormat.bits = 32 THEN 24 ELSE wireFormat.bits
  PROVE  ClientValue(EmitWire(Packed(wireFormat, v), n))
           = v[1] * 2 ^ wireFormat.shift[1] + v[2] * 2 ^ wireFormat.shift[2]
             + v[3] * 2 ^ wireFormat.shift[3]
<1> DEFINE s == wireFormat.shift
           long == Packed(wireFormat, v)
           bytes == EmitWire(long, n)
           at(k) == IF k >= n THEN 0 ELSE IF wireFormat.big THEN bytes[n - k] ELSE bytes[k + 1]
<1>1. /\ n \in 1 .. 4 /\ (IF wireFormat.bits = 32 THEN 24 ELSE wireFormat.bits)
                          = ColorBits(n)
  BY DEF SizeFits, FormatTyped, ColorBits
<1>2. \A c \in Channels : /\ s[c] \in Nat /\ w[c] \in 1 .. 8 /\ v[c] \in Nat /\ v[c] < 2 ^ w[c]
                          /\ s[c] + w[c] <= ColorBits(n)
  <2> TAKE c \in Channels
  <2>1. w[c] \in 0 .. 24 /\ s[c] \in Nat /\ w[c] \in 1 .. 8
    BY DEF FormatTyped
  <2>2. 2 ^ w[c] \in Nat \ {0}
    BY <2>1, PowerOf
  <2>3. v[c] \in 0 .. (2 ^ w[c] - 1)
    BY Zenon
  <2> HIDE DEF s
  <2>4. v[c] \in Nat /\ v[c] < 2 ^ w[c]
    BY <2>2, <2>3
  <2>5. s[c] + w[c] <= ColorBits(n)
    BY <1>1 DEF s
  <2> QED BY <2>1, <2>4, <2>5
<1>3. 1 \in Channels /\ 2 \in Channels /\ 3 \in Channels
  BY DEF Channels
<1> DEFINE B(c, b0, b1, b2) == ChannelParts(s[c], w[c], v[c], n, b0, b1, b2)
<1>4. \A c \in Channels : \E b0, b1, b2 : B(c, b0, b1, b2)
  <2> TAKE c \in Channels
  <2> HIDE DEF s
  <2> QED BY <1>1, <1>2, ChannelBytes, Zenon
<1>5. PICK a0, a1, a2 : B(1, a0, a1, a2)
  BY <1>3, <1>4
<1>6. PICK b0, b1, b2 : B(2, b0, b1, b2)
  BY <1>3, <1>4
<1>7. PICK c0, c1, c2 : B(3, c0, c1, c2)
  BY <1>3, <1>4
<1>8. long[0] = a0 + b0 + c0 /\ long[1] = a1 + b1 + c1 /\ long[2] = a2 + b2 + c2
  BY <1>5, <1>6, <1>7 DEF Packed, ChannelParts
<1>9. Len(bytes) = n /\ \A k \in 0 .. (n - 1) : at(k) = long[k]
  <2> HIDE DEF long
  <2> QED BY <1>1 DEF EmitWire, FormatTyped
<1> HIDE DEF long
<1>10. at(0) = long[0] /\ at(1) = (IF n = 1 THEN 0 ELSE long[1])
       /\ at(2) = (IF n <= 2 THEN 0 ELSE long[2])
  <2>1. 0 \in 0 .. (n - 1) /\ (n # 1 => 1 \in 0 .. (n - 1)) /\ (~(n <= 2) => 2 \in 0 .. (n - 1))
    BY <1>1
  <2>2. (n = 1 => 1 >= n) /\ (n <= 2 => 2 >= n)
    OBVIOUS
  <2> HIDE DEF bytes
  <2> QED BY <1>9, <2>1, <2>2
<1>11. ClientValue(bytes) = ColorValue(at(0), at(1), at(2))
  <2> HIDE DEF bytes
  <2> QED BY <1>9, SMT DEF ClientValue, ColorValue
<1> HIDE DEF at, bytes
<1>12. ClientValue(bytes) = ColorValue(a0, a1, a2) + ColorValue(b0, b1, b2) + ColorValue(c0, c1, c2)
  <2>1. /\ a0 \in Nat /\ a1 \in Nat /\ a2 \in Nat /\ b0 \in Nat /\ b1 \in Nat /\ b2 \in Nat
        /\ c0 \in Nat /\ c1 \in Nat /\ c2 \in Nat
    BY <1>5, <1>6, <1>7 DEF ChannelParts
  <2>2. NoMore(n, a1, a2) /\ NoMore(n, b1, b2) /\ NoMore(n, c1, c2)
    BY <1>5, <1>6, <1>7 DEF ChannelParts
  <2> QED BY <1>1, <1>8, <1>10, <1>11, <2>1, <2>2, SMT DEF ColorValue, NoMore
<1>13. /\ ColorValue(a0, a1, a2) = v[1] * 2 ^ s[1] /\ ColorValue(b0, b1, b2) = v[2] * 2 ^ s[2]
       /\ ColorValue(c0, c1, c2) = v[3] * 2 ^ s[3]
  BY <1>5, <1>6, <1>7 DEF ChannelParts
<1> QED BY <1>12, <1>13 DEF bytes, long

\* The client reads each channel as it was scaled.
LEMMA ChannelsRead ==
  ASSUME FormatTyped(wireFormat), Ordinary(wireFormat), NEW n, SizeFits(wireFormat, n),
         NEW v, \A c \in Channels : v[c] \in 0 .. wireFormat.max[c]
  PROVE  \A c \in Channels : ClientChannel(EmitWire(Packed(wireFormat, v), n), c) = v[c]
<1> DEFINE s == wireFormat.shift
           m == wireFormat.max
           r == IF wireFormat.bits = 32 THEN 24 ELSE wireFormat.bits
<1>1. PICK w \in [Channels -> 1 .. 8] :
        /\ \A c \in Channels : m[c] = 2 ^ w[c] - 1 /\ s[c] + w[c] <= r
        /\ \A c, d \in Channels : c # d => Beside(s[c], w[c], s[d], w[d])
  BY DEF Ordinary
<1> DEFINE x(c) == v[c] * 2 ^ s[c]
           value == ClientValue(EmitWire(Packed(wireFormat, v), n))
<1>2. value = x(1) + x(2) + x(3)
  BY <1>1, ValueIs
<1>3. ASSUME NEW c \in Channels
      PROVE  /\ s[c] \in 0 .. 23 /\ w[c] \in 1 .. 8 /\ s[c] + w[c] <= 24 /\ v[c] \in Nat
             /\ v[c] < 2 ^ w[c] /\ m[c] + 1 = 2 ^ w[c] /\ x(c) \in Nat
  <2>1. /\ s[c] \in Nat /\ w[c] \in 1 .. 8 /\ r \in {8, 16, 24} /\ s[c] + w[c] <= r
        /\ v[c] \in 0 .. m[c] /\ m[c] = 2 ^ w[c] - 1
    BY <1>1 DEF FormatTyped
  <2>2. s[c] \in 0 .. 23 /\ s[c] + w[c] <= 24 /\ s[c] \in 0 .. 24 /\ w[c] \in 0 .. 24
    <3> HIDE DEF r, s
    <3> QED BY <2>1
  <2>3. 2 ^ w[c] \in Nat \ {0} /\ 2 ^ s[c] \in Nat \ {0}
    BY <2>2, PowerOf
  <2> HIDE DEF m, s, r
  <2>4. v[c] \in Nat /\ v[c] < 2 ^ w[c] /\ m[c] + 1 = 2 ^ w[c]
    BY <2>1, <2>3
  <2>5. x(c) \in Nat
    BY <2>3, <2>4
  <2> QED BY <2>1, <2>2, <2>4, <2>5
<1>4. 1 \in Channels /\ 2 \in Channels /\ 3 \in Channels
      /\ \A c \in Channels : c = 1 \/ c = 2 \/ c = 3
  BY DEF Channels
<1>5. ASSUME NEW c \in Channels, NEW d \in Channels, NEW e \in Channels, c # d, c # e, d # e
      PROVE  ((x(c) + x(d) + x(e)) \div 2 ^ s[c]) % 2 ^ w[c] = v[c]
  <2>1. Beside(s[c], w[c], s[d], w[d]) /\ Beside(s[c], w[c], s[e], w[e])
        /\ Beside(s[d], w[d], s[e], w[e])
    BY <1>1, <1>5
  <2>2. ChannelFits(s[c], w[c], v[c]) /\ ChannelFits(s[d], w[d], v[d])
        /\ ChannelFits(s[e], w[e], v[e])
    <3> HIDE DEF s
    <3> QED BY <1>3 DEF ChannelFits
  <2> DEFINE sc == s[c]
             sd == s[d]
             se == s[e]
             wc == w[c]
             wd == w[d]
             we == w[e]
             vc == v[c]
             vd == v[d]
             ve == v[e]
  <2>3. /\ ChannelFits(sc, wc, vc) /\ ChannelFits(sd, wd, vd) /\ ChannelFits(se, we, ve)
        /\ Beside(sc, wc, sd, wd) /\ Beside(sc, wc, se, we) /\ Beside(sd, wd, se, we)
    BY <2>1, <2>2
  <2>4. x(c) = vc * 2 ^ sc /\ x(d) = vd * 2 ^ sd /\ x(e) = ve * 2 ^ se
    OBVIOUS
  <2> HIDE DEF s, x, sc, sd, se, wc, wd, we, vc, vd, ve
  <2>5. Extracted(vc, sc, wc, vd * 2 ^ sd, ve * 2 ^ se)
    BY <2>3, OneOfThree, Zenon
  <2>6. ((x(c) + x(d) + x(e)) \div 2 ^ sc) % 2 ^ wc = vc
    BY <2>4, <2>5, Zenon DEF Extracted
  <2> QED BY <2>6 DEF sc, wc, vc
<1>6. ASSUME NEW c \in Channels
      PROVE  ClientChannel(EmitWire(Packed(wireFormat, v), n), c) = (value \div 2 ^ s[c]) % 2 ^ w[c]
  <2>1. m[c] + 1 = 2 ^ w[c]
    BY <1>3
  <2> HIDE DEF value
  <2> QED BY <2>1 DEF ClientChannel, value
<1> HIDE DEF x, value, s, m, r
<1>7. x(1) \in Nat /\ x(2) \in Nat /\ x(3) \in Nat
  BY <1>3, <1>4
<1>8. /\ value = x(2) + x(1) + x(3) /\ value = x(3) + x(1) + x(2)
  BY <1>2, <1>7
<1>9. /\ (value \div 2 ^ s[1]) % 2 ^ w[1] = v[1] /\ (value \div 2 ^ s[2]) % 2 ^ w[2] = v[2]
      /\ (value \div 2 ^ s[3]) % 2 ^ w[3] = v[3]
  <2>1. ((x(1) + x(2) + x(3)) \div 2 ^ s[1]) % 2 ^ w[1] = v[1]
    BY <1>4, <1>5
  <2>2. ((x(2) + x(1) + x(3)) \div 2 ^ s[2]) % 2 ^ w[2] = v[2]
    BY <1>4, <1>5
  <2>3. ((x(3) + x(1) + x(2)) \div 2 ^ s[3]) % 2 ^ w[3] = v[3]
    BY <1>4, <1>5
  <2> QED BY <1>2, <1>8, <2>1, <2>2, <2>3
<1> QED BY <1>4, <1>6, <1>9

\* What is stored of a long are the bytes of a colour in its order.
LEMMA StoredIs ==
  ASSUME NEW long, NEW n \in 1 .. 4, wireFormat.big \in BOOLEAN
  PROVE  Stored(IF wireFormat.big THEN long ELSE Swapped(long),
                IF wireFormat.big THEN 4 - n ELSE 0, 4 - n, n) = EmitWire(long, n)
<1>1. CASE wireFormat.big
  <2>1. ASSUME NEW i \in 1 .. n
        PROVE  (IF i > 4 - (4 - n) THEN Stale
                ELSE IF i + (4 - n) <= 4 THEN InMemory(long)[i + (4 - n)] ELSE 0) = long[n - i]
    <3>1. i <= n /\ ~(i > 4 - (4 - n)) /\ i + (4 - n) <= 4 /\ i + (4 - n) \in 1 .. 4
          /\ 4 - (i + (4 - n)) = n - i
      OBVIOUS
    <3>2. \A k \in 1 .. 4 : InMemory(long)[k] = long[4 - k]
      BY DEF InMemory
    <3>3. InMemory(long)[i + (4 - n)] = long[n - i]
      BY <3>1, <3>2
    <3> QED BY <3>1, <3>3
  <2> QED BY <1>1, <2>1, Zenon DEF Stored, EmitWire
<1>2. CASE ~wireFormat.big
  <2>1. ASSUME NEW i \in 1 .. n
        PROVE  (IF i > 4 - (4 - n) THEN Stale
                ELSE IF i + 0 <= 4 THEN InMemory(Swapped(long))[i + 0] ELSE 0) = long[i - 1]
    <3>1. i <= n /\ ~(i > 4 - (4 - n)) /\ i + 0 = i /\ i <= 4 /\ i \in 1 .. 4
      OBVIOUS
    <3>2. \A k \in 1 .. 4 : InMemory(Swapped(long))[k] = long[k - 1]
      BY DEF InMemory, Swapped
    <3>3. InMemory(Swapped(long))[i] = long[i - 1]
      BY <3>1, <3>2
    <3> QED BY <3>1, <3>3
  <2> QED BY <1>2, <2>1, Zenon DEF Stored, EmitWire
<1> QED BY <1>1, <1>2

\* One less than a power of two, of up to eight bits.
AllOnes == {1, 3, 7, 15, 31, 63, 127, 255}

\* The largest values of channels are such numbers.
LEMMA OnesAre ==
  ASSUME NEW k \in 1 .. 8
  PROVE  2 ^ k - 1 \in AllOnes
<1>1. CASE k = 1
  BY <1>1, TwoPowers DEF AllOnes
<1>2. CASE k = 2
  BY <1>2, TwoPowers DEF AllOnes
<1>3. CASE k = 3
  BY <1>3, TwoPowers DEF AllOnes
<1>4. CASE k = 4
  BY <1>4, TwoPowers DEF AllOnes
<1>5. CASE k = 5
  BY <1>5, TwoPowers DEF AllOnes
<1>6. CASE k = 6
  BY <1>6, TwoPowers DEF AllOnes
<1>7. CASE k = 7
  BY <1>7, TwoPowers DEF AllOnes
<1>8. CASE k = 8
  BY <1>8, TwoPowers DEF AllOnes
<1> QED BY <1>1, <1>2, <1>3, <1>4, <1>5, <1>6, <1>7, <1>8

\* The largest value of a channel of the colour table.
Deepest == 65535

\* How close a colour of the table stays when it is scaled to a channel.
LEMMA IndexedClose ==
  ASSUME NEW m \in AllOnes, NEW x \in 0 .. Deepest, NEW d, d = (x * m) \div Deepest
  PROVE  d \in 0 .. m /\ CloseTo(d, x, Deepest, m)
<1>1. CASE m = 1
  BY <1>1, SMT DEF CloseTo, Deepest
<1>2. CASE m = 3
  BY <1>2, SMT DEF CloseTo, Deepest
<1>3. CASE m = 7
  BY <1>3, SMT DEF CloseTo, Deepest
<1>4. CASE m = 15
  BY <1>4, SMT DEF CloseTo, Deepest
<1>5. CASE m = 31
  BY <1>5, SMT DEF CloseTo, Deepest
<1>6. CASE m = 63
  BY <1>6, SMT DEF CloseTo, Deepest
<1>7. CASE m = 127
  BY <1>7, SMT DEF CloseTo, Deepest
<1>8. CASE m = 255
  BY <1>8, SMT DEF CloseTo, Deepest
<1> QED BY <1>1, <1>2, <1>3, <1>4, <1>5, <1>6, <1>7, <1>8 DEF AllOnes

\* A channel of five bits, by way of eight.
LEMMA FiveBitsClose ==
  ASSUME NEW m \in AllOnes, NEW x \in 0 .. 31,
         NEW e, e = (x * 255) \div 31, NEW d, d = (e * m) \div 255
  PROVE  d \in 0 .. m /\ CloseTo(d, x, 31, m)
<1>1. CASE m = 1
  BY <1>1, SMT DEF CloseTo
<1>2. CASE m = 3
  BY <1>2, SMT DEF CloseTo
<1>3. CASE m = 7
  BY <1>3, SMT DEF CloseTo
<1>4. CASE m = 15
  BY <1>4, SMT DEF CloseTo
<1>5. CASE m = 31
  BY <1>5, SMT DEF CloseTo
<1>6. CASE m = 63
  BY <1>6, SMT DEF CloseTo
<1>7. CASE m = 127
  BY <1>7, SMT DEF CloseTo
<1>8. CASE m = 255
  BY <1>8, SMT DEF CloseTo
<1> QED BY <1>1, <1>2, <1>3, <1>4, <1>5, <1>6, <1>7, <1>8 DEF AllOnes

\* A channel of eight bits.
LEMMA EightBitsClose ==
  ASSUME NEW m \in AllOnes, NEW x \in 0 .. 255,
         NEW d, d = (x * m) \div 255
  PROVE  d \in 0 .. m /\ CloseTo(d, x, 255, m)
<1>1. CASE m = 1
  BY <1>1, SMT DEF CloseTo
<1>2. CASE m = 3
  BY <1>2, SMT DEF CloseTo
<1>3. CASE m = 7
  BY <1>3, SMT DEF CloseTo
<1>4. CASE m = 15
  BY <1>4, SMT DEF CloseTo
<1>5. CASE m = 31
  BY <1>5, SMT DEF CloseTo
<1>6. CASE m = 63
  BY <1>6, SMT DEF CloseTo
<1>7. CASE m = 127
  BY <1>7, SMT DEF CloseTo
<1>8. CASE m = 255
  BY <1>8, SMT DEF CloseTo
<1> QED BY <1>1, <1>2, <1>3, <1>4, <1>5, <1>6, <1>7, <1>8 DEF AllOnes

\* Pieces of n elements each, and the first i of them behind one another.
Pieces(seqs, m, n, S) ==
  /\ m \in Nat /\ n \in 1 .. 4
  /\ \A k \in 1 .. m : seqs[k] \in Seq(S) /\ Len(seqs[k]) = n

\* The first i pieces of n elements as one sequence.
InRow(seqs, n, i) == [j \in 1 .. (n * i) |-> seqs[((j - 1) \div n) + 1][((j - 1) % n) + 1]]

\* The place of an element is in a piece.
LEMMA PieceOf ==
  ASSUME NEW n \in 1 .. 4, NEW i \in Nat, NEW j \in 1 .. (n * i)
  PROVE  /\ ((j - 1) \div n) + 1 \in 1 .. i /\ ((j - 1) % n) + 1 \in 1 .. n
         /\ j > n * (i - 1) => ((j - 1) \div n) + 1 = i /\ ((j - 1) % n) + 1 = j - n * (i - 1)
<1>1. CASE n = 1
  BY <1>1
<1>2. CASE n = 2
  BY <1>2
<1>3. CASE n = 3
  BY <1>3
<1>4. CASE n = 4
  BY <1>4
<1> QED BY <1>1, <1>2, <1>3, <1>4

\* It is a sequence of so many elements.
LEMMA InRowTyped ==
  ASSUME NEW seqs, NEW m, NEW n, NEW S, Pieces(seqs, m, n, S), NEW i \in 0 .. m
  PROVE  InRow(seqs, n, i) \in Seq(S) /\ Len(InRow(seqs, n, i)) = n * i /\ n * i \in Nat
<1>1. n \in 1 .. 4 /\ i \in Nat /\ m \in Nat
  BY DEF Pieces
<1>2. n * i \in Nat
  BY <1>1
<1>3. ASSUME NEW j \in 1 .. (n * i)
      PROVE  seqs[((j - 1) \div n) + 1][((j - 1) % n) + 1] \in S
  <2> DEFINE k == ((j - 1) \div n) + 1
             l == ((j - 1) % n) + 1
  <2>1. k \in 1 .. i /\ l \in 1 .. n
    BY <1>1, PieceOf
  <2> HIDE DEF k, l
  <2>2. k \in 1 .. m
    BY <1>1, <2>1
  <2>3. seqs[k] \in Seq(S) /\ l \in 1 .. Len(seqs[k])
    BY <2>1, <2>2 DEF Pieces
  <2>4. seqs[k][l] \in S
    BY <2>3, ElementOfSeq
  <2> QED BY <2>4 DEF k, l
<1> DEFINE N == n * i
<1> HIDE DEF N
<1>4. InRow(seqs, n, i) \in [1 .. N -> S]
  BY <1>3 DEF InRow, N
<1>5. N \in Nat
  BY <1>2 DEF N
<1>6. InRow(seqs, n, i) \in Seq(S) /\ Len(InRow(seqs, n, i)) = N
  BY <1>4, <1>5
<1> QED BY <1>2, <1>6 DEF N

\* One piece more.
LEMMA InRowGrows ==
  ASSUME NEW seqs, NEW m, NEW n, NEW S, Pieces(seqs, m, n, S), NEW i \in 1 .. m
  PROVE  InRow(seqs, n, i - 1) \o seqs[i] = InRow(seqs, n, i)
<1> DEFINE a == InRow(seqs, n, i - 1)
           b == seqs[i]
           c == InRow(seqs, n, i)
           L == n * (i - 1)
           N == n * i
<1>1. n \in 1 .. 4 /\ m \in Nat /\ i \in Nat /\ i - 1 \in 0 .. m /\ i \in 0 .. m
  BY DEF Pieces
<1>2. a \in Seq(S) /\ Len(a) = L /\ L \in Nat
  BY <1>1, InRowTyped
<1>3. c \in Seq(S) /\ Len(c) = N /\ N \in Nat
  BY <1>1, InRowTyped
<1>4. b \in Seq(S) /\ Len(b) = n
  BY DEF Pieces
<1>5. N = L + n
  BY <1>1
<1>6. ASSUME NEW j \in 1 .. N PROVE c[j] = IF j <= L THEN a[j] ELSE b[j - L]
  <2> DEFINE k == ((j - 1) \div n) + 1
             l == ((j - 1) % n) + 1
  <2>1. j \in 1 .. (n * i) /\ j \in Nat
    BY <1>3
  <2>2. j > L => k = i /\ l = j - L
    BY <1>1, <2>1, PieceOf
  <2>3. c[j] = seqs[k][l]
    BY <2>1 DEF InRow
  <2>4. j <= L => a[j] = seqs[k][l]
    <3> SUFFICES ASSUME j <= L PROVE a[j] = seqs[k][l]
      OBVIOUS
    <3>1. j \in 1 .. (n * (i - 1))
      BY <2>1
    <3> QED BY <3>1 DEF InRow
  <2> HIDE DEF k, l, a, c, L, N
  <2> QED BY <1>2, <2>1, <2>2, <2>3, <2>4
<1> HIDE DEF a, b, c, L, N
<1>7. a \o b \in Seq(S) /\ Len(a \o b) = N
      /\ \A j \in 1 .. N : (a \o b)[j] = IF j <= L THEN a[j] ELSE b[j - L]
  BY <1>2, <1>4, <1>5, ConcatProperties
<1>8. a \o b = c
  <2>1. \A j \in 1 .. Len(a \o b) : (a \o b)[j] = c[j]
    BY <1>6, <1>7
  <2>2. Len(a \o b) = Len(c)
    BY <1>3, <1>7
  <2> QED BY <1>3, <1>7, <2>1, <2>2, SeqEqual
<1> QED BY <1>8 DEF a, b, c

\* The function that Concat defines is the pieces in a row.
ConcatRun(f, seqs, m) ==
  f = [i \in 0 .. m |-> IF i = 0 THEN <<>> ELSE f[i - 1] \o seqs[i]]

\* There is such a function.
LEMMA ConcatRunExists ==
  ASSUME NEW seqs, NEW m, NEW n, NEW S, Pieces(seqs, m, n, S)
  PROVE  \E f : ConcatRun(f, seqs, m)
<1> DEFINE f == [i \in 0 .. m |-> InRow(seqs, n, i)]
           g == [i \in 0 .. m |-> IF i = 0 THEN <<>> ELSE f[i - 1] \o seqs[i]]
<1>1. ASSUME NEW i \in 0 .. m PROVE InRow(seqs, n, i) = IF i = 0 THEN <<>> ELSE f[i - 1] \o seqs[i]
  <2>1. CASE i = 0
    <3>1. InRow(seqs, n, i) \in Seq(S) /\ Len(InRow(seqs, n, i)) = 0
      <4>1. n * i = 0
        BY <2>1 DEF Pieces
      <4> QED BY <4>1, InRowTyped
    <3> QED BY <2>1, <3>1, EmptySeq
  <2>2. CASE i # 0
    <3>1. i \in 1 .. m /\ i - 1 \in 0 .. m
      BY <2>2 DEF Pieces
    <3>2. f[i - 1] = InRow(seqs, n, i - 1)
      BY <3>1
    <3>3. InRow(seqs, n, i - 1) \o seqs[i] = InRow(seqs, n, i)
      BY <3>1, InRowGrows
    <3> HIDE DEF f
    <3> QED BY <2>2, <3>2, <3>3
  <2> QED BY <2>1, <2>2
<1>2. f = g
  BY <1>1, Zenon
<1> HIDE DEF f
<1> QED BY <1>2 DEF ConcatRun

\* Every such function gives the pieces in a row.
LEMMA ConcatRunIs ==
  ASSUME NEW seqs, NEW m, NEW n, NEW S, Pieces(seqs, m, n, S), NEW f, ConcatRun(f, seqs, m)
  PROVE  \A i \in 0 .. m : f[i] = InRow(seqs, n, i)
<1> DEFINE B == {i \in 0 .. m : f[i] # InRow(seqs, n, i)}
<1> SUFFICES ASSUME B # {} PROVE FALSE
  OBVIOUS
<1>1. PICK i \in B : \A k \in B : i <= k
  <2>1. B \in SUBSET Nat
    BY DEF Pieces
  <2> HIDE DEF B
  <2> QED BY <2>1, LeastNumber
<1>2. i \in 0 .. m /\ f[i] # InRow(seqs, n, i)
  OBVIOUS
<1>3. f[i] = IF i = 0 THEN <<>> ELSE f[i - 1] \o seqs[i]
  <2>1. f = [k \in 0 .. m |-> IF k = 0 THEN <<>> ELSE f[k - 1] \o seqs[k]]
    BY DEF ConcatRun
  <2> QED BY <1>2, <2>1, Zenon
<1>4. CASE i = 0
  <2>1. InRow(seqs, n, i) \in Seq(S) /\ Len(InRow(seqs, n, i)) = 0
    <3>1. n * i = 0
      BY <1>4 DEF Pieces
    <3> QED BY <1>2, <3>1, InRowTyped
  <2> QED BY <1>2, <1>3, <1>4, <2>1, EmptySeq
<1>5. CASE i # 0
  <2>1. i \in 1 .. m /\ i - 1 \in 0 .. m /\ ~(i <= i - 1)
    BY <1>2, <1>5 DEF Pieces
  <2>2. i - 1 \notin B
    <3> HIDE DEF B
    <3> QED BY <1>1, <2>1
  <2>3. f[i - 1] = InRow(seqs, n, i - 1)
    BY <2>1, <2>2
  <2>4. InRow(seqs, n, i - 1) \o seqs[i] = InRow(seqs, n, i)
    BY <2>1, InRowGrows
  <2> QED BY <1>2, <1>3, <1>5, <2>3, <2>4
<1> QED BY <1>4, <1>5

\* All pieces are there, each in its place.
LEMMA ConcatIs ==
  ASSUME NEW seqs, NEW n, NEW S, Pieces(seqs, Len(seqs), n, S)
  PROVE  /\ Len(Concat(seqs)) = n * Len(seqs)
         /\ \A i \in 1 .. Len(seqs) :
              SubSeq(Concat(seqs), n * (i - 1) + 1, n * i) = seqs[i]
<1> DEFINE m == Len(seqs)
           f == CHOOSE g : ConcatRun(g, seqs, m)
           row == InRow(seqs, n, m)
<1>1. m \in Nat /\ n \in 1 .. 4
  BY DEF Pieces
<1>2. ConcatRun(f, seqs, m)
  BY ConcatRunExists
<1>3. Concat(seqs) = f[m]
  BY DEF Concat, ConcatRun
<1>4. f[m] = row
  <2>1. m \in 0 .. m
    BY <1>1
  <2> HIDE DEF f
  <2> QED BY <1>2, <2>1, ConcatRunIs
<1>5. row \in Seq(S) /\ Len(row) = n * m /\ n * m \in Nat
  <2>1. m \in 0 .. m
    BY <1>1
  <2> QED BY <2>1, InRowTyped
<1>6. ASSUME NEW i \in 1 .. m PROVE SubSeq(row, n * (i - 1) + 1, n * i) = seqs[i]
  <2> DEFINE a == n * (i - 1) + 1
             b == n * i
             s == SubSeq(row, a, b)
  <2>1. a \in 1 .. (n * m) /\ b \in 1 .. (n * m) /\ b - a + 1 = n /\ a \in Int /\ b \in Int
    <3>1. CASE n = 1
      BY <1>1, <3>1
    <3>2. CASE n = 2
      BY <1>1, <3>2
    <3>3. CASE n = 3
      BY <1>1, <3>3
    <3>4. CASE n = 4
      BY <1>1, <3>4
    <3> QED BY <1>1, <3>1, <3>2, <3>3, <3>4
  <2>2. seqs[i] \in Seq(S) /\ Len(seqs[i]) = n
    BY DEF Pieces
  <2>3. ASSUME NEW j \in 1 .. n PROVE row[a + j - 1] = seqs[i][j]
    <3> DEFINE q == a + j - 1
    <3>1. q \in 1 .. (n * i) /\ q > n * (i - 1) /\ q - n * (i - 1) = j /\ i \in Nat
      BY <1>1, <2>1
    <3>2. ((q - 1) \div n) + 1 = i /\ ((q - 1) % n) + 1 = j
      <4> HIDE DEF q
      <4> QED BY <1>1, <3>1, PieceOf
    <3>3. q \in 1 .. (n * m)
      BY <1>1, <2>1, <3>1
    <3> HIDE DEF q
    <3>4. row[q] = seqs[i][j]
      BY <3>2, <3>3 DEF InRow
    <3> QED BY <3>4 DEF q
  <2> HIDE DEF a, b, row
  <2>4. /\ s \in Seq(S) /\ Len(s) = n /\ \A j \in 1 .. n : s[j] = row[a + j - 1]
    <3>1. \A k \in a .. b : row[k] \in S
      <4> TAKE k \in a .. b
      <4>1. k \in 1 .. Len(row)
        BY <1>1, <1>5, <2>1
      <4> QED BY <1>5, <4>1, ElementOfSeq
    <3> QED BY <1>1, <2>1, <3>1, SubSeqProperties
  <2>5. s = seqs[i]
    <3> HIDE DEF s
    <3>1. \A j \in 1 .. Len(s) : s[j] = seqs[i][j]
      BY <2>3, <2>4
    <3> QED BY <2>2, <2>4, <3>1, SeqEqual
  <2> QED BY <2>5 DEF a, b, s
<1> HIDE DEF f, row
<1> QED BY <1>3, <1>4, <1>5, <1>6

\* Sequences of n elements are pieces.
LEMMA PiecesOf ==
  ASSUME NEW m \in Nat, NEW n \in 1 .. 4, NEW seqs,
         \A k \in 1 .. m : seqs[k] = [j \in 1 .. n |-> seqs[k][j]]
  PROVE  \E S : Pieces(seqs, m, n, S)
<1> DEFINE S == {seqs[k][j] : k \in 1 .. m, j \in 1 .. n}
<1>1. ASSUME NEW k \in 1 .. m PROVE seqs[k] \in Seq(S) /\ Len(seqs[k]) = n
  <2> DEFINE s == seqs[k]
  <2>1. \A j \in 1 .. n : s[j] \in S
    OBVIOUS
  <2>2. s = [j \in 1 .. n |-> s[j]]
    OBVIOUS
  <2> HIDE DEF s, S
  <2>3. s \in [1 .. n -> S]
    BY <2>1, <2>2, Zenon
  <2>4. s \in Seq(S) /\ Len(s) = n
    BY <2>3
  <2> QED BY <2>4 DEF s
<1> HIDE DEF S
<1>2. Pieces(seqs, m, n, S)
  BY <1>1 DEF Pieces
<1> QED BY <1>2

\* WireDecoded, of something that is sent.
DecodedAs(sent) ==
  LET n == ClientBytes(sent.kind)
      pixel(i) == SubSeq(sent.bytes, n * (i - 1) + 1, n * i) IN
  /\ Len(sent.bytes) = n * Len(sent.colors)
  /\ ~(sent.kind = "cursor" /\ nativeDepth >= 16) =>
       \A i \in DOMAIN sent.colors :
         IF wireFormat.trueColor
         THEN \A c \in Channels :
                CloseTo(ClientChannel(pixel(i), c), TrueColorOf(sent.colors[i])[c],
                        FullChannel, wireFormat.max[c])
         ELSE pixel(i) = <<sent.colors[i]>>

\* The record of what is sent.
SentOf(kind, colors, seqs) == [kind |-> kind, colors |-> colors, bytes |-> Concat(seqs)]

\* What is sent in pieces of the right size can be told apart.
Apart(seqs, n, m) ==
  /\ Len(Concat(seqs)) = n * m
  /\ \A i \in 1 .. m : SubSeq(Concat(seqs), n * (i - 1) + 1, n * i) = seqs[i]

\* Pieces of up to four elements can.
LEMMA PixelsApart ==
  ASSUME NEW m \in Nat, NEW n \in 1 .. 4, NEW seqs, Len(seqs) = m,
         \A i \in 1 .. m : seqs[i] = [j \in 1 .. n |-> seqs[i][j]]
  PROVE  Apart(seqs, n, m)
<1>1. PICK S : Pieces(seqs, Len(seqs), n, S)
  BY PiecesOf
<1>2. /\ Len(Concat(seqs)) = n * Len(seqs)
      /\ \A i \in 1 .. Len(seqs) : SubSeq(Concat(seqs), n * (i - 1) + 1, n * i) = seqs[i]
  BY <1>1, ConcatIs
<1> QED BY <1>2, Zenon DEF Apart

\* What a colour becomes for the client: within its channels, and close to what it was.
ChannelsClose(v, color) ==
  \A c \in Channels :
    /\ v[c] \in 0 .. wireFormat.max[c]
    /\ CloseTo(v[c], TrueColorOf(color)[c], FullChannel, wireFormat.max[c])

\* Colours that are close, in the size that the client expects, are decoded.
LEMMA TrueSent ==
  ASSUME FormatTyped(wireFormat), Ordinary(wireFormat), NEW kind,
         SizeFits(wireFormat, ClientBytes(kind)),
         NEW T, NEW colors \in Seq(T), NEW vs, NEW seqs, Len(seqs) = Len(colors),
         \A i \in DOMAIN colors :
           /\ ChannelsClose(vs[i], colors[i])
           /\ seqs[i] = EmitWire(Packed(wireFormat, vs[i]), ClientBytes(kind))
  PROVE  DecodedAs(SentOf(kind, colors, seqs))
<1> DEFINE n == ClientBytes(kind)
           bytes == Concat(seqs)
           pixel(i) == SubSeq(bytes, n * (i - 1) + 1, n * i)
<1>1. n \in 1 .. 4 /\ wireFormat.trueColor
  BY DEF SizeFits, FormatTyped
<1>2. DOMAIN colors = 1 .. Len(colors) /\ Len(colors) \in Nat
  OBVIOUS
<1>3. ASSUME NEW i \in 1 .. Len(colors) PROVE seqs[i] = [j \in 1 .. n |-> seqs[i][j]]
  <2> DEFINE long == Packed(wireFormat, vs[i])
  <2>1. seqs[i] = EmitWire(long, n)
    BY <1>2
  <2> HIDE DEF n, long
  <2>2. seqs[i] = [j \in 1 .. n |-> IF wireFormat.big THEN long[n - j] ELSE long[j - 1]]
    BY <2>1 DEF EmitWire
  <2> QED BY <2>2
<1>4. Len(bytes) = n * Len(colors) /\ \A i \in DOMAIN colors : pixel(i) = seqs[i]
  <2> DEFINE m == Len(colors)
  <2>1. Apart(seqs, n, m)
    <3>1. m \in Nat /\ Len(seqs) = m /\ \A i \in 1 .. m : seqs[i] = [j \in 1 .. n |-> seqs[i][j]]
      BY <1>2, <1>3
    <3> HIDE DEF m, n
    <3> QED BY <1>1, <3>1, PixelsApart
  <2> HIDE DEF n
  <2> QED BY <1>2, <2>1, Zenon DEF Apart
<1>5. ASSUME NEW i \in DOMAIN colors, NEW c \in Channels
      PROVE  CloseTo(ClientChannel(pixel(i), c), TrueColorOf(colors[i])[c],
                     FullChannel, wireFormat.max[c])
  <2> DEFINE v == vs[i]
  <2>1. ChannelsClose(v, colors[i]) /\ pixel(i) = EmitWire(Packed(wireFormat, v), n)
    BY <1>4
  <2>2. \A d \in Channels : v[d] \in 0 .. wireFormat.max[d]
    BY <2>1 DEF ChannelsClose
  <2>3. ClientChannel(EmitWire(Packed(wireFormat, v), n), c) = v[c]
    <3>1. SizeFits(wireFormat, n)
      OBVIOUS
    <3> HIDE DEF v, n
    <3> QED BY <2>2, <3>1, ChannelsRead, Zenon
  <2>4. CloseTo(v[c], TrueColorOf(colors[i])[c], FullChannel, wireFormat.max[c])
    BY <2>1 DEF ChannelsClose
  <2> HIDE DEF v, pixel, n
  <2> QED BY <2>1, <2>3, <2>4
<1> DEFINE sent == SentOf(kind, colors, seqs)
<1>6. sent.kind = kind /\ sent.colors = colors /\ sent.bytes = bytes
  BY DEF SentOf
<1> HIDE DEF bytes, sent
<1> QED BY <1>1, <1>4, <1>5, <1>6, Zenon DEF DecodedAs, sent

\* A client in indices gets them.
LEMMA IndicesSent ==
  ASSUME ~wireFormat.trueColor, NEW kind, ClientBytes(kind) = 1,
         NEW T, NEW colors \in Seq(T), NEW seqs, Len(seqs) = Len(colors),
         \A i \in DOMAIN colors : seqs[i] = <<colors[i]>>
  PROVE  DecodedAs(SentOf(kind, colors, seqs))
<1> DEFINE bytes == Concat(seqs)
           n == ClientBytes(kind)
<1>1. DOMAIN colors = 1 .. Len(colors) /\ Len(colors) \in Nat /\ n = 1
  OBVIOUS
<1>2. ASSUME NEW i \in 1 .. Len(colors) PROVE seqs[i] = [j \in 1 .. n |-> seqs[i][j]]
  <2>1. seqs[i] = <<colors[i]>>
    BY <1>1
  <2> HIDE DEF n
  <2> QED BY <1>1, <2>1
<1>3. Len(bytes) = n * Len(colors)
      /\ \A i \in DOMAIN colors : SubSeq(bytes, n * (i - 1) + 1, n * i) = <<colors[i]>>
  <2>1. n \in 1 .. 4
    BY <1>1
  <2> DEFINE m == Len(colors)
  <2>2. Apart(seqs, n, m)
    <3>1. m \in Nat /\ Len(seqs) = m /\ \A i \in 1 .. m : seqs[i] = [j \in 1 .. n |-> seqs[i][j]]
      BY <1>1, <1>2
    <3> HIDE DEF m, n
    <3> QED BY <2>1, <3>1, PixelsApart
  <2> HIDE DEF n
  <2> QED BY <1>1, <2>2, Zenon DEF Apart
<1> DEFINE sent == SentOf(kind, colors, seqs)
<1>4. sent.kind = kind /\ sent.colors = colors /\ sent.bytes = bytes
  BY DEF SentOf
<1> HIDE DEF bytes, sent
<1> QED BY <1>3, <1>4, Zenon DEF DecodedAs, sent

\* A cursor on a screen in true colour has at least the right length.
LEMMA CursorSent ==
  ASSUME nativeDepth >= 16, ClientBytes("cursor") \in 1 .. 4,
         NEW T, NEW colors \in Seq(T), NEW seqs, Len(seqs) = Len(colors),
         \A i \in DOMAIN colors : seqs[i] = [k \in 1 .. ClientBytes("cursor") |-> Stale]
  PROVE  DecodedAs(SentOf("cursor", colors, seqs))
<1> DEFINE n == ClientBytes("cursor")
           bytes == Concat(seqs)
<1>1. DOMAIN colors = 1 .. Len(colors) /\ Len(colors) \in Nat
  OBVIOUS
<1>2. ASSUME NEW i \in 1 .. Len(colors) PROVE seqs[i] = [j \in 1 .. n |-> seqs[i][j]]
  <2>1. seqs[i] = [k \in 1 .. n |-> Stale]
    BY <1>1
  <2> HIDE DEF n
  <2> QED BY <2>1
<1>3. Len(bytes) = n * Len(colors)
  <2> DEFINE m == Len(colors)
  <2>1. Apart(seqs, n, m)
    <3>1. m \in Nat /\ Len(seqs) = m /\ n \in 1 .. 4
          /\ \A i \in 1 .. m : seqs[i] = [j \in 1 .. n |-> seqs[i][j]]
      BY <1>1, <1>2
    <3> HIDE DEF m, n
    <3> QED BY <3>1, PixelsApart
  <2> HIDE DEF n
  <2> QED BY <2>1, Zenon DEF Apart
<1> DEFINE sent == SentOf("cursor", colors, seqs)
<1>4. sent.kind = "cursor" /\ sent.colors = colors /\ sent.bytes = bytes
  BY DEF SentOf
<1> HIDE DEF bytes, sent
<1> QED BY <1>3, <1>4, Zenon DEF DecodedAs, sent

\* The largest value of a channel.
LEMMA MaxIs ==
  ASSUME NEW f, Ordinary(f), NEW c \in Channels
  PROVE  f.max[c] \in AllOnes
<1>1. PICK w \in [Channels -> 1 .. 8] : \A d \in Channels : f.max[d] = 2 ^ w[d] - 1
  BY Zenon DEF Ordinary
<1> DEFINE k == w[c]
<1>2. k \in 1 .. 8 /\ f.max[c] = 2 ^ k - 1
  BY <1>1
<1> HIDE DEF k
<1> QED BY <1>2, OnesAre

\* A colour of the table has channels.
LEMMA TableTyped ==
  ASSUME NEW i \in DOMAIN WireColors
  PROVE  WireColors[i] \in [Channels -> 0 .. Deepest]
<1> DEFINE T == [Channels -> 0 .. Deepest]
<1>1. WireColors \in Seq(T)
  BY WireAssumption DEF Deepest
<1> HIDE DEF T
<1>2. i \in 1 .. Len(WireColors)
  BY <1>1
<1>3. WireColors[i] \in T
  BY <1>1, <1>2, ElementOfSeq
<1> QED BY <1>3 DEF T

\* A colour of the table, in the bytes that emitColor writes.
LEMMA TableColour ==
  ASSUME nativeDepth = 8, FormatTyped(wireFormat), Ordinary(wireFormat),
         NEW i \in DOMAIN WireColors, NEW n \in 1 .. 4,
         NEW v, v = Scaled(WireColors[i], Deepest, wireFormat.max)
  PROVE  /\ ChannelsClose(v, i)
         /\ EmitColor(i, IF wireFormat.big THEN 4 - n ELSE 0, 4 - n, n)
              = EmitWire(Packed(wireFormat, v), n)
<1> DEFINE color == WireColors[i]
           long == Packed(wireFormat, v)
<1>1. color \in [Channels -> 0 .. Deepest]
  BY TableTyped
<1>2. ASSUME NEW c \in Channels
      PROVE  v[c] \in 0 .. wireFormat.max[c] /\ CloseTo(v[c], color[c], Deepest, wireFormat.max[c])
  <2> DEFINE m == wireFormat.max[c]
             x == color[c]
             d == v[c]
  <2>1. m \in AllOnes
    BY MaxIs
  <2>2. x \in 0 .. Deepest
    <3> HIDE DEF color
    <3> QED BY <1>1
  <2>3. d = (x * m) \div Deepest
    BY Zenon DEF Scaled
  <2> HIDE DEF m, x, d
  <2>4. d \in 0 .. m /\ CloseTo(d, x, Deepest, m)
    BY <2>1, <2>2, <2>3, IndexedClose
  <2> QED BY <2>4 DEF m, x, d
<1>3. FullChannel = Deepest /\ TrueColorOf(i) = color
  <2>1. FullChannel = Deepest
    BY SMT DEF FullChannel, Deepest
  <2>2. TrueColorOf(i) = color
    BY DEF TrueColorOf
  <2> QED BY <2>1, <2>2
<1>4. ChannelsClose(v, i)
  BY <1>2, <1>3, Zenon DEF ChannelsClose
<1>5. EmitColor(i, IF wireFormat.big THEN 4 - n ELSE 0, 4 - n, n)
        = Stored(IF wireFormat.big THEN long ELSE Swapped(long),
                 IF wireFormat.big THEN 4 - n ELSE 0, 4 - n, n)
  <2>1. wireFormat.trueColor /\ ~(nativeDepth >= 16)
    BY DEF FormatTyped
  <2>2. SetTrueColor(i) = IF wireFormat.big THEN long ELSE Swapped(long)
    BY SMT DEF SetTrueColor, Deepest
  <2> HIDE DEF long
  <2> QED BY <2>1, <2>2, Zenon DEF EmitColor
<1>6. wireFormat.big \in BOOLEAN
  BY DEF FormatTyped
<1> HIDE DEF long
<1>7. EmitColor(i, IF wireFormat.big THEN 4 - n ELSE 0, 4 - n, n) = EmitWire(long, n)
  BY <1>5, <1>6, StoredIs
<1> QED BY <1>4, <1>7 DEF long

\* A pixel of a screen in true colour.
LEMMA TruePixel ==
  ASSUME nativeDepth \in {16, 32}, Ordinary(wireFormat), NEW p \in PixelsOf(nativeDepth),
         NEW v, v = Scaled(Expanded(p), 255, wireFormat.max)
  PROVE  ChannelsClose(v, p)
<1> DEFINE e == Expanded(p)
<1>1. ASSUME NEW c \in Channels
      PROVE  v[c] \in 0 .. wireFormat.max[c]
             /\ CloseTo(v[c], p[c], FullChannel, wireFormat.max[c])
  <2> DEFINE m == wireFormat.max[c]
             x == p[c]
             y == e[c]
             d == v[c]
  <2>1. m \in AllOnes
    BY MaxIs
  <2>2. d = (y * m) \div 255
    BY Zenon DEF Scaled
  <2>3. CASE nativeDepth = 16
    <3>1. x \in 0 .. 31 /\ FullChannel = 31
      BY <2>3 DEF PixelsOf, FullChannel
    <3>2. y = (x * 255) \div 31
      BY <2>3, Zenon DEF Expanded
    <3> HIDE DEF m, x, y, d
    <3>3. d \in 0 .. m /\ CloseTo(d, x, 31, m)
      BY <2>1, <2>2, <3>1, <3>2, FiveBitsClose
    <3> QED BY <3>1, <3>3 DEF m, x, d
  <2>4. CASE nativeDepth = 32
    <3>1. x \in 0 .. 255 /\ FullChannel = 255
      BY <2>4 DEF PixelsOf, FullChannel
    <3>2. y = x
      BY <2>4 DEF Expanded
    <3> HIDE DEF m, x, y, d
    <3>3. d \in 0 .. m /\ CloseTo(d, x, 255, m)
      BY <2>1, <2>2, <3>1, <3>2, EightBitsClose
    <3> QED BY <3>1, <3>3 DEF m, x, d
  <2> QED BY <2>3, <2>4
<1>2. TrueColorOf(p) = p
  BY DEF TrueColorOf
<1> QED BY <1>1, <1>2, Zenon DEF ChannelsClose

\* In the native format, the long of the screen is the one that the client gets.
LEMMA NativeIs ==
  ASSUME nativeDepth \in {16, 32}, WireIs888BE, NEW p \in PixelsOf(nativeDepth)
  PROVE  NativeLong(p) = Packed(wireFormat, Scaled(Expanded(p), 255, wireFormat.max))
<1> DEFINE e == Expanded(p)
           m == wireFormat.max
           v == Scaled(e, 255, m)
<1>1. wireFormat = ScreenPixelFormat(32) /\ m = <<255, 255, 255>>
  BY DEF WireIs888BE, ScreenPixelFormat
<1>2. ASSUME NEW c \in Channels PROVE e[c] \in Nat
  <2> DEFINE x == p[c]
  <2>1. CASE nativeDepth = 16
    <3>1. x \in 0 .. 31
      BY <2>1 DEF PixelsOf
    <3>2. e[c] = (x * 255) \div 31
      BY <2>1, Zenon DEF Expanded
    <3> HIDE DEF x, e
    <3> QED BY <3>1, <3>2
  <2>2. CASE nativeDepth = 32
    BY <2>2 DEF PixelsOf, Expanded
  <2> QED BY <2>1, <2>2
<1>3. ASSUME NEW c \in Channels PROVE v[c] = e[c]
  <2> HIDE DEF e
  <2>1. v[c] = (e[c] * m[c]) \div 255
    BY Zenon DEF Scaled
  <2>2. m[c] = 255
    BY <1>1 DEF Channels
  <2> HIDE DEF v, m
  <2> QED BY <1>2, <2>1, <2>2
<1> HIDE DEF e, v, m
<1>4. v[1] = e[1] /\ v[2] = e[2] /\ v[3] = e[3]
  BY <1>3 DEF Channels
<1>5. Packed(wireFormat, e) = Packed(wireFormat, v)
  BY <1>4 DEF Packed
<1> QED BY <1>1, <1>5, Zenon DEF NativeLong, e, v, m

\* A format of the session.
Usual(f) == FormatTyped(f) /\ Ordinary(f)

\* The bytes of a colour of a kind in a format, as the client counts them.
BytesFor(f, kind) == IF kind = "CPIXEL" /\ f.trueColor /\ f.bits = 32 THEN 3 ELSE f.bits \div 8

\* The format of the screen is ordinary: its 24 bits are the low three bytes of a long.
LEMMA NativeUsual == Usual(ScreenPixelFormat(32))
<1> DEFINE f == ScreenPixelFormat(32)
           w == [c \in Channels |-> 8]
<1>1. f = [trueColor |-> TRUE, bits |-> 32, big |-> TRUE,
           max |-> <<255, 255, 255>>, shift |-> <<16, 8, 0>>]
  BY DEF ScreenPixelFormat
<1> HIDE DEF f
<1>2. /\ f.bits = 32 /\ f.trueColor /\ f.big
      /\ f.max = <<255, 255, 255>> /\ f.shift = <<16, 8, 0>>
  BY <1>1
<1>3. FormatTyped(f)
  BY <1>2 DEF FormatTyped, Channels
<1>4. \A k \in 0 .. 3 :
        /\ ShiftedByte(255, 16, k) = IF k = 2 THEN 255 ELSE 0
        /\ ShiftedByte(255, 8, k) = IF k = 1 THEN 255 ELSE 0
        /\ ShiftedByte(255, 0, k) = IF k = 0 THEN 255 ELSE 0
  <2>1. 2 ^ 0 = 1 /\ 2 ^ 8 = 256 /\ 2 ^ 16 = 65536 /\ 2 ^ 24 = 16777216
    BY TwoPowers
  <2>2. ASSUME NEW k, k = 0
        PROVE  ShiftedByte(255, 16, k) = 0 /\ ShiftedByte(255, 8, k) = 0 /\ ShiftedByte(255, 0, k) = 255
    BY <2>1, <2>2, SMT DEF ShiftedByte
  <2>3. ASSUME NEW k, k = 1
        PROVE  ShiftedByte(255, 16, k) = 0 /\ ShiftedByte(255, 8, k) = 255 /\ ShiftedByte(255, 0, k) = 0
    BY <2>1, <2>3, SMT DEF ShiftedByte
  <2>4. ASSUME NEW k, k = 2
        PROVE  ShiftedByte(255, 16, k) = 255 /\ ShiftedByte(255, 8, k) = 0 /\ ShiftedByte(255, 0, k) = 0
    BY <2>1, <2>4, SMT DEF ShiftedByte
  <2>5. ASSUME NEW k, k = 3
        PROVE  ShiftedByte(255, 16, k) = 0 /\ ShiftedByte(255, 8, k) = 0 /\ ShiftedByte(255, 0, k) = 0
    BY <2>1, <2>5, SMT DEF ShiftedByte
  <2> QED BY <2>2, <2>3, <2>4, <2>5
<1>5. FitsThree(f)
  <2>1. f.max[1] = 255 /\ f.max[2] = 255 /\ f.max[3] = 255
        /\ f.shift[1] = 16 /\ f.shift[2] = 8 /\ f.shift[3] = 0
    BY <1>2
  <2>2. Packed(f, f.max) = [k \in 0 .. 3 |-> IF k = 3 THEN 0 ELSE 255]
    <3>1. \A k \in 0 .. 3 :
            ShiftedByte(255, 16, k) + ShiftedByte(255, 8, k) + ShiftedByte(255, 0, k)
              = IF k = 3 THEN 0 ELSE 255
      BY <1>4
    <3>2. Packed(f, f.max) =
            [k \in 0 .. 3 |-> ShiftedByte(255, 16, k) + ShiftedByte(255, 8, k) + ShiftedByte(255, 0, k)]
      BY <2>1, Zenon DEF Packed
    <3> QED BY <3>1, <3>2
  <2> QED BY <1>2, <2>2 DEF FitsThree
<1>6. w \in [Channels -> 1 .. 8] /\ \A c \in Channels : w[c] = 8
  OBVIOUS
<1> HIDE DEF w
<1>7. \A c \in Channels : f.max[c] = 2 ^ w[c] - 1 /\ f.shift[c] + w[c] <= 24
  <2>1. 2 ^ 8 - 1 = 255
    BY TwoPowers
  <2>2. \A c \in Channels : f.max[c] = 255 /\ f.shift[c] + 8 <= 24
    BY <1>2 DEF Channels
  <2> QED BY <1>6, <2>1, <2>2
<1>8. \A c, d \in Channels : c # d => Beside(f.shift[c], w[c], f.shift[d], w[d])
  <2>1. \A c, d \in Channels : c # d => Beside(f.shift[c], 8, f.shift[d], 8)
    BY <1>2 DEF Channels, Beside
  <2> QED BY <1>6, <2>1
<1>9. Ordinary(f)
  <2>1. \A c \in Channels :
          /\ f.max[c] = 2 ^ w[c] - 1
          /\ f.shift[c] + w[c] <= IF f.bits = 32 THEN 24 ELSE f.bits
    BY <1>2, <1>7
  <2> QED BY <1>5, <1>6, <1>8, <2>1, Zenon DEF Ordinary
<1> QED BY <1>3, <1>9 DEF Usual, f

\* What is sent for a pixel is a size that fits.
LEMMA BytesFit ==
  ASSUME NEW f, FormatTyped(f), NEW kind
  PROVE  SizeFits(f, BytesFor(f, kind))
BY DEF FormatTyped, SizeFits, BytesFor

\* The client counts them in the format of the session.
LEMMA ClientBytesAre ==
  ASSUME NEW kind
  PROVE  ClientBytes(kind) = BytesFor(wireFormat, kind)
BY DEF ClientBytes, PixelBytes, BytesFor

\* The size, the shift and the mask are those of a kind of data.
SizesFor(f, kind, n, shift, mask) ==
  /\ n = BytesFor(f, kind) /\ mask = 4 - n
  /\ shift = IF f.big THEN 4 - n ELSE 0

\* Preparing leaves the sizes of the kind.
LEMMA Prepares ==
  ASSUME NEW f, Usual(f), NEW kind,
         PrepareTrueColorRoutines(f, f.bits \div 8, kind = "CPIXEL")
  PROVE  SizesFor(f, kind, colorBytes', pixelShift', pixelMask')
<1>1. f.trueColor /\ (FitsThree(f) <=> f.bits = 32)
  BY Zenon DEF Usual, FormatTyped, Ordinary, FitsThree
<1> DEFINE n == IF kind = "CPIXEL" /\ FitsThree(f) THEN 3 ELSE f.bits \div 8
<1>2. colorBytes' = n /\ pixelMask' = 4 - n /\ pixelShift' = IF f.big THEN 4 - n ELSE 0
  BY Zenon DEF PrepareTrueColorRoutines
<1>3. n = BytesFor(f, kind)
  BY <1>1, Zenon DEF BytesFor
<1> HIDE DEF n
<1> QED BY <1>2, <1>3 DEF SizesFor

\* On a screen of indices, colours are sent in the format of the client, whatever the sizes were.
LEMMA IndexedSend ==
  ASSUME nativeDepth = 8, wireFormat.trueColor => Usual(wireFormat),
         ~wireFormat.trueColor => wireFormat.bits = 8,
         NEW kind, NEW colors \in Seq(DOMAIN WireColors), SendColors(kind, colors)
  PROVE  \E seqs : wireSent' = SentOf(kind, colors, seqs) /\ DecodedAs(SentOf(kind, colors, seqs))
<1> DEFINE n == ClientBytes(kind)
           seqs == [i \in DOMAIN colors |-> EmitColor(colors[i], pixelShift', pixelMask', colorBytes')]
<1>1. wireSent' = SentOf(kind, colors, seqs)
  BY Zenon DEF SendColors, SentOf
<1>2. DOMAIN colors = 1 .. Len(colors) /\ Len(colors) \in Nat
  OBVIOUS
<1>3. Len(seqs) = Len(colors)
  BY <1>2
<1>4. \A i \in DOMAIN colors : colors[i] \in DOMAIN WireColors
  BY <1>2, ElementOfSeq
<1>5. CASE wireFormat.trueColor
  <2>1. Usual(wireFormat) /\ FormatTyped(wireFormat) /\ Ordinary(wireFormat)
    BY <1>5 DEF Usual
  <2>2. n = BytesFor(wireFormat, kind) /\ SizeFits(wireFormat, n) /\ n \in 1 .. 4
    <3>1. n = BytesFor(wireFormat, kind)
      BY ClientBytesAre
    <3>2. SizeFits(wireFormat, n)
      BY <2>1, <3>1, BytesFit
    <3> HIDE DEF n
    <3> QED BY <3>1, <3>2 DEF SizeFits
  <2>3. PrepareTrueColorRoutines(wireFormat, wireFormat.bits \div 8, kind = "CPIXEL")
    BY <1>5, Zenon DEF SendColors, PrepareColorRoutines
  <2>4. SizesFor(wireFormat, kind, colorBytes', pixelShift', pixelMask')
    BY <2>1, <2>3, Prepares
  <2> DEFINE shift == IF wireFormat.big THEN 4 - n ELSE 0
  <2>5. colorBytes' = n /\ pixelMask' = 4 - n /\ pixelShift' = shift
    <3> HIDE DEF n
    <3> QED BY <2>2, <2>4, Zenon DEF SizesFor, shift
  <2> DEFINE vs == [i \in DOMAIN colors |-> Scaled(WireColors[colors[i]], Deepest, wireFormat.max)]
  <2>6. ASSUME NEW i \in DOMAIN colors
        PROVE  ChannelsClose(vs[i], colors[i]) /\ seqs[i] = EmitWire(Packed(wireFormat, vs[i]), n)
    <3> DEFINE v == Scaled(WireColors[colors[i]], Deepest, wireFormat.max)
               color == colors[i]
    <3>1. vs[i] = v /\ seqs[i] = EmitColor(color, shift, 4 - n, n)
      BY <2>5, Zenon
    <3>2. ChannelsClose(v, color) /\ EmitColor(color, shift, 4 - n, n) = EmitWire(Packed(wireFormat, v), n)
      <4>1. color \in DOMAIN WireColors /\ v = Scaled(WireColors[color], Deepest, wireFormat.max)
        BY <1>4
      <4> HIDE DEF n, v, color
      <4> QED BY <2>1, <2>2, <4>1, TableColour DEF shift
    <3> HIDE DEF vs, seqs, v, n, shift
    <3> QED BY <3>1, <3>2
  <2> HIDE DEF vs, seqs
  <2>7. DecodedAs(SentOf(kind, colors, seqs))
    BY <1>3, <2>1, <2>2, <2>6, TrueSent
  <2> QED BY <1>1, <2>7
<1>6. CASE ~wireFormat.trueColor
  <2>1. ClientBytes(kind) = 1
    BY <1>6 DEF ClientBytes, PixelBytes
  <2>2. \A i \in DOMAIN colors : seqs[i] = <<colors[i]>>
    BY <1>6, Zenon DEF EmitColor
  <2> HIDE DEF seqs
  <2>3. DecodedAs(SentOf(kind, colors, seqs))
    BY <1>3, <1>6, <2>1, <2>2, IndicesSent
  <2> QED BY <1>1, <2>3
<1> QED BY <1>5, <1>6

\* A cursor on a screen in true colour, in Raw.
LEMMA CursorSend ==
  ASSUME nativeDepth \in {16, 32}, Usual(wireFormat), SendColors("cursor", <<1, 2, 1>>)
  PROVE  \E colors, seqs : wireSent' = SentOf("cursor", colors, seqs)
                           /\ DecodedAs(SentOf("cursor", colors, seqs))
<1> DEFINE colors == <<1, 2, 1>>
           n == ClientBytes("cursor")
           seqs == [i \in DOMAIN colors |-> EmitColor(colors[i], pixelShift', pixelMask', colorBytes')]
<1>1. wireSent' = SentOf("cursor", colors, seqs)
  BY Zenon DEF SendColors, SentOf
<1>2. colors \in Seq(Nat)
  OBVIOUS
<1> HIDE DEF colors
<1>3. DOMAIN colors = 1 .. Len(colors) /\ Len(colors) \in Nat
  BY <1>2
<1>4. Len(seqs) = Len(colors)
  BY <1>3
<1>5. FormatTyped(wireFormat) /\ wireFormat.trueColor
  BY DEF Usual, FormatTyped
<1>6. n = BytesFor(wireFormat, "cursor") /\ n \in 1 .. 4
  <2>1. n = BytesFor(wireFormat, "cursor")
    BY ClientBytesAre
  <2>2. SizeFits(wireFormat, n)
    BY <1>5, <2>1, BytesFit
  <2> HIDE DEF n
  <2> QED BY <2>1, <2>2 DEF SizeFits
<1>7. PrepareTrueColorRoutines(wireFormat, wireFormat.bits \div 8, "cursor" = "CPIXEL")
  BY <1>5, Zenon DEF SendColors, PrepareColorRoutines
<1>8. colorBytes' = n
  <2>1. SizesFor(wireFormat, "cursor", colorBytes', pixelShift', pixelMask')
    BY <1>7, Prepares
  <2> HIDE DEF n
  <2> QED BY <1>6, <2>1, Zenon DEF SizesFor
<1>9. nativeDepth >= 16
  OBVIOUS
<1>10. \A i \in DOMAIN colors : seqs[i] = [k \in 1 .. ClientBytes("cursor") |-> Stale]
  BY <1>5, <1>8, <1>9, Zenon DEF EmitColor
<1> HIDE DEF seqs
<1>11. DecodedAs(SentOf("cursor", colors, seqs))
  BY <1>2, <1>4, <1>6, <1>9, <1>10, CursorSent
<1> QED BY <1>1, <1>11

\* Pixels of a true colour screen, each of them as the client reads it.
LEMMA TrueTileSent ==
  ASSUME nativeDepth \in {16, 32}, Usual(wireFormat), NEW kind,
         NEW tile \in Seq(PixelsOf(nativeDepth)), NEW seqs, Len(seqs) = Len(tile),
         \A i \in DOMAIN tile :
           seqs[i] = EmitWire(PackWire(Expanded(tile[i])), ClientBytes(kind))
  PROVE  DecodedAs(SentOf(kind, tile, seqs))
<1> DEFINE n == ClientBytes(kind)
           vs == [i \in DOMAIN tile |-> Scaled(Expanded(tile[i]), 255, wireFormat.max)]
<1>1. FormatTyped(wireFormat) /\ Ordinary(wireFormat)
  BY DEF Usual
<1>2. SizeFits(wireFormat, n)
  <2>1. n = BytesFor(wireFormat, kind)
    BY ClientBytesAre
  <2> HIDE DEF n
  <2> QED BY <1>1, <2>1, BytesFit
<1>3. DOMAIN tile = 1 .. Len(tile) /\ \A i \in DOMAIN tile : tile[i] \in PixelsOf(nativeDepth)
  <2> DEFINE T == PixelsOf(nativeDepth)
  <2> HIDE DEF T
  <2>1. tile \in Seq(T)
    BY DEF T
  <2>2. DOMAIN tile = 1 .. Len(tile) /\ \A i \in DOMAIN tile : tile[i] \in T
    BY <2>1, ElementOfSeq
  <2> QED BY <2>2 DEF T
<1>4. ASSUME NEW i \in DOMAIN tile
      PROVE  ChannelsClose(vs[i], tile[i]) /\ seqs[i] = EmitWire(Packed(wireFormat, vs[i]), n)
  <2> DEFINE v == Scaled(Expanded(tile[i]), 255, wireFormat.max)
             p == tile[i]
  <2>1. vs[i] = v /\ v = Scaled(Expanded(p), 255, wireFormat.max)
    OBVIOUS
  <2>2. seqs[i] = EmitWire(Packed(wireFormat, v), n)
    BY Zenon DEF PackWire
  <2>3. p \in PixelsOf(nativeDepth)
    BY <1>3
  <2> HIDE DEF vs, p, n, v
  <2>4. ChannelsClose(v, p)
    BY <1>1, <2>1, <2>3, TruePixel
  <2> QED BY <2>1, <2>2, <2>4, Zenon DEF p
<1> HIDE DEF vs
<1> QED BY <1>1, <1>2, <1>4, TrueSent

\* A tile of a true colour screen, in Raw or in ZRLE.
LEMMA TrueSend ==
  ASSUME nativeDepth \in {16, 32}, Usual(wireFormat), tileEncoding \in {"Raw", "ZRLE"},
         tileEncoding = "ZRLE" =>
           SizesFor(wireFormat, "CPIXEL", colorBytes, pixelShift, pixelMask),
         NEW tile \in Seq(PixelsOf(nativeDepth)), SendTile(tile)
  PROVE  \E kind, seqs : wireSent' = SentOf(kind, tile, seqs)
                         /\ DecodedAs(SentOf(kind, tile, seqs))
<1>1. FormatTyped(wireFormat) /\ wireFormat.trueColor /\ wireFormat.big \in BOOLEAN
  BY DEF Usual, FormatTyped
<1>2. DOMAIN tile = 1 .. Len(tile) /\ Len(tile) \in Nat
  OBVIOUS
<1>3. \A i \in DOMAIN tile : tile[i] \in PixelsOf(nativeDepth)
  <2> DEFINE T == PixelsOf(nativeDepth)
  <2> HIDE DEF T
  <2>1. tile \in Seq(T)
    BY DEF T
  <2>2. \A i \in DOMAIN tile : tile[i] \in T
    BY <2>1, <1>2, ElementOfSeq
  <2> QED BY <2>2 DEF T
<1>4. ASSUME NEW i \in DOMAIN tile, WireIs888BE
      PROVE  NativeLong(tile[i]) = PackWire(Expanded(tile[i]))
  <2> DEFINE p == tile[i]
  <2>1. p \in PixelsOf(nativeDepth)
    BY <1>3
  <2> HIDE DEF p
  <2>2. NativeLong(p) = Packed(wireFormat, Scaled(Expanded(p), 255, wireFormat.max))
    BY <1>4, <2>1, NativeIs
  <2> QED BY <2>2, Zenon DEF PackWire, p
<1>5. CASE tileEncoding = "Raw"
  <2> DEFINE n == ClientBytes("PIXEL")
             own == [i \in DOMAIN tile |-> InMemory(NativeLong(tile[i]))]
             other == [i \in DOMAIN tile |-> EmitWire(PackWire(Expanded(tile[i])), wireFormat.bits \div 8)]
  <2>1. wireSent' = [kind |-> "PIXEL", colors |-> tile, bytes |-> CopyNativeRowToWire(tile)]
    BY <1>5, Zenon DEF SendTile
  <2>2. n = wireFormat.bits \div 8
    BY DEF ClientBytes, PixelBytes
  <2>3. CASE WireIs888BE
    <3>1. n = 4 /\ wireFormat.big
      BY <2>2, <2>3 DEF WireIs888BE, ScreenPixelFormat
    <3>2. wireSent' = SentOf("PIXEL", tile, own)
      BY <2>1, <2>3, Zenon DEF SentOf, CopyNativeRowToWire
    <3>3. Len(own) = Len(tile)
      BY <1>2
    <3>4. ASSUME NEW i \in DOMAIN tile
          PROVE  own[i] = EmitWire(PackWire(Expanded(tile[i])), ClientBytes("PIXEL"))
      <4> DEFINE long == PackWire(Expanded(tile[i]))
      <4>1. own[i] = InMemory(long)
        BY <1>4, <2>3, Zenon
      <4> HIDE DEF long, own, n
      <4>2. InMemory(long) = [j \in 1 .. 4 |-> long[4 - j]]
        BY DEF InMemory
      <4>3. EmitWire(long, n) = [j \in 1 .. 4 |-> long[4 - j]]
        BY <3>1, Zenon DEF EmitWire
      <4> QED BY <4>1, <4>2, <4>3, Zenon DEF long, n
    <3> HIDE DEF own
    <3>5. DecodedAs(SentOf("PIXEL", tile, own))
      BY <3>3, <3>4, TrueTileSent
    <3> QED BY <3>2, <3>5
  <2>4. CASE ~WireIs888BE
    <3>1. wireSent' = SentOf("PIXEL", tile, other)
      <4>1. nativeDepth >= 16
        OBVIOUS
      <4>2. CopyNativeRowToWire(tile) = Concat(other)
        BY <2>4, <4>1, Zenon DEF CopyNativeRowToWire
      <4> HIDE DEF other
      <4> QED BY <2>1, <4>2, Zenon DEF SentOf
    <3>2. Len(other) = Len(tile)
      BY <1>2
    <3>3. \A i \in DOMAIN tile :
            other[i] = EmitWire(PackWire(Expanded(tile[i])), ClientBytes("PIXEL"))
      BY <2>2, Zenon
    <3> HIDE DEF other
    <3>4. DecodedAs(SentOf("PIXEL", tile, other))
      BY <3>2, <3>3, TrueTileSent
    <3> QED BY <3>1, <3>4
  <2> QED BY <2>3, <2>4
<1>6. CASE tileEncoding = "ZRLE"
  <2> DEFINE n == ClientBytes("CPIXEL")
             seqs == [i \in DOMAIN tile |->
                        IF WireIs888BE THEN Stored(NativeLong(tile[i]), pixelShift, pixelMask, colorBytes)
                        ELSE EmitWire(PackWire(Expanded(tile[i])), colorBytes)]
  <2>1. wireSent' = SentOf("CPIXEL", tile, seqs)
    <3>1. wireSent' = [kind |-> "CPIXEL", colors |-> tile, bytes |-> CopyNativeTileToCPIXEL(tile)]
      BY <1>6, Zenon DEF SendTile
    <3> QED BY <3>1, Zenon DEF SentOf, CopyNativeTileToCPIXEL
  <2>2. n = BytesFor(wireFormat, "CPIXEL") /\ n \in 1 .. 4
    <3>1. n = BytesFor(wireFormat, "CPIXEL")
      BY ClientBytesAre
    <3>2. SizeFits(wireFormat, n)
      BY <1>1, <3>1, BytesFit
    <3> HIDE DEF n
    <3> QED BY <3>1, <3>2 DEF SizeFits
  <2>3. colorBytes = n /\ pixelMask = 4 - n /\ pixelShift = IF wireFormat.big THEN 4 - n ELSE 0
    <3> HIDE DEF n
    <3> QED BY <1>6, <2>2, Zenon DEF SizesFor
  <2>4. Len(seqs) = Len(tile)
    BY <1>2
  <2>5. ASSUME NEW i \in DOMAIN tile
        PROVE  seqs[i] = EmitWire(PackWire(Expanded(tile[i])), n)
    <3> DEFINE long == PackWire(Expanded(tile[i]))
               own == NativeLong(tile[i])
    <3>1. CASE WireIs888BE
      <4>1. seqs[i] = Stored(own, pixelShift, pixelMask, n)
        BY <2>3, <3>1, Zenon
      <4>2. own = long
        BY <1>4, <3>1
      <4>3. wireFormat.big
        BY <3>1 DEF WireIs888BE, ScreenPixelFormat
      <4> HIDE DEF long, own, seqs, n
      <4>4. Stored(IF wireFormat.big THEN long ELSE Swapped(long),
                   IF wireFormat.big THEN 4 - n ELSE 0, 4 - n, n) = EmitWire(long, n)
        BY <1>1, <2>2, StoredIs
      <4>5. seqs[i] = EmitWire(long, n)
        BY <2>3, <4>1, <4>2, <4>3, <4>4, Zenon
      <4> QED BY <4>5 DEF long
    <3>2. CASE ~WireIs888BE
      BY <2>3, <3>2, Zenon
    <3> QED BY <3>1, <3>2
  <2> HIDE DEF seqs
  <2>6. DecodedAs(SentOf("CPIXEL", tile, seqs))
    BY <2>4, <2>5, TrueTileSent
  <2> QED BY <2>1, <2>6
<1> QED BY <1>5, <1>6

\* What is sent is read in the format in which it was sent.
LEMMA SameReading ==
  ASSUME nativeDepth' = nativeDepth, wireFormat' = wireFormat,
         NEW s, wireSent' = s, DecodedAs(s)
  PROVE  WireDecoded'
<1>1. \A kind : (ClientBytes(kind))' = ClientBytes(kind)
  BY Zenon DEF ClientBytes, PixelBytes
<1>2. \A bytes : (ClientValue(bytes))' = ClientValue(bytes)
  BY SMT DEF ClientValue
<1>3. \A bytes, c : (ClientChannel(bytes, c))' = ClientChannel(bytes, c)
  BY <1>2, Zenon DEF ClientChannel
<1>4. \A p : (TrueColorOf(p))' = TrueColorOf(p)
  BY Zenon DEF TrueColorOf
<1>5. FullChannel' = FullChannel
  BY SMT DEF FullChannel
<1> QED BY <1>1, <1>3, <1>4, <1>5, Zenon DEF WireDecoded, DecodedAs

\* The formats of the session, and the sizes that ZRLE relies on.
ColorInv ==
  /\ nativeDepth \in {8, 16, 32} /\ nativeDepth \in WireScreens
  /\ tileEncoding \in IF nativeDepth >= 16 THEN {"Raw", "ZRLE"} ELSE {"TRLE", "Hextile"}
  /\ wireFormat \in WireFormats \/ wireFormat = ScreenPixelFormat(nativeDepth)
  /\ tileEncoding = "ZRLE" => SizesFor(wireFormat, "CPIXEL", colorBytes, pixelShift, pixelMask)
  /\ WireDecoded

\* The formats, the table and the tiles are what they are assumed to be.
LEMMA WireTyped ==
  /\ \A f \in WireFormats : FormatTyped(f)
  /\ 1 \in DOMAIN WireColors /\ 2 \in DOMAIN WireColors
  /\ \A depth \in WireScreens : WireTilesOf(depth) \subseteq Seq(PixelsOf(depth))
<1>1. \A f \in WireFormats : FormatTyped(f)
  BY WireAssumption, SMT DEF FormatTyped
<1>2. 1 \in DOMAIN WireColors /\ 2 \in DOMAIN WireColors
  <2> DEFINE T == [Channels -> 0 .. 65535]
  <2>1. WireColors \in Seq(T) /\ Len(WireColors) >= 2
    BY WireAssumption
  <2> HIDE DEF T
  <2> QED BY <2>1
<1>3. \A depth \in WireScreens : WireTilesOf(depth) \subseteq Seq(PixelsOf(depth))
  BY WireTilesAssumption, Zenon
<1> QED BY <1>1, <1>2, <1>3

\* The format of the session is ordinary, or has indices of eight bits.
LEMMA FormatNow ==
  ASSUME OrdinaryFormats, nativeDepth \in {8, 16, 32},
         wireFormat \in WireFormats \/ wireFormat = ScreenPixelFormat(nativeDepth)
  PROVE  /\ wireFormat.trueColor => Usual(wireFormat)
         /\ ~wireFormat.trueColor => wireFormat.bits = 8
         /\ nativeDepth \in {16, 32} => Usual(wireFormat)
<1>1. CASE wireFormat \in WireFormats
  <2>1. FormatTyped(wireFormat)
    BY <1>1, WireTyped, Zenon
  <2>2. Usual(wireFormat)
    BY <1>1, <2>1, Zenon DEF OrdinaryFormats, Usual
  <2> QED BY <2>1, <2>2, Zenon DEF FormatTyped
<1>2. CASE wireFormat = ScreenPixelFormat(nativeDepth)
  <2>1. CASE nativeDepth = 8
    BY <1>2, <2>1 DEF ScreenPixelFormat
  <2>2. CASE nativeDepth \in {16, 32}
    <3>1. ScreenPixelFormat(nativeDepth) = ScreenPixelFormat(32)
      BY <2>2 DEF ScreenPixelFormat
    <3>2. Usual(wireFormat)
      BY <1>2, <3>1, NativeUsual, Zenon
    <3>3. wireFormat.trueColor
      BY <3>2, Zenon DEF Usual, FormatTyped
    <3> QED BY <3>2, <3>3
  <2> QED BY <2>1, <2>2
<1> QED BY <1>1, <1>2

\* Nothing is read as nothing.
LEMMA NothingRead ==
  ASSUME nativeDepth \in {8, 16, 32}, wireSent = NothingSent, ClientBytes("none") \in Nat
  PROVE  WireDecoded
<1> DEFINE n == ClientBytes("none")
<1>1. wireSent.kind = "none" /\ wireSent.colors = <<>> /\ wireSent.bytes = <<>>
  BY DEF NothingSent
<1>2. Len(<<>>) = n * Len(<<>>)
  <2> HIDE DEF n
  <2>1. n \in Nat
    BY DEF n
  <2> QED BY <2>1
<1>3. DOMAIN wireSent.colors = {}
  BY <1>1
<1> QED BY <1>1, <1>2, <1>3, Zenon DEF WireDecoded, n

\* The client always knows the size of a colour.
LEMMA BytesAreNat ==
  ASSUME OrdinaryFormats, nativeDepth \in {8, 16, 32},
         wireFormat \in WireFormats \/ wireFormat = ScreenPixelFormat(nativeDepth), NEW kind
  PROVE  ClientBytes(kind) \in Nat
<1>1. wireFormat.bits \in {8, 16, 32}
  BY FormatNow DEF Usual, FormatTyped
<1> QED BY <1>1 DEF ClientBytes, PixelBytes

\* A session starts with the format and the sizes of the screen.
LEMMA ColorInvInit == WireMishaps = {} /\ OrdinaryFormats /\ WireInit => ColorInv
<1> SUFFICES ASSUME WireMishaps = {}, OrdinaryFormats, WireInit PROVE ColorInv
  OBVIOUS
<1>1. /\ nativeDepth \in {8, 16, 32} /\ nativeDepth \in WireScreens
      /\ tileEncoding \in IF nativeDepth >= 16 THEN {"Raw", "ZRLE"} ELSE {"TRLE", "Hextile"}
      /\ wireFormat = ScreenPixelFormat(nativeDepth)
  BY WireAssumption DEF WireInit
<1>2. tileEncoding = "ZRLE" => SizesFor(wireFormat, "CPIXEL", colorBytes, pixelShift, pixelMask)
  <2> SUFFICES ASSUME tileEncoding = "ZRLE"
               PROVE  SizesFor(wireFormat, "CPIXEL", colorBytes, pixelShift, pixelMask)
    OBVIOUS
  <2>1. nativeDepth >= 16
    BY <1>1
  <2>2. wireFormat.trueColor /\ wireFormat.bits = 32 /\ wireFormat.big
    BY <1>1, <2>1 DEF ScreenPixelFormat
  <2>3. colorBytes = 3 /\ pixelMask = 1 /\ pixelShift = 1
    BY <2>1 DEF WireInit
  <2> QED BY <2>2, <2>3 DEF SizesFor, BytesFor
<1>3. WireDecoded
  <2>1. wireSent = NothingSent
    BY DEF WireInit
  <2> QED BY <1>1, <2>1, BytesAreNat, NothingRead
<1> QED BY <1>1, <1>2, <1>3, Zenon DEF ColorInv

\* Formats, cursors and tiles leave the sizes as the next needs them.
LEMMA ColorInvNext ==
  WireMishaps = {} /\ OrdinaryFormats /\ ColorInv /\ [WireNext]_wvars => ColorInv'
<1> SUFFICES ASSUME WireMishaps = {}, OrdinaryFormats, ColorInv, [WireNext]_wvars PROVE ColorInv'
  OBVIOUS
<1>1. /\ nativeDepth \in {8, 16, 32} /\ nativeDepth \in WireScreens
      /\ tileEncoding \in IF nativeDepth >= 16 THEN {"Raw", "ZRLE"} ELSE {"TRLE", "Hextile"}
      /\ wireFormat \in WireFormats \/ wireFormat = ScreenPixelFormat(nativeDepth)
      /\ tileEncoding = "ZRLE" => SizesFor(wireFormat, "CPIXEL", colorBytes, pixelShift, pixelMask)
  BY Zenon DEF ColorInv
<1>2. /\ wireFormat.trueColor => Usual(wireFormat)
      /\ ~wireFormat.trueColor => wireFormat.bits = 8
      /\ nativeDepth \in {16, 32} => Usual(wireFormat)
  BY <1>1, FormatNow
<1>3. ASSUME NEW f \in WireFormats, ChangeFormat(f)
      PROVE  ColorInv'
  <2>1. /\ nativeDepth' = nativeDepth /\ tileEncoding' = tileEncoding /\ wireFormat' = f
        /\ wireSent' = NothingSent
    BY <1>3, Zenon DEF ChangeFormat
  <2>2. Usual(f)
    BY WireTyped, Zenon DEF OrdinaryFormats, Usual
  <2>3. tileEncoding' = "ZRLE" => SizesFor(wireFormat', "CPIXEL", colorBytes', pixelShift', pixelMask')
    <3> SUFFICES ASSUME tileEncoding = "ZRLE"
                 PROVE  SizesFor(f, "CPIXEL", colorBytes', pixelShift', pixelMask')
      BY <2>1, Zenon
    <3>1. nativeDepth >= 16
      BY <1>1
    <3>2. PrepareTrueColorRoutines(f, f.bits \div 8, "CPIXEL" = "CPIXEL")
      BY <1>3, <3>1 DEF ChangeFormat, PrepareTrueColorRoutines
    <3> QED BY <2>2, <3>2, Prepares
  <2>4. WireDecoded'
    <3>1. f.bits \in {8, 16, 32}
      BY <2>2 DEF Usual, FormatTyped
    <3>2. ClientBytes("none")' \in Nat
      BY <2>1, <3>1 DEF ClientBytes, PixelBytes
    <3>3. wireSent'.kind = "none" /\ wireSent'.colors = <<>> /\ wireSent'.bytes = <<>>
      BY <2>1 DEF NothingSent
    <3>4. DOMAIN wireSent'.colors = {}
      BY <3>3
    <3>5. Len(<<>>) = ClientBytes("none")' * Len(<<>>)
      <4> DEFINE n == ClientBytes("none")'
      <4> HIDE DEF n
      <4>1. n \in Nat
        BY <3>2 DEF n
      <4>2. Len(<<>>) = n * Len(<<>>)
        BY <4>1
      <4> QED BY <4>2 DEF n
    <3> QED BY <3>3, <3>4, <3>5, Zenon DEF WireDecoded
  <2>5. /\ nativeDepth' \in {8, 16, 32} /\ nativeDepth' \in WireScreens
        /\ tileEncoding' \in IF nativeDepth' >= 16 THEN {"Raw", "ZRLE"} ELSE {"TRLE", "Hextile"}
        /\ wireFormat' \in WireFormats
    BY <1>1, <2>1, Zenon
  <2> QED BY <2>3, <2>4, <2>5, Zenon DEF ColorInv
\* What is sent, read as it was sent, leaves the rest as it was.
<1>4. ASSUME NEW s, wireSent' = s, DecodedAs(s),
             nativeDepth' = nativeDepth, tileEncoding' = tileEncoding, wireFormat' = wireFormat,
             \/ tileEncoding # "ZRLE"
             \/ colorBytes' = colorBytes /\ pixelShift' = pixelShift /\ pixelMask' = pixelMask
      PROVE  ColorInv'
  <2>1. WireDecoded'
    BY <1>4, SameReading
  <2>2. tileEncoding' = "ZRLE" => SizesFor(wireFormat', "CPIXEL", colorBytes', pixelShift', pixelMask')
    BY <1>1, <1>4, Zenon
  <2>3. /\ nativeDepth' \in {8, 16, 32} /\ nativeDepth' \in WireScreens
        /\ tileEncoding' \in IF nativeDepth' >= 16 THEN {"Raw", "ZRLE"} ELSE {"TRLE", "Hextile"}
        /\ wireFormat' \in WireFormats \/ wireFormat' = ScreenPixelFormat(nativeDepth')
    BY <1>1, <1>4, Zenon
  <2> QED BY <2>1, <2>2, <2>3, Zenon DEF ColorInv
\* Colours of an indexed screen.
<1>5. ASSUME nativeDepth = 8, NEW kind, NEW colors \in Seq(DOMAIN WireColors), SendColors(kind, colors)
      PROVE  ColorInv'
  <2>1. PICK seqs : wireSent' = SentOf(kind, colors, seqs) /\ DecodedAs(SentOf(kind, colors, seqs))
    BY <1>2, <1>5, IndexedSend
  <2>2. tileEncoding # "ZRLE"
    BY <1>1, <1>5
  <2>3. nativeDepth' = nativeDepth /\ tileEncoding' = tileEncoding /\ wireFormat' = wireFormat
    BY <1>5, Zenon DEF SendColors
  <2> QED BY <1>4, <2>1, <2>2, <2>3
<1>6. CASE SendCursor
  <2>1. SendColors("cursor", <<1, 2, 1>>) /\ (nativeDepth = 8 \/ tileEncoding = "Raw")
    BY <1>6 DEF SendCursor
  <2>2. CASE nativeDepth = 8
    <3>1. <<1, 2, 1>> \in Seq(DOMAIN WireColors)
      <4>1. 1 \in DOMAIN WireColors /\ 2 \in DOMAIN WireColors
        BY WireTyped
      <4> QED BY <4>1
    <3> QED BY <1>5, <2>1, <2>2, <3>1
  <2>3. CASE nativeDepth # 8
    <3>1. nativeDepth \in {16, 32} /\ tileEncoding = "Raw" /\ Usual(wireFormat)
      BY <1>1, <1>2, <2>1, <2>3
    <3>2. PICK colors, seqs : wireSent' = SentOf("cursor", colors, seqs)
                              /\ DecodedAs(SentOf("cursor", colors, seqs))
      BY <2>1, <3>1, CursorSend
    <3>3. nativeDepth' = nativeDepth /\ tileEncoding' = tileEncoding /\ wireFormat' = wireFormat
      BY <2>1, Zenon DEF SendColors
    <3>4. tileEncoding # "ZRLE"
      BY <3>1
    <3> QED BY <1>4, <3>2, <3>3, <3>4
  <2> QED BY <2>2, <2>3
<1>7. ASSUME NEW tile \in WireTilesOf(nativeDepth), SendTile(tile)
      PROVE  ColorInv'
  <2>1. tile \in Seq(PixelsOf(nativeDepth))
    BY <1>1, <1>7, WireTyped, Zenon
  <2>2. CASE nativeDepth = 8
    <3>1. tile \in Seq(DOMAIN WireColors)
      BY <2>1, <2>2, Zenon DEF PixelsOf
    <3>2. tileEncoding \in {"TRLE", "Hextile"}
      BY <1>1, <2>2
    <3>3. SendColors(IF tileEncoding = "TRLE" THEN "CPIXEL" ELSE "PIXEL", tile)
      BY <1>7, <3>2 DEF SendTile
    <3> QED BY <1>5, <2>2, <3>1, <3>3
  <2>3. CASE nativeDepth # 8
    <3>1. nativeDepth \in {16, 32} /\ tileEncoding \in {"Raw", "ZRLE"} /\ Usual(wireFormat)
      BY <1>1, <1>2, <2>3
    <3>2. PICK kind, seqs : wireSent' = SentOf(kind, tile, seqs) /\ DecodedAs(SentOf(kind, tile, seqs))
      BY <1>1, <1>7, <2>1, <3>1, TrueSend
    <3>3. /\ nativeDepth' = nativeDepth /\ tileEncoding' = tileEncoding /\ wireFormat' = wireFormat
          /\ colorBytes' = colorBytes /\ pixelShift' = pixelShift /\ pixelMask' = pixelMask
      BY <1>7, <3>1 DEF SendTile
    <3> QED BY <1>4, <3>2, <3>3
  <2> QED BY <2>2, <2>3
<1>8. CASE UNCHANGED wvars
  <2>1. /\ nativeDepth' = nativeDepth /\ tileEncoding' = tileEncoding /\ wireFormat' = wireFormat
        /\ colorBytes' = colorBytes /\ pixelShift' = pixelShift /\ pixelMask' = pixelMask
        /\ wireSent' = wireSent
    BY <1>8 DEF wvars
  <2>2. DecodedAs(wireSent)
    BY Zenon DEF ColorInv, WireDecoded, DecodedAs
  <2> QED BY <1>4, <2>1, <2>2
<1> QED BY <1>3, <1>6, <1>7, <1>8, Zenon DEF WireNext

\* Whatever cursors, tiles and changes of format came before, the client finds as many pixels
\* as were sent, each within one step of the colour of the screen, black and white exactly:
\* for all formats of channels of up to eight bits beside each other (WireDecoded).
THEOREM WireSeen == WireMishaps = {} /\ OrdinaryFormats => (WireSpec => []WireDecoded)
<1> SUFFICES ASSUME WireMishaps = {}, OrdinaryFormats PROVE WireSpec => []WireDecoded
  OBVIOUS
<1>1. WireInit => ColorInv
  BY ColorInvInit
<1>2. ColorInv /\ [WireNext]_wvars => ColorInv'
  BY ColorInvNext
<1>3. ColorInv => WireDecoded
  BY Zenon DEF ColorInv
<1> QED BY <1>1, <1>2, <1>3, PTL DEF WireSpec
=============================================================================
