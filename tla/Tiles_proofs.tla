----------------------------- MODULE Tiles_proofs -----------------------------
(***************************************************************************)
(* The twins of nativeToRle, in C and in assembly, write the same; and     *)
(* what Hextile makes of it is the tile that is on the screen.             *)
(*                                                                         *)
(*   - An exclusive or is nothing where two colours are equal, and undoes  *)
(*     itself (DiffersByte, DiffersBack).                                  *)
(*   - The loop in C is a function from one word to the next, and within a *)
(*     word from one pixel to the next: these functions exist and are the  *)
(*     ones that its LET chooses (WordStepIs, NativeToRleIs).              *)
(*   - The colours have the places of their order (TableIs), and the       *)
(*     routines in assembly find the same colours (TallyIs).               *)
(*   - The registers of the machine are the state of the loop in C, at the *)
(*     word or the pixel where the machine is (TwinInv).                   *)
(*   - For Hextile, nativeToRle writes the runs of equal pixels of a tile  *)
(*     (HexRunsAre), of which Hextile makes rectangles that cover the tile *)
(*     (RectsCover), so that the client paints what is on the screen,      *)
(*     whatever colours it kept from earlier tiles (HextileSeen).          *)
(***************************************************************************)
EXTENDS NativeTilesAsm, HextileEncoder, FiniteSetTheorems, SequenceTheorems, WellFoundedInduction, TLAPS

----------------------------------------------------------------------------
(* Exclusive or.                                                            *)

LEMMA BitsOfByte ==
  ASSUME NEW a \in 0..255
  PROVE  \E b0, b1, b2, b3, b4, b5, b6, b7 \in {0, 1} :
           a = b0 + 2 * b1 + 4 * b2 + 8 * b3 + 16 * b4 + 32 * b5 + 64 * b6 + 128 * b7
<1> DEFINE h1 == a \div 2
           h2 == h1 \div 2
           h3 == h2 \div 2
           h4 == h3 \div 2
           h5 == h4 \div 2
           h6 == h5 \div 2
           h7 == h6 \div 2
<1>1. h1 \in 0..127 /\ a % 2 \in {0, 1} /\ a = 2 * h1 + (a % 2)
  OBVIOUS
<1>2. h2 \in 0..63 /\ h1 % 2 \in {0, 1} /\ h1 = 2 * h2 + (h1 % 2)
  <2> HIDE DEF h1
  <2> QED BY <1>1
<1>3. h3 \in 0..31 /\ h2 % 2 \in {0, 1} /\ h2 = 2 * h3 + (h2 % 2)
  <2> HIDE DEF h2
  <2> QED BY <1>2
<1>4. h4 \in 0..15 /\ h3 % 2 \in {0, 1} /\ h3 = 2 * h4 + (h3 % 2)
  <2> HIDE DEF h3
  <2> QED BY <1>3
<1>5. h5 \in 0..7 /\ h4 % 2 \in {0, 1} /\ h4 = 2 * h5 + (h4 % 2)
  <2> HIDE DEF h4
  <2> QED BY <1>4
<1>6. h6 \in 0..3 /\ h5 % 2 \in {0, 1} /\ h5 = 2 * h6 + (h5 % 2)
  <2> HIDE DEF h5
  <2> QED BY <1>5
<1>7. h7 \in {0, 1} /\ h6 % 2 \in {0, 1} /\ h6 = 2 * h7 + (h6 % 2)
  <2> HIDE DEF h6
  <2> QED BY <1>6
<1> HIDE DEF h1, h2, h3, h4, h5, h6, h7
<1>8. a = (a % 2) + 2 * (h1 % 2) + 4 * (h2 % 2) + 8 * (h3 % 2) + 16 * (h4 % 2)
          + 32 * (h5 % 2) + 64 * (h6 % 2) + 128 * h7
  BY <1>1, <1>2, <1>3, <1>4, <1>5, <1>6, <1>7
<1> QED BY <1>1, <1>2, <1>3, <1>4, <1>5, <1>6, <1>7, <1>8

Sum8(b) == b[0] + 2 * b[1] + 4 * b[2] + 8 * b[3] + 16 * b[4] + 32 * b[5] + 64 * b[6] + 128 * b[7]

\* The bits of a byte, as a function.
LEMMA BitFunction ==
  ASSUME NEW a \in 0..255
  PROVE  \E b \in [0..7 -> {0, 1}] : a = Sum8(b)
<1>1. PICK b0, b1, b2, b3, b4, b5, b6, b7 \in {0, 1} :
           a = b0 + 2 * b1 + 4 * b2 + 8 * b3 + 16 * b4 + 32 * b5 + 64 * b6 + 128 * b7
  BY BitsOfByte
<1> DEFINE b == [k \in 0..7 |-> CASE k = 0 -> b0 [] k = 1 -> b1 [] k = 2 -> b2 [] k = 3 -> b3
                                  [] k = 4 -> b4 [] k = 5 -> b5 [] k = 6 -> b6 [] OTHER -> b7]
<1>2. b \in [0..7 -> {0, 1}]
  OBVIOUS
<1>3. b[0] = b0 /\ b[1] = b1 /\ b[2] = b2 /\ b[3] = b3 /\ b[4] = b4 /\ b[5] = b5 /\ b[6] = b6 /\ b[7] = b7
  OBVIOUS
<1> HIDE DEF b
<1>4. a = Sum8(b)
  BY <1>1, <1>3 DEF Sum8
<1> QED BY <1>2, <1>4

LEMMA DivSum ==
  ASSUME NEW b \in [0..7 -> {0, 1}]
  PROVE  /\ Sum8(b) \div 1 = Sum8(b)
         /\ Sum8(b) \div 2 = b[1] + 2 * b[2] + 4 * b[3] + 8 * b[4] + 16 * b[5] + 32 * b[6] + 64 * b[7]
         /\ Sum8(b) \div 4 = b[2] + 2 * b[3] + 4 * b[4] + 8 * b[5] + 16 * b[6] + 32 * b[7]
         /\ Sum8(b) \div 8 = b[3] + 2 * b[4] + 4 * b[5] + 8 * b[6] + 16 * b[7]
         /\ Sum8(b) \div 16 = b[4] + 2 * b[5] + 4 * b[6] + 8 * b[7]
         /\ Sum8(b) \div 32 = b[5] + 2 * b[6] + 4 * b[7]
         /\ Sum8(b) \div 64 = b[6] + 2 * b[7]
         /\ Sum8(b) \div 128 = b[7]
         /\ Sum8(b) \in 0..255
<1>1. /\ b[0] \in {0, 1} /\ b[1] \in {0, 1} /\ b[2] \in {0, 1} /\ b[3] \in {0, 1}
      /\ b[4] \in {0, 1} /\ b[5] \in {0, 1} /\ b[6] \in {0, 1} /\ b[7] \in {0, 1}
  OBVIOUS
<1> QED BY <1>1 DEF Sum8

LEMMA ParityOfSum ==
  ASSUME NEW x \in Int, NEW y \in Int, NEW u \in {0, 1}, NEW v \in {0, 1}
  PROVE  ((u + 2 * x) + (v + 2 * y)) % 2 = (u + v) % 2
OBVIOUS

LEMMA DiffersBits ==
  ASSUME NEW a \in [0..7 -> {0, 1}], NEW b \in [0..7 -> {0, 1}], Sum8(a) # Sum8(b)
  PROVE  Differs(Sum8(a), Sum8(b)) = Sum8([k \in 0..7 |-> (a[k] + b[k]) % 2])
<1>1. /\ a[0] \in {0, 1} /\ a[1] \in {0, 1} /\ a[2] \in {0, 1} /\ a[3] \in {0, 1}
      /\ a[4] \in {0, 1} /\ a[5] \in {0, 1} /\ a[6] \in {0, 1} /\ a[7] \in {0, 1}
  OBVIOUS
<1>2. /\ b[0] \in {0, 1} /\ b[1] \in {0, 1} /\ b[2] \in {0, 1} /\ b[3] \in {0, 1}
      /\ b[4] \in {0, 1} /\ b[5] \in {0, 1} /\ b[6] \in {0, 1} /\ b[7] \in {0, 1}
  OBVIOUS
<1> DEFINE s == Sum8(a)
           t == Sum8(b)
           c == [k \in 0..7 |-> (a[k] + b[k]) % 2]
<1>3. /\ (s \div 1 + t \div 1) % 2 = (a[0] + b[0]) % 2
      /\ (s \div 2 + t \div 2) % 2 = (a[1] + b[1]) % 2
      /\ (s \div 4 + t \div 4) % 2 = (a[2] + b[2]) % 2
      /\ (s \div 8 + t \div 8) % 2 = (a[3] + b[3]) % 2
      /\ (s \div 16 + t \div 16) % 2 = (a[4] + b[4]) % 2
      /\ (s \div 32 + t \div 32) % 2 = (a[5] + b[5]) % 2
      /\ (s \div 64 + t \div 64) % 2 = (a[6] + b[6]) % 2
      /\ (s \div 128 + t \div 128) % 2 = (a[7] + b[7]) % 2
  <2>1. (s \div 1 + t \div 1) % 2 = (a[0] + b[0]) % 2
    <3> DEFINE x == a[1] + 2 * a[2] + 4 * a[3] + 8 * a[4] + 16 * a[5] + 32 * a[6] + 64 * a[7]
               y == b[1] + 2 * b[2] + 4 * b[3] + 8 * b[4] + 16 * b[5] + 32 * b[6] + 64 * b[7]
    <3>1. x \in Int /\ y \in Int
      BY <1>1, <1>2
    <3>2. s \div 1 = a[0] + 2 * x /\ t \div 1 = b[0] + 2 * y
      BY <1>1, <1>2, DivSum DEF Sum8
    <3> HIDE DEF x, y, s, t
    <3> QED BY <1>1, <1>2, <3>1, <3>2, ParityOfSum
  <2>2. (s \div 2 + t \div 2) % 2 = (a[1] + b[1]) % 2
    <3> DEFINE x == a[2] + 2 * a[3] + 4 * a[4] + 8 * a[5] + 16 * a[6] + 32 * a[7]
               y == b[2] + 2 * b[3] + 4 * b[4] + 8 * b[5] + 16 * b[6] + 32 * b[7]
    <3>1. x \in Int /\ y \in Int
      BY <1>1, <1>2
    <3>2. s \div 2 = a[1] + 2 * x /\ t \div 2 = b[1] + 2 * y
      BY <1>1, <1>2, DivSum DEF Sum8
    <3> HIDE DEF x, y, s, t
    <3> QED BY <1>1, <1>2, <3>1, <3>2, ParityOfSum
  <2>3. (s \div 4 + t \div 4) % 2 = (a[2] + b[2]) % 2
    <3> DEFINE x == a[3] + 2 * a[4] + 4 * a[5] + 8 * a[6] + 16 * a[7]
               y == b[3] + 2 * b[4] + 4 * b[5] + 8 * b[6] + 16 * b[7]
    <3>1. x \in Int /\ y \in Int
      BY <1>1, <1>2
    <3>2. s \div 4 = a[2] + 2 * x /\ t \div 4 = b[2] + 2 * y
      BY <1>1, <1>2, DivSum DEF Sum8
    <3> HIDE DEF x, y, s, t
    <3> QED BY <1>1, <1>2, <3>1, <3>2, ParityOfSum
  <2>4. (s \div 8 + t \div 8) % 2 = (a[3] + b[3]) % 2
    <3> DEFINE x == a[4] + 2 * a[5] + 4 * a[6] + 8 * a[7]
               y == b[4] + 2 * b[5] + 4 * b[6] + 8 * b[7]
    <3>1. x \in Int /\ y \in Int
      BY <1>1, <1>2
    <3>2. s \div 8 = a[3] + 2 * x /\ t \div 8 = b[3] + 2 * y
      BY <1>1, <1>2, DivSum DEF Sum8
    <3> HIDE DEF x, y, s, t
    <3> QED BY <1>1, <1>2, <3>1, <3>2, ParityOfSum
  <2>5. (s \div 16 + t \div 16) % 2 = (a[4] + b[4]) % 2
    <3> DEFINE x == a[5] + 2 * a[6] + 4 * a[7]
               y == b[5] + 2 * b[6] + 4 * b[7]
    <3>1. x \in Int /\ y \in Int
      BY <1>1, <1>2
    <3>2. s \div 16 = a[4] + 2 * x /\ t \div 16 = b[4] + 2 * y
      BY <1>1, <1>2, DivSum DEF Sum8
    <3> HIDE DEF x, y, s, t
    <3> QED BY <1>1, <1>2, <3>1, <3>2, ParityOfSum
  <2>6. (s \div 32 + t \div 32) % 2 = (a[5] + b[5]) % 2
    <3> DEFINE x == a[6] + 2 * a[7]
               y == b[6] + 2 * b[7]
    <3>1. x \in Int /\ y \in Int
      BY <1>1, <1>2
    <3>2. s \div 32 = a[5] + 2 * x /\ t \div 32 = b[5] + 2 * y
      BY <1>1, <1>2, DivSum DEF Sum8
    <3> HIDE DEF x, y, s, t
    <3> QED BY <1>1, <1>2, <3>1, <3>2, ParityOfSum
  <2>7. (s \div 64 + t \div 64) % 2 = (a[6] + b[6]) % 2
    <3> DEFINE x == a[7]
               y == b[7]
    <3>1. x \in Int /\ y \in Int
      BY <1>1, <1>2
    <3>2. s \div 64 = a[6] + 2 * x /\ t \div 64 = b[6] + 2 * y
      BY <1>1, <1>2, DivSum DEF Sum8
    <3> HIDE DEF x, y, s, t
    <3> QED BY <1>1, <1>2, <3>1, <3>2, ParityOfSum
  <2>8. (s \div 128 + t \div 128) % 2 = (a[7] + b[7]) % 2
    <3> DEFINE x == 0
               y == 0
    <3>1. x \in Int /\ y \in Int
      BY <1>1, <1>2
    <3>2. s \div 128 = a[7] + 2 * x /\ t \div 128 = b[7] + 2 * y
      BY <1>1, <1>2, DivSum DEF Sum8
    <3> HIDE DEF x, y, s, t
    <3> QED BY <1>1, <1>2, <3>1, <3>2, ParityOfSum
  <2> QED BY <2>1, <2>2, <2>3, <2>4, <2>5, <2>6, <2>7, <2>8
<1>4. c[0] = (a[0] + b[0]) % 2 /\ c[1] = (a[1] + b[1]) % 2 /\ c[2] = (a[2] + b[2]) % 2
      /\ c[3] = (a[3] + b[3]) % 2 /\ c[4] = (a[4] + b[4]) % 2 /\ c[5] = (a[5] + b[5]) % 2
      /\ c[6] = (a[6] + b[6]) % 2 /\ c[7] = (a[7] + b[7]) % 2
  OBVIOUS
<1>5. Differs(s, t) = 1 * c[0] + 2 * c[1] + 4 * c[2] + 8 * c[3] + 16 * c[4] + 32 * c[5] + 64 * c[6] + 128 * c[7]
  <2> HIDE DEF s, t, c
  <2> QED BY <1>3, <1>4 DEF Differs, s, t
<1> QED BY <1>5, <1>4 DEF Sum8

\* What differs is nothing when the colours are the same, and gives the one back when it is
\* exclusively or'ed to the other.
LEMMA DiffersBack ==
  ASSUME NEW p \in 0..255, NEW c \in 0..255, p # c
  PROVE  Differs(c, p) \in 1..255 /\ Differs(p, Differs(c, p)) = c
<1>1. PICK u \in [0..7 -> {0, 1}] : p = Sum8(u)
  BY BitFunction
<1>2. PICK v \in [0..7 -> {0, 1}] : c = Sum8(v)
  BY BitFunction
<1> DEFINE w == [k \in 0..7 |-> (v[k] + u[k]) % 2]
           z == [k \in 0..7 |-> (u[k] + w[k]) % 2]
<1>3. w \in [0..7 -> {0, 1}]
  OBVIOUS
<1>4. Differs(c, p) = Sum8(w)
  BY <1>1, <1>2, DiffersBits
<1>5. \A k \in 0..7 : z[k] = v[k] /\ (w[k] = 0 <=> u[k] = v[k])
  <2> SUFFICES ASSUME NEW k \in 0..7 PROVE z[k] = v[k] /\ (w[k] = 0 <=> u[k] = v[k])
    OBVIOUS
  <2>1. u[k] \in {0, 1} /\ v[k] \in {0, 1}
    OBVIOUS
  <2>2. w[k] = (v[k] + u[k]) % 2 /\ z[k] = (u[k] + w[k]) % 2
    OBVIOUS
  <2> HIDE DEF w, z
  <2> QED BY <2>1, <2>2
<1>6. z = v
  <2>1. z = [k \in 0..7 |-> z[k]] /\ v = [k \in 0..7 |-> v[k]]
    OBVIOUS
  <2> HIDE DEF z
  <2> QED BY <2>1, <1>5
<1>7. \E k \in 0..7 : w[k] # 0
  <2> SUFFICES ASSUME \A k \in 0..7 : w[k] = 0 PROVE FALSE
    OBVIOUS
  <2>1. u = v
    <3>1. u = [k \in 0..7 |-> u[k]] /\ v = [k \in 0..7 |-> v[k]]
      OBVIOUS
    <3> HIDE DEF w, z
    <3> QED BY <3>1, <1>5
  <2> QED BY <2>1, <1>1, <1>2
<1> HIDE DEF w
<1>8. Sum8(w) \in 0..255
  BY <1>3, DivSum
<1>9. Sum8(w) # 0
  <2>1. /\ w[0] \in {0, 1} /\ w[1] \in {0, 1} /\ w[2] \in {0, 1} /\ w[3] \in {0, 1}
        /\ w[4] \in {0, 1} /\ w[5] \in {0, 1} /\ w[6] \in {0, 1} /\ w[7] \in {0, 1}
    BY <1>3
  <2>2. PICK k \in 0..7 : w[k] # 0
    BY <1>7
  <2>3. k = 0 \/ k = 1 \/ k = 2 \/ k = 3 \/ k = 4 \/ k = 5 \/ k = 6 \/ k = 7
    OBVIOUS
  <2> QED BY <2>1, <2>2, <2>3 DEF Sum8
<1>10. Differs(p, Sum8(w)) = c
  <2>1. CASE p = Sum8(w)
    <3>1. /\ u[7] = w[7] /\ u[6] = w[6] /\ u[5] = w[5] /\ u[4] = w[4]
          /\ u[3] = w[3] /\ u[2] = w[2] /\ u[1] = w[1] /\ u[0] = w[0]
      <4>1. /\ w[0] \in {0, 1} /\ w[1] \in {0, 1} /\ w[2] \in {0, 1} /\ w[3] \in {0, 1}
            /\ w[4] \in {0, 1} /\ w[5] \in {0, 1} /\ w[6] \in {0, 1} /\ w[7] \in {0, 1}
        BY <1>3
      <4>2. /\ u[0] \in {0, 1} /\ u[1] \in {0, 1} /\ u[2] \in {0, 1} /\ u[3] \in {0, 1}
            /\ u[4] \in {0, 1} /\ u[5] \in {0, 1} /\ u[6] \in {0, 1} /\ u[7] \in {0, 1}
        OBVIOUS
      <4>3. Sum8(u) = Sum8(w)
        BY <1>1, <2>1
      <4>5. Sum8(u) \div 128 = Sum8(w) \div 128 /\ Sum8(u) \div 64 = Sum8(w) \div 64
            /\ Sum8(u) \div 32 = Sum8(w) \div 32 /\ Sum8(u) \div 16 = Sum8(w) \div 16
            /\ Sum8(u) \div 8 = Sum8(w) \div 8 /\ Sum8(u) \div 4 = Sum8(w) \div 4
            /\ Sum8(u) \div 2 = Sum8(w) \div 2 /\ Sum8(u) \div 1 = Sum8(w) \div 1
        BY <4>3
      <4> HIDE DEF w
      <4>6. /\ u[7]
               = w[7]
            /\ u[6] + 2 * u[7]
               = w[6] + 2 * w[7]
            /\ u[5] + 2 * u[6] + 4 * u[7]
               = w[5] + 2 * w[6] + 4 * w[7]
            /\ u[4] + 2 * u[5] + 4 * u[6] + 8 * u[7]
               = w[4] + 2 * w[5] + 4 * w[6] + 8 * w[7]
            /\ u[3] + 2 * u[4] + 4 * u[5] + 8 * u[6] + 16 * u[7]
               = w[3] + 2 * w[4] + 4 * w[5] + 8 * w[6] + 16 * w[7]
            /\ u[2] + 2 * u[3] + 4 * u[4] + 8 * u[5] + 16 * u[6] + 32 * u[7]
               = w[2] + 2 * w[3] + 4 * w[4] + 8 * w[5] + 16 * w[6] + 32 * w[7]
            /\ u[1] + 2 * u[2] + 4 * u[3] + 8 * u[4] + 16 * u[5] + 32 * u[6] + 64 * u[7]
               = w[1] + 2 * w[2] + 4 * w[3] + 8 * w[4] + 16 * w[5] + 32 * w[6] + 64 * w[7]
        BY <4>5, <1>3, DivSum
      <4>7. u[7] = w[7]
        BY <4>1, <4>2, <4>6
      <4>8. u[6] = w[6]
        BY <4>1, <4>2, <4>6, <4>7
      <4>9. u[5] = w[5]
        BY <4>1, <4>2, <4>6, <4>7, <4>8
      <4>10. u[4] = w[4]
        BY <4>1, <4>2, <4>6, <4>7, <4>8, <4>9
      <4>11. u[3] = w[3]
        BY <4>1, <4>2, <4>6, <4>7, <4>8, <4>9, <4>10
      <4>12. u[2] = w[2]
        BY <4>1, <4>2, <4>6, <4>7, <4>8, <4>9, <4>10, <4>11
      <4>13. u[1] = w[1]
        BY <4>1, <4>2, <4>6, <4>7, <4>8, <4>9, <4>10, <4>11, <4>12
      <4>14. u[0] = w[0]
        BY <4>3, <4>1, <4>2, <4>6, <4>7, <4>8, <4>9, <4>10, <4>11, <4>12, <4>13 DEF Sum8
      <4> QED BY <4>7, <4>8, <4>9, <4>10, <4>11, <4>12, <4>13, <4>14
    <3>2. \A k \in 0..7 : v[k] = 0
      <4> SUFFICES ASSUME NEW k \in 0..7 PROVE v[k] = 0
        OBVIOUS
      <4>1. u[k] = w[k]
        BY <3>1
      <4>2. z[k] = v[k] /\ z[k] = (u[k] + w[k]) % 2 /\ u[k] \in {0, 1}
        BY <1>5
      <4> HIDE DEF z
      <4> QED BY <4>1, <4>2
    <3>3. c = 0
      BY <3>2, <1>2 DEF Sum8
    <3> QED BY <2>1, <3>3 DEF Differs
  <2>2. CASE p # Sum8(w)
    BY <2>2, <1>1, <1>2, <1>3, <1>6, DiffersBits
  <2> QED BY <2>1, <2>2
<1> QED BY <1>4, <1>8, <1>9, <1>10

----------------------------------------------------------------------------
(* The loops, as functions.                                                 *)

\* A set of natural numbers has a least element: what an induction would be used for.
LEMMA LeastNumber ==
  ASSUME NEW B \in SUBSET Nat, B # {}
  PROVE  \E n \in B : \A k \in B : n <= k
<1>1. PICK n \in B : \A k \in B : ~(<<k, n>> \in OpToRel(<, Nat))
  BY NatLessThanWellFounded, WFMin, Zenon
<1>2. \A k \in B : ~(k < n)
  BY <1>1 DEF OpToRel
<1> QED BY <1>2

\* The function that WordStep defines for the pixels of a word.
PixelRun(f, how, s, diffs, n) ==
  f = [i \in 0..n |-> IF i = 0 THEN s ELSE PixelStep(how, f[i - 1], diffs[i])]

LEMMA PixelRunExists ==
  \A how, s, diffs : \A n \in Nat : \E f : PixelRun(f, how, s, diffs, n)
<1> SUFFICES ASSUME NEW how, NEW s, NEW diffs PROVE \A n \in Nat : \E f : PixelRun(f, how, s, diffs, n)
  OBVIOUS
<1> DEFINE B == {n \in Nat : ~ \E f : PixelRun(f, how, s, diffs, n)}
<1> SUFFICES ASSUME B # {} PROVE FALSE
  OBVIOUS
<1>1. PICK n \in B : \A k \in B : n <= k
  <2>1. B \in SUBSET Nat
    OBVIOUS
  <2> HIDE DEF B
  <2> QED BY <2>1, LeastNumber
<1>2. n \in Nat /\ ~ \E f : PixelRun(f, how, s, diffs, n)
  OBVIOUS
<1>3. CASE n = 0
  <2> DEFINE g == [i \in 0..0 |-> s]
  <2>1. PixelRun(g, how, s, diffs, 0)
    <3>1. g = [i \in 0..0 |-> IF i = 0 THEN s ELSE PixelStep(how, g[i - 1], diffs[i])]
      OBVIOUS
    <3> QED BY <3>1 DEF PixelRun
  <2> QED BY <1>2, <1>3, <2>1
<1>4. CASE n # 0
  <2>1. n - 1 \in Nat /\ n - 1 < n
    BY <1>2, <1>4
  <2>2. n - 1 \notin B
    <3> HIDE DEF B
    <3> QED BY <1>1, <1>2, <2>1
  <2>3. PICK f : PixelRun(f, how, s, diffs, n - 1)
    BY <2>1, <2>2
  <2> DEFINE g == [i \in 0..n |-> IF i = n THEN PixelStep(how, f[n - 1], diffs[n]) ELSE f[i]]
             h == [i \in 0..n |-> IF i = 0 THEN s ELSE PixelStep(how, g[i - 1], diffs[i])]
  <2>4. \A i \in 0..(n - 1) : g[i] = f[i] /\ f[i] = IF i = 0 THEN s ELSE PixelStep(how, f[i - 1], diffs[i])
    BY <1>2, <2>3 DEF PixelRun
  <2>5. g[n] = PixelStep(how, f[n - 1], diffs[n])
    BY <1>2
  <2>6. \A i \in 0..n : g[i] = IF i = 0 THEN s ELSE PixelStep(how, g[i - 1], diffs[i])
    <3> TAKE i \in 0..n
    <3>1. CASE i = 0
      <4>1. 0 \in 0..(n - 1)
        BY <2>1
      <4> HIDE DEF g
      <4> QED BY <2>4, <3>1, <4>1
    <3>2. CASE i = n /\ i # 0
      <4>1. n - 1 \in 0..(n - 1)
        BY <2>1
      <4>2. g[n - 1] = f[n - 1]
        BY <2>4, <4>1
      <4> HIDE DEF g
      <4> QED BY <2>5, <3>2, <4>2
    <3>3. CASE i # n /\ i # 0
      <4>1. i \in 0..(n - 1) /\ i - 1 \in 0..(n - 1)
        BY <1>2, <3>3
      <4>2. g[i] = f[i] /\ g[i - 1] = f[i - 1] /\ f[i] = PixelStep(how, f[i - 1], diffs[i])
        BY <2>4, <4>1, <3>3
      <4> HIDE DEF g
      <4> QED BY <3>3, <4>2
    <3> QED BY <3>1, <3>2, <3>3
  <2>7. g = h
    <3>1. g = [i \in 0..n |-> g[i]]
      OBVIOUS
    <3> HIDE DEF g
    <3> QED BY <2>6, <3>1
  <2>8. PixelRun(g, how, s, diffs, n)
    BY <2>7 DEF PixelRun
  <2> HIDE DEF g
  <2> QED BY <1>2, <2>8
<1> QED BY <1>3, <1>4

AfterPixels(how, s, diffs, n) == CHOOSE f : PixelRun(f, how, s, diffs, n)

LEMMA AfterPixelsIs ==
  ASSUME NEW how, NEW s, NEW diffs, NEW n \in Nat
  PROVE  /\ AfterPixels(how, s, diffs, n)[0] = s
         /\ \A i \in 1..n : AfterPixels(how, s, diffs, n)[i]
                              = PixelStep(how, AfterPixels(how, s, diffs, n)[i - 1], diffs[i])
<1> DEFINE f == AfterPixels(how, s, diffs, n)
<1>1. PixelRun(f, how, s, diffs, n)
  BY PixelRunExists DEF AfterPixels
<1> HIDE DEF f
<1>2. f[0] = s
  BY <1>1 DEF PixelRun
<1>3. ASSUME NEW i \in 1..n PROVE f[i] = PixelStep(how, f[i - 1], diffs[i])
  <2>1. i \in 0..n /\ i # 0
    OBVIOUS
  <2> QED BY <1>1, <2>1 DEF PixelRun
<1> QED BY <1>2, <1>3 DEF f

\* The differences of a word from the pixel before it and within.
Diffs(c, word) ==
  [i \in DOMAIN word |-> Differs(word[i], IF i = 1 THEN c ELSE word[i - 1])]

LEMMA WordStepIs ==
  ASSUME NEW how, NEW s, NEW word, ~s.stopped
  PROVE  WordStep(how, s, word)
           = IF \A i \in DOMAIN Diffs(s.carry, word) : Diffs(s.carry, word)[i] = 0
             THEN [s EXCEPT !.cnt = (s.cnt + Len(word)) % MaxCount]
             ELSE [AfterPixels(how, s, Diffs(s.carry, word), Len(word))[Len(word)]
                     EXCEPT !.carry = Last(word)]
BY DEF WordStep, Diffs, AfterPixels, PixelRun

LEMMA WordSkips ==
  ASSUME NEW how, NEW s, NEW word, ~s.stopped, NEW diffs, diffs = Diffs(s.carry, word),
         \A i \in DOMAIN diffs : diffs[i] = 0
  PROVE  WordStep(how, s, word) = [s EXCEPT !.cnt = (s.cnt + Len(word)) % MaxCount]
<1>1. \A i \in DOMAIN Diffs(s.carry, word) : Diffs(s.carry, word)[i] = 0
  OBVIOUS
<1> QED BY <1>1, WordStepIs

\* What a word that is looked at pixel by pixel leaves.
LookedAt(how, s, diffs, word) ==
  [AfterPixels(how, s, diffs, Len(word))[Len(word)] EXCEPT !.carry = Last(word)]

LEMMA WordLooks ==
  ASSUME NEW how, NEW s, NEW word, ~s.stopped, NEW diffs, diffs = Diffs(s.carry, word),
         ~(\A i \in DOMAIN diffs : diffs[i] = 0)
  PROVE  WordStep(how, s, word) = LookedAt(how, s, diffs, word)
<1> DEFINE D == Diffs(s.carry, word)
           C == \A i \in DOMAIN D : D[i] = 0
           a == [s EXCEPT !.cnt = (s.cnt + Len(word)) % MaxCount]
           b == [AfterPixels(how, s, D, Len(word))[Len(word)] EXCEPT !.carry = Last(word)]
<1>1. WordStep(how, s, word) = IF C THEN a ELSE b
  BY DEF WordStep, Diffs, AfterPixels, PixelRun
<1>2. ~C
  OBVIOUS
<1>3. b = LookedAt(how, s, diffs, word)
  BY Zenon DEF LookedAt
<1> HIDE DEF C, a, b
<1> QED BY <1>1, <1>2, <1>3

WordRun(f, how, s, words, n) ==
  f = [w \in 0..n |-> IF w = 0 THEN s ELSE WordStep(how, f[w - 1], words[w])]

AfterWords(how, s, words, n) == CHOOSE f : WordRun(f, how, s, words, n)

LEMMA WordRunExists ==
  \A how, s, words : \A n \in Nat : \E f : WordRun(f, how, s, words, n)
<1> SUFFICES ASSUME NEW how, NEW s, NEW words PROVE \A n \in Nat : \E f : WordRun(f, how, s, words, n)
  OBVIOUS
<1> DEFINE B == {n \in Nat : ~ \E f : WordRun(f, how, s, words, n)}
<1> SUFFICES ASSUME B # {} PROVE FALSE
  OBVIOUS
<1>1. PICK n \in B : \A k \in B : n <= k
  <2>1. B \in SUBSET Nat
    OBVIOUS
  <2> HIDE DEF B
  <2> QED BY <2>1, LeastNumber
<1>2. n \in Nat /\ ~ \E f : WordRun(f, how, s, words, n)
  OBVIOUS
<1>3. CASE n = 0
  <2> DEFINE g == [i \in 0..0 |-> s]
  <2>1. WordRun(g, how, s, words, 0)
    <3>1. g = [i \in 0..0 |-> IF i = 0 THEN s ELSE WordStep(how, g[i - 1], words[i])]
      OBVIOUS
    <3> QED BY <3>1 DEF WordRun
  <2> QED BY <1>2, <1>3, <2>1
<1>4. CASE n # 0
  <2>1. n - 1 \in Nat /\ n - 1 < n
    BY <1>2, <1>4
  <2>2. n - 1 \notin B
    <3> HIDE DEF B
    <3> QED BY <1>1, <1>2, <2>1
  <2>3. PICK f : WordRun(f, how, s, words, n - 1)
    BY <2>1, <2>2
  <2> DEFINE g == [i \in 0..n |-> IF i = n THEN WordStep(how, f[n - 1], words[n]) ELSE f[i]]
             h == [i \in 0..n |-> IF i = 0 THEN s ELSE WordStep(how, g[i - 1], words[i])]
  <2>4. \A i \in 0..(n - 1) : g[i] = f[i] /\ f[i] = IF i = 0 THEN s ELSE WordStep(how, f[i - 1], words[i])
    BY <1>2, <2>3 DEF WordRun
  <2>5. g[n] = WordStep(how, f[n - 1], words[n])
    BY <1>2
  <2>6. \A i \in 0..n : g[i] = IF i = 0 THEN s ELSE WordStep(how, g[i - 1], words[i])
    <3> TAKE i \in 0..n
    <3>1. CASE i = 0
      <4>1. 0 \in 0..(n - 1)
        BY <2>1
      <4> HIDE DEF g
      <4> QED BY <2>4, <3>1, <4>1
    <3>2. CASE i = n /\ i # 0
      <4>1. n - 1 \in 0..(n - 1)
        BY <2>1
      <4>2. g[n - 1] = f[n - 1]
        BY <2>4, <4>1
      <4> HIDE DEF g
      <4> QED BY <2>5, <3>2, <4>2
    <3>3. CASE i # n /\ i # 0
      <4>1. i \in 0..(n - 1) /\ i - 1 \in 0..(n - 1)
        BY <1>2, <3>3
      <4>2. g[i] = f[i] /\ g[i - 1] = f[i - 1] /\ f[i] = WordStep(how, f[i - 1], words[i])
        BY <2>4, <4>1, <3>3
      <4> HIDE DEF g
      <4> QED BY <3>3, <4>2
    <3> QED BY <3>1, <3>2, <3>3
  <2>7. g = h
    <3>1. g = [i \in 0..n |-> g[i]]
      OBVIOUS
    <3> HIDE DEF g
    <3> QED BY <2>6, <3>1
  <2>8. WordRun(g, how, s, words, n)
    BY <2>7 DEF WordRun
  <2> HIDE DEF g
  <2> QED BY <1>2, <2>8
<1> QED BY <1>3, <1>4

LEMMA AfterWordsIs ==
  ASSUME NEW how, NEW s, NEW words, NEW n \in Nat
  PROVE  /\ AfterWords(how, s, words, n)[0] = s
         /\ \A i \in 1..n : AfterWords(how, s, words, n)[i]
                              = WordStep(how, AfterWords(how, s, words, n)[i - 1], words[i])
<1> DEFINE f == AfterWords(how, s, words, n)
<1>1. WordRun(f, how, s, words, n)
  BY WordRunExists DEF AfterWords
<1> HIDE DEF f
<1>2. f[0] = s
  BY <1>1 DEF WordRun
<1>3. ASSUME NEW i \in 1..n PROVE f[i] = WordStep(how, f[i - 1], words[i])
  <2>1. i \in 0..n /\ i # 0
    OBVIOUS
  <2> QED BY <1>1, <2>1 DEF WordRun
<1> QED BY <1>2, <1>3 DEF f

FirstState(pixels) ==
  [cnt |-> MaxCount - 1, val |-> pixels[1], carry |-> pixels[1], out |-> <<>>,
   ones |-> 0, stopped |-> FALSE]

LEMMA NativeToRleIs ==
  ASSUME NEW depth, NEW pixels, NEW how
  PROVE  LET words == Words(depth, pixels) IN
         NativeToRle(depth, pixels, how)
           = WriteLast(how, AfterWords(how, FirstState(pixels), words, Len(words))[Len(words)])
BY DEF NativeToRle, AfterWords, WordRun, FirstState

----------------------------------------------------------------------------
(* Words.                                                                   *)

LEMMA DiffersByte ==
  ASSUME NEW a \in 0..255, NEW b \in 0..255
  PROVE  Differs(a, b) \in 0..255 /\ (Differs(a, b) = 0 <=> a = b)
<1>1. CASE a = b
  BY <1>1 DEF Differs
<1>2. CASE a # b
  <2>1. Differs(a, b) \in 1..255
    BY <1>2, DiffersBack
  <2> HIDE DEF Differs
  <2> QED BY <1>2, <2>1
<1> QED BY <1>1, <1>2

Screens == {1, 2, 4, 8}

LEMMA WordSizes == ASSUME NEW d \in {1, 2, 4, 8} PROVE PixelsPerWord(d) \in {4, 8, 16, 32}
<1>1. 32 \div 1 = 32 /\ 32 \div 2 = 16 /\ 32 \div 4 = 8 /\ 32 \div 8 = 4
  OBVIOUS
<1> QED BY <1>1 DEF PixelsPerWord

\* Half a word more.
LEMMA HalfOver ==
  ASSUME NEW n \in {4, 8, 16, 32}, NEW l \in Nat, (2 * l) % n = 0, l % n # 0
  PROVE  l % n = n \div 2 /\ (l + n \div 2) % n = 0
<1>1. CASE n = 4
  BY <1>1
<1>2. CASE n = 8
  BY <1>2
<1>3. CASE n = 16
  BY <1>3
<1>4. CASE n = 32
  BY <1>4
<1> QED BY <1>1, <1>2, <1>3, <1>4

\* What the words are made of: the pixels, and zeros to make a half word whole.
Padded(depth, pixels) ==
  IF HalfWord(depth, pixels)
  THEN pixels \o [i \in 1..(PixelsPerWord(depth) \div 2) |-> 0] ELSE pixels

LEMMA PaddedIs ==
  ASSUME NEW d \in {1, 2, 4, 8}, NEW pixels \in Seq(0..255),
         (2 * Len(pixels)) % PixelsPerWord(d) = 0
  PROVE  /\ Padded(d, pixels) \in Seq(0..255)
         /\ Len(Padded(d, pixels))
              = Len(pixels) + (IF HalfWord(d, pixels) THEN PixelsPerWord(d) \div 2 ELSE 0)
         /\ Len(Padded(d, pixels)) % PixelsPerWord(d) = 0
         /\ \A p \in 1..Len(pixels) : Padded(d, pixels)[p] = pixels[p]
         /\ \A p \in (Len(pixels) + 1)..Len(Padded(d, pixels)) : Padded(d, pixels)[p] = 0
<1> DEFINE n == PixelsPerWord(d)
           z == [i \in 1..(n \div 2) |-> 0]
           P == Padded(d, pixels)
<1>1. n \in {4, 8, 16, 32} /\ n \in Nat /\ n \div 2 \in Nat
  <2>1. n \in {4, 8, 16, 32}
    BY WordSizes
  <2> HIDE DEF n
  <2> QED BY <2>1
<1>2. CASE ~HalfWord(d, pixels)
  <2>1. Padded(d, pixels) = pixels
    BY <1>2 DEF Padded
  <2> QED BY <2>1, <1>2 DEF HalfWord
<1>3. CASE HalfWord(d, pixels)
  <2>1. P = pixels \o z
    BY <1>3 DEF Padded
  <2>2. z \in Seq(0..255) /\ Len(z) = n \div 2 /\ \A i \in 1..(n \div 2) : z[i] = 0
    <3> HIDE DEF n
    <3> QED BY <1>1
  <2>3. (Len(pixels) + n \div 2) % n = 0
    <3>1. Len(pixels) \in Nat /\ Len(pixels) % n # 0 /\ (2 * Len(pixels)) % n = 0
      BY <1>3 DEF HalfWord
    <3> HIDE DEF n
    <3> QED BY <1>1, <3>1, HalfOver
  <2> HIDE DEF z, P
  <2>4. P \in Seq(0..255) /\ Len(P) = Len(pixels) + Len(z)
    BY <2>1, <2>2, ConcatProperties
  <2>5. \A p \in 1..Len(P) : P[p] = IF p <= Len(pixels) THEN pixels[p] ELSE z[p - Len(pixels)]
    BY <2>1, <2>2
  <2>6. Len(P) % n = 0
    <3> HIDE DEF n
    <3> QED BY <2>3, <2>4, <2>2
  <2>7. \A p \in (Len(pixels) + 1)..Len(P) : P[p] = 0
    <3> SUFFICES ASSUME NEW p \in (Len(pixels) + 1)..Len(P) PROVE P[p] = 0
      OBVIOUS
    <3>1. Len(pixels) \in Nat /\ n \div 2 \in Nat
      BY <1>1
    <3> HIDE DEF n
    <3>2. p \in 1..Len(P) /\ ~(p <= Len(pixels)) /\ p - Len(pixels) \in 1..(n \div 2)
      BY <3>1, <2>2, <2>4
    <3> QED BY <3>2, <2>5, <2>2
  <2>8. \A p \in 1..Len(pixels) : P[p] = pixels[p]
    BY <2>4, <2>5, <2>2, <1>1
  <2>9. Len(P) = Len(pixels) + (IF HalfWord(d, pixels) THEN n \div 2 ELSE 0)
    BY <2>4, <2>2, <1>3
  <2> QED BY <2>4, <2>6, <2>7, <2>8, <2>9 DEF P
<1> QED BY <1>2, <1>3

LEMMA WordsAre ==
  ASSUME NEW d \in {1, 2, 4, 8}, NEW pixels \in Seq(0..255),
         (2 * Len(pixels)) % PixelsPerWord(d) = 0
  PROVE  LET n == PixelsPerWord(d)  P == Padded(d, pixels)  W == Words(d, pixels) IN
         /\ Len(W) \in Nat /\ Len(W) * n = Len(P)
         /\ \A w \in 1..Len(W) :
              /\ W[w] \in Seq(0..255) /\ Len(W[w]) = n
              /\ \A i \in 1..n : W[w][i] = P[(w - 1) * n + i]
<1> DEFINE n == PixelsPerWord(d)
           P == Padded(d, pixels)
           W == Words(d, pixels)
<1>1. n \in {4, 8, 16, 32}
  BY WordSizes
<1>2. P \in Seq(0..255) /\ Len(P) % n = 0 /\ Len(P) \in Nat
  BY PaddedIs
<1>3. W = [w \in 1..(Len(P) \div n) |-> SubSeq(P, (w - 1) * n + 1, w * n)]
  BY DEF Words, Padded
<1> HIDE DEF n, P, W
<1>4. Len(P) \div n \in Nat /\ (Len(P) \div n) * n = Len(P)
  BY <1>1, <1>2
<1>5. Len(W) = Len(P) \div n
  BY <1>3, <1>4
<1>6. ASSUME NEW w \in 1..Len(W)
      PROVE  W[w] \in Seq(0..255) /\ Len(W[w]) = n /\ \A i \in 1..n : W[w][i] = P[(w - 1) * n + i]
  <2>1. W[w] = SubSeq(P, (w - 1) * n + 1, w * n)
    BY <1>3, <1>5
  <2> DEFINE a == (w - 1) * n
  <2>2. a \in Nat /\ w * n = a + n /\ a + n <= Len(P)
    <3>1. w \in Nat /\ w >= 1 /\ w <= Len(P) \div n
      BY <1>5, <1>4
    <3> QED BY <1>1, <1>4, <3>1
  <2>3. W[w] = SubSeq(P, a + 1, a + n)
    BY <2>1, <2>2
  <2> HIDE DEF a
  <2>4. \A i \in (a + 1)..(a + n) : P[i] \in 0..255
    <3> SUFFICES ASSUME NEW i \in (a + 1)..(a + n) PROVE P[i] \in 0..255
      OBVIOUS
    <3>1. i \in 1..Len(P)
      BY <1>1, <1>2, <2>2
    <3> QED BY <1>2, <3>1, ElementOfSeq
  <2>5. /\ W[w] \in Seq(0..255)
        /\ Len(W[w]) = IF a + 1 <= a + n THEN (a + n) - (a + 1) + 1 ELSE 0
        /\ \A i \in 1..((a + n) - (a + 1) + 1) : W[w][i] = P[(a + 1) + i - 1]
    <3>1. a + 1 \in Int /\ a + n \in Int
      BY <1>1, <2>2
    <3> QED BY <2>3, <2>4, <3>1, SubSeqProperties
  <2>6. (a + n) - (a + 1) + 1 = n /\ n > 0 /\ \A i \in 1..n : (a + 1) + i - 1 = a + i
    BY <1>1, <2>2
  <2>7. a + 1 <= a + n
    BY <1>1, <2>2
  <2> QED BY <2>5, <2>6, <2>7 DEF a
<1> QED BY <1>4, <1>5, <1>6 DEF n, P, W

----------------------------------------------------------------------------
(* The states of the loop.                                                  *)

\* What nativeToRle is told, with a map whose places are numbers.
Told(how) ==
  /\ how.stop \in Nat /\ how.packRuns \in BOOLEAN /\ how.colorSize \in 1..4
  /\ how.mapColors \in BOOLEAN /\ how.padded \in BOOLEAN
  /\ \A c \in 0..255 : Place(how.colorMap, c) \in Int

\* The states of its loop.
Counters == 0..65535
Colours  == 0..255
Outputs  == Seq(Int)
Flags    == BOOLEAN

LoopStates == [cnt : Counters, val : Colours, carry : Colours, out : Outputs,
               ones : Int, stopped : Flags]

LEMMA StateTyped ==
  ASSUME NEW s \in LoopStates
  PROVE  /\ s.cnt \in Nat /\ s.cnt < MaxCount /\ s.cnt \in Counters /\ s.val \in 0..255
         /\ s.carry \in 0..255 /\ s.out \in Seq(Int) /\ s.ones \in Int /\ s.stopped \in BOOLEAN
<1>1. s.cnt \in Counters /\ s.val \in Colours /\ s.carry \in Colours /\ s.out \in Outputs
      /\ s.ones \in Int /\ s.stopped \in Flags
  BY DEF LoopStates
<1>2. \A c \in Counters : c \in Nat /\ c < MaxCount
  BY DEF Counters, MaxCount
<1>3. s.val \in 0..255 /\ s.carry \in 0..255
  BY <1>1 DEF Colours
<1>4. s.out \in Seq(Int)
  BY <1>1 DEF Outputs
<1>5. s.stopped \in BOOLEAN
  BY <1>1, Zenon DEF Flags
<1> QED BY <1>1, <1>2, <1>3, <1>4, <1>5

LEMMA CountersMod == \A i \in Int : i % MaxCount \in Counters
BY DEF Counters, MaxCount

LEMMA CountNext ==
  ASSUME NEW i \in Nat
  PROVE  ((i % MaxCount) + 1) % MaxCount = (i + 1) % MaxCount
<1> DEFINE q == i \div 65536
           r == i % 65536
<1>1. q \in Int /\ r \in 0..65535 /\ i = 65536 * q + r
  OBVIOUS
<1> HIDE DEF q, r
<1>2. (r + 1) % 65536 = (65536 * q + (r + 1)) % 65536
  BY <1>1
<1>3. 65536 * q + (r + 1) = i + 1
  BY <1>1
<1> QED BY <1>2, <1>3 DEF MaxCount, r

LEMMA CountSame == ASSUME NEW c \in Counters PROVE (c + 0) % MaxCount = c
<1>1. c \in Nat /\ 0 <= c /\ c < 65536
  BY DEF Counters
<1>2. c + 0 = c /\ c % 65536 = c
  BY <1>1
<1> QED BY <1>2 DEF MaxCount

LEMMA ZeroCounter == 0 \in Counters
BY DEF Counters

LEMMA CountsTyped ==
  ASSUME NEW count \in Nat
  PROVE  Counts(count) \in Seq(Int) /\ Len(Counts(count)) = (count \div 255) + 1
<1> DEFINE q == count \div 255
           a == [i \in 1..q |-> 255]
           b == <<count % 255>>
<1>1. q \in Nat /\ count % 255 \in Int
  OBVIOUS
<1> HIDE DEF q
<1>2. a \in Seq(Int) /\ Len(a) = q /\ b \in Seq(Int) /\ Len(b) = 1
  BY <1>1
<1>3. Counts(count) = a \o b
  BY DEF Counts, q
<1> HIDE DEF a, b
<1>4. a \o b \in Seq(Int) /\ Len(a \o b) = Len(a) + Len(b)
  BY <1>2, ConcatProperties, Zenon
<1>5. Len(a \o b) = q + 1
  BY <1>2, <1>4
<1> QED BY <1>3, <1>4, <1>5 DEF q

LEMMA PairTyped ==
  ASSUME NEW how, Told(how), NEW val \in 0..255, NEW count \in Nat
  PROVE  Pair(how, val, count) \in Seq(Int) /\ Len(Pair(how, val, count)) \in Nat \ {0}
<1> DEFINE color == IF how.mapColors THEN Place(how.colorMap, val) ELSE val
           first == IF how.packRuns /\ color < 128 THEN 128 + color ELSE color
           gap == [i \in 1..(how.colorSize - 1) |-> Gap]
<1>1. color \in Int
  BY DEF Told
<1> HIDE DEF color
<1>2. first \in Int
  BY <1>1
<1>3. gap \in Seq(Int) /\ Len(gap) \in Nat
  <2>1. how.colorSize - 1 \in Nat /\ Gap \in Int
    BY DEF Told, Gap
  <2> QED BY <2>1
<1> HIDE DEF first, gap
<1>4. <<first>> \in Seq(Int) /\ Len(<<first>>) = 1
  BY <1>2
<1>5. <<first>> \o gap \in Seq(Int) /\ Len(<<first>> \o gap) = 1 + Len(gap)
  BY <1>3, <1>4, ConcatProperties
<1>6. /\ (<<first>> \o gap) \o Counts(count) \in Seq(Int)
      /\ Len((<<first>> \o gap) \o Counts(count)) = Len(<<first>> \o gap) + Len(Counts(count))
  BY <1>5, CountsTyped, ConcatProperties
<1>7. Len(Counts(count)) \in Nat
  BY CountsTyped
<1>8. CASE count = 0 /\ how.packRuns
  <2>1. Pair(how, val, count) = <<color>>
    BY <1>8 DEF Pair, color
  <2> QED BY <1>1, <2>1
<1>9. CASE ~(count = 0 /\ how.packRuns)
  <2>1. Pair(how, val, count) = (<<first>> \o gap) \o Counts(count)
    BY <1>9 DEF Pair, color, first, gap
  <2> QED BY <1>3, <1>5, <1>6, <1>7, <2>1
<1> QED BY <1>8, <1>9

LEMMA WriteIs ==
  ASSUME NEW how, Told(how), NEW s \in LoopStates
  PROVE  /\ Write(how, s) \in LoopStates
         /\ Write(how, s).out = s.out \o Pair(how, s.val, s.cnt)
         /\ Write(how, s).stopped = (Len(s.out \o Pair(how, s.val, s.cnt)) > how.stop)
         /\ Write(how, s).cnt = s.cnt /\ Write(how, s).val = s.val /\ Write(how, s).carry = s.carry
         /\ Write(how, s).ones = IF s.cnt = 0 /\ how.packRuns THEN s.ones + 1 ELSE s.ones
<1>1. s.cnt \in Nat /\ s.val \in 0..255 /\ s.out \in Seq(Int) /\ s.ones \in Int
  BY StateTyped
<1>2. Pair(how, s.val, s.cnt) \in Seq(Int)
  BY <1>1, PairTyped
<1> DEFINE o == s.out \o Pair(how, s.val, s.cnt)
<1>3. o \in Outputs
  BY <1>1, <1>2, ConcatProperties DEF Outputs
<1>4. Write(how, s) = [s EXCEPT !.out = o, !.stopped = Len(o) > how.stop,
            !.ones = IF s.cnt = 0 /\ how.packRuns THEN s.ones + 1 ELSE s.ones]
  BY DEF Write
<1> HIDE DEF o
<1> DEFINE b == Len(o) > how.stop
           n == IF s.cnt = 0 /\ how.packRuns THEN s.ones + 1 ELSE s.ones
<1>5. b \in Flags /\ n \in Int
  BY <1>1 DEF Flags
<1>6. Write(how, s) = [s EXCEPT !.out = o, !.stopped = b, !.ones = n]
  BY <1>4
<1> HIDE DEF b, n
<1>7. /\ Write(how, s) \in LoopStates /\ Write(how, s).out = o /\ Write(how, s).stopped = b
      /\ Write(how, s).ones = n
      /\ Write(how, s).cnt = s.cnt /\ Write(how, s).val = s.val /\ Write(how, s).carry = s.carry
  BY <1>3, <1>5, <1>6 DEF LoopStates
<1> QED BY <1>7 DEF o, b, n

LEMMA PixelStepTyped ==
  ASSUME NEW how, Told(how), NEW s \in LoopStates, NEW diff \in 0..255
  PROVE  PixelStep(how, s, diff) \in LoopStates
<1>1. CASE s.stopped
  BY <1>1 DEF PixelStep
<1>2. CASE ~s.stopped /\ diff = 0
  <2>1. PixelStep(how, s, diff) = [s EXCEPT !.cnt = (s.cnt + 1) % MaxCount]
    BY <1>2 DEF PixelStep
  <2>2. (s.cnt + 1) % MaxCount \in Counters
    BY StateTyped, CountersMod
  <2> QED BY <2>1, <2>2 DEF LoopStates
<1>3. CASE ~s.stopped /\ diff # 0
  <2> DEFINE w == Write(how, s)
  <2>1. w \in LoopStates
    BY WriteIs
  <2>2. PixelStep(how, s, diff)
          = IF w.stopped THEN w ELSE [w EXCEPT !.val = Differs(s.val, diff), !.cnt = 0]
    BY <1>3 DEF PixelStep
  <2>3. Differs(s.val, diff) \in Colours
    BY DiffersByte, StateTyped DEF Colours
  <2> HIDE DEF w
  <2> QED BY <2>1, <2>2, <2>3, ZeroCounter DEF LoopStates
<1>4. s.stopped \in BOOLEAN
  BY StateTyped
<1> QED BY <1>1, <1>2, <1>3

LEMMA PixelsTyped ==
  ASSUME NEW how, Told(how), NEW s \in LoopStates, NEW n \in Nat, NEW diffs,
         \A i \in 1..n : diffs[i] \in 0..255
  PROVE  \A i \in 0..n : AfterPixels(how, s, diffs, n)[i] \in LoopStates
<1> DEFINE f == AfterPixels(how, s, diffs, n)
           B == {i \in 0..n : f[i] \notin LoopStates}
<1> SUFFICES ASSUME B # {} PROVE FALSE
  OBVIOUS
<1>1. PICK i \in B : \A k \in B : i <= k
  <2>1. B \in SUBSET Nat
    OBVIOUS
  <2> HIDE DEF B
  <2> QED BY <2>1, LeastNumber
<1>2. i \in 0..n /\ f[i] \notin LoopStates
  OBVIOUS
<1>3. f[0] = s /\ \A k \in 1..n : f[k] = PixelStep(how, f[k - 1], diffs[k])
  BY AfterPixelsIs
<1>4. i # 0
  BY <1>2, <1>3
<1>5. i \in 1..n /\ i - 1 \in 0..n /\ i - 1 < i
  BY <1>2, <1>4
<1>6. f[i - 1] \in LoopStates
  <2>1. i - 1 \notin B
    <3> HIDE DEF B
    <3> QED BY <1>1, <1>2, <1>5
  <2> QED BY <2>1, <1>5
<1> HIDE DEF f
<1> QED BY <1>2, <1>3, <1>5, <1>6, PixelStepTyped

\* Nothing more is done after it was stopped.
LEMMA StoppedPixels ==
  ASSUME NEW how, NEW s, NEW n \in Nat, NEW diffs, NEW k \in 0..n,
         AfterPixels(how, s, diffs, n)[k].stopped
  PROVE  AfterPixels(how, s, diffs, n)[n] = AfterPixels(how, s, diffs, n)[k]
<1> DEFINE f == AfterPixels(how, s, diffs, n)
           B == {i \in k..n : f[i] # f[k]}
<1> SUFFICES ASSUME B # {} PROVE FALSE
  OBVIOUS
<1>1. PICK i \in B : \A j \in B : i <= j
  <2>1. B \in SUBSET Nat
    OBVIOUS
  <2> HIDE DEF B
  <2> QED BY <2>1, LeastNumber
<1>2. i \in k..n /\ f[i] # f[k]
  OBVIOUS
<1>3. \A j \in 1..n : f[j] = PixelStep(how, f[j - 1], diffs[j])
  BY AfterPixelsIs
<1>4. i # k
  BY <1>2
<1>5. i \in 1..n /\ i - 1 \in k..n /\ i - 1 < i
  BY <1>2, <1>4
<1>6. f[i - 1] = f[k]
  <2>1. i - 1 \notin B
    <3> HIDE DEF B
    <3> QED BY <1>1, <1>2, <1>5
  <2> QED BY <2>1, <1>5
<1> HIDE DEF f
<1>7. f[k].stopped
  BY DEF f
<1> QED BY <1>2, <1>3, <1>5, <1>6, <1>7 DEF PixelStep

LEMMA StoppedWords ==
  ASSUME NEW how, NEW s, NEW n \in Nat, NEW words, NEW k \in 0..n,
         AfterWords(how, s, words, n)[k].stopped
  PROVE  AfterWords(how, s, words, n)[n] = AfterWords(how, s, words, n)[k]
<1> DEFINE f == AfterWords(how, s, words, n)
           B == {i \in k..n : f[i] # f[k]}
<1> SUFFICES ASSUME B # {} PROVE FALSE
  OBVIOUS
<1>1. PICK i \in B : \A j \in B : i <= j
  <2>1. B \in SUBSET Nat
    OBVIOUS
  <2> HIDE DEF B
  <2> QED BY <2>1, LeastNumber
<1>2. i \in k..n /\ f[i] # f[k]
  OBVIOUS
<1>3. \A j \in 1..n : f[j] = WordStep(how, f[j - 1], words[j])
  BY AfterWordsIs
<1>4. i # k
  BY <1>2
<1>5. i \in 1..n /\ i - 1 \in k..n /\ i - 1 < i
  BY <1>2, <1>4
<1>6. f[i - 1] = f[k]
  <2>1. i - 1 \notin B
    <3> HIDE DEF B
    <3> QED BY <1>1, <1>2, <1>5
  <2> QED BY <2>1, <1>5
<1> HIDE DEF f
<1>7. f[k].stopped
  BY DEF f
<1> QED BY <1>2, <1>3, <1>5, <1>6, <1>7 DEF WordStep

Counted(s, i) == [s EXCEPT !.cnt = (@ + i) % MaxCount]

\* Where nothing differs any more, the pixels that are left are counted.
LEMMA EqualPixels ==
  ASSUME NEW how, Told(how), NEW s \in LoopStates, NEW n \in Nat, NEW diffs,
         \A i \in 1..n : diffs[i] \in 0..255, NEW k \in 0..n,
         ~AfterPixels(how, s, diffs, n)[k].stopped, \A i \in (k + 1)..n : diffs[i] = 0
  PROVE  AfterPixels(how, s, diffs, n)[n]
           = Counted(AfterPixels(how, s, diffs, n)[k], n - k)
<1> DEFINE f == AfterPixels(how, s, diffs, n)
           goal(i) == [f[k] EXCEPT !.cnt = (@ + (i - k)) % MaxCount]
           B == {i \in k..n : f[i] # goal(i)}
<1>1. \A i \in 0..n : f[i] \in LoopStates
  BY PixelsTyped
<1>2. \A j \in 1..n : f[j] = PixelStep(how, f[j - 1], diffs[j])
  BY AfterPixelsIs
<1>3. ~f[k].stopped
  OBVIOUS
<1> HIDE DEF f
<1>4. B = {}
  <2> SUFFICES ASSUME B # {} PROVE FALSE
    OBVIOUS
  <2>1. PICK i \in B : \A j \in B : i <= j
    <3>1. B \in SUBSET Nat
      OBVIOUS
    <3> HIDE DEF B
    <3> QED BY <3>1, LeastNumber
  <2>2. i \in k..n /\ f[i] # goal(i)
    OBVIOUS
  <2>3. f[k] \in LoopStates
    BY <1>1
  <2>4. i # k
    <3>1. k - k = 0 /\ (f[k].cnt + 0) % MaxCount = f[k].cnt
      BY <2>3, StateTyped, CountSame
    <3>2. goal(k) = f[k]
      BY <2>3, <3>1 DEF LoopStates
    <3> QED BY <3>2, <2>2
  <2>5. i \in 1..n /\ i - 1 \in k..n /\ i - 1 < i /\ i \in (k + 1)..n
    BY <2>2, <2>4
  <2>6. f[i - 1] = goal(i - 1)
    <3>1. i - 1 \notin B
      <4> HIDE DEF B
      <4> QED BY <2>1, <2>2, <2>5
    <3> QED BY <3>1, <2>5
  <2>7. f[i] = PixelStep(how, f[i - 1], 0)
    BY <1>2, <2>5
  <2> DEFINE u == f[k]
             c == (u.cnt + ((i - 1) - k)) % MaxCount
  <2>8. u \in LoopStates /\ ~u.stopped
    BY <2>3, <1>3
  <2>9. f[i - 1] = [u EXCEPT !.cnt = c]
    BY <2>6
  <2>10. c \in Counters /\ (c + 1) % MaxCount = (u.cnt + (i - k)) % MaxCount
    <3>1. u.cnt \in Nat /\ (i - 1) - k \in Nat
      BY <2>8, <2>5, StateTyped
    <3>2. u.cnt + ((i - 1) - k) \in Nat /\ (u.cnt + ((i - 1) - k)) + 1 = u.cnt + (i - k)
      BY <3>1, <2>5
    <3> HIDE DEF u
    <3> QED BY <3>2, CountNext, CountersMod
  <2>11. ~f[i - 1].stopped /\ f[i - 1].cnt = c
    BY <2>8, <2>9 DEF LoopStates
  <2>12. f[i] = [f[i - 1] EXCEPT !.cnt = (c + 1) % MaxCount]
    BY <2>7, <2>11 DEF PixelStep
  <2>13. f[i] = [u EXCEPT !.cnt = (u.cnt + (i - k)) % MaxCount]
    BY <2>8, <2>9, <2>10, <2>12 DEF LoopStates
  <2> QED BY <2>2, <2>13 DEF u
<1>5. n \in k..n
  OBVIOUS
<1> QED BY <1>4, <1>5 DEF f, Counted

----------------------------------------------------------------------------
(* The table of the colours.                                                *)

\* The colours of a tile that are below one of them.
Below(found, c) == {d \in found : d < c}
Index(found, c) == Cardinality(Below(found, c))

LEMMA ColoursFinite ==
  ASSUME NEW found \in SUBSET (0..255)
  PROVE  /\ IsFiniteSet(found) /\ Cardinality(found) \in Nat
         /\ \A c : IsFiniteSet(Below(found, c)) /\ Index(found, c) \in Nat
<1>1. IsFiniteSet(0..255)
  <2>1. 0 \in Int /\ 255 \in Int
    OBVIOUS
  <2> QED BY <2>1, FS_Interval
<1>2. IsFiniteSet(found)
  BY <1>1, FS_Subset
<1>3. \A c : IsFiniteSet(Below(found, c))
  BY <1>2, FS_Subset DEF Below
<1> QED BY <1>2, <1>3, FS_CardinalityType DEF Index

\* The place of a colour is below that of every larger one, and below the number of colours.
LEMMA IndexOrder ==
  ASSUME NEW found \in SUBSET (0..255)
  PROVE  /\ \A c \in found : Index(found, c) < Cardinality(found)
         /\ \A c, d \in found : c < d => Index(found, c) < Index(found, d)
         /\ \A c, d \in found : Index(found, c) = Index(found, d) => c = d
<1>1. ASSUME NEW c \in found PROVE Index(found, c) < Cardinality(found)
  <2>1. Below(found, c) \in SUBSET found /\ c \notin Below(found, c)
    BY DEF Below
  <2>2. Cardinality(Below(found, c)) <= Cardinality(found)
        /\ Cardinality(Below(found, c)) # Cardinality(found)
    BY <2>1, ColoursFinite, FS_Subset
  <2> QED BY <2>2, ColoursFinite DEF Index
<1>2. ASSUME NEW c \in found, NEW d \in found, c < d PROVE Index(found, c) < Index(found, d)
  <2>1. Below(found, c) \in SUBSET Below(found, d) /\ c \notin Below(found, c) /\ c \in Below(found, d)
    <3>1. \A e \in found : e < c => e < d
      BY <1>2
    <3>2. ~(c < c)
      OBVIOUS
    <3> QED BY <1>2, <3>1, <3>2 DEF Below
  <2>2. Cardinality(Below(found, c)) <= Cardinality(Below(found, d))
        /\ Cardinality(Below(found, c)) # Cardinality(Below(found, d))
    BY <2>1, ColoursFinite, FS_Subset
  <2> QED BY <2>2, ColoursFinite DEF Index
<1>3. ASSUME NEW c \in found, NEW d \in found, Index(found, c) = Index(found, d) PROVE c = d
  <2>1. c < d \/ d < c \/ c = d
    BY DEF Index
  <2>2. Index(found, c) \in Nat
    BY ColoursFinite
  <2> QED BY <1>2, <1>3, <2>1, <2>2
<1> QED BY <1>1, <1>2, <1>3

\* Every place is that of a colour.
LEMMA IndexAll ==
  ASSUME NEW found \in SUBSET (0..255), NEW i \in Nat, i < Cardinality(found)
  PROVE  \E c \in found : Index(found, c) = i
<1> DEFINE n == Cardinality(found)
           f == [c \in found |-> Index(found, c)]
           T == 0..(n - 1)
<1>1. n \in Nat /\ n - 1 \in Int
  BY ColoursFinite
<1>2. IsFiniteSet(T) /\ Cardinality(T) = n
  <2>1. IsFiniteSet(T) /\ Cardinality(T) = IF 0 > n - 1 THEN 0 ELSE (n - 1) - 0 + 1
    <3>1. 0 \in Int
      OBVIOUS
    <3> HIDE DEF n
    <3> QED BY <1>1, <3>1, FS_Interval
  <2> HIDE DEF n
  <2> QED BY <1>1, <2>1
<1>3. f \in Injection(found, T)
  <2>1. f \in [found -> T]
    BY ColoursFinite, IndexOrder
  <2>2. \A c, d \in found : f[c] = f[d] => c = d
    BY IndexOrder
  <2> HIDE DEF f, T
  <2> QED BY <2>1, <2>2 DEF Injection, IsInjective
<1>4. f \in Surjection(found, T)
  <2> HIDE DEF f, T, n
  <2> QED BY <1>2, <1>3, FS_Injection DEF n
<1>5. i \in T
  BY <1>1
<1>6. \E c \in found : f[c] = i
  <2> HIDE DEF f, T
  <2> QED BY <1>4, <1>5 DEF Surjection
<1> QED BY <1>6

\* With fewer colours than the table has room for, every colour has its place, and every
\* place its colour.
LEMMA TableIs ==
  ASSUME NEW found \in SUBSET (0..255), Cardinality(found) <= PaletteSize
  PROVE  LET t == ColorTable(found) IN
         /\ t = [nColors |-> Cardinality(found), colorPal |-> t.colorPal, colorMap |-> t.colorMap]
         /\ t.colorMap = [c \in found |-> Index(found, c)]
         /\ t.colorPal \in [1..Cardinality(found) -> found]
         /\ \A c \in found : t.colorPal[Index(found, c) + 1] = c
<1> DEFINE n == Cardinality(found)
           t == ColorTable(found)
           top(i) == CHOOSE c \in found :
                       /\ Index(found, c) % 128 = i
                       /\ \A d \in found : Index(found, d) % 128 = i => d <= c
<1>1. n \in Nat /\ n <= 127
  BY ColoursFinite DEF PaletteSize
<1>2. n % 256 = n /\ ~(n > PaletteSize)
  BY <1>1 DEF PaletteSize
<1>3. \A c \in found : Index(found, c) \in Nat /\ Index(found, c) < n /\ Index(found, c) % 128 = Index(found, c)
  <2> TAKE c \in found
  <2>1. Index(found, c) \in Nat /\ Index(found, c) < n
    BY ColoursFinite, IndexOrder
  <2> HIDE DEF n
  <2> QED BY <2>1, <1>1
<1>4. t = [nColors |-> n,
           colorPal |-> [i \in 1..(IF n < PaletteSize THEN n ELSE PaletteSize) |-> top(i - 1)],
           colorMap |-> [c \in found |-> Index(found, c) % 128]]
  BY <1>2 DEF ColorTable, Index, Below
<1>5. \A c \in found : top(Index(found, c)) = c
  <2> TAKE c \in found
  <2>1. /\ Index(found, c) % 128 = Index(found, c)
        /\ \A d \in found : Index(found, d) % 128 = Index(found, c) => d <= c
    <3>1. \A d \in found : Index(found, d) % 128 = Index(found, c) => d = c
      BY <1>3, IndexOrder
    <3> QED BY <1>3, <3>1
  <2>2. /\ Index(found, top(Index(found, c))) % 128 = Index(found, c)
        /\ top(Index(found, c)) \in found
    BY <2>1
  <2> HIDE DEF top
  <2> QED BY <2>2, <1>3, IndexOrder
<1>6. (IF n < PaletteSize THEN n ELSE PaletteSize) = n
  BY <1>1 DEF PaletteSize
<1> HIDE DEF n, t, top
<1>7. t.colorPal = [i \in 1..n |-> top(i - 1)]
  BY <1>4, <1>6
<1>8. \A i \in 1..n : top(i - 1) \in found
  <2> TAKE i \in 1..n
  <2>1. i - 1 \in Nat /\ i - 1 < n
    BY <1>1
  <2>2. PICK c \in found : Index(found, c) = i - 1
    BY <2>1, IndexAll DEF n
  <2> QED BY <2>2, <1>5
<1>9. t.colorPal \in [1..n -> found]
  BY <1>7, <1>8
<1>10. \A c \in found : t.colorPal[Index(found, c) + 1] = c
  <2> TAKE c \in found
  <2>1. Index(found, c) + 1 \in 1..n /\ (Index(found, c) + 1) - 1 = Index(found, c)
    BY <1>1, <1>3
  <2> QED BY <2>1, <1>5, <1>7
<1>11. t.colorMap = [c \in found |-> Index(found, c)]
  BY <1>3, <1>4
<1>12. t = [nColors |-> n, colorPal |-> t.colorPal, colorMap |-> t.colorMap]
  BY <1>4
<1> QED BY <1>9, <1>10, <1>11, <1>12 DEF t, n

ScreenPixels(d) == Seq(0..(NativeColors(d) - 1))

LEMMA ColourRange ==
  ASSUME NEW d \in {1, 2, 4, 8}
  PROVE  0..(NativeColors(d) - 1) \subseteq 0..255 /\ (d = 1 => 0..(NativeColors(d) - 1) = {0, 1})
<1>1. 2 ^ 1 = 2 /\ 2 ^ 2 = 4 /\ 2 ^ 4 = 16 /\ 2 ^ 8 = 256
  OBVIOUS
<1>2. 0..1 = {0, 1} /\ 0..3 \subseteq 0..255 /\ 0..15 \subseteq 0..255
  OBVIOUS
<1>3. NativeColors(d) - 1 \in {1, 3, 15, 255} /\ (d = 1 => NativeColors(d) - 1 = 1)
  <2>1. NativeColors(d) = 2 ^ d
    BY DEF NativeColors
  <2>2. NativeColors(d) \in {2, 4, 16, 256} /\ (d = 1 => NativeColors(d) = 2)
    <3>1. CASE d = 1
      BY <1>1, <2>1, <3>1
    <3>2. CASE d = 2
      BY <1>1, <2>1, <3>2
    <3>3. CASE d = 4
      BY <1>1, <2>1, <3>3
    <3>4. CASE d = 8
      BY <1>1, <2>1, <3>4
    <3> QED BY <3>1, <3>2, <3>3, <3>4
  <2> QED BY <2>2
<1> QED BY <1>2, <1>3

LEMMA AdjustedIs ==
  ASSUME NEW d \in {1, 2, 4, 8}, NEW S \in SUBSET (0..255), NEW pixels \in Seq(S),
         (2 * Len(pixels)) % PixelsPerWord(d) = 0, Len(pixels) > 0
  PROVE  /\ Adjusted(d, pixels) \in Seq(S)
         /\ Len(Adjusted(d, pixels)) % PixelsPerWord(d) = 0
         /\ Range(Adjusted(d, pixels)) = Range(pixels)
<1> DEFINE n == PixelsPerWord(d)
           b == 8 \div d
           l == Len(pixels)
           last == SubSeq(pixels, l + 1 - b, l)
           A == Adjusted(d, pixels)
<1>1. n \in {4, 8, 16, 32} /\ b \in {1, 2, 4, 8} /\ n = 4 * b
  <2>1. 32 \div 1 = 32 /\ 32 \div 2 = 16 /\ 32 \div 4 = 8 /\ 32 \div 8 = 4
    OBVIOUS
  <2>2. 8 \div 1 = 8 /\ 8 \div 2 = 4 /\ 8 \div 4 = 2 /\ 8 \div 8 = 1
    OBVIOUS
  <2> QED BY <2>1, <2>2 DEF PixelsPerWord
<1>2. l \in Nat /\ l > 0 /\ (2 * l) % n = 0
  OBVIOUS
<1>3. CASE ~HalfWord(d, pixels)
  <2>1. A = pixels
    BY <1>3 DEF Adjusted
  <2> QED BY <2>1, <1>3 DEF HalfWord
<1>4. CASE HalfWord(d, pixels)
  <2>1. l % n # 0
    BY <1>4 DEF HalfWord
  <2>2. A = (pixels \o last) \o last
    <3>1. A = pixels \o last \o last
      BY <1>4 DEF Adjusted
    <3> QED BY <3>1
  <2> HIDE DEF A, l, n, b
  <2>3. l >= 2 * b
    <3>1. CASE n = 4
      BY <1>1, <1>2, <2>1, <3>1
    <3>2. CASE n = 8
      BY <1>1, <1>2, <2>1, <3>2
    <3>3. CASE n = 16
      BY <1>1, <1>2, <2>1, <3>3
    <3>4. CASE n = 32
      BY <1>1, <1>2, <2>1, <3>4
    <3> QED BY <1>1, <3>1, <3>2, <3>3, <3>4
  <2>4. \A i \in (l + 1 - b)..l : pixels[i] \in Range(pixels) /\ i \in 1..l
    <3> SUFFICES ASSUME NEW i \in (l + 1 - b)..l PROVE pixels[i] \in Range(pixels) /\ i \in 1..l
      OBVIOUS
    <3>1. i \in 1..l
      BY <1>1, <1>2, <2>3
    <3>2. i \in DOMAIN pixels
      BY <3>1, LenProperties DEF l
    <3> QED BY <3>1, <3>2 DEF Range
  <2>5. l + 1 - b \in Int /\ l \in Int /\ l - (l + 1 - b) + 1 = b
    BY <1>1, <1>2
  <2> DEFINE R == Range(pixels)
  <2>6. last \in Seq(R) /\ Len(last) = b
    <3>1. last \in Seq(R) /\ Len(last) = IF l + 1 - b <= l THEN l - (l + 1 - b) + 1 ELSE 0
      BY <2>4, <2>5, SubSeqProperties
    <3>2. l + 1 - b <= l
      BY <1>1, <1>2
    <3> QED BY <3>1, <3>2, <2>5
  <2>7. pixels \in Seq(R) /\ R \subseteq S
    <3>1. pixels \in [1..Len(pixels) -> S] /\ Len(pixels) \in Nat
      BY LenProperties
    <3>2. \A i \in 1..Len(pixels) : pixels[i] \in R
      BY <3>1 DEF Range
    <3>3. R \subseteq S
      BY <3>1 DEF Range
    <3>4. pixels = [i \in 1..Len(pixels) |-> pixels[i]]
      BY <3>1
    <3>5. pixels \in [1..Len(pixels) -> R]
      <4> HIDE DEF R
      <4> QED BY <3>1, <3>2
    <3> HIDE DEF R
    <3> QED BY <3>1, <3>3, <3>5
  <2> HIDE DEF last, R
  <2>8. pixels \o last \in Seq(R) /\ Len(pixels \o last) = l + b
    BY <2>6, <2>7, ConcatProperties DEF l
  <2>9. A \in Seq(R) /\ Len(A) = (l + b) + b
        /\ \A i \in 1..(l + b) : A[i] = (pixels \o last)[i]
    <3>1. /\ (pixels \o last) \o last \in Seq(R)
          /\ Len((pixels \o last) \o last) = Len(pixels \o last) + Len(last)
          /\ \A i \in 1..(Len(pixels \o last) + Len(last)) : ((pixels \o last) \o last)[i] =
               IF i <= Len(pixels \o last) THEN (pixels \o last)[i] ELSE last[i - Len(pixels \o last)]
      BY <2>6, <2>8, ConcatProperties
    <3>2. \A i \in 1..(l + b) : i \in 1..((l + b) + b) /\ i <= l + b
      BY <1>1, <1>2
    <3> QED BY <3>1, <3>2, <2>2, <2>6, <2>8
  <2>10. \A i \in 1..l : A[i] = pixels[i]
    <3>1. \A i \in 1..(l + b) : (pixels \o last)[i] = IF i <= l THEN pixels[i] ELSE last[i - l]
      BY <2>6, <2>7, ConcatProperties DEF l
    <3>2. \A i \in 1..l : i \in 1..(l + b) /\ i <= l
      BY <1>1, <1>2
    <3> QED BY <2>9, <3>1, <3>2
  <2>11. Len(A) % n = 0
    <3>1. n \div 2 = 2 * b
      BY <1>1
    <3>2. (l + n \div 2) % n = 0
      BY <1>1, <1>2, <2>1, HalfOver
    <3>3. (l + b) + b = l + n \div 2
      BY <1>1, <1>2, <3>1
    <3> QED BY <2>9, <3>2, <3>3
  <2>12. Range(A) = R
    <3>1. \A i \in DOMAIN A : A[i] \in R
      BY <2>9, LenProperties, ElementOfSeq
    <3>2. \A r \in R : \E i \in DOMAIN A : A[i] = r
      <4> TAKE r \in R
      <4>1. PICK i \in DOMAIN pixels : pixels[i] = r
        BY DEF R, Range
      <4>2. i \in 1..l
        BY LenProperties DEF l
      <4>3. i \in 1..Len(A) /\ DOMAIN A = 1..Len(A)
        BY <4>2, <2>9, <1>1, <1>2, LenProperties
      <4> QED BY <4>1, <4>2, <4>3, <2>10
    <3> QED BY <3>1, <3>2 DEF Range
  <2>13. A \in Seq(S)
    BY <2>9, <2>7, SeqMonotonic
  <2> QED BY <2>11, <2>12, <2>13 DEF A, n, R
<1> QED BY <1>3, <1>4

\* The colours that the routines for the 68020 find are those of the pixels.
LEMMA TallyIs ==
  ASSUME NEW d \in {1, 2, 4, 8}, NEW pixels \in Seq(0..(NativeColors(d) - 1)),
         (2 * Len(pixels)) % PixelsPerWord(d) = 0, Len(pixels) > 0
  PROVE  AsmTally(d, pixels) = Range(pixels)
<1> DEFINE n == PixelsPerWord(d)
           S == 0..(NativeColors(d) - 1)
           A == Adjusted(d, pixels)
           W == Words(d, A)
           ofWord(w) == IF \A i \in DOMAIN w : w[i] = w[1] THEN {w[1]}
                        ELSE IF d = 1 THEN {0, 1} ELSE Range(w)
<1>1. n \in {4, 8, 16, 32}
  BY WordSizes
<1>2. S \in SUBSET (0..255) /\ (d = 1 => S = {0, 1})
  BY ColourRange, ZenonT(60)
<1>3. A \in Seq(S) /\ Len(A) % n = 0 /\ Range(A) = Range(pixels)
  <2> HIDE DEF S
  <2>1. pixels \in Seq(S)
    BY DEF S
  <2> QED BY <1>2, <2>1, AdjustedIs
<1>4. AsmTally(d, pixels) = UNION {ofWord(W[w]) : w \in DOMAIN W}
  BY DEF AsmTally
<1> HIDE DEF S, A
<1>5. A \in Seq(0..255) /\ (2 * Len(A)) % n = 0 /\ Len(A) \in Nat /\ ~HalfWord(d, A)
  <2>1. A \in Seq(0..255)
    <3> DEFINE T == 0..255
    <3>1. S \subseteq T /\ A \in Seq(S)
      BY <1>2, <1>3
    <3> HIDE DEF T
    <3>2. A \in Seq(T)
      BY <3>1, SeqMonotonic
    <3> QED BY <3>2 DEF T
  <2>2. Len(A) \in Nat
    BY <1>3
  <2>3. ~HalfWord(d, A)
    BY <1>3 DEF HalfWord
  <2> HIDE DEF n
  <2>4. (2 * Len(A)) % n = 0
    <3>1. CASE n = 4
      BY <3>1, <2>2, <1>3
    <3>2. CASE n = 8
      BY <3>2, <2>2, <1>3
    <3>3. CASE n = 16
      BY <3>3, <2>2, <1>3
    <3>4. CASE n = 32
      BY <3>4, <2>2, <1>3
    <3> QED BY <3>1, <3>2, <3>3, <3>4, <1>1
  <2> QED BY <2>1, <2>2, <2>3, <2>4
<1>6. Padded(d, A) = A
  BY <1>5 DEF Padded
<1>7. /\ Len(W) \in Nat /\ Len(W) * n = Len(A)
      /\ \A w \in 1..Len(W) : /\ W[w] \in Seq(0..255) /\ Len(W[w]) = n
                              /\ \A i \in 1..n : W[w][i] = A[(w - 1) * n + i]
  <2>1. A \in Seq(0..255) /\ (2 * Len(A)) % PixelsPerWord(d) = 0
    BY <1>5
  <2>2. LET m == PixelsPerWord(d)  P == Padded(d, A)  V == Words(d, A) IN
         /\ Len(V) \in Nat /\ Len(V) * m = Len(P)
         /\ \A w \in 1..Len(V) :
              /\ V[w] \in Seq(0..255) /\ Len(V[w]) = m
              /\ \A i \in 1..m : V[w][i] = P[(w - 1) * m + i]
    BY <2>1, WordsAre
  <2> QED BY <2>2, <1>6
<1>8. DOMAIN W = 1..Len(W)
  <2>1. \E m, f : m \in Nat /\ W = [i \in 1..m |-> f[i]]
    <3> DEFINE m == Len(A) \div n
               f == [w \in 1..m |-> SubSeq(A, (w - 1) * n + 1, w * n)]
    <3>1. W = f
      BY <1>5 DEF Words
    <3>2. m \in Nat
      BY <1>1, <1>5
    <3> QED BY <3>1, <3>2
  <2> HIDE DEF W
  <2>2. PICK m, f : m \in Nat /\ W = [i \in 1..m |-> f[i]]
    BY <2>1
  <2> QED BY <2>2
<1> HIDE DEF W, n
<1>9. ASSUME NEW w \in 1..Len(W), NEW i \in 1..n
      PROVE  (w - 1) * n + i \in 1..Len(A)
  <2>1. w \in Nat /\ w - 1 \in Nat /\ w <= Len(W)
    BY <1>7
  <2>2. (w - 1) * n + n = w * n /\ w * n <= Len(W) * n /\ (w - 1) * n >= 0
    BY <1>1, <1>7, <2>1
  <2>3. (w - 1) * n \in Nat
    BY <1>1, <2>1
  <2> QED BY <1>1, <1>5, <1>7, <2>2, <2>3
<1>10. ASSUME NEW w \in 1..Len(W) PROVE ofWord(W[w]) = Range(W[w]) /\ Range(W[w]) \subseteq Range(A)
  <2> DEFINE v == W[w]
  <2>1. v \in Seq(0..255) /\ Len(v) = n /\ \A i \in 1..n : v[i] = A[(w - 1) * n + i]
    BY <1>7
  <2>2. DOMAIN v = 1..n /\ 1 \in 1..n
    BY <2>1, <1>1, LenProperties
  <2>3. \A i \in 1..n : v[i] \in Range(A) /\ v[i] \in S
    <3> TAKE i \in 1..n
    <3>1. (w - 1) * n + i \in 1..Len(A)
      BY <1>9
    <3>2. (w - 1) * n + i \in DOMAIN A
      BY <3>1, <1>3, LenProperties
    <3>3. A[(w - 1) * n + i] \in S
      BY <3>1, <1>3, ElementOfSeq
    <3> QED BY <2>1, <3>2, <3>3 DEF Range
  <2> HIDE DEF v
  <2>4. Range(v) = {v[i] : i \in 1..n}
    BY <2>2 DEF Range
  <2>5. ASSUME \A i \in DOMAIN v : v[i] = v[1]
        PROVE  ofWord(v) = Range(v)
    BY <2>2, <2>4, <2>5
  <2>6. ASSUME ~(\A i \in DOMAIN v : v[i] = v[1]) /\ d = 1
        PROVE  ofWord(v) = Range(v)
    <3>1. PICK i \in 1..n : v[i] # v[1]
      BY <2>2, <2>6
    <3>2. v[i] \in {0, 1} /\ v[1] \in {0, 1}
      BY <1>2, <2>2, <2>3, <2>6
    <3>3. Range(v) = {0, 1}
      BY <1>2, <2>2, <2>3, <2>4, <2>6, <3>1, <3>2
    <3> QED BY <2>6, <3>3, <2>3, <2>4
  <2>7. ASSUME ~(\A i \in DOMAIN v : v[i] = v[1]) /\ d # 1
        PROVE  ofWord(v) = Range(v)
    BY <2>7
  <2>8. Range(v) \subseteq Range(A)
    BY <2>3, <2>4
  <2>9. ofWord(v) = Range(v)
    BY <2>5, <2>6, <2>7
  <2> QED BY <2>8, <2>9 DEF v
<1>11. ASSUME NEW r \in Range(A) PROVE \E w \in 1..Len(W) : r \in Range(W[w])
  <2>1. PICK p \in 1..Len(A) : A[p] = r
    BY <1>3, LenProperties DEF Range
  <2> DEFINE q == (p - 1) \div n
             i == ((p - 1) % n) + 1
  <2>2. q \in Nat /\ i \in 1..n /\ p = q * n + i
    <3>1. p - 1 \in Nat
      BY <1>5
    <3>2. CASE n = 4
      BY <3>1, <3>2
    <3>3. CASE n = 8
      BY <3>1, <3>3
    <3>4. CASE n = 16
      BY <3>1, <3>4
    <3>5. CASE n = 32
      BY <3>1, <3>5
    <3> QED BY <3>2, <3>3, <3>4, <3>5, <1>1
  <2> HIDE DEF q, i
  <2>3. q + 1 \in 1..Len(W)
    <3>1. q * n < Len(W) * n
      BY <1>1, <1>5, <1>7, <2>1, <2>2
    <3>2. q < Len(W)
      BY <1>1, <1>7, <2>2, <3>1
    <3> QED BY <1>7, <2>2, <3>2
  <2>4. W[q + 1][i] = r
    <3>1. (q + 1) - 1 = q
      BY <2>2
    <3> QED BY <1>7, <2>1, <2>2, <2>3, <3>1
  <2>5. i \in DOMAIN W[q + 1]
    BY <1>7, <2>2, <2>3, LenProperties
  <2> QED BY <2>3, <2>4, <2>5 DEF Range
<1>12. UNION {ofWord(W[w]) : w \in DOMAIN W} = Range(A)
  <2> HIDE DEF ofWord
  <2> QED BY <1>8, <1>10, <1>11
<1> QED BY <1>3, <1>4, <1>12

----------------------------------------------------------------------------
(* The machine beside the loop.                                             *)

\* The jobs whose colours all have a place in the palette.
FewColours == \A j \in RleJobs : Cardinality(Range(j.pixels)) <= PaletteSize

HowOf(j) == RleHow(j.depth, j.pixels, j.stop, NativeToColors(j.pixels), j.packRuns, j.colorSize)
WordsOf(j) == Words(j.depth, j.pixels)
RunOf(j) == AfterWords(HowOf(j), FirstState(j.pixels), WordsOf(j), Len(WordsOf(j)))
Written(j) == NativeToRle(j.depth, j.pixels, HowOf(j))
Size(j) == PixelsPerWord(j.depth)

\* The registers of the machine, as a state of the loop in C.
Machine(c, cnt, val, d, ones) ==
  [cnt |-> cnt, val |-> val, carry |-> c, out |-> d, ones |-> ones, stopped |-> FALSE]

\* Where the machine is, with the loop in C in the same place.
BetweenWords(j, s, c, cnt, val, d, ones) ==
  /\ s \in 1..(Len(WordsOf(j)) + 1)
  /\ RunOf(j)[s - 1] = Machine(c, cnt, val, d, ones)
  /\ Machine(c, cnt, val, d, ones) \in LoopStates

InWord(j, s, c, t, l, cnt, val, d, ones, before, diffs, k) ==
  /\ s \in 2..(Len(WordsOf(j)) + 1)
  /\ before = RunOf(j)[s - 2] /\ before \in LoopStates /\ ~before.stopped
  /\ diffs = Diffs(before.carry, WordsOf(j)[s - 1])
  /\ c = Last(WordsOf(j)[s - 1]) /\ ~AllZero(diffs)
  /\ k \in 0..(Size(j) - 1) /\ l = (Size(j) - 1) - k
  /\ t \in Seq(0..255) /\ Len(t) = Size(j) - k
  /\ \A i \in 1..(Size(j) - k) : t[i] = diffs[k + i]
  /\ ~AllZero(t)
  /\ AfterPixels(HowOf(j), before, diffs, Size(j))[k] = Machine(before.carry, cnt, val, d, ones)

TwinInv ==
  /\ job \in RleJobs
  /\ rpc \in {"readNextLongword", "findNextPixel", "done"}
  /\ rpc = "readNextLongword" => BetweenWords(job, src, carry, rleCnt, rleVal, dst, runsOfOne)
  /\ rpc = "findNextPixel" =>
       \E before, diffs, k :
         InWord(job, src, carry, test, loop, rleCnt, rleVal, dst, runsOfOne, before, diffs, k)
  /\ rpc = "done" => dst = Written(job).out /\ runsOfOne = Written(job).ones

----------------------------------------------------------------------------

LEMMA JobIs ==
  ASSUME NEW j \in RleJobs
  PROVE  /\ j.depth \in {1, 2, 4, 8} /\ j.pixels \in Seq(0..255) /\ Len(j.pixels) > 0
         /\ j.stop \in Nat /\ j.colorSize \in 1..4 /\ j.packRuns \in BOOLEAN
         /\ (2 * Len(j.pixels)) % PixelsPerWord(j.depth) = 0
         /\ j.pixels \in Seq(0..(NativeColors(j.depth) - 1))
         /\ Range(j.pixels) \in SUBSET (0..255)
<1>1. /\ j.depth \in {1, 2, 4, 8} /\ Len(j.pixels) > 0
      /\ j.stop \in Nat /\ j.colorSize \in 1..4 /\ j.packRuns \in BOOLEAN
      /\ (2 * Len(j.pixels)) % PixelsPerWord(j.depth) = 0
      /\ j.pixels \in Seq(0..(NativeColors(j.depth) - 1))
  BY RleAssumption, Zenon
<1> DEFINE S == 0..(NativeColors(j.depth) - 1)
           T == 0..255
<1>2. S \subseteq T /\ j.pixels \in Seq(S)
  BY <1>1, ColourRange, ZenonT(60)
<1> HIDE DEF S, T
<1>3. j.pixels \in Seq(T)
  BY <1>2, SeqMonotonic
<1>4. Range(j.pixels) \in SUBSET T
  BY <1>3, ElementOfSeq, LenProperties DEF Range
<1> QED BY <1>1, <1>3, <1>4 DEF T

LEMMA HowTold ==
  ASSUME FewColours, NEW j \in RleJobs
  PROVE  Told(HowOf(j))
<1> DEFINE t == NativeToColors(j.pixels)
           found == Range(j.pixels)
<1>1. found \in SUBSET (0..255) /\ Cardinality(found) <= PaletteSize
  BY JobIs DEF FewColours
<1>2. t.colorMap = [c \in found |-> Index(found, c)]
  BY <1>1, TableIs DEF NativeToColors
<1>3. \A c \in found : Index(found, c) \in Nat
  BY <1>1, ColoursFinite
<1> HIDE DEF t, found
<1>4. \A c \in 0..255 : Place(t.colorMap, c) \in Int
  BY <1>2, <1>3 DEF Place
<1>5. /\ HowOf(j).stop = j.stop /\ HowOf(j).packRuns = j.packRuns /\ HowOf(j).colorSize = j.colorSize
      /\ HowOf(j).mapColors = MapsColors(j.depth, t.nColors) /\ HowOf(j).colorMap = t.colorMap
      /\ HowOf(j).padded = HalfWord(j.depth, j.pixels)
  BY DEF HowOf, RleHow, t
<1>6. MapsColors(j.depth, t.nColors) \in BOOLEAN /\ HalfWord(j.depth, j.pixels) \in BOOLEAN
  BY DEF MapsColors, HalfWord
<1> QED BY <1>4, <1>5, <1>6, JobIs DEF Told

\* The words of a job, and what differs within one.
LEMMA JobWords ==
  ASSUME NEW j \in RleJobs
  PROVE  /\ Size(j) \in Nat /\ Size(j) > 0 /\ Len(WordsOf(j)) \in Nat
         /\ \A w \in 1..Len(WordsOf(j)) :
              /\ WordsOf(j)[w] \in Seq(0..255) /\ Len(WordsOf(j)[w]) = Size(j)
              /\ Last(WordsOf(j)[w]) \in 0..255
              /\ \A c \in 0..255 :
                   /\ Diffs(c, WordsOf(j)[w]) \in Seq(0..255)
                   /\ Len(Diffs(c, WordsOf(j)[w])) = Size(j)
<1> DEFINE n == Size(j)
           W == WordsOf(j)
<1>1. n \in {4, 8, 16, 32}
  BY JobIs, WordSizes DEF Size
<1>2. Len(W) \in Nat /\ \A w \in 1..Len(W) : W[w] \in Seq(0..255) /\ Len(W[w]) = n
  <2>1. LET m == PixelsPerWord(j.depth)  P == Padded(j.depth, j.pixels)  V == Words(j.depth, j.pixels) IN
         /\ Len(V) \in Nat /\ Len(V) * m = Len(P)
         /\ \A w \in 1..Len(V) :
              /\ V[w] \in Seq(0..255) /\ Len(V[w]) = m
              /\ \A i \in 1..m : V[w][i] = P[(w - 1) * m + i]
    BY JobIs, WordsAre
  <2> QED BY <2>1 DEF WordsOf, Size
<1> HIDE DEF n, W
<1>3. ASSUME NEW w \in 1..Len(W), NEW c \in 0..255
      PROVE  Diffs(c, W[w]) \in Seq(0..255) /\ Len(Diffs(c, W[w])) = n
  <2> DEFINE v == W[w]
             e(i) == Differs(v[i], IF i = 1 THEN c ELSE v[i - 1])
  <2>1. v \in Seq(0..255) /\ Len(v) = n /\ n \in Nat
    BY <1>1, <1>2
  <2>2. DOMAIN v = 1..n
    BY <2>1, LenProperties
  <2>3. Diffs(c, v) = [i \in 1..n |-> e(i)]
    BY <2>2 DEF Diffs
  <2>4. \A i \in 1..n : e(i) \in 0..255
    <3> TAKE i \in 1..n
    <3>1. v[i] \in 0..255
      BY <2>1, ElementOfSeq
    <3>2. (IF i = 1 THEN c ELSE v[i - 1]) \in 0..255
      <4>1. CASE i = 1
        BY <4>1
      <4>2. CASE i # 1
        <5>1. i - 1 \in 1..n
          BY <4>2, <2>1
        <5>2. v[i - 1] \in 0..255
          BY <5>1, <2>1, ElementOfSeq
        <5> QED BY <4>2, <5>2
      <4> QED BY <4>1, <4>2
    <3> QED BY <3>1, <3>2, DiffersByte
  <2> HIDE DEF v, e
  <2>5. Diffs(c, v) \in Seq(0..255) /\ Len(Diffs(c, v)) = n
    BY <2>1, <2>3, <2>4
  <2> QED BY <2>5 DEF v
<1>4. ASSUME NEW w \in 1..Len(W) PROVE Last(W[w]) \in 0..255
  <2>1. n \in 1..Len(W[w])
    BY <1>1, <1>2
  <2> QED BY <2>1, <1>2, ElementOfSeq DEF Last
<1> QED BY <1>1, <1>2, <1>3, <1>4 DEF n, W

LEMMA NotStopped == FALSE \in Flags
BY Zenon DEF Flags

LEMMA MachineTyped ==
  ASSUME NEW c, NEW cnt, NEW val, NEW d, NEW o
  PROVE  /\ Machine(c, cnt, val, d, o).cnt = cnt /\ Machine(c, cnt, val, d, o).val = val
         /\ Machine(c, cnt, val, d, o).carry = c /\ Machine(c, cnt, val, d, o).out = d
         /\ Machine(c, cnt, val, d, o).ones = o /\ Machine(c, cnt, val, d, o).stopped = FALSE
         /\ (Machine(c, cnt, val, d, o) \in LoopStates <=>
               cnt \in Counters /\ val \in Colours /\ c \in Colours /\ d \in Outputs /\ o \in Int)
BY NotStopped DEF Machine, LoopStates

LEMMA MachineCount ==
  ASSUME NEW c, NEW cnt, NEW val, NEW d, NEW o, NEW e
  PROVE  [Machine(c, cnt, val, d, o) EXCEPT !.cnt = e] = Machine(c, e, val, d, o)
<1>1. \A f : [[cnt |-> cnt, val |-> val, out |-> d, ones |-> o, carry |-> c, stopped |-> f] EXCEPT !.cnt = e] 
   = [cnt |-> e, val |-> val, out |-> d, ones |-> o, carry |-> c, stopped |-> f]
  OBVIOUS
<1>2. [[cnt |-> cnt, val |-> val, carry |-> c, out |-> d, ones |-> o, stopped |-> FALSE] EXCEPT !.cnt = e] 
   = [cnt |-> e, val |-> val, carry |-> c, out |-> d, ones |-> o, stopped |-> FALSE]
  BY <1>1
<1> QED BY <1>2, Zenon DEF Machine

LEMMA RunIs ==
  ASSUME NEW j \in RleJobs
  PROVE  /\ RunOf(j)[0] = FirstState(j.pixels)
         /\ \A w \in 1..Len(WordsOf(j)) :
              RunOf(j)[w] = WordStep(HowOf(j), RunOf(j)[w - 1], WordsOf(j)[w])
         /\ Written(j) = WriteLast(HowOf(j), RunOf(j)[Len(WordsOf(j))])
<1>1. Len(WordsOf(j)) \in Nat
  BY JobWords
<1>2. Written(j) = WriteLast(HowOf(j), RunOf(j)[Len(WordsOf(j))])
  BY NativeToRleIs DEF Written, RunOf, WordsOf
<1> QED BY <1>1, <1>2, AfterWordsIs DEF RunOf

LEMMA TwinsBegin == FewColours /\ AsmInit => TwinInv
<1> SUFFICES ASSUME FewColours, AsmInit PROVE TwinInv
  OBVIOUS
<1>1. job \in RleJobs /\ src = 1 /\ carry = job.pixels[1] /\ rleCnt = MaxCount - 1
      /\ rleVal = job.pixels[1] /\ dst = <<>> /\ runsOfOne = 0 /\ rpc = "readNextLongword"
  BY DEF AsmInit
<1>2. job.pixels[1] \in 0..255
  <2>1. job.pixels \in Seq(0..255) /\ 1 \in 1..Len(job.pixels)
    BY <1>1, JobIs
  <2> QED BY <2>1, ElementOfSeq
<1>3. Machine(carry, rleCnt, rleVal, dst, runsOfOne) = FirstState(job.pixels)
  BY <1>1 DEF Machine, FirstState
<1>4. Machine(carry, rleCnt, rleVal, dst, runsOfOne) \in LoopStates
  <2>1. rleCnt \in Counters /\ rleVal \in Colours /\ carry \in Colours /\ runsOfOne \in Int
    BY <1>1, <1>2 DEF Counters, MaxCount, Colours
  <2>2. dst \in Outputs
    BY <1>1 DEF Outputs
  <2> QED BY <2>1, <2>2, MachineTyped
<1>5. src \in 1..(Len(WordsOf(job)) + 1) /\ src - 1 = 0
  BY <1>1, JobWords
<1>6. BetweenWords(job, src, carry, rleCnt, rleVal, dst, runsOfOne)
  BY <1>1, <1>3, <1>4, <1>5, RunIs DEF BetweenWords
<1> QED BY <1>1, <1>6 DEF TwinInv

\* A word that is read is one of the run, or is looked at pixel by pixel.
LEMMA TwinsRead ==
  ASSUME FewColours, NEW j \in RleJobs, NEW s, NEW c, NEW cnt, NEW val, NEW d, NEW o,
         BetweenWords(j, s, c, cnt, val, d, o), s <= Len(WordsOf(j))
  PROVE  LET diff == Diffs(c, WordsOf(j)[s]) IN
         IF AllZero(diff)
         THEN BetweenWords(j, s + 1, c, (cnt + Size(j)) % MaxCount, val, d, o)
         ELSE InWord(j, s + 1, Last(WordsOf(j)[s]), diff, Size(j) - 1, cnt, val, d, o,
                     Machine(c, cnt, val, d, o), diff, 0)
<1> DEFINE n == Size(j)
           W == WordsOf(j)
           m == Machine(c, cnt, val, d, o)
           diff == Diffs(c, W[s])
           how == HowOf(j)
<1>1. s \in 1..Len(W) /\ RunOf(j)[s - 1] = m /\ m \in LoopStates
  BY JobWords DEF BetweenWords
<1>2. n \in Nat /\ n > 0 /\ Len(W) \in Nat /\ Len(W[s]) = n /\ W[s] \in Seq(0..255)
  BY <1>1, JobWords
<1>3. c \in 0..255 /\ cnt \in Counters /\ cnt \in Nat
  <2>1. c \in Colours /\ cnt \in Counters
    BY <1>1 DEF LoopStates, Machine
  <2>2. \A i \in Counters : i \in Nat
    BY DEF Counters
  <2> QED BY <2>1, <2>2 DEF Colours
<1>4. diff \in Seq(0..255) /\ Len(diff) = n
  BY <1>1, <1>3, JobWords
<1>5. m.carry = c /\ ~m.stopped /\ m.cnt = cnt
  BY DEF Machine
<1>6. RunOf(j)[s] = WordStep(how, m, W[s])
  BY <1>1, RunIs
<1>7. (s + 1) - 1 = s /\ (s + 1) - 2 = s - 1 /\ s + 1 \in 2..(Len(W) + 1)
  BY <1>1, <1>2
<1> HIDE DEF diff, W, n, how
<1>8. CASE AllZero(diff)
  <2>1. WordStep(how, m, W[s]) = [m EXCEPT !.cnt = (cnt + n) % MaxCount]
    <3>1. \A i \in DOMAIN Diffs(m.carry, W[s]) : Diffs(m.carry, W[s])[i] = 0
      BY <1>5, <1>8 DEF AllZero, diff
    <3> HIDE DEF m
    <3> QED BY <1>2, <1>5, <3>1, WordStepIs
  <2>2. [m EXCEPT !.cnt = (cnt + n) % MaxCount] = Machine(c, (cnt + n) % MaxCount, val, d, o)
    <3> DEFINE e == (cnt + n) % MaxCount
    <3> HIDE DEF e
    <3>1. [m EXCEPT !.cnt = e] = Machine(c, e, val, d, o)
      BY MachineCount
    <3> QED BY <3>1 DEF e
  <2>3. (cnt + n) % MaxCount \in Counters
    BY <1>2, <1>3, CountersMod
  <2>4. Machine(c, (cnt + n) % MaxCount, val, d, o) \in LoopStates
    BY <1>1, <2>3 DEF LoopStates, Machine
  <2>5. BetweenWords(j, s + 1, c, (cnt + n) % MaxCount, val, d, o)
    BY <1>6, <1>7, <2>1, <2>2, <2>4 DEF BetweenWords, W
  <2> QED BY <1>8, <2>5 DEF diff, n, W
<1>9. CASE ~AllZero(diff)
  <2>1. AfterPixels(how, m, diff, n)[0] = m
    BY <1>2, AfterPixelsIs
  <2>2. 0 \in 0..(n - 1) /\ n - 1 = (n - 1) - 0 /\ n - 0 = n
    BY <1>2
  <2>3. \A i \in 1..(n - 0) : diff[i] = diff[0 + i]
    BY <1>2
  <2>4. m = Machine(m.carry, cnt, val, d, o)
    BY <1>5
  <2> HIDE DEF m
  <2>5. InWord(j, s + 1, Last(W[s]), diff, n - 1, cnt, val, d, o, m, diff, 0)
    BY <1>1, <1>4, <1>5, <1>7, <1>9, <2>1, <2>2, <2>3, <2>4 DEF InWord, W, n, how, diff
  <2> QED BY <1>9, <2>5 DEF diff, n, W, m
<1> QED BY <1>8, <1>9

----------------------------------------------------------------------------

\* What holds there.
InWordFacts(j, s, c, t, cnt, val, d, o, before, diffs, k) ==
  LET n == Size(j)  f == AfterPixels(HowOf(j), before, diffs, n) IN
         /\ n \in Nat /\ k \in Nat /\ k + 1 \in 1..n /\ s \in Int
         /\ \A i \in 1..n : diffs[i] \in 0..255
         /\ \A i \in 0..n : f[i] \in LoopStates
         /\ f[k + 1] = PixelStep(HowOf(j), f[k], diffs[k + 1])
         /\ Machine(before.carry, cnt, val, d, o) \in LoopStates
         /\ t # <<>> /\ Head(t) = diffs[k + 1] /\ Tail(t) \in Seq(0..255)
         /\ Len(Tail(t)) = n - (k + 1)
         /\ \A i \in 1..(n - (k + 1)) : Tail(t)[i] = diffs[(k + 1) + i]
         /\ RunOf(j)[s - 1] = [f[n] EXCEPT !.carry = c]
         /\ c \in Colours /\ s - 1 \in 1..Len(WordsOf(j))

LEMMA InWordIs ==
  ASSUME FewColours, NEW j \in RleJobs, NEW s, NEW c, NEW t, NEW l, NEW cnt, NEW val, NEW d, NEW o,
         NEW before, NEW diffs, NEW k,
         InWord(j, s, c, t, l, cnt, val, d, o, before, diffs, k)
  PROVE  InWordFacts(j, s, c, t, cnt, val, d, o, before, diffs, k)
<1> DEFINE n == Size(j)
           f == AfterPixels(HowOf(j), before, diffs, n)
           W == WordsOf(j)
           how == HowOf(j)
<1>1. n \in Nat /\ n > 0 /\ Len(W) \in Nat
  BY JobWords
<1>2. /\ s \in 2..(Len(W) + 1)
      /\ before = RunOf(j)[s - 2] /\ before \in LoopStates /\ ~before.stopped
      /\ diffs = Diffs(before.carry, W[s - 1])
      /\ c = Last(W[s - 1]) /\ ~AllZero(diffs)
      /\ k \in 0..(n - 1) /\ l = (n - 1) - k
      /\ t \in Seq(0..255) /\ Len(t) = n - k
      /\ \A i \in 1..(n - k) : t[i] = diffs[k + i]
      /\ f[k] = Machine(before.carry, cnt, val, d, o)
  BY DEF InWord
<1>3. Told(how)
  BY HowTold
<1> HIDE DEF n, f, W, how
<1>4. s - 1 \in 1..Len(W) /\ (s - 1) - 1 = s - 2 /\ s \in Int
  BY <1>1, <1>2
<1>5. before.carry \in 0..255
  BY <1>2, StateTyped
<1>6. diffs \in Seq(0..255) /\ Len(diffs) = n /\ c \in Colours /\ Len(W[s - 1]) = n
  BY <1>2, <1>4, <1>5, JobWords, ZenonT(60) DEF n, W, Colours
<1>7. \A i \in 1..n : diffs[i] \in 0..255
  BY <1>6, ElementOfSeq
<1>8. \A i \in 0..n : f[i] \in LoopStates
  BY <1>1, <1>2, <1>3, <1>7, PixelsTyped DEF f, how
<1>9. k \in Nat /\ k + 1 \in 1..n /\ k \in 0..n /\ (k + 1) - 1 = k
  BY <1>1, <1>2
<1>10. f[k + 1] = PixelStep(how, f[k], diffs[k + 1])
  <2>1. \A i \in 1..n : f[i] = PixelStep(how, f[i - 1], diffs[i])
    BY <1>1, AfterPixelsIs DEF f, how
  <2> QED BY <2>1, <1>9
<1>11. Machine(before.carry, cnt, val, d, o) \in LoopStates
  BY <1>2, <1>8, <1>9
<1>12. t # <<>> /\ Len(t) >= 1
  <2>1. Len(t) \in Nat /\ Len(t) >= 1
    BY <1>1, <1>2, <1>9
  <2> QED BY <2>1, <1>2
<1>13. Tail(t) \in Seq(0..255) /\ Len(Tail(t)) = Len(t) - 1
       /\ \A i \in 1..Len(Tail(t)) : Tail(t)[i] = t[i + 1]
  BY <1>2, <1>12, HeadTailProperties
<1>14. Len(Tail(t)) = n - (k + 1)
  BY <1>1, <1>2, <1>9, <1>13
<1>15. \A i \in 1..(n - (k + 1)) : Tail(t)[i] = diffs[(k + 1) + i]
  <2> TAKE i \in 1..(n - (k + 1))
  <2>1. i + 1 \in 1..(n - k) /\ k + (i + 1) = (k + 1) + i
    BY <1>1, <1>9
  <2> QED BY <2>1, <1>2, <1>13, <1>14
<1>16. Head(t) = diffs[k + 1]
  <2>1. Head(t) = t[1]
    BY <1>2, <1>12
  <2>2. 1 \in 1..(n - k)
    BY <1>1, <1>2
  <2> QED BY <2>1, <2>2, <1>2
<1>17. RunOf(j)[s - 1] = [f[n] EXCEPT !.carry = c]
  <2>1. RunOf(j)[s - 1] = WordStep(how, before, W[s - 1])
    <3>1. \A w \in 1..Len(W) : RunOf(j)[w] = WordStep(how, RunOf(j)[w - 1], W[w])
      BY RunIs DEF W, how
    <3> QED BY <3>1, <1>2, <1>4
  <2>2. ~(\A i \in DOMAIN diffs : diffs[i] = 0)
    BY <1>2 DEF AllZero
  <2>3. WordStep(how, before, W[s - 1]) = LookedAt(how, before, diffs, W[s - 1])
    <3> DEFINE v == W[s - 1]
    <3>1. ~before.stopped /\ diffs = Diffs(before.carry, v)
      BY <1>2
    <3> HIDE DEF v
    <3>2. WordStep(how, before, v) = LookedAt(how, before, diffs, v)
      BY <3>1, <2>2, WordLooks, Zenon
    <3> QED BY <3>2 DEF v
  <2>4. LookedAt(how, before, diffs, W[s - 1]) = [f[n] EXCEPT !.carry = c]
    BY <1>2, <1>6, Zenon DEF f, how, n, LookedAt
  <2> QED BY <2>1, <2>3, <2>4
<1> QED BY <1>1, <1>4, <1>6, <1>7, <1>8, <1>9, <1>10, <1>11, <1>12, <1>13, <1>14, <1>15, <1>16, <1>17
        DEF n, f, W, how, InWordFacts

LEMMA MachineCarry ==
  ASSUME NEW c, NEW cnt, NEW val, NEW d, NEW o, NEW e
  PROVE  [Machine(c, cnt, val, d, o) EXCEPT !.carry = e] = Machine(e, cnt, val, d, o)
<1>1. \A f : [[cnt |-> cnt, val |-> val, out |-> d, ones |-> o, carry |-> c, stopped |-> f] EXCEPT !.carry = e]
   = [cnt |-> cnt, val |-> val, out |-> d, ones |-> o, carry |-> e, stopped |-> f]
  OBVIOUS
<1>2. [[cnt |-> cnt, val |-> val, carry |-> c, out |-> d, ones |-> o, stopped |-> FALSE] EXCEPT !.carry = e]
   = [cnt |-> cnt, val |-> val, carry |-> e, out |-> d, ones |-> o, stopped |-> FALSE]
  BY <1>1
<1> QED BY <1>2, Zenon DEF Machine

\* The pixels that are left are counted at once, or looked at one by one.
LEMMA TwinsMove ==
  ASSUME FewColours, NEW j \in RleJobs, NEW s, NEW c, NEW t, NEW l, NEW cnt, NEW val, NEW d, NEW o,
         NEW before, NEW diffs, NEW k,
         InWord(j, s, c, t, l, cnt, val, d, o, before, diffs, k),
         NEW cnt2, NEW val2, NEW d2, NEW o2,
         AfterPixels(HowOf(j), before, diffs, Size(j))[k + 1]
           = Machine(before.carry, cnt2, val2, d2, o2)
  PROVE  /\ cnt2 \in Counters
         /\ AllZero(Tail(t)) => BetweenWords(j, s, c, (cnt2 + l) % MaxCount, val2, d2, o2)
         /\ ~AllZero(Tail(t)) =>
              l # 0 /\ InWord(j, s, c, Tail(t), l - 1, cnt2, val2, d2, o2, before, diffs, k + 1)
<1> DEFINE n == Size(j)
           f == AfterPixels(HowOf(j), before, diffs, n)
           W == WordsOf(j)
           how == HowOf(j)
           m == Machine(before.carry, cnt2, val2, d2, o2)
<1>1. /\ n \in Nat /\ k \in Nat /\ k + 1 \in 1..n /\ s \in Int
      /\ \A i \in 1..n : diffs[i] \in 0..255
      /\ \A i \in 0..n : f[i] \in LoopStates
      /\ Tail(t) \in Seq(0..255) /\ Len(Tail(t)) = n - (k + 1)
      /\ \A i \in 1..(n - (k + 1)) : Tail(t)[i] = diffs[(k + 1) + i]
      /\ RunOf(j)[s - 1] = [f[n] EXCEPT !.carry = c]
      /\ c \in Colours /\ s - 1 \in 1..Len(W)
  <2>1. InWordFacts(j, s, c, t, cnt, val, d, o, before, diffs, k)
    BY InWordIs, Zenon
  <2> QED BY <2>1 DEF InWordFacts
<1>2. /\ s \in 2..(Len(W) + 1)
      /\ before = RunOf(j)[s - 2] /\ before \in LoopStates /\ ~before.stopped
      /\ diffs = Diffs(before.carry, W[s - 1])
      /\ c = Last(W[s - 1]) /\ ~AllZero(diffs)
      /\ k \in 0..(n - 1) /\ l = (n - 1) - k
  BY DEF InWord
<1>3. Told(how)
  BY HowTold
<1>4. f[k + 1] = m /\ m \in LoopStates /\ k + 1 \in 0..n
  BY <1>1
<1>5. cnt2 \in Counters /\ val2 \in Colours /\ d2 \in Outputs /\ o2 \in Int /\ ~m.stopped
  BY <1>4 DEF Machine, LoopStates
<1>6. l = n - (k + 1) /\ l \in Nat
  BY <1>1, <1>2
<1>7. DOMAIN Tail(t) = 1..(n - (k + 1))
  BY <1>1, LenProperties
<1> HIDE DEF n, f, W, how, m
<1>8. ASSUME AllZero(Tail(t))
      PROVE  BetweenWords(j, s, c, (cnt2 + l) % MaxCount, val2, d2, o2)
  <2>1. \A i \in ((k + 1) + 1)..n : diffs[i] = 0
    <3> TAKE i \in ((k + 1) + 1)..n
    <3>1. i - (k + 1) \in 1..(n - (k + 1)) /\ (k + 1) + (i - (k + 1)) = i
      BY <1>1
    <3>2. Tail(t)[i - (k + 1)] = 0
      BY <3>1, <1>7, <1>8 DEF AllZero
    <3> QED BY <3>1, <3>2, <1>1
  <2> DEFINE e == (cnt2 + l) % MaxCount
  <2>2. f[n] = [m EXCEPT !.cnt = (@ + (n - (k + 1))) % MaxCount]
    <3>1. ~f[k + 1].stopped
      BY <1>4, <1>5
    <3>2. f[n] = Counted(f[k + 1], n - (k + 1))
      <4> DEFINE q == k + 1
      <4>1. Told(how) /\ before \in LoopStates /\ n \in Nat /\ (\A i \in 1..n : diffs[i] \in 0..255)
        BY <1>1, <1>2, <1>3
      <4>2. q \in 0..n /\ (\A i \in (q + 1)..n : diffs[i] = 0) /\ ~AfterPixels(how, before, diffs, n)[q].stopped
        BY <1>4, <2>1, <3>1 DEF f, how
      <4> HIDE DEF q
      <4>3. AfterPixels(how, before, diffs, n)[n] = Counted(AfterPixels(how, before, diffs, n)[q], n - q)
        BY <4>1, <4>2, EqualPixels
      <4> QED BY <4>3 DEF q, f, how
    <3> QED BY <3>2, <1>4 DEF Counted
  <2>3. m.cnt = cnt2
    BY DEF m, Machine
  <2>4. f[n] = [m EXCEPT !.cnt = e]
    BY <2>2, <2>3, <1>6
  <2>5. e \in Counters
    <3>1. cnt2 \in Int
      BY <1>5 DEF Counters
    <3> QED BY <3>1, <1>6, CountersMod
  <2> HIDE DEF e
  <2>6. f[n] = Machine(before.carry, e, val2, d2, o2)
    BY <2>4, MachineCount DEF m
  <2>7. RunOf(j)[s - 1] = Machine(c, e, val2, d2, o2)
    BY <2>6, <1>1, MachineCarry
  <2>8. Machine(c, e, val2, d2, o2) \in LoopStates
    BY <1>1, <1>5, <2>5, MachineTyped
  <2>9. s \in 1..(Len(W) + 1)
    BY <1>2
  <2>10. BetweenWords(j, s, c, e, val2, d2, o2)
    BY <2>7, <2>8, <2>9 DEF BetweenWords, W
  <2> QED BY <2>10 DEF e
<1>9. ASSUME ~AllZero(Tail(t))
      PROVE  l # 0 /\ InWord(j, s, c, Tail(t), l - 1, cnt2, val2, d2, o2, before, diffs, k + 1)
  <2>1. l # 0
    <3> SUFFICES ASSUME l = 0 PROVE FALSE
      OBVIOUS
    <3>1. 1..(n - (k + 1)) = {}
      BY <1>6
    <3> QED BY <3>1, <1>7, <1>9 DEF AllZero
  <2>2. k + 1 \in 0..(n - 1) /\ l - 1 = (n - 1) - (k + 1)
    BY <1>1, <1>6, <2>1
  <2>3. f[k + 1] = Machine(before.carry, cnt2, val2, d2, o2)
    BY <1>4 DEF m
  <2> QED BY <1>1, <1>2, <1>9, <2>1, <2>2, <2>3 DEF InWord, n, f, W, how
<1> QED BY <1>5, <1>8, <1>9

\* What Write makes of the registers.
Gives(w, how, c, cnt, val, d, o) ==
  /\ w \in LoopStates /\ w.out = d \o Pair(how, val, cnt)
  /\ (w.stopped <=> Len(d \o Pair(how, val, cnt)) > how.stop)
  /\ Len(d \o Pair(how, val, cnt)) \in Nat
  /\ w.cnt = cnt /\ w.val = val /\ w.carry = c
  /\ w.ones = IF cnt = 0 /\ how.packRuns THEN o + 1 ELSE o

LEMMA WriteMachine ==
  ASSUME NEW how, Told(how), NEW c, NEW cnt, NEW val, NEW d, NEW o,
         Machine(c, cnt, val, d, o) \in LoopStates
  PROVE  Gives(Write(how, Machine(c, cnt, val, d, o)), how, c, cnt, val, d, o)
<1> DEFINE m == Machine(c, cnt, val, d, o)
<1>1. m.cnt = cnt /\ m.val = val /\ m.carry = c /\ m.out = d /\ m.ones = o
  BY DEF Machine
<1>2. m \in LoopStates
  OBVIOUS
<1> HIDE DEF m
<1>3. /\ Write(how, m) \in LoopStates
      /\ Write(how, m).out = m.out \o Pair(how, m.val, m.cnt)
      /\ Write(how, m).stopped = (Len(m.out \o Pair(how, m.val, m.cnt)) > how.stop)
      /\ Write(how, m).cnt = m.cnt /\ Write(how, m).val = m.val /\ Write(how, m).carry = m.carry
      /\ Write(how, m).ones = IF m.cnt = 0 /\ how.packRuns THEN m.ones + 1 ELSE m.ones
  BY <1>2, WriteIs
<1>4. Write(how, m).out \in Seq(Int)
  BY <1>3, StateTyped
<1>5. Len(Write(how, m).out) \in Nat
  BY <1>4
<1> QED BY <1>1, <1>3, <1>5 DEF m, Gives

LEMMA RunGoesOn ==
  ASSUME NEW w \in LoopStates, NEW v \in Colours, NEW e \in Counters
  PROVE  [w EXCEPT !.val = v, !.cnt = e]
           = [cnt |-> e, val |-> v, carry |-> w.carry, out |-> w.out, ones |-> w.ones,
              stopped |-> w.stopped]
<1> DEFINE u == [w EXCEPT !.val = v, !.cnt = e]
<1>1. /\ u \in LoopStates /\ u.cnt = e /\ u.val = v /\ u.carry = w.carry
      /\ u.out = w.out /\ u.ones = w.ones /\ u.stopped = w.stopped
  BY DEF LoopStates
<1> HIDE DEF u
<1>2. u = [cnt |-> u.cnt, val |-> u.val, carry |-> u.carry, out |-> u.out, ones |-> u.ones,
           stopped |-> u.stopped]
  BY <1>1 DEF LoopStates
<1>3. u = [cnt |-> e, val |-> v, carry |-> w.carry, out |-> w.out, ones |-> w.ones,
           stopped |-> w.stopped]
  BY <1>1, <1>2, Zenon
<1> QED BY <1>3 DEF u

LEMMA PixelCounted ==
  ASSUME NEW how, NEW c, NEW cnt, NEW val, NEW d, NEW o
  PROVE  PixelStep(how, Machine(c, cnt, val, d, o), 0)
           = Machine(c, (cnt + 1) % MaxCount, val, d, o)
<1> DEFINE m == Machine(c, cnt, val, d, o)
           e == (cnt + 1) % MaxCount
<1>1. m.cnt = cnt /\ ~m.stopped
  BY DEF Machine
<1> HIDE DEF m
<1>2. PixelStep(how, m, 0) = [m EXCEPT !.cnt = e]
  BY <1>1 DEF PixelStep
<1> HIDE DEF e
<1>3. PixelStep(how, m, 0) = Machine(c, e, val, d, o)
  BY <1>2, MachineCount DEF m
<1> QED BY <1>3 DEF m, e

\* What becomes of the registers when a pixel differs.
Breaks(p, how, c, cnt, val, d, o, diff) ==
  LET out == d \o Pair(how, val, cnt)
      ones == IF cnt = 0 /\ how.packRuns THEN o + 1 ELSE o IN
  /\ Len(out) <= how.stop => p = Machine(c, 0, Differs(val, diff), out, ones)
  /\ ~(Len(out) <= how.stop) => p.stopped /\ p.out = out /\ p.ones = ones

\* A pixel that differs: the pair is written, and all is over when there is too much of it.
LEMMA PixelWritten ==
  ASSUME NEW how, Told(how), NEW c, NEW cnt, NEW val, NEW d, NEW o, NEW diff \in 0..255, diff # 0,
         Machine(c, cnt, val, d, o) \in LoopStates
  PROVE  Breaks(PixelStep(how, Machine(c, cnt, val, d, o), diff), how, c, cnt, val, d, o, diff)
<1> DEFINE m == Machine(c, cnt, val, d, o)
           w == Write(how, m)
           out == d \o Pair(how, val, cnt)
           ones == IF cnt = 0 /\ how.packRuns THEN o + 1 ELSE o
           v == Differs(val, diff)
<1>1. /\ w \in LoopStates /\ w.out = out
      /\ (w.stopped <=> Len(out) > how.stop) /\ Len(out) \in Nat
      /\ w.cnt = cnt /\ w.val = val /\ w.carry = c
      /\ w.ones = ones
  <2>1. Gives(w, how, c, cnt, val, d, o)
    BY WriteMachine
  <2> QED BY <2>1 DEF Gives
<1>2. m.val = val /\ ~m.stopped
  BY DEF Machine
<1>3. how.stop \in Nat
  BY DEF Told
<1>7. v \in Colours
  <2>1. val \in 0..255
    BY <1>1, <1>2, MachineTyped DEF Colours
  <2> QED BY <2>1, DiffersByte DEF Colours
<1> HIDE DEF m, out, ones
<1>4. PixelStep(how, m, diff)
        = IF w.stopped THEN w ELSE [w EXCEPT !.val = v, !.cnt = 0]
  BY <1>2 DEF PixelStep
<1> HIDE DEF w, v
<1>5. ASSUME Len(out) <= how.stop
      PROVE  PixelStep(how, m, diff) = Machine(c, 0, v, out, ones)
  <2>1. ~w.stopped /\ w.stopped = FALSE
    <3>1. ~(Len(out) > how.stop)
      BY <1>1, <1>3, <1>5
    <3>2. w.stopped \in BOOLEAN
      BY <1>1, StateTyped
    <3> QED BY <1>1, <3>1, <3>2
  <2>2. PixelStep(how, m, diff) = [w EXCEPT !.val = v, !.cnt = 0]
    BY <1>4, <2>1
  <2>3. [w EXCEPT !.val = v, !.cnt = 0]
          = [cnt |-> 0, val |-> v, carry |-> w.carry, out |-> w.out, ones |-> w.ones,
             stopped |-> w.stopped]
    BY <1>1, <1>7, ZeroCounter, RunGoesOn
  <2>4. [cnt |-> 0, val |-> v, carry |-> w.carry, out |-> w.out, ones |-> w.ones,
             stopped |-> w.stopped]
          = [cnt |-> 0, val |-> v, carry |-> c, out |-> out, ones |-> ones,
             stopped |-> FALSE]
    BY <1>1, <2>1, Zenon
  <2> QED BY <2>2, <2>3, <2>4 DEF Machine
<1>6. ASSUME ~(Len(out) <= how.stop)
      PROVE  PixelStep(how, m, diff) = w /\ w.stopped
  <2>1. Len(out) > how.stop
    BY <1>1, <1>3, <1>6
  <2>2. w.stopped
    BY <1>1, <2>1
  <2> QED BY <1>4, <2>2
<1> QED BY <1>1, <1>5, <1>6 DEF m, out, ones, v, Breaks

Returns(j, p) == Written(j).out = p.out /\ Written(j).ones = p.ones

\* Once stopped, what was written is what the routine in C returns.
LEMMA TwinsStop ==
  ASSUME FewColours, NEW j \in RleJobs, NEW s, NEW c, NEW t, NEW l, NEW cnt, NEW val, NEW d, NEW o,
         NEW before, NEW diffs, NEW k,
         InWord(j, s, c, t, l, cnt, val, d, o, before, diffs, k),
         AfterPixels(HowOf(j), before, diffs, Size(j))[k + 1].stopped
  PROVE  Returns(j, AfterPixels(HowOf(j), before, diffs, Size(j))[k + 1])
<1> DEFINE n == Size(j)
           f == AfterPixels(HowOf(j), before, diffs, n)
           W == WordsOf(j)
           how == HowOf(j)
           q == k + 1
           r == s - 1
<1>1. /\ n \in Nat /\ q \in 1..n
      /\ \A i \in 0..n : f[i] \in LoopStates
      /\ RunOf(j)[r] = [f[n] EXCEPT !.carry = c]
      /\ r \in 1..Len(W)
  <2>1. InWordFacts(j, s, c, t, cnt, val, d, o, before, diffs, k)
    BY InWordIs, Zenon
  <2> QED BY <2>1 DEF InWordFacts
<1>2. f[q].stopped /\ Len(W) \in Nat
  BY JobWords
<1> HIDE DEF n, W, how, q, r
<1>3. f[n] = f[q]
  <2>1. q \in 0..n
    BY <1>1
  <2> QED BY <1>1, <1>2, <2>1, StoppedPixels
<1> HIDE DEF f
<1>4. f[q] \in LoopStates
  BY <1>1
<1>5. RunOf(j)[r].stopped /\ RunOf(j)[r].out = f[q].out /\ RunOf(j)[r].ones = f[q].ones
  BY <1>1, <1>2, <1>3, <1>4 DEF LoopStates
<1>6. RunOf(j)[Len(W)] = RunOf(j)[r]
  <2>1. r \in 0..Len(W)
    BY <1>1
  <2>2. AfterWords(how, FirstState(j.pixels), W, Len(W))[r].stopped
    BY <1>5 DEF RunOf, how, W
  <2>3. AfterWords(how, FirstState(j.pixels), W, Len(W))[Len(W)]
          = AfterWords(how, FirstState(j.pixels), W, Len(W))[r]
    BY <1>2, <2>1, <2>2, StoppedWords
  <2> QED BY <2>3 DEF RunOf, how, W
<1>7. Written(j) = WriteLast(how, RunOf(j)[Len(W)])
  BY RunIs DEF W, how
<1>8. Written(j) = RunOf(j)[r]
  BY <1>5, <1>6, <1>7 DEF WriteLast
<1> QED BY <1>5, <1>8 DEF f, q, n, Returns

\* The last run, at the end of the words.
LEMMA TwinsLast ==
  ASSUME FewColours, NEW j \in RleJobs, NEW s, NEW c, NEW cnt, NEW val, NEW d, NEW o,
         BetweenWords(j, s, c, cnt, val, d, o), s > Len(WordsOf(j))
  PROVE  LET padded == HalfWord(j.depth, j.pixels)
             count  == IF padded THEN (cnt - 16) % MaxCount ELSE cnt IN
         IF padded /\ cnt < 15 THEN Written(j).out = d /\ Written(j).ones = o
         ELSE /\ Written(j).out = d \o Pair(HowOf(j), val, count)
              /\ Written(j).ones = (o + (IF count = 0 /\ j.packRuns THEN 1 ELSE 0))
                                     - (IF padded /\ count = 0 THEN 1 ELSE 0)
<1> DEFINE W == WordsOf(j)
           how == HowOf(j)
           m == Machine(c, cnt, val, d, o)
           padded == HalfWord(j.depth, j.pixels)
           count  == IF padded THEN (cnt - 16) % MaxCount ELSE cnt
           m2 == Machine(c, count, val, d, o)
           w == Write(how, m2)
<1>1. Told(how) /\ how.padded = padded /\ how.packRuns = j.packRuns
  BY HowTold DEF HowOf, RleHow
<1>2. m \in LoopStates /\ Written(j) = WriteLast(how, m)
  <2>1. s \in 1..(Len(W) + 1) /\ RunOf(j)[s - 1] = m /\ m \in LoopStates
    BY DEF BetweenWords
  <2>2. s - 1 = Len(W)
    BY <2>1, JobWords
  <2> HIDE DEF m, W, how
  <2> QED BY <2>1, <2>2, RunIs DEF W, how
<1>3. m.cnt = cnt /\ ~m.stopped /\ m.out = d /\ m.ones = o
  BY DEF Machine
<1>4. cnt \in Counters /\ val \in Colours /\ c \in Colours /\ d \in Outputs /\ o \in Int
  BY <1>2 DEF LoopStates, Machine
<1>5. count \in Counters
  <2>1. cnt \in Int
    BY <1>4 DEF Counters
  <2> QED BY <2>1, <1>4, CountersMod
<1>6. m2 \in LoopStates /\ [m EXCEPT !.cnt = count] = m2
  <2> HIDE DEF count
  <2>1. [m EXCEPT !.cnt = count] = m2
    BY MachineCount
  <2>2. m2 \in LoopStates
    BY <1>4, <1>5, MachineTyped
  <2> QED BY <2>1, <2>2
<1>70. Gives(w, how, c, count, val, d, o)
  <2> HIDE DEF count, how
  <2> QED BY <1>1, <1>6, WriteMachine
<1>7. w.out = d \o Pair(how, val, count) /\ w \in LoopStates
  BY <1>70, Zenon DEF Gives
<1>71. w.ones = IF count = 0 /\ how.packRuns THEN o + 1 ELSE o
  BY <1>70, Zenon DEF Gives
<1>8. WriteLast(how, m)
        = IF m.stopped \/ (how.padded /\ m.cnt < 15) THEN m
          ELSE LET u == Write(how, [m EXCEPT !.cnt = count]) IN
               IF how.padded /\ count = 0 THEN [u EXCEPT !.ones = u.ones - 1] ELSE u
  <2> HIDE DEF m
  <2> QED BY <1>1, <1>3 DEF WriteLast
<1>9. WriteLast(how, m)
        = IF padded /\ cnt < 15 THEN m
          ELSE IF padded /\ count = 0 THEN [w EXCEPT !.ones = w.ones - 1] ELSE w
  <2> HIDE DEF m, m2, count, padded, how
  <2> QED BY <1>1, <1>3, <1>6, <1>8
<1> HIDE DEF m, m2, count, padded, how, w
<1>10. CASE padded /\ cnt < 15
  BY <1>2, <1>3, <1>9, <1>10 DEF padded
<1>11. CASE ~(padded /\ cnt < 15)
  <2> DEFINE one == IF count = 0 /\ j.packRuns THEN 1 ELSE 0
             less == IF padded /\ count = 0 THEN 1 ELSE 0
  <2>1. Written(j) = IF padded /\ count = 0 THEN [w EXCEPT !.ones = w.ones - 1] ELSE w
    BY <1>2, <1>9, <1>11
  <2>2. Written(j).out = w.out /\ Written(j).ones = w.ones - less
    <3>1. w.ones \in Int
      BY <1>7 DEF LoopStates
    <3> QED BY <2>1, <3>1, <1>7 DEF LoopStates
  <2>3. w.ones = o + one
    <3>1. o \in Int /\ w.ones = IF count = 0 /\ how.packRuns THEN o + 1 ELSE o
      BY <1>4, <1>71
    <3> QED BY <3>1, <1>1
  <2> QED BY <1>7, <1>11, <2>2, <2>3 DEF padded, count, how
<1> QED BY <1>10, <1>11

----------------------------------------------------------------------------
(* The steps of the machine.                                                *)

LEMMA TwinsReadStep ==
  ASSUME FewColours, TwinInv, ReadNextLongword
  PROVE  TwinInv'
<1> DEFINE curr == WordsOf(job)[src]
           diff == Diffs(carry, curr)
           m == Machine(carry, rleCnt, rleVal, dst, runsOfOne)
<1>1. /\ rpc = "readNextLongword" /\ src <= Len(WordsOf(job)) /\ src' = src + 1
      /\ IF AllZero(diff)
         THEN /\ rleCnt' = (rleCnt + Size(job)) % MaxCount
              /\ UNCHANGED <<carry, test, loop, rpc>>
         ELSE /\ carry' = Last(curr) /\ test' = diff /\ loop' = Size(job) - 1
              /\ rpc' = "findNextPixel" /\ UNCHANGED rleCnt
      /\ UNCHANGED <<job, rleVal, dst, runsOfOne>>
  BY DEF ReadNextLongword, WordsOf, Size, Diffs, CarryInto
<1>2. job \in RleJobs /\ BetweenWords(job, src, carry, rleCnt, rleVal, dst, runsOfOne)
  BY <1>1 DEF TwinInv
<1>3. IF AllZero(diff)
      THEN BetweenWords(job, src + 1, carry, (rleCnt + Size(job)) % MaxCount, rleVal, dst, runsOfOne)
      ELSE InWord(job, src + 1, Last(curr), diff, Size(job) - 1, rleCnt, rleVal, dst, runsOfOne,
                  m, diff, 0)
  <2> HIDE DEF m
  <2> QED BY <1>1, <1>2, TwinsRead, Zenon DEF m
<1>4. CASE AllZero(diff)
  <2>1. BetweenWords(job', src', carry', rleCnt', rleVal', dst', runsOfOne') /\ rpc' = "readNextLongword"
    BY <1>1, <1>3, <1>4
  <2> QED BY <1>1, <1>2, <2>1 DEF TwinInv
<1>5. CASE ~AllZero(diff)
  <2> HIDE DEF diff, m, curr
  <2>1. InWord(job', src', carry', test', loop', rleCnt', rleVal', dst', runsOfOne', m, diff, 0)
        /\ rpc' = "findNextPixel"
    BY <1>1, <1>3, <1>5
  <2> QED BY <1>1, <1>2, <2>1 DEF TwinInv
<1> QED BY <1>4, <1>5

LEMMA TwinsNextPixel ==
  ASSUME FewColours, NEW before, NEW diffs, NEW k, NEW count,
         job \in RleJobs, rpc = "findNextPixel",
         InWord(job, src, carry, test, loop, rleCnt, rleVal, dst, runsOfOne, before, diffs, k),
         AfterPixels(HowOf(job), before, diffs, Size(job))[k + 1]
           = Machine(before.carry, count, rleVal', dst', runsOfOne'),
         NextPixel(count), job' = job, src' = src, carry' = carry
  PROVE  TwinInv'
<1>1. /\ count \in Counters
      /\ AllZero(Tail(test)) =>
           BetweenWords(job, src, carry, (count + loop) % MaxCount, rleVal', dst', runsOfOne')
      /\ ~AllZero(Tail(test)) =>
           loop # 0 /\ InWord(job, src, carry, Tail(test), loop - 1, count, rleVal', dst', runsOfOne',
                              before, diffs, k + 1)
  BY TwinsMove, Zenon
<1>2. CASE AllZero(Tail(test))
  <2>1. rleCnt' = (count + loop) % MaxCount /\ rpc' = "readNextLongword"
    BY <1>2 DEF NextPixel
  <2>2. BetweenWords(job', src', carry', rleCnt', rleVal', dst', runsOfOne')
    BY <1>1, <1>2, <2>1
  <2> QED BY <2>1, <2>2 DEF TwinInv
<1>3. CASE ~AllZero(Tail(test))
  <2>1. loop # 0
    BY <1>1, <1>3
  <2>2. test' = Tail(test) /\ rleCnt' = count /\ loop' = loop - 1 /\ rpc' = "findNextPixel"
    BY <1>3, <2>1 DEF NextPixel
  <2>3. InWord(job', src', carry', test', loop', rleCnt', rleVal', dst', runsOfOne', before, diffs, k + 1)
    BY <1>1, <1>3, <2>2
  <2> QED BY <2>2, <2>3 DEF TwinInv
<1> QED BY <1>2, <1>3

LEMMA TwinsFindStep ==
  ASSUME FewColours, TwinInv, FindNextPixel
  PROVE  TwinInv'
<1>1. /\ rpc = "findNextPixel" /\ Head(test) = 0 /\ NextPixel((rleCnt + 1) % MaxCount)
      /\ job' = job /\ src' = src /\ carry' = carry /\ rleVal' = rleVal /\ dst' = dst
      /\ runsOfOne' = runsOfOne
  BY DEF FindNextPixel
<1>2. job \in RleJobs
  BY DEF TwinInv
<1>3. PICK before, diffs, k :
        InWord(job, src, carry, test, loop, rleCnt, rleVal, dst, runsOfOne, before, diffs, k)
  BY <1>1 DEF TwinInv
<1> DEFINE how == HowOf(job)
           f == AfterPixels(how, before, diffs, Size(job))
           e == (rleCnt + 1) % MaxCount
<1>4. f[k] = Machine(before.carry, rleCnt, rleVal, dst, runsOfOne)
  BY <1>3 DEF InWord
<1>5. f[k + 1] = PixelStep(how, f[k], diffs[k + 1]) /\ Head(test) = diffs[k + 1]
  <2>1. InWordFacts(job, src, carry, test, rleCnt, rleVal, dst, runsOfOne, before, diffs, k)
    BY <1>2, <1>3, InWordIs, Zenon
  <2> QED BY <2>1 DEF InWordFacts
<1> HIDE DEF f, how
<1>6. f[k + 1] = Machine(before.carry, e, rleVal, dst, runsOfOne)
  BY <1>1, <1>4, <1>5, PixelCounted
<1>7. AfterPixels(HowOf(job), before, diffs, Size(job))[k + 1]
           = Machine(before.carry, e, rleVal', dst', runsOfOne')
  BY <1>1, <1>6 DEF f, how
<1>8. NextPixel(e) /\ job' = job /\ src' = src /\ carry' = carry /\ rpc = "findNextPixel"
  BY <1>1
<1> HIDE DEF e
<1> QED BY <1>2, <1>3, <1>7, <1>8, TwinsNextPixel, Zenon

LEMMA TwinsWriteStep ==
  ASSUME FewColours, TwinInv, WriteRle
  PROVE  TwinInv'
<1>1. job \in RleJobs /\ rpc = "findNextPixel"
  BY DEF TwinInv, WriteRle
<1>2. PICK before, diffs, k :
        InWord(job, src, carry, test, loop, rleCnt, rleVal, dst, runsOfOne, before, diffs, k)
  BY <1>1 DEF TwinInv
<1> DEFINE how == HowOf(job)
           f == AfterPixels(how, before, diffs, Size(job))
           m == Machine(before.carry, rleCnt, rleVal, dst, runsOfOne)
           diff == diffs[k + 1]
           out == dst \o Pair(how, rleVal, rleCnt)
           ones == IF rleCnt = 0 /\ how.packRuns THEN runsOfOne + 1 ELSE runsOfOne
<1>3. How = how /\ how.stop = job.stop /\ how.packRuns = job.packRuns
  BY DEF How, HowOf, Info, RleHow
<1>4. /\ Head(test) # 0 /\ dst' = out /\ runsOfOne' = ones
      /\ rleVal' = Differs(rleVal, Head(test))
      /\ IF Len(out) <= job.stop THEN NextPixel(0)
         ELSE rpc' = "done" /\ rleCnt' = 0 /\ UNCHANGED <<test, loop>>
      /\ job' = job /\ src' = src /\ carry' = carry
  <2>1. How = how /\ how.packRuns = job.packRuns
    BY <1>3
  <2> HIDE DEF how
  <2> QED BY <2>1 DEF WriteRle, AsmPair
<1>5. f[k] = m
  BY <1>2 DEF InWord
<1>6. /\ f[k + 1] = PixelStep(how, f[k], diff) /\ Head(test) = diff /\ m \in LoopStates
      /\ diff \in 0..255
  <2>1. InWordFacts(job, src, carry, test, rleCnt, rleVal, dst, runsOfOne, before, diffs, k)
    BY <1>1, <1>2, InWordIs, Zenon
  <2> QED BY <2>1 DEF InWordFacts
<1>7. Told(how)
  BY <1>1, HowTold
<1> HIDE DEF how, f, diff
<1>8. /\ Len(out) <= how.stop =>
           PixelStep(how, m, diff) = Machine(before.carry, 0, Differs(rleVal, diff), out, ones)
      /\ ~(Len(out) <= how.stop) =>
           /\ PixelStep(how, m, diff).stopped
           /\ PixelStep(how, m, diff).out = out /\ PixelStep(how, m, diff).ones = ones
  <2>1. diff # 0
    BY <1>4, <1>6
  <2>2. m \in LoopStates /\ diff \in 0..255
    BY <1>6
  <2> HIDE DEF m
  <2>3. Breaks(PixelStep(how, Machine(before.carry, rleCnt, rleVal, dst, runsOfOne), diff),
               how, before.carry, rleCnt, rleVal, dst, runsOfOne, diff)
    BY <1>7, <2>1, <2>2, PixelWritten, Zenon DEF m
  <2> QED BY <2>3, Zenon DEF m, Breaks
<1> HIDE DEF m, out, ones
<1>9. CASE Len(out) <= job.stop
  <2>1. f[k + 1] = Machine(before.carry, 0, rleVal', dst', runsOfOne')
    <3>1. PixelStep(how, m, diff) = Machine(before.carry, 0, Differs(rleVal, diff), out, ones)
      BY <1>3, <1>8, <1>9
    <3>2. f[k + 1] = PixelStep(how, m, diff)
      BY <1>5, <1>6
    <3>3. rleVal' = Differs(rleVal, diff) /\ dst' = out /\ runsOfOne' = ones
      BY <1>4, <1>6
    <3> QED BY <3>1, <3>2, <3>3
  <2>2. NextPixel(0) /\ job' = job /\ src' = src /\ carry' = carry
    BY <1>4, <1>9
  <2>3. AfterPixels(HowOf(job), before, diffs, Size(job))[k + 1]
          = Machine(before.carry, 0, rleVal', dst', runsOfOne')
    BY <2>1 DEF f, how
  <2> QED BY <1>1, <1>2, <2>2, <2>3, TwinsNextPixel, Zenon
<1>10. CASE ~(Len(out) <= job.stop)
  <2>1. f[k + 1].stopped /\ f[k + 1].out = out /\ f[k + 1].ones = ones
    BY <1>3, <1>5, <1>6, <1>8, <1>10
  <2>2. Written(job).out = f[k + 1].out /\ Written(job).ones = f[k + 1].ones
    <3>1. AfterPixels(HowOf(job), before, diffs, Size(job))[k + 1].stopped
      BY <2>1 DEF f, how
    <3>2. Returns(job, AfterPixels(HowOf(job), before, diffs, Size(job))[k + 1])
      BY <1>1, <1>2, <3>1, TwinsStop, Zenon
    <3> QED BY <3>2 DEF f, how, Returns
  <2>3. rpc' = "done" /\ job' = job /\ dst' = out /\ runsOfOne' = ones
    BY <1>4, <1>10
  <2>4. dst' = Written(job').out /\ runsOfOne' = Written(job').ones
    BY <2>1, <2>2, <2>3
  <2> QED BY <1>1, <2>3, <2>4 DEF TwinInv
<1> QED BY <1>9, <1>10

LEMMA TwinsLastStep ==
  ASSUME FewColours, TwinInv, WriteRleLast
  PROVE  TwinInv'
<1> DEFINE padded == HalfWord(job.depth, job.pixels)
           count  == IF padded THEN (rleCnt - 16) % MaxCount ELSE rleCnt
           one    == IF count = 0 /\ job.packRuns THEN 1 ELSE 0
           less   == IF padded /\ count = 0 THEN 1 ELSE 0
<1>1. /\ rpc = "readNextLongword" /\ src > Len(WordsOf(job)) /\ rpc' = "done" /\ job' = job
      /\ IF padded /\ rleCnt < 15 THEN dst' = dst /\ runsOfOne' = runsOfOne
         ELSE /\ dst' = dst \o Pair(HowOf(job), rleVal, count)
              /\ runsOfOne' = runsOfOne + (one - less)
  BY DEF WriteRleLast, WordsOf, HowOf, How, Info
<1>2. job \in RleJobs /\ BetweenWords(job, src, carry, rleCnt, rleVal, dst, runsOfOne)
  BY <1>1 DEF TwinInv
<1>3. IF padded /\ rleCnt < 15 THEN Written(job).out = dst /\ Written(job).ones = runsOfOne
      ELSE /\ Written(job).out = dst \o Pair(HowOf(job), rleVal, count)
           /\ Written(job).ones = (runsOfOne + one) - less
  BY <1>1, <1>2, TwinsLast, Zenon
<1>5. runsOfOne \in Int /\ one \in Int /\ less \in Int
  <2>1. Machine(carry, rleCnt, rleVal, dst, runsOfOne) \in LoopStates
    BY <1>2 DEF BetweenWords
  <2>2. runsOfOne \in Int
    BY <2>1, MachineTyped
  <2> QED BY <2>2
<1> HIDE DEF padded, count, one, less
<1>6. (runsOfOne + one) - less = runsOfOne + (one - less)
  BY <1>5
<1>4. dst' = Written(job').out /\ runsOfOne' = Written(job').ones
  BY <1>1, <1>3, <1>6
<1> QED BY <1>1, <1>2, <1>4 DEF TwinInv

\* Every step of the machine is one of the loop in C, or a part of one.
LEMMA TwinsNext ==
  ASSUME FewColours, TwinInv, [AsmNext]_avars
  PROVE  TwinInv'
<1>1. CASE ReadNextLongword
  BY <1>1, TwinsReadStep
<1>2. CASE FindNextPixel
  BY <1>2, TwinsFindStep
<1>3. CASE WriteRle
  BY <1>3, TwinsWriteStep
<1>4. CASE WriteRleLast
  BY <1>4, TwinsLastStep
<1>5. CASE UNCHANGED avars
  <2>1. /\ job' = job /\ src' = src /\ carry' = carry /\ test' = test /\ loop' = loop
        /\ rleCnt' = rleCnt /\ rleVal' = rleVal /\ dst' = dst /\ runsOfOne' = runsOfOne /\ rpc' = rpc
    BY <1>5 DEF avars, run
  <2> QED BY <2>1 DEF TwinInv
<1> QED BY <1>1, <1>2, <1>3, <1>4, <1>5 DEF AsmNext

----------------------------------------------------------------------------
(* What the twins return.                                                   *)

\* With few colours, cutting their number to 7 bits changes nothing.
LEMMA SameColours ==
  ASSUME FewColours, NEW j \in RleJobs
  PROVE  AsmToColors(j.depth, j.pixels) = NativeToColors(j.pixels)
<1> DEFINE found == Range(j.pixels)
           t == ColorTable(found)
           n == Cardinality(found)
<1>1. found \in SUBSET (0..255) /\ n <= PaletteSize
  BY JobIs DEF FewColours
<1>2. AsmTally(j.depth, j.pixels) = found
  BY JobIs, TallyIs
<1>3. t = [nColors |-> n, colorPal |-> t.colorPal, colorMap |-> t.colorMap]
  BY <1>1, TableIs
<1>4. n % 128 = n
  <2>1. n \in Nat
    BY <1>1, ColoursFinite
  <2> HIDE DEF n
  <2> QED BY <1>1, <2>1 DEF PaletteSize
<1> HIDE DEF t, n, found
<1>5. [t EXCEPT !.nColors = n] = t
  <2>1. \A p, m : [[nColors |-> n, colorPal |-> p, colorMap |-> m] EXCEPT !.nColors = n]
                    = [nColors |-> n, colorPal |-> p, colorMap |-> m]
    OBVIOUS
  <2> DEFINE p == t.colorPal
             m == t.colorMap
  <2>2. [[nColors |-> n, colorPal |-> p, colorMap |-> m] EXCEPT !.nColors = n]
                    = [nColors |-> n, colorPal |-> p, colorMap |-> m]
    BY <2>1
  <2> HIDE DEF p, m
  <2>3. t = [nColors |-> n, colorPal |-> p, colorMap |-> m]
    BY <1>3 DEF p, m
  <2> QED BY <2>2, <2>3
<1>6. AsmColorTable(found) = [t EXCEPT !.nColors = n % 128]
  BY DEF AsmColorTable, t, n
<1>7. AsmColorTable(found) = t
  BY <1>4, <1>5, <1>6
<1> QED BY <1>2, <1>7 DEF AsmToColors, NativeToColors, t, found

\* With two colours, the place of one is whether it is the second.
LEMMA SamePacked ==
  ASSUME FewColours, NEW j \in RleJobs, NEW bits \in {1, 2, 4},
         NativeToColors(j.pixels).nColors <= 2 ^ bits
  PROVE  AsmToPacked(j.pixels, bits, NativeToColors(j.pixels))
           = NativeToPacked(j.pixels, bits, NativeToColors(j.pixels))
<1> DEFINE row == j.pixels
           found == Range(row)
           t == ColorTable(found)
           n == Cardinality(found)
<1>1. found \in SUBSET (0..255) /\ n <= PaletteSize
  BY JobIs DEF FewColours
<1>2. /\ t = [nColors |-> n, colorPal |-> t.colorPal, colorMap |-> t.colorMap]
      /\ t.colorMap = [c \in found |-> Index(found, c)]
      /\ \A c \in found : t.colorPal[Index(found, c) + 1] = c
  BY <1>1, TableIs
<1>3. NativeToColors(row) = t
  BY DEF NativeToColors
<1>4. n \in Nat /\ \A c \in found : Index(found, c) \in Nat /\ Index(found, c) < n
  BY <1>1, ColoursFinite, IndexOrder
<1>5. \A i \in DOMAIN row : row[i] \in found
  BY DEF Range
<1> HIDE DEF t, n, found, row
<1>6. t.nColors = n
  BY <1>2
<1>7. n <= 2 ^ bits
  BY <1>3, <1>6 DEF row
<1>8. \A c \in found : Place(t.colorMap, c) = Index(found, c)
  BY <1>2 DEF Place
<1>9. 2 ^ 1 = 2 /\ 2 ^ 2 = 4 /\ 2 ^ 4 = 16
  OBVIOUS
<1>10. ASSUME NEW i \in DOMAIN row
       PROVE  (IF bits = 1 THEN IF row[i] = t.colorPal[1] THEN 0 ELSE 1
               ELSE Place(t.colorMap, row[i])) = Place(t.colorMap, row[i]) % (2 ^ bits)
  <2> DEFINE x == Index(found, row[i])
  <2>1. row[i] \in found /\ x \in Nat /\ x < n /\ Place(t.colorMap, row[i]) = x
    BY <1>4, <1>5, <1>8
  <2>2. CASE bits = 1
    <3>1. PICK c \in found : Index(found, c) = 0
      <4>1. 0 \in Nat /\ 0 < n
        BY <1>4, <2>1
      <4> QED BY <1>1, <4>1, IndexAll DEF n
    <3>2. t.colorPal[1] = c
      <4>1. Index(found, c) + 1 = 1
        BY <3>1
      <4> QED BY <1>2, <4>1
    <3>3. row[i] = c <=> x = 0
      BY <1>1, <2>1, <3>1, IndexOrder
    <3>4. x \in {0, 1} /\ 2 ^ bits = 2
      BY <1>4, <1>7, <1>9, <2>1, <2>2
    <3> HIDE DEF x
    <3> QED BY <2>1, <2>2, <3>2, <3>3, <3>4
  <2>3. CASE bits # 1
    <3> HIDE DEF x
    <3>1. 2 ^ bits \in {4, 16}
      BY <1>9, <2>3
    <3>2. x % (2 ^ bits) = x
      <4> DEFINE b == 2 ^ bits
      <4>1. b \in {4, 16} /\ x \in Nat /\ x < b
        BY <1>4, <1>7, <2>1, <3>1
      <4> HIDE DEF b
      <4>2. x % b = x
        BY <4>1
      <4> QED BY <4>2 DEF b
    <3> QED BY <2>1, <2>3, <3>2
  <2> QED BY <2>2, <2>3
<1>11. AsmToPacked(row, bits, t) = NativeToPacked(row, bits, t)
  <2> DEFINE e(i) == IF bits = 1 THEN IF row[i] = t.colorPal[1] THEN 0 ELSE 1
                     ELSE Place(t.colorMap, row[i])
             g(i) == Place(t.colorMap, row[i]) % (2 ^ bits)
  <2>1. AsmToPacked(row, bits, t) = [i \in DOMAIN row |-> e(i)]
        /\ NativeToPacked(row, bits, t) = [i \in DOMAIN row |-> g(i)]
    BY DEF AsmToPacked, NativeToPacked
  <2>2. \A i \in DOMAIN row : e(i) = g(i)
    BY <1>10
  <2> HIDE DEF e, g
  <2> QED BY <2>1, <2>2
<1> QED BY <1>3, <1>11 DEF row

\* The machine for the 68020 writes what the routine in C writes.
THEOREM TwinsTheSame == FewColours => (AsmSpec => []TwinsAgree)
<1> SUFFICES ASSUME FewColours PROVE AsmSpec => []TwinsAgree
  OBVIOUS
<1>1. AsmInit => TwinInv
  BY TwinsBegin
<1>2. TwinInv /\ [AsmNext]_avars => TwinInv'
  BY TwinsNext
<1>3. TwinInv => TwinsAgree
  <2> SUFFICES ASSUME TwinInv, rpc = "done" PROVE TwinsAgree
    BY DEF TwinsAgree
  <2>1. job \in RleJobs /\ dst = Written(job).out /\ runsOfOne = Written(job).ones
    BY DEF TwinInv
  <2>2. Written(job) = NativeToRle(job.depth, job.pixels, How)
    BY DEF Written, HowOf, How, Info
  <2>3. AsmToColors(job.depth, job.pixels) = Info
    BY <2>1, SameColours DEF Info
  <2>4. \A bits \in {1, 2, 4} :
         Info.nColors <= 2 ^ bits =>
           AsmToPacked(job.pixels, bits, Info) = NativeToPacked(job.pixels, bits, Info)
    BY <2>1, SamePacked DEF Info
  <2> QED BY <2>1, <2>2, <2>3, <2>4 DEF TwinsAgree
<1> QED BY <1>1, <1>2, <1>3, PTL DEF AsmSpec

----------------------------------------------------------------------------
(* The bytes that nativeToRle writes for Hextile: a colour and a count for each *)
(* run of equal pixels, however the runs lie in the words.                  *)

\* As Hextile is told to write: a byte for the colour, and bytes for the count.
Bytewise(how) ==
  Told(how) /\ ~how.packRuns /\ ~how.mapColors /\ how.colorSize = 1 /\ how.stop = 512

\* Two sequences that are joined.
LEMMA Joined ==
  ASSUME NEW a \in Seq(Int), NEW b \in Seq(Int)
  PROVE  /\ a \o b \in Seq(Int) /\ Len(a \o b) = Len(a) + Len(b)
         /\ \A i \in 1..(Len(a) + Len(b)) : (a \o b)[i] = IF i <= Len(a) THEN a[i] ELSE b[i - Len(a)]
BY ConcatProperties

\* A count of up to 254 is one byte, and of 255 its first is.
LEMMA CountIs ==
  ASSUME NEW c \in 0..255
  PROVE  /\ Counts(c) \in Seq(Int) /\ Counts(c)[1] = c
         /\ (c <= 254 => Len(Counts(c)) = 1) /\ Len(Counts(c)) \in Nat \ {0}
<1>1. Counts(c) \in Seq(Int) /\ Len(Counts(c)) = (c \div 255) + 1
  <2>1. c \in Nat
    OBVIOUS
  <2> QED BY <2>1, CountsTyped
<1>2. CASE c <= 254
  <2>1. c \div 255 = 0 /\ c % 255 = c
    BY <1>2
  <2> DEFINE a == [i \in 1..(c \div 255) |-> 255]
             b == <<c % 255>>
  <2>2. a \in Seq(Int) /\ Len(a) = 0 /\ b \in Seq(Int) /\ Len(b) = 1 /\ b[1] = c
    BY <2>1
  <2>3. Counts(c) = a \o b
    BY DEF Counts
  <2> HIDE DEF a, b
  <2>4. (a \o b)[1] = b[1]
    BY <2>2
  <2> QED BY <1>1, <2>1, <2>2, <2>3, <2>4
<1>3. CASE c = 255
  <2>1. c \div 255 = 1 /\ c % 255 = 0
    BY <1>3
  <2> DEFINE a == [i \in 1..(c \div 255) |-> 255]
             b == <<c % 255>>
  <2>2. a \in Seq(Int) /\ Len(a) = 1 /\ b \in Seq(Int) /\ Len(b) = 1 /\ a[1] = 255
    BY <2>1
  <2>3. Counts(c) = a \o b
    BY DEF Counts
  <2> HIDE DEF a, b
  <2>4. /\ a \o b \in Seq(Int) /\ Len(a \o b) = Len(a) + Len(b)
        /\ \A i \in 1..(Len(a) + Len(b)) :
             (a \o b)[i] = IF i <= Len(a) THEN a[i] ELSE b[i - Len(a)]
    <3>1. a \in Seq(Int) /\ b \in Seq(Int)
      BY <2>2
    <3> QED BY <3>1, Joined
  <2>5. (a \o b)[1] = a[1]
    <3>1. 1 \in 1..(Len(a) + Len(b)) /\ 1 <= Len(a)
      BY <2>2
    <3> QED BY <2>4, <3>1
  <2> QED BY <1>1, <1>3, <2>1, <2>2, <2>3, <2>5
<1> QED BY <1>2, <1>3

\* The pair of a run of up to 256 pixels.
PairBytes(p, v, c) ==
  /\ p \in Seq(Int) /\ Len(p) >= 2 /\ Len(p) \in Nat /\ (c <= 254 => Len(p) = 2)
  /\ p[1] = v /\ p[2] = c

\* A pair is a colour and a count.
LEMMA PairIs ==
  ASSUME NEW how, Bytewise(how), NEW v \in 0..255, NEW c \in 0..255
  PROVE  PairBytes(Pair(how, v, c), v, c)
<1> DEFINE gap == [i \in 1..(how.colorSize - 1) |-> Gap]
           n == Counts(c)
<1>1. Pair(how, v, c) = (<<v>> \o gap) \o n
  <2> DEFINE color == IF how.mapColors THEN Place(how.colorMap, v) ELSE v
             first == IF how.packRuns /\ color < 128 THEN 128 + color ELSE color
  <2>1. ~how.packRuns /\ ~how.mapColors
    BY DEF Bytewise
  <2>2. ~(c = 0 /\ how.packRuns)
    BY <2>1
  <2>3. Pair(how, v, c) = (<<first>> \o gap) \o n
    BY <2>2 DEF Pair
  <2>4. color = v
    BY <2>1
  <2>5. first = v
    BY <2>1, <2>4
  <2> HIDE DEF first, color, gap, n
  <2> QED BY <2>3, <2>5
<1>2. gap \in Seq(Int) /\ Len(gap) = 0
  <2>1. how.colorSize - 1 = 0
    BY DEF Bytewise
  <2> QED BY <2>1
<1>3. n \in Seq(Int) /\ n[1] = c /\ (c <= 254 => Len(n) = 1) /\ Len(n) \in Nat \ {0}
  BY CountIs
<1> HIDE DEF gap, n
<1>4. <<v>> \in Seq(Int) /\ Len(<<v>>) = 1 /\ <<v>>[1] = v
  OBVIOUS
<1>5. /\ <<v>> \o gap \in Seq(Int) /\ Len(<<v>> \o gap) = 1
      /\ (<<v>> \o gap)[1] = v
  BY <1>2, <1>4
<1> DEFINE p == <<v>> \o gap
<1> HIDE DEF p
<1>6. p \o n \in Seq(Int) /\ Len(p \o n) = 1 + Len(n) /\ (p \o n)[1] = v /\ (p \o n)[2] = n[1]
  BY <1>3, <1>5 DEF p
<1> DEFINE o == p \o n
           l == Len(n)
<1>7. Pair(how, v, c) = o /\ o \in Seq(Int) /\ o[1] = v /\ o[2] = c
  BY <1>1, <1>3, <1>6, Zenon DEF p
<1>8. Len(o) = 1 + l /\ l \in Nat \ {0} /\ (c <= 254 => l = 1)
  BY <1>3, <1>6, Zenon
<1> HIDE DEF o, l
<1>9. Len(o) >= 2 /\ Len(o) \in Nat /\ (c <= 254 => Len(o) = 2)
  BY <1>8
<1> QED BY <1>7, <1>9, Zenon DEF PairBytes

\* The pixels behind place a up to place b are equal.
Alike(P, a, b) == \A k \in (a + 1)..b : P[k] = P[a + 1]

\* The pairs of the runs that end at the places E.
PairsAre(P, out, m, E) ==
  \A i \in 1..m :
    /\ E[i - 1] < E[i] /\ Alike(P, E[i - 1], E[i])
    /\ out[2 * i - 1] = P[E[i - 1] + 1] /\ out[2 * i] = (E[i] - E[i - 1]) - 1

\* m runs have ended among q pixels, and the next is begun.
Span(m, E, q) ==
  m \in Nat /\ E \in [0..m -> 0..q] /\ E[0] = 0 /\ m <= E[m] /\ (E[m] < q \/ q = 0)

Breaking(P, m, E) == \A i \in 1..m : P[E[i]] # P[E[i] + 1]

\* The counter of a run that began behind place e begins one below 0.
CountUp(q, e) == (65535 + (q - e)) % MaxCount

\* The loop after q of the pixels.
RunState(s, P, q, m, E) ==
  /\ s \in LoopStates /\ ~s.stopped /\ Span(m, E, q)
  /\ PairsAre(P, s.out, m, E) /\ Len(s.out) = 2 * m /\ Breaking(P, m, E)
  /\ s.val = P[E[m] + 1] /\ Alike(P, E[m], q) /\ s.cnt = CountUp(q, E[m])

RunsSoFar(s, P, q) == \E m, E : RunState(s, P, q, m, E)

\* The colour of the run is that of the last pixel.
LEMMA RunColour ==
  ASSUME NEW s, NEW P, NEW q \in Nat, RunsSoFar(s, P, q)
  PROVE  s.val = (IF q = 0 THEN P[1] ELSE P[q]) /\ s \in LoopStates /\ ~s.stopped
<1>1. PICK m, E : RunState(s, P, q, m, E)
  BY DEF RunsSoFar
<1>2. /\ s \in LoopStates /\ ~s.stopped /\ m \in Nat /\ E \in [0..m -> 0..q]
      /\ E[0] = 0 /\ m <= E[m] /\ (E[m] < q \/ q = 0) /\ s.val = P[E[m] + 1] /\ Alike(P, E[m], q)
  BY <1>1 DEF RunState, Span
<1>3. E[m] \in 0..q
  BY <1>2
<1>4. CASE q = 0
  <2>1. E[m] + 1 = 1
    BY <1>3, <1>4
  <2> QED BY <1>2, <1>4, <2>1
<1>5. CASE q # 0
  <2>1. q \in (E[m] + 1)..q
    BY <1>2, <1>3, <1>5
  <2> QED BY <1>2, <1>5, <2>1 DEF Alike
<1> QED BY <1>2, <1>4, <1>5

\* A pair behind m of them.
LEMMA PairBehind ==
  ASSUME NEW a \in Seq(Int), NEW m \in Nat, Len(a) = 2 * m, NEW b \in Seq(Int), Len(b) >= 2
  PROVE  /\ a \o b \in Seq(Int) /\ Len(a \o b) = 2 * m + Len(b)
         /\ \A i \in 1..(2 * m) : (a \o b)[i] = a[i]
         /\ (a \o b)[2 * m + 1] = b[1] /\ (a \o b)[2 * m + 2] = b[2]
<1>1. /\ a \o b \in Seq(Int) /\ Len(a \o b) = Len(a) + Len(b)
      /\ \A i \in 1..(Len(a) + Len(b)) : (a \o b)[i] = IF i <= Len(a) THEN a[i] ELSE b[i - Len(a)]
  BY Joined
<1>2. Len(b) \in Nat
  OBVIOUS
<1>3. ASSUME NEW i \in 1..(2 * m) PROVE (a \o b)[i] = a[i]
  <2>1. i \in 1..(Len(a) + Len(b)) /\ i <= Len(a)
    BY <1>2
  <2> QED BY <1>1, <2>1
<1>4. ASSUME NEW k \in {1, 2} PROVE (a \o b)[2 * m + k] = b[k]
  <2>1. 2 * m + k \in 1..(Len(a) + Len(b)) /\ ~(2 * m + k <= Len(a)) /\ (2 * m + k) - Len(a) = k
    BY <1>2
  <2> QED BY <1>1, <2>1
<1> QED BY <1>1, <1>3, <1>4

\* The counter after one pixel more, and at the end of a run.
LEMMA CountMore ==
  ASSUME NEW e \in Nat, NEW q \in Nat, e <= q, e < q \/ q = 0, q < 256
  PROVE  (CountUp(q, e) + 1) % MaxCount = CountUp(q + 1, e)
BY DEF MaxCount, CountUp

\* The counter of a run, which begins at one less than nothing.
LEMMA CountOfRun ==
  ASSUME NEW e \in Nat, NEW q \in Nat, e < q, q <= 256
  PROVE  CountUp(q, e) = (q - e) - 1
BY DEF MaxCount, CountUp

\* The next pixel has the colour of the run.
LEMMA RunLonger ==
  ASSUME NEW how, NEW P \in Seq(0..255), NEW q \in Nat, q < Len(P), Len(P) <= 256,
         NEW s, NEW m, NEW E, RunState(s, P, q, m, E), P[q + 1] = s.val
  PROVE  RunState(PixelStep(how, s, 0), P, q + 1, m, E)
<1> DEFINE c == (s.cnt + 1) % MaxCount
           n == [s EXCEPT !.cnt = c]
           e == E[m]
<1>1. /\ s \in LoopStates /\ ~s.stopped /\ Span(m, E, q)
      /\ PairsAre(P, s.out, m, E) /\ Len(s.out) = 2 * m /\ Breaking(P, m, E)
      /\ s.val = P[e + 1] /\ Alike(P, e, q) /\ s.cnt = CountUp(q, e)
  BY DEF RunState
<1>2. PixelStep(how, s, 0) = n
  BY <1>1 DEF PixelStep
<1>3. c \in Counters
  BY <1>1, StateTyped, CountersMod
<1>4. n \in LoopStates /\ n.cnt = c /\ n.val = s.val /\ n.out = s.out /\ n.stopped = s.stopped
  <2> HIDE DEF c
  <2> QED BY <1>1, <1>3 DEF LoopStates
<1>5. m \in Nat /\ E \in [0..m -> 0..q] /\ E[0] = 0 /\ m <= e /\ (e < q \/ q = 0)
  BY <1>1 DEF Span
<1>6. e \in 0..q /\ e \in Nat /\ e <= q /\ q < 256
  BY <1>5
<1> HIDE DEF n, e
<1>7. c = CountUp(q + 1, e)
  BY <1>1, <1>5, <1>6, CountMore, Zenon
<1>8. Alike(P, e, q + 1)
  <2> SUFFICES ASSUME NEW k \in (e + 1)..(q + 1) PROVE P[k] = P[e + 1]
    BY DEF Alike
  <2>1. CASE k = q + 1
    BY <1>1, <2>1
  <2>2. CASE k # q + 1
    <3>1. k \in (e + 1)..q
      BY <1>6, <2>2
    <3> QED BY <1>1, <3>1 DEF Alike
  <2> QED BY <2>1, <2>2
<1>9. Span(m, E, q + 1)
  <2>1. E \in [0..m -> 0..q] /\ 0..q \subseteq 0..(q + 1)
    BY <1>5
  <2>2. E \in [0..m -> 0..(q + 1)]
    BY <2>1, Zenon
  <2>3. m <= E[m] /\ E[m] < q + 1
    BY <1>5, <1>6 DEF e
  <2> QED BY <1>5, <2>2, <2>3 DEF Span
<1> HIDE DEF c
<1>10. RunState(n, P, q + 1, m, E)
  BY <1>1, <1>4, <1>7, <1>8, <1>9, Zenon DEF RunState, e
<1> QED BY <1>2, <1>10, Zenon

\* Another colour: the run has ended at place q.
LEMMA RunEnds ==
  ASSUME NEW how, Bytewise(how), NEW P \in Seq(0..255), NEW q \in Nat, q < Len(P),
         Len(P) <= 256, q # 0,
         NEW s, NEW m, NEW E, RunState(s, P, q, m, E), P[q + 1] # s.val
  PROVE  \E F : RunState(PixelStep(how, s, Differs(P[q + 1], s.val)), P, q + 1, m + 1, F)
<1> DEFINE e == E[m]
           c == (q - e) - 1
           pair == Pair(how, s.val, c)
           w == Write(how, s)
           diff == Differs(P[q + 1], s.val)
           n == [w EXCEPT !.val = P[q + 1], !.cnt = 0]
           F == [i \in 0..(m + 1) |-> IF i <= m THEN E[i] ELSE q]
<1>1. /\ s \in LoopStates /\ ~s.stopped /\ Span(m, E, q)
      /\ PairsAre(P, s.out, m, E) /\ Len(s.out) = 2 * m /\ Breaking(P, m, E)
      /\ s.val = P[e + 1] /\ Alike(P, e, q) /\ s.cnt = CountUp(q, e)
  BY DEF RunState
<1>2. m \in Nat /\ E \in [0..m -> 0..q] /\ E[0] = 0 /\ m <= e /\ (e < q \/ q = 0)
  BY <1>1 DEF Span
<1>3. e \in 0..q /\ e \in Nat /\ e < q /\ q <= 255 /\ q <= 256
  BY <1>2
<1>4. s.cnt = c /\ c \in 0..255 /\ c <= 254
  <2>1. CountUp(q, e) = (q - e) - 1
    BY <1>3, CountOfRun
  <2> HIDE DEF e
  <2> QED BY <1>1, <1>3, <2>1
<1>5. s.val \in 0..255 /\ s.out \in Seq(Int) /\ P[q + 1] \in 0..255
  <2>1. q + 1 \in 1..Len(P)
    OBVIOUS
  <2>2. P[q + 1] \in 0..255
    BY <2>1, ElementOfSeq
  <2> QED BY <1>1, <2>2, StateTyped
<1>6. pair \in Seq(Int) /\ Len(pair) = 2 /\ pair[1] = s.val /\ pair[2] = c
  <2>1. s.val \in 0..255 /\ c \in 0..255
    BY <1>4, <1>5
  <2>2. /\ pair \in Seq(Int) /\ Len(pair) >= 2 /\ Len(pair) \in Nat
        /\ (c <= 254 => Len(pair) = 2) /\ pair[1] = s.val /\ pair[2] = c
    <3>1. PairBytes(pair, s.val, c)
      <4> HIDE DEF c
      <4> QED BY <2>1, PairIs
    <3> HIDE DEF c, pair
    <3> QED BY <3>1 DEF PairBytes
  <2> QED BY <1>4, <2>2
<1> HIDE DEF c, e
<1>7. /\ w \in LoopStates /\ w.out = s.out \o pair
      /\ w.stopped = (Len(s.out \o pair) > how.stop)
  <2>1. Told(how)
    BY DEF Bytewise
  <2>2. pair = Pair(how, s.val, s.cnt)
    BY <1>4
  <2> HIDE DEF w, pair
  <2> QED BY <2>1, <2>2, <1>1, WriteIs DEF w
<1> HIDE DEF pair
<1>8. s.out \o pair \in Seq(Int) /\ Len(s.out \o pair) = 2 * m + 2
      /\ (\A i \in 1..(2 * m) : (s.out \o pair)[i] = s.out[i])
      /\ (s.out \o pair)[2 * m + 1] = s.val /\ (s.out \o pair)[2 * m + 2] = c
  <2> DEFINE o == s.out
  <2>1. o \in Seq(Int) /\ Len(o) = 2 * m
    BY <1>1, <1>5
  <2> HIDE DEF o
  <2>2. /\ o \o pair \in Seq(Int) /\ Len(o \o pair) = 2 * m + 2
        /\ (\A i \in 1..(2 * m) : (o \o pair)[i] = o[i])
        /\ (o \o pair)[2 * m + 1] = pair[1] /\ (o \o pair)[2 * m + 2] = pair[2]
    <3>1. m \in Nat /\ pair \in Seq(Int) /\ Len(pair) >= 2
      BY <1>2, <1>6
    <3>2. /\ o \o pair \in Seq(Int) /\ Len(o \o pair) = 2 * m + Len(pair)
          /\ (\A i \in 1..(2 * m) : (o \o pair)[i] = o[i])
          /\ (o \o pair)[2 * m + 1] = pair[1] /\ (o \o pair)[2 * m + 2] = pair[2]
      BY <3>1, <2>1, PairBehind, Zenon
    <3> QED BY <1>6, <3>2
  <2> QED BY <1>6, <2>2 DEF o
<1>9. ~w.stopped
  <2>1. 2 * m + 2 <= 512
    BY <1>2, <1>3 DEF e
  <2>2. how.stop = 512
    BY DEF Bytewise
  <2>3. ~(Len(s.out \o pair) > how.stop)
    BY <1>2, <1>8, <2>1, <2>2
  <2> HIDE DEF w
  <2> QED BY <1>7, <2>3, Zenon
<1>10. PixelStep(how, s, diff) = n
  <2>1. diff # 0 /\ Differs(s.val, diff) = P[q + 1]
    <3>1. diff \in 1..255 /\ Differs(s.val, diff) = P[q + 1]
      BY <1>5, DiffersBack
    <3> HIDE DEF diff
    <3> QED BY <3>1
  <2> HIDE DEF diff
  <2>2. PixelStep(how, s, diff)
          = IF w.stopped THEN w ELSE [w EXCEPT !.val = Differs(s.val, diff), !.cnt = 0]
    BY <1>1, <2>1 DEF PixelStep
  <2> HIDE DEF w
  <2> QED BY <1>9, <2>1, <2>2
<1> HIDE DEF w
<1>11. n \in LoopStates /\ n.val = P[q + 1] /\ n.cnt = 0 /\ n.out = w.out /\ ~n.stopped
  <2> DEFINE v == P[q + 1]
  <2>1. v \in Colours /\ 0 \in Counters
    BY <1>5, ZeroCounter DEF Colours
  <2> HIDE DEF v
  <2>2. n = [w EXCEPT !.val = v, !.cnt = 0]
    BY DEF v
  <2> HIDE DEF n
  <2>3. n \in LoopStates /\ n.val = v /\ n.cnt = 0 /\ n.out = w.out /\ n.stopped = w.stopped
    BY <1>7, <2>1, <2>2 DEF LoopStates
  <2> QED BY <1>9, <2>3 DEF v
<1>12. (\A i \in 0..m : F[i] = E[i]) /\ F[m + 1] = q
  BY <1>2
<1>13. Span(m + 1, F, q + 1)
  <2>1. F \in [0..(m + 1) -> 0..(q + 1)]
    BY <1>2
  <2>2. F[0] = 0 /\ m + 1 <= q
    BY <1>2, <1>3, <1>12 DEF e
  <2> HIDE DEF F
  <2> QED BY <1>2, <1>12, <2>1, <2>2 DEF Span
<1> HIDE DEF F, n
<1>14. PairsAre(P, n.out, m + 1, F)
  <2> SUFFICES ASSUME NEW i \in 1..(m + 1)
               PROVE  /\ F[i - 1] < F[i] /\ Alike(P, F[i - 1], F[i])
                      /\ n.out[2 * i - 1] = P[F[i - 1] + 1] /\ n.out[2 * i] = (F[i] - F[i - 1]) - 1
    BY DEF PairsAre
  <2>1. CASE i = m + 1
    <3>1. F[i - 1] = e /\ F[i] = q /\ 2 * i - 1 = 2 * m + 1 /\ 2 * i = 2 * m + 2
      <4>1. i - 1 = m /\ m \in 0..m /\ 2 * i - 1 = 2 * m + 1 /\ 2 * i = 2 * m + 2
        BY <1>2, <2>1
      <4> QED BY <1>12, <2>1, <4>1 DEF e
    <3>2. n.out[2 * m + 1] = s.val /\ n.out[2 * m + 2] = c
      BY <1>7, <1>8, <1>11
    <3> QED BY <1>1, <1>3, <3>1, <3>2 DEF c
  <2>2. CASE i # m + 1
    <3>1. i \in 1..m /\ i \in 0..m /\ i - 1 \in 0..m /\ 2 * i - 1 \in 1..(2 * m) /\ 2 * i \in 1..(2 * m)
      BY <1>2, <2>2
    <3>2. F[i] = E[i] /\ F[i - 1] = E[i - 1]
      BY <1>12, <3>1
    <3>3. n.out[2 * i - 1] = s.out[2 * i - 1] /\ n.out[2 * i] = s.out[2 * i]
      BY <1>7, <1>8, <1>11, <3>1
    <3>4. /\ E[i - 1] < E[i] /\ Alike(P, E[i - 1], E[i])
          /\ s.out[2 * i - 1] = P[E[i - 1] + 1] /\ s.out[2 * i] = (E[i] - E[i - 1]) - 1
      BY <1>1, <3>1, Zenon DEF PairsAre
    <3> QED BY <3>2, <3>3, <3>4, Zenon
  <2> QED BY <2>1, <2>2
<1>15. Breaking(P, m + 1, F)
  <2> SUFFICES ASSUME NEW i \in 1..(m + 1) PROVE P[F[i]] # P[F[i] + 1]
    BY DEF Breaking
  <2>1. CASE i = m + 1
    <3>1. P[q] = s.val
      <4>1. q \in (e + 1)..q
        BY <1>3
      <4> QED BY <1>1, <4>1 DEF Alike
    <3> QED BY <1>12, <2>1, <3>1
  <2>2. CASE i # m + 1
    <3>1. i \in 1..m /\ i \in 0..m
      BY <1>2, <2>2
    <3> QED BY <1>1, <1>12, <3>1 DEF Breaking
  <2> QED BY <2>1, <2>2
<1>16. Alike(P, q, q + 1)
  <2> SUFFICES ASSUME NEW k \in (q + 1)..(q + 1) PROVE P[k] = P[q + 1]
    BY DEF Alike
  <2>1. k = q + 1
    OBVIOUS
  <2> QED BY <2>1
<1>17. CountUp(q + 1, q) = 0
  <2>1. q + 1 \in Nat /\ q < q + 1 /\ q + 1 <= 256
    BY <1>3
  <2>2. CountUp(q + 1, q) = ((q + 1) - q) - 1
    BY <2>1, CountOfRun
  <2> QED BY <2>2
<1>18. Len(n.out) = 2 * (m + 1)
  BY <1>2, <1>7, <1>8, <1>11
<1>19. RunState(n, P, q + 1, m + 1, F)
  <2>1. ~n.stopped /\ n.val = P[F[m + 1] + 1] /\ Alike(P, F[m + 1], q + 1)
        /\ n.cnt = CountUp(q + 1, F[m + 1])
    BY <1>11, <1>12, <1>16, <1>17
  <2> QED BY <1>11, <1>13, <1>14, <1>15, <1>18, <2>1, Zenon DEF RunState
<1>20. RunState(PixelStep(how, s, diff), P, q + 1, m + 1, F)
  BY <1>10, <1>19, Zenon
<1> QED BY <1>20

\* The pixel before the one behind q.
Before(P, q) == IF q = 0 THEN P[1] ELSE P[q]

\* The loop reads one pixel more.
LEMMA PixelGoesOn ==
  ASSUME NEW how, Bytewise(how), NEW P \in Seq(0..255), NEW q \in Nat, q < Len(P),
         Len(P) <= 256, NEW s, RunsSoFar(s, P, q)
  PROVE  RunsSoFar(PixelStep(how, s, Differs(P[q + 1], Before(P, q))), P, q + 1)
<1>1. PICK m, E : RunState(s, P, q, m, E)
  BY DEF RunsSoFar
<1>2. s.val = Before(P, q)
  BY RunColour DEF Before
<1>3. CASE P[q + 1] = s.val
  <2>1. Differs(P[q + 1], Before(P, q)) = 0
    BY <1>2, <1>3, Zenon DEF Differs
  <2>2. RunState(PixelStep(how, s, 0), P, q + 1, m, E)
    BY <1>1, <1>3, RunLonger
  <2> QED BY <2>1, <2>2 DEF RunsSoFar
<1>4. CASE P[q + 1] # s.val
  <2>1. q # 0
    BY <1>2, <1>4 DEF Before
  <2>2. \E F : RunState(PixelStep(how, s, Differs(P[q + 1], s.val)), P, q + 1, m + 1, F)
    BY <1>1, <1>4, <2>1, RunEnds
  <2> QED BY <1>2, <2>2 DEF RunsSoFar
<1> QED BY <1>3, <1>4

\* The carry says nothing about the runs.
LEMMA CarryFree ==
  ASSUME NEW s, NEW P, NEW q, RunsSoFar(s, P, q), NEW c \in 0..255
  PROVE  /\ RunsSoFar([s EXCEPT !.carry = c], P, q)
         /\ [s EXCEPT !.carry = c].carry = c /\ [s EXCEPT !.carry = c].val = s.val
<1> DEFINE n == [s EXCEPT !.carry = c]
<1>1. PICK m, E : RunState(s, P, q, m, E)
  BY DEF RunsSoFar
<1>2. /\ s \in LoopStates /\ ~s.stopped /\ Span(m, E, q)
      /\ PairsAre(P, s.out, m, E) /\ Len(s.out) = 2 * m /\ Breaking(P, m, E)
      /\ s.val = P[E[m] + 1] /\ Alike(P, E[m], q) /\ s.cnt = CountUp(q, E[m])
  BY <1>1 DEF RunState
<1>3. c \in Colours
  BY DEF Colours
<1>4. /\ n \in LoopStates /\ n.cnt = s.cnt /\ n.val = s.val /\ n.out = s.out
      /\ n.stopped = s.stopped /\ n.carry = c
  BY <1>2, <1>3 DEF LoopStates
<1> HIDE DEF n
<1>5. RunState(n, P, q, m, E)
  BY <1>2, <1>4, Zenon DEF RunState
<1> QED BY <1>4, <1>5 DEF RunsSoFar, n

\* The loop reads some pixels more, those of a word.
LEMMA PixelsGoOn ==
  ASSUME NEW how, Bytewise(how), NEW P \in Seq(0..255), Len(P) <= 256,
         NEW q \in Nat, NEW n \in Nat, q + n <= Len(P), NEW s, RunsSoFar(s, P, q), NEW diffs,
         \A i \in 1..n : diffs[i] = Differs(P[(q + (i - 1)) + 1], Before(P, q + (i - 1)))
  PROVE  \A i \in 0..n : RunsSoFar(AfterPixels(how, s, diffs, n)[i], P, q + i)
<1> DEFINE f == AfterPixels(how, s, diffs, n)
           B == {i \in 0..n : ~RunsSoFar(f[i], P, q + i)}
<1> SUFFICES ASSUME B # {} PROVE FALSE
  OBVIOUS
<1>1. PICK i \in B : \A k \in B : i <= k
  <2>1. B \in SUBSET Nat
    OBVIOUS
  <2> HIDE DEF B
  <2> QED BY <2>1, LeastNumber
<1>2. i \in 0..n /\ ~RunsSoFar(f[i], P, q + i)
  OBVIOUS
<1>3. f[0] = s /\ \A k \in 1..n : f[k] = PixelStep(how, f[k - 1], diffs[k])
  BY AfterPixelsIs
<1>4. i # 0
  <2>1. q + 0 = q
    OBVIOUS
  <2> HIDE DEF f, B
  <2> QED BY <1>2, <1>3, <2>1
<1>5. i \in 1..n /\ i - 1 \in 0..n /\ i - 1 < i
  BY <1>2, <1>4
<1>6. RunsSoFar(f[i - 1], P, q + (i - 1))
  <2>1. i - 1 \notin B
    <3> HIDE DEF B
    <3> QED BY <1>1, <1>2, <1>5
  <2> QED BY <2>1, <1>5
<1> HIDE DEF f, B
<1> DEFINE r == q + (i - 1)
<1>7. r \in Nat /\ r < Len(P) /\ r + 1 = q + i
  BY <1>5
<1> HIDE DEF r
<1>8. RunsSoFar(PixelStep(how, f[i - 1], Differs(P[r + 1], Before(P, r))), P, r + 1)
  BY <1>6, <1>7, PixelGoesOn DEF r
<1>9. f[i] = PixelStep(how, f[i - 1], Differs(P[r + 1], Before(P, r)))
  BY <1>3, <1>5, Zenon DEF r
<1> QED BY <1>2, <1>7, <1>8, <1>9

\* A word of the pixels behind q.
WordAt(word, P, q, n) ==
  word \in Seq(0..255) /\ Len(word) = n /\ \A i \in 1..n : word[i] = P[q + i]

Ready(s, P, q) == RunsSoFar(s, P, q) /\ s.carry = s.val

\* The loop reads one word more.
LEMMA WordGoesOn ==
  ASSUME NEW how, Bytewise(how), NEW P \in Seq(0..255), Len(P) <= 256,
         NEW q \in Nat, NEW n \in Nat \ {0}, q + n <= Len(P), NEW s, Ready(s, P, q),
         NEW word, WordAt(word, P, q, n)
  PROVE  Ready(WordStep(how, s, word), P, q + n)
<1> DEFINE D == Diffs(s.carry, word)
           f == AfterPixels(how, s, D, n)
<1>1. RunsSoFar(s, P, q) /\ s.carry = s.val
  BY DEF Ready
<1>2. s.val = Before(P, q) /\ s \in LoopStates /\ ~s.stopped
  BY <1>1, RunColour DEF Before
<1>3. word \in Seq(0..255) /\ Len(word) = n /\ DOMAIN word = 1..n /\ \A i \in 1..n : word[i] = P[q + i]
  BY DEF WordAt
<1>4. DOMAIN D = 1..n /\ \A i \in 1..n : D[i] = Differs(word[i], IF i = 1 THEN s.carry ELSE word[i - 1])
  BY <1>3 DEF Diffs
<1> HIDE DEF D
<1>5. \A i \in 1..n : D[i] = Differs(P[(q + (i - 1)) + 1], Before(P, q + (i - 1)))
  <2> SUFFICES ASSUME NEW i \in 1..n
               PROVE  D[i] = Differs(P[(q + (i - 1)) + 1], Before(P, q + (i - 1)))
    OBVIOUS
  <2>1. (q + (i - 1)) + 1 = q + i
    OBVIOUS
  <2>2. (IF i = 1 THEN s.carry ELSE word[i - 1]) = Before(P, q + (i - 1))
    <3>1. CASE i = 1
      <4>1. q + (i - 1) = q
        BY <3>1
      <4> QED BY <1>1, <1>2, <3>1, <4>1
    <3>2. CASE i # 1
      <4>1. i - 1 \in 1..n /\ q + (i - 1) # 0
        BY <3>2
      <4>2. word[i - 1] = P[q + (i - 1)]
        BY <1>3, <4>1
      <4> QED BY <3>2, <4>1, <4>2 DEF Before
    <3> QED BY <3>1, <3>2
  <2>3. word[i] = P[q + i]
    BY <1>3
  <2> QED BY <1>4, <2>1, <2>2, <2>3
<1>6. \A i \in 0..n : RunsSoFar(f[i], P, q + i)
  BY <1>1, <1>5, PixelsGoOn
<1> HIDE DEF f
<1>7. n \in 0..n /\ 0 \in 0..n /\ n \in 1..n /\ n \in Nat /\ q + n # 0
  OBVIOUS
<1>8. RunsSoFar(f[n], P, q + n) /\ f[n].val = P[q + n]
  <2>1. RunsSoFar(f[n], P, q + n)
    BY <1>6, <1>7
  <2> DEFINE r == q + n
             u == f[n]
  <2>2. r \in Nat /\ r # 0 /\ RunsSoFar(u, P, r)
    BY <2>1, <1>7
  <2> HIDE DEF r, u
  <2>3. u.val = (IF r = 0 THEN P[1] ELSE P[r])
    BY <2>2, RunColour
  <2> QED BY <2>2, <2>3 DEF r, u
<1>9. CASE \A i \in DOMAIN D : D[i] = 0
  <2>1. WordStep(how, s, word) = [s EXCEPT !.cnt = (s.cnt + n) % MaxCount]
    BY <1>2, <1>3, <1>9, WordSkips DEF D
  <2>2. f[n] = Counted(f[0], n - 0)
    <3>1. f[0] = s
      BY <1>7, AfterPixelsIs DEF f
    <3> DEFINE all == 1..n
    <3>6. \A i \in all : D[i] = 0
      <4>1. DOMAIN D = all
        BY <1>4
      <4> HIDE DEF all
      <4> QED BY <4>1, <1>9
    <3>2. \A i \in 1..n : D[i] \in 0..255
      BY <3>6
    <3>3. \A i \in (0 + 1)..n : D[i] = 0
      BY <3>6
    <3>4. Told(how)
      BY DEF Bytewise
    <3>5. ~f[0].stopped
      BY <3>1, <1>2
    <3> QED BY <1>2, <1>7, <3>2, <3>3, <3>4, <3>5, EqualPixels DEF f
  <2>3. f[0] = s /\ n - 0 = n
    BY <1>7, AfterPixelsIs DEF f
  <2>4. WordStep(how, s, word) = f[n]
    BY <2>1, <2>2, <2>3 DEF Counted
  <2>5. f[n].carry = s.carry /\ f[n].val = s.val
    <3>1. f[n] = [s EXCEPT !.cnt = (s.cnt + n) % MaxCount]
      BY <2>1, <2>4
    <3> QED BY <1>2, <3>1 DEF LoopStates
  <2> QED BY <1>1, <1>8, <2>4, <2>5 DEF Ready
<1>10. CASE ~(\A i \in DOMAIN D : D[i] = 0)
  <2>1. WordStep(how, s, word) = LookedAt(how, s, D, word)
    BY <1>2, <1>10, WordLooks DEF D
  <2>2. LookedAt(how, s, D, word) = [f[n] EXCEPT !.carry = P[q + n]]
    <3>1. Last(word) = P[q + n]
      BY <1>3, <1>7 DEF Last
    <3> QED BY <1>3, <3>1 DEF LookedAt, f
  <2>3. P[q + n] \in 0..255
    <3>1. q + n \in 1..Len(P)
      BY <1>7
    <3> QED BY <3>1, ElementOfSeq
  <2>4. Ready([f[n] EXCEPT !.carry = P[q + n]], P, q + n)
    <3> DEFINE u == f[n]
               r == q + n
               c == P[r]
    <3>1. RunsSoFar(u, P, r) /\ u.val = c /\ c \in 0..255
      BY <1>8, <2>3
    <3> HIDE DEF u, r, c
    <3>2. /\ RunsSoFar([u EXCEPT !.carry = c], P, r)
          /\ [u EXCEPT !.carry = c].carry = c /\ [u EXCEPT !.carry = c].val = u.val
      BY <3>1, CarryFree, ZenonT(60)
    <3>3. Ready([u EXCEPT !.carry = c], P, r)
      BY <3>1, <3>2 DEF Ready
    <3> QED BY <3>3 DEF u, r, c
  <2> QED BY <2>1, <2>2, <2>4
<1> QED BY <1>9, <1>10

\* The loop over the words of a tile reads every pixel, and the padding.
LEMMA WordsGoOn ==
  ASSUME NEW how, Bytewise(how), NEW d \in {1, 2, 4, 8}, NEW pixels \in Seq(0..255),
         (2 * Len(pixels)) % PixelsPerWord(d) = 0, Len(pixels) > 0,
         Len(Padded(d, pixels)) <= 256
  PROVE  LET W == Words(d, pixels)  P == Padded(d, pixels) IN
         RunsSoFar(AfterWords(how, FirstState(pixels), W, Len(W))[Len(W)], P, Len(P))
<1> DEFINE W == Words(d, pixels)
           P == Padded(d, pixels)
           n == PixelsPerWord(d)
           s0 == FirstState(pixels)
           g == AfterWords(how, s0, W, Len(W))
           B == {w \in 0..Len(W) : ~Ready(g[w], P, w * n)}
<1>1. n \in {4, 8, 16, 32} /\ n \in Nat \ {0}
  <2>1. n \in {4, 8, 16, 32}
    BY WordSizes
  <2> HIDE DEF n
  <2> QED BY <2>1
<1>2. /\ Len(W) \in Nat /\ Len(W) * n = Len(P)
      /\ \A w \in 1..Len(W) :
           W[w] \in Seq(0..255) /\ Len(W[w]) = n /\ \A i \in 1..n : W[w][i] = P[(w - 1) * n + i]
  BY WordsAre
<1>3. P \in Seq(0..255) /\ Len(P) <= 256 /\ Len(P) >= Len(pixels) /\ P[1] = pixels[1]
  <2>1. /\ P \in Seq(0..255) /\ \A p \in 1..Len(pixels) : P[p] = pixels[p]
        /\ Len(P) = Len(pixels) + (IF HalfWord(d, pixels) THEN n \div 2 ELSE 0)
    BY PaddedIs
  <2>2. 1 \in 1..Len(pixels) /\ n \div 2 \in Nat
    <3> HIDE DEF n
    <3> QED BY <1>1
  <2> HIDE DEF P, n
  <2> QED BY <2>1, <2>2 DEF P
<1>4. Ready(s0, P, 0)
  <2> DEFINE E == [i \in 0..0 |-> 0]
             v == pixels[1]
  <2>1. v \in Colours /\ 0 \in Int
    <3>1. 1 \in 1..Len(pixels)
      OBVIOUS
    <3> QED BY <3>1, ElementOfSeq DEF Colours
  <2>2. s0 = [cnt |-> 65535, val |-> v, carry |-> v, out |-> <<>>, ones |-> 0, stopped |-> FALSE]
    <3>1. MaxCount - 1 = 65535
      BY DEF MaxCount
    <3> QED BY <3>1 DEF FirstState
  <2> DEFINE c == 65535
             o == <<>>
             b == FALSE
  <2>3. c \in Counters /\ o \in Outputs /\ b \in Flags
    BY DEF Counters, Outputs, Flags
  <2> HIDE DEF v, c, o, b
  <2>4. s0 = [cnt |-> c, val |-> v, carry |-> v, out |-> o, ones |-> 0, stopped |-> b]
    BY <2>2 DEF c, o, b
  <2> HIDE DEF s0
  <2>5. s0 \in LoopStates
    BY <2>1, <2>3, <2>4 DEF LoopStates
  <2>6. s0.cnt = c /\ s0.val = v /\ s0.carry = v /\ s0.out = o /\ s0.stopped = b
    BY <2>4
  <2>7. Span(0, E, 0)
    BY DEF Span
  <2>8. E[0] = 0
    OBVIOUS
  <2> HIDE DEF E, P
  <2>9. PairsAre(P, o, 0, E) /\ Breaking(P, 0, E)
    <3>1. 1..0 = {}
      OBVIOUS
    <3> QED BY <3>1, Zenon DEF PairsAre, Breaking
  <2>10. Len(o) = 2 * 0 /\ ~b
    BY DEF o, b
  <2>11. Alike(P, 0, 0)
    <3>1. (0 + 1)..0 = {}
      OBVIOUS
    <3> QED BY <3>1, Zenon DEF Alike
  <2>12. c = CountUp(0, 0)
    BY DEF CountUp, c, MaxCount
  <2>13. v = P[0 + 1]
    BY <1>3 DEF v
  <2>14. RunState(s0, P, 0, 0, E)
    BY <2>5, <2>6, <2>7, <2>8, <2>9, <2>10, <2>11, <2>12, <2>13, Zenon DEF RunState
  <2> QED BY <2>6, <2>14, Zenon DEF Ready, RunsSoFar
<1>5. g[0] = s0 /\ \A w \in 1..Len(W) : g[w] = WordStep(how, g[w - 1], W[w])
  BY <1>2, AfterWordsIs
<1> HIDE DEF g, W, P, n, s0
<1>6. B = {}
  <2> SUFFICES ASSUME B # {} PROVE FALSE
    OBVIOUS
  <2>1. PICK w \in B : \A k \in B : w <= k
    <3>1. B \in SUBSET Nat
      BY <1>2
    <3> HIDE DEF B
    <3> QED BY <3>1, LeastNumber
  <2>2. w \in 0..Len(W) /\ ~Ready(g[w], P, w * n)
    OBVIOUS
  <2>3. w # 0
    <3>1. 0 * n = 0
      BY <1>1
    <3> HIDE DEF B
    <3> QED BY <1>4, <1>5, <2>2, <3>1
  <2>4. w \in 1..Len(W) /\ w - 1 \in 0..Len(W) /\ w - 1 < w
    BY <1>2, <2>2, <2>3
  <2>5. Ready(g[w - 1], P, (w - 1) * n)
    <3>1. w - 1 \notin B
      <4> HIDE DEF B
      <4> QED BY <1>2, <2>1, <2>2, <2>4
    <3> QED BY <3>1, <2>4
  <2> HIDE DEF B
  <2> DEFINE q == (w - 1) * n
             word == W[w]
  <2>6. q \in Nat /\ q + n = w * n /\ q + n <= Len(P)
    <3>1. w \in Nat /\ w >= 1 /\ w <= Len(W)
      BY <1>2, <2>4
    <3> QED BY <1>1, <1>2, <3>1
  <2>7. WordAt(word, P, q, n)
    BY <1>2, <2>4 DEF WordAt
  <2>8. g[w] = WordStep(how, g[w - 1], word)
    BY <1>5, <2>4
  <2>9. Ready(g[w - 1], P, q)
    BY <2>5
  <2> HIDE DEF q, word
  <2>10. Ready(WordStep(how, g[w - 1], word), P, q + n)
    BY <1>1, <1>3, <2>6, <2>7, <2>9, WordGoesOn
  <2> QED BY <2>2, <2>6, <2>8, <2>10
<1>7. Ready(g[Len(W)], P, Len(W) * n)
  <2>1. Len(W) \in 0..Len(W)
    BY <1>2
  <2> QED BY <1>6, <2>1
<1>8. RunsSoFar(g[Len(W)], P, Len(P))
  BY <1>2, <1>7 DEF Ready
<1> QED BY <1>8 DEF g, W, P, s0

----------------------------------------------------------------------------
(* The end of nativeToRle: the last run, and the padding that is taken off. *)

\* What the counter may be.
LEMMA CountersHold == (\A c \in Counters : c \in Nat) /\ \A c \in 0..255 : c \in Counters
<1>1. \A c \in Counters : c \in Nat
  BY DEF Counters
<1>2. \A c \in 0..255 : c \in Counters
  BY DEF Counters
<1> QED BY <1>1, <1>2

\* What is written behind the loop.
LEMMA LastOut ==
  ASSUME NEW how, Told(how), NEW s \in LoopStates, ~s.stopped, ~(how.padded /\ s.cnt < 15),
         NEW c \in Counters, c = IF how.padded THEN (s.cnt - 16) % MaxCount ELSE s.cnt
  PROVE  WriteLast(how, s).out = s.out \o Pair(how, s.val, c)
<1> DEFINE u == [s EXCEPT !.cnt = c]
           w == Write(how, u)
<1>1. u \in LoopStates /\ u.out = s.out /\ u.val = s.val /\ u.cnt = c
  BY DEF LoopStates
<1>2. WriteLast(how, s) = IF how.padded /\ c = 0 THEN [w EXCEPT !.ones = w.ones - 1] ELSE w
  BY DEF WriteLast
<1> HIDE DEF u
<1>3. w \in LoopStates /\ w.out = u.out \o Pair(how, u.val, u.cnt)
  BY <1>1, WriteIs
<1> HIDE DEF w
<1>4. [w EXCEPT !.ones = w.ones - 1].out = w.out
  BY <1>3 DEF LoopStates
<1> QED BY <1>1, <1>2, <1>3, <1>4

\* The runs end one after another.
LEMMA EndsRise ==
  ASSUME NEW m \in Nat, NEW M \in Nat, NEW E \in [0..m -> 0..M],
         \A i \in 1..m : E[i - 1] < E[i]
  PROVE  \A i \in 0..m : E[i] <= E[m]
<1> SUFFICES ASSUME NEW i \in 0..m, ~(E[i] <= E[m]) PROVE FALSE
  OBVIOUS
<1> DEFINE e == E[m]
           B == {m - k : k \in {j \in 0..m : E[j] > e}}
<1>1. m \in 0..m /\ e \in 0..M /\ E[i] \in 0..M
  OBVIOUS
<1>2. B \in SUBSET Nat /\ B # {}
  <2>1. i \in {j \in 0..m : E[j] > e}
    BY <1>1
  <2> HIDE DEF e
  <2> QED BY <2>1
<1> HIDE DEF e
<1>3. PICK b \in B : \A k \in B : b <= k
  <2> HIDE DEF B
  <2> QED BY <1>2, LeastNumber
<1>4. PICK j \in 0..m : b = m - j /\ E[j] > e
  OBVIOUS
<1>5. j # m
  BY <1>1, <1>4 DEF e
<1>6. j + 1 \in 1..m /\ (j + 1) - 1 = j /\ j + 1 \in 0..m
  BY <1>4, <1>5
<1>7. E[j] < E[j + 1]
  <2>1. E[(j + 1) - 1] < E[j + 1]
    BY <1>6
  <2> QED BY <1>6, <2>1
<1>8. E[j] \in 0..M /\ E[j + 1] \in 0..M
  BY <1>4, <1>6
<1>9. E[j + 1] > e
  BY <1>1, <1>4, <1>7, <1>8
<1>10. m - (j + 1) \in B
  BY <1>6, <1>9
<1>11. b <= m - (j + 1)
  <2> HIDE DEF B
  <2> QED BY <1>3, <1>10
<1> QED BY <1>4, <1>11

\* The pairs of the runs of N pixels, with more behind them perhaps.
BytesAre(out, P, N, m, E) ==
  /\ m \in Nat \ {0} /\ E \in [0..m -> 0..N] /\ E[0] = 0 /\ E[m] = N
  /\ out \in Seq(Int) /\ Len(out) >= 2 * m /\ PairsAre(P, out, m, E) /\ Breaking(P, m - 1, E)

\* The last run ends with the tile.
LEMMA LastRun ==
  ASSUME NEW how, Bytewise(how), NEW P, NEW N \in Nat, NEW M \in Nat, N <= M, M <= 256,
         NEW s, NEW m, NEW E, RunState(s, P, M, m, E), E[m] < N
  PROVE  \E F : BytesAre(s.out \o Pair(how, s.val, (N - E[m]) - 1), P, N, m + 1, F)
<1> DEFINE e == E[m]
           c == (N - e) - 1
           pair == Pair(how, s.val, c)
           F == [i \in 0..(m + 1) |-> IF i <= m THEN E[i] ELSE N]
           out == s.out \o pair
<1>1. /\ s \in LoopStates /\ Span(m, E, M)
      /\ PairsAre(P, s.out, m, E) /\ Len(s.out) = 2 * m /\ Breaking(P, m, E)
      /\ s.val = P[e + 1] /\ Alike(P, e, M)
  BY DEF RunState
<1>2. m \in Nat /\ E \in [0..m -> 0..M] /\ E[0] = 0 /\ m <= e
  BY <1>1 DEF Span
<1>3. e \in 0..M /\ e \in Nat /\ e < N
  BY <1>2
<1> HIDE DEF e
<1>4. c \in 0..255
  BY <1>3
<1>5. s.val \in 0..255 /\ s.out \in Seq(Int)
  BY <1>1, StateTyped
<1>6. PairBytes(pair, s.val, c)
  <2>1. s.val \in 0..255
    BY <1>5
  <2> HIDE DEF c
  <2> QED BY <1>4, <2>1, PairIs
<1> HIDE DEF c, pair
<1>7. pair \in Seq(Int) /\ Len(pair) >= 2 /\ Len(pair) \in Nat /\ pair[1] = s.val /\ pair[2] = c
  BY <1>6 DEF PairBytes
<1>8. /\ out \in Seq(Int) /\ Len(out) = 2 * m + Len(pair)
      /\ \A i \in 1..(2 * m) : out[i] = s.out[i]
      /\ out[2 * m + 1] = s.val /\ out[2 * m + 2] = c
  <2> DEFINE o == s.out
  <2>1. o \in Seq(Int) /\ Len(o) = 2 * m /\ m \in Nat /\ pair \in Seq(Int) /\ Len(pair) >= 2
    BY <1>1, <1>2, <1>5, <1>7
  <2> HIDE DEF o
  <2>2. /\ o \o pair \in Seq(Int) /\ Len(o \o pair) = 2 * m + Len(pair)
        /\ (\A i \in 1..(2 * m) : (o \o pair)[i] = o[i])
        /\ (o \o pair)[2 * m + 1] = pair[1] /\ (o \o pair)[2 * m + 2] = pair[2]
    BY <2>1, PairBehind, Zenon
  <2> QED BY <1>7, <2>2 DEF o
<1> HIDE DEF out
<1>9. \A i \in 0..m : E[i] <= e
  <2>1. \A i \in 1..m : E[i - 1] < E[i]
    BY <1>1, Zenon DEF PairsAre
  <2>2. \A i \in 0..m : E[i] <= E[m]
    BY <1>2, <2>1, EndsRise
  <2> QED BY <2>2 DEF e
<1>10. (\A i \in 0..m : F[i] = E[i]) /\ F[m + 1] = N
  BY <1>2
<1>11. F \in [0..(m + 1) -> 0..N]
  <2>1. \A i \in 0..m : E[i] \in 0..N
    BY <1>2, <1>3, <1>9
  <2> QED BY <1>2, <2>1
<1>12. F[0] = 0 /\ m + 1 \in Nat \ {0} /\ (m + 1) - 1 = m
  BY <1>2, <1>10
<1> HIDE DEF F
<1>13. PairsAre(P, out, m + 1, F)
  <2> SUFFICES ASSUME NEW i \in 1..(m + 1)
               PROVE  /\ F[i - 1] < F[i] /\ Alike(P, F[i - 1], F[i])
                      /\ out[2 * i - 1] = P[F[i - 1] + 1] /\ out[2 * i] = (F[i] - F[i - 1]) - 1
    BY DEF PairsAre
  <2>1. CASE i = m + 1
    <3>1. F[i - 1] = e /\ F[i] = N /\ 2 * i - 1 = 2 * m + 1 /\ 2 * i = 2 * m + 2
      <4>1. i - 1 = m /\ m \in 0..m /\ 2 * i - 1 = 2 * m + 1 /\ 2 * i = 2 * m + 2
        BY <1>2, <2>1
      <4> QED BY <1>10, <2>1, <4>1 DEF e
    <3>2. Alike(P, e, N)
      <4> SUFFICES ASSUME NEW k \in (e + 1)..N PROVE P[k] = P[e + 1]
        BY DEF Alike
      <4>1. k \in (e + 1)..M
        BY <1>3
      <4> QED BY <1>1, <4>1 DEF Alike
    <3> QED BY <1>1, <1>3, <1>8, <3>1, <3>2 DEF c
  <2>2. CASE i # m + 1
    <3>1. i \in 1..m /\ i \in 0..m /\ i - 1 \in 0..m /\ 2 * i - 1 \in 1..(2 * m) /\ 2 * i \in 1..(2 * m)
      BY <1>2, <2>2
    <3>2. F[i] = E[i] /\ F[i - 1] = E[i - 1]
      BY <1>10, <3>1
    <3>3. out[2 * i - 1] = s.out[2 * i - 1] /\ out[2 * i] = s.out[2 * i]
      BY <1>8, <3>1
    <3>4. /\ E[i - 1] < E[i] /\ Alike(P, E[i - 1], E[i])
          /\ s.out[2 * i - 1] = P[E[i - 1] + 1] /\ s.out[2 * i] = (E[i] - E[i - 1]) - 1
      BY <1>1, <3>1, Zenon DEF PairsAre
    <3> QED BY <3>2, <3>3, <3>4, Zenon
  <2> QED BY <2>1, <2>2
<1>14. Breaking(P, m, F)
  <2> SUFFICES ASSUME NEW i \in 1..m PROVE P[F[i]] # P[F[i] + 1]
    BY DEF Breaking
  <2>1. i \in 0..m
    BY <1>2
  <2> QED BY <1>1, <1>10, <2>1 DEF Breaking
<1>15. Len(out) >= 2 * (m + 1)
  BY <1>2, <1>7, <1>8
<1>16. BytesAre(out, P, N, m + 1, F)
  BY <1>8, <1>10, <1>11, <1>12, <1>13, <1>14, <1>15, Zenon DEF BytesAre
<1> QED BY <1>16 DEF out, pair, c, e

\* A tile of N pixels, made longer by 16 zeros if it is padded.
PaddingOf(P, N, padded) ==
  IF padded THEN Len(P) = N + 16 /\ \A k \in (N + 1)..Len(P) : P[k] = 0 ELSE Len(P) = N

\* A count of a byte fits into the counter.
LEMMA CountFits == \A c \in 0..255 : c % MaxCount = c
BY DEF MaxCount

\* All that is written are the runs of the tile, whatever becomes of the padding.
LEMMA LastBytes ==
  ASSUME NEW how, Bytewise(how), NEW P \in Seq(0..255), NEW N \in Nat \ {0}, Len(P) <= 256,
         PaddingOf(P, N, how.padded), NEW s, RunsSoFar(s, P, Len(P))
  PROVE  \E m, E : BytesAre(WriteLast(how, s).out, P, N, m, E)
<1> DEFINE M == Len(P)
<1>1. PICK m, E : RunState(s, P, M, m, E)
  BY DEF RunsSoFar
<1> DEFINE e == E[m]
<1>2. /\ s \in LoopStates /\ ~s.stopped /\ Span(m, E, M)
      /\ PairsAre(P, s.out, m, E) /\ Len(s.out) = 2 * m /\ Breaking(P, m, E)
      /\ s.val = P[e + 1] /\ Alike(P, e, M) /\ s.cnt = CountUp(M, e)
  BY <1>1 DEF RunState
<1>3. /\ M \in Nat /\ N <= M /\ M <= 256 /\ M # 0
      /\ (how.padded => M = N + 16) /\ (~how.padded => M = N)
  BY DEF PaddingOf
<1>4. /\ m \in Nat /\ E \in [0..m -> 0..M] /\ E[0] = 0 /\ m <= e /\ e \in 0..M
      /\ e < M
  <2>1. m \in Nat /\ E \in [0..m -> 0..M] /\ E[0] = 0 /\ m <= E[m] /\ (E[m] < M \/ M = 0)
    BY <1>2 DEF Span
  <2>2. m \in 0..m
    BY <2>1
  <2>3. E[m] \in 0..M
    BY <2>1, <2>2
  <2> QED BY <1>3, <2>1, <2>3
<1> HIDE DEF e
<1>5. s.cnt = (M - e) - 1
  <2>1. e \in Nat /\ e < M /\ M <= 256
    BY <1>3, <1>4
  <2> HIDE DEF M
  <2>2. CountUp(M, e) = (M - e) - 1
    BY <1>3, <2>1, CountOfRun
  <2> QED BY <1>2, <2>2
<1>6. s.val \in 0..255 /\ s.out \in Seq(Int) /\ Told(how)
  BY <1>2, StateTyped DEF Bytewise
<1>7. e <= N
  <2> SUFFICES ASSUME e > N PROVE FALSE
    BY <1>3, <1>4
  <2>1. how.padded /\ M = N + 16
    <3>1. M # N
      BY <1>3, <1>4
    <3>2. ~(~how.padded)
      BY <1>3, <3>1
    <3> QED BY <1>3, <3>2
  <2>2. \A k \in (N + 1)..M : P[k] = 0
    BY <2>1 DEF PaddingOf
  <2>3. e \in (N + 1)..M /\ e + 1 \in (N + 1)..M
    BY <1>3, <1>4
  <2>4. m \in 1..m
    <3>1. m # 0
      BY <1>4, <2>3 DEF e
    <3> QED BY <1>4, <3>1
  <2>5. P[E[m]] # P[E[m] + 1]
    BY <1>2, <2>4 DEF Breaking
  <2> QED BY <2>2, <2>3, <2>5 DEF e
<1>8. CASE e < N
  <2> DEFINE c == (N - e) - 1
  <2>1. /\ ~(how.padded /\ s.cnt < 15) /\ c \in 0..255
        /\ c = IF how.padded THEN (s.cnt - 16) % MaxCount ELSE s.cnt
    <3>1. c \in 0..255
      BY <1>3, <1>4, <1>8
    <3>2. CASE how.padded
      <4>1. s.cnt - 16 = c /\ ~(s.cnt < 15)
        BY <1>3, <1>4, <1>5, <1>8, <3>2
      <4>2. c % MaxCount = c
        <5> HIDE DEF c
        <5> QED BY <3>1, CountFits
      <4> HIDE DEF c
      <4> DEFINE x == (s.cnt - 16) % MaxCount
      <4>3. x = c
        BY <4>1, <4>2, Zenon
      <4> HIDE DEF x
      <4>4. c = IF how.padded THEN x ELSE s.cnt
        BY <3>2, <4>3
      <4> QED BY <3>1, <4>1, <4>4 DEF x
    <3>3. CASE ~how.padded
      <4>1. s.cnt = c
        BY <1>3, <1>5, <3>3
      <4> QED BY <3>1, <3>3, <4>1
    <3> QED BY <3>2, <3>3
  <2>2. c \in Counters
    <3>1. c \in 0..255
      BY <1>3, <1>4, <1>8
    <3> HIDE DEF c
    <3> QED BY <3>1, CountersHold, Zenon
  <2> HIDE DEF c
  <2>3. WriteLast(how, s).out = s.out \o Pair(how, s.val, c)
    BY <1>2, <1>6, <2>1, <2>2, LastOut
  <2>4. \E F : BytesAre(s.out \o Pair(how, s.val, (N - E[m]) - 1), P, N, m + 1, F)
    <3>1. E[m] < N /\ N \in Nat
      BY <1>8 DEF e
    <3> HIDE DEF M
    <3> QED BY <1>1, <1>3, <3>1, LastRun
  <2> QED BY <2>3, <2>4 DEF c, e
<1>9. CASE e = N
  <2> DEFINE c == (s.cnt - 16) % MaxCount
             pair == Pair(how, s.val, c)
             out == s.out \o pair
  <2>1. how.padded /\ ~(s.cnt < 15)
    <3>1. M # N
      BY <1>4, <1>9
    <3>2. ~(~how.padded)
      BY <1>3, <3>1
    <3>3. how.padded
      BY <3>2
    <3> QED BY <1>3, <1>5, <1>9, <3>3
  <2>2. c \in Counters /\ c \in Nat
    <3>1. s.cnt - 16 \in Int
      BY <1>3, <1>4, <1>5
    <3>2. c \in Counters
      BY <3>1, CountersMod
    <3> HIDE DEF c
    <3> QED BY <3>2, CountersHold, Zenon
  <2>3. c = IF how.padded THEN (s.cnt - 16) % MaxCount ELSE s.cnt
    BY <2>1
  <2> HIDE DEF c
  <2>4. WriteLast(how, s).out = out
    BY <1>2, <1>6, <2>1, <2>2, <2>3, LastOut
  <2>5. pair \in Seq(Int) /\ Len(pair) \in Nat
    BY <1>6, <2>2, PairTyped
  <2> HIDE DEF pair
  <2>6. out \in Seq(Int) /\ Len(out) >= 2 * m /\ \A i \in 1..(2 * m) : out[i] = s.out[i]
    <3> DEFINE o == s.out
    <3>1. o \in Seq(Int) /\ Len(o) = 2 * m
      BY <1>2, <1>6
    <3> HIDE DEF o
    <3>2. /\ o \o pair \in Seq(Int) /\ Len(o \o pair) = Len(o) + Len(pair)
          /\ \A i \in 1..(Len(o) + Len(pair)) : (o \o pair)[i] = IF i <= Len(o) THEN o[i] ELSE pair[i - Len(o)]
      BY <2>5, <3>1, Joined
    <3>3. \A i \in 1..(2 * m) : (o \o pair)[i] = o[i]
      BY <1>4, <2>5, <3>1, <3>2
    <3>4. Len(o \o pair) >= 2 * m
      BY <2>5, <3>1, <3>2
    <3> QED BY <3>2, <3>3, <3>4 DEF o
  <2> HIDE DEF out
  <2>7. m \in Nat \ {0} /\ E[m] = N
    BY <1>4, <1>9 DEF e
  <2>8. \A i \in 0..m : E[i] <= e
    <3>1. \A i \in 1..m : E[i - 1] < E[i]
      BY <1>2, Zenon DEF PairsAre
    <3>2. \A i \in 0..m : E[i] <= E[m]
      BY <1>3, <1>4, <3>1, EndsRise
    <3> QED BY <3>2 DEF e
  <2>9. E \in [0..m -> 0..N]
    <3>1. \A i \in 0..m : E[i] \in 0..N
      BY <1>4, <1>9, <2>8
    <3> QED BY <1>4, <3>1
  <2>10. PairsAre(P, out, m, E)
    <3> SUFFICES ASSUME NEW i \in 1..m
                 PROVE  /\ E[i - 1] < E[i] /\ Alike(P, E[i - 1], E[i])
                        /\ out[2 * i - 1] = P[E[i - 1] + 1] /\ out[2 * i] = (E[i] - E[i - 1]) - 1
      BY DEF PairsAre
    <3>1. 2 * i - 1 \in 1..(2 * m) /\ 2 * i \in 1..(2 * m)
      BY <1>4
    <3>2. out[2 * i - 1] = s.out[2 * i - 1] /\ out[2 * i] = s.out[2 * i]
      BY <2>6, <3>1
    <3>3. /\ E[i - 1] < E[i] /\ Alike(P, E[i - 1], E[i])
          /\ s.out[2 * i - 1] = P[E[i - 1] + 1] /\ s.out[2 * i] = (E[i] - E[i - 1]) - 1
      BY <1>2, Zenon DEF PairsAre
    <3> QED BY <3>2, <3>3, Zenon
  <2>11. Breaking(P, m - 1, E)
    <3> SUFFICES ASSUME NEW i \in 1..(m - 1) PROVE P[E[i]] # P[E[i] + 1]
      BY DEF Breaking
    <3>1. i \in 1..m
      BY <2>7
    <3> QED BY <1>2, <3>1 DEF Breaking
  <2>12. BytesAre(out, P, N, m, E)
    BY <1>4, <2>6, <2>7, <2>9, <2>10, <2>11, Zenon DEF BytesAre
  <2> QED BY <2>4, <2>12
<1> QED BY <1>3, <1>4, <1>7, <1>8, <1>9

----------------------------------------------------------------------------
(* The runs of a tile, as Hextile reads them.                               *)

\* The pixels P are m runs, one after another.
Segments(P, m, E, runs) ==
  /\ m \in Nat \ {0} /\ E \in [0..m -> 0..Len(P)] /\ E[0] = 0 /\ E[m] = Len(P)
  /\ Len(runs) \in Nat /\ Len(runs) >= m /\ Breaking(P, m - 1, E)
  /\ \A i \in 1..m :
       /\ E[i - 1] < E[i] /\ Alike(P, E[i - 1], E[i])
       /\ runs[i].color = P[E[i - 1] + 1] /\ runs[i].count = E[i] - E[i - 1]

\* What the assumption says of a tile.
LEMMA HexTileIs ==
  ASSUME NEW t \in HexTiles
  PROVE  /\ HexDepth \in {1, 2, 4, 8} /\ t.rows \in 1..16 /\ t.cols \in 1..16
         /\ t.pixels \in Seq(0..255) /\ Len(t.pixels) = t.rows * t.cols
         /\ Len(t.pixels) \in Nat \ {0} /\ Len(t.pixels) <= 256
         /\ (2 * Len(t.pixels)) % PixelsPerWord(HexDepth) = 0
         /\ (HalfWord(HexDepth, t.pixels) => HexDepth = 1)
<1>1. /\ HexDepth \in {1, 2, 4, 8} /\ t.rows \in 1..16 /\ t.cols \in 1..16
      /\ t.pixels \in Seq(0..(NativeColors(HexDepth) - 1)) /\ Len(t.pixels) = t.rows * t.cols
      /\ (2 * Len(t.pixels)) % PixelsPerWord(HexDepth) = 0
      /\ (HalfWord(HexDepth, t.pixels) => HexDepth = 1)
  BY HextileAssumption, Zenon
<1> DEFINE S == 0..(NativeColors(HexDepth) - 1)
           T == 0..255
<1>2. S \subseteq T /\ t.pixels \in Seq(S)
  BY <1>1, ColourRange, ZenonT(60)
<1> HIDE DEF S, T
<1>3. t.pixels \in Seq(T)
  BY <1>2, SeqMonotonic
<1>4. \A r \in 1..16 : \A c \in 1..16 : r * c \in Nat \ {0} /\ r * c <= 256
  OBVIOUS
<1>5. t.rows * t.cols \in Nat \ {0} /\ t.rows * t.cols <= 256
  BY <1>1, <1>4, Zenon
<1> QED BY <1>1, <1>3, <1>5 DEF T

\* The tile with its padding.
LEMMA HexPadded ==
  ASSUME NEW t \in HexTiles
  PROVE  LET P == Padded(HexDepth, t.pixels) IN
         /\ P \in Seq(0..255) /\ Len(P) <= 256
         /\ PaddingOf(P, Len(t.pixels), HalfWord(HexDepth, t.pixels))
         /\ \A k \in 1..Len(t.pixels) : P[k] = t.pixels[k]
<1> DEFINE P == Padded(HexDepth, t.pixels)
           N == Len(t.pixels)
           half == HalfWord(HexDepth, t.pixels)
           n == PixelsPerWord(HexDepth)
<1>1. /\ P \in Seq(0..255) /\ Len(P) = N + (IF half THEN n \div 2 ELSE 0) /\ Len(P) % n = 0
      /\ \A p \in 1..N : P[p] = t.pixels[p]
      /\ \A p \in (N + 1)..Len(P) : P[p] = 0
  <2>1. /\ HexDepth \in {1, 2, 4, 8} /\ t.pixels \in Seq(0..255)
        /\ (2 * Len(t.pixels)) % PixelsPerWord(HexDepth) = 0
    BY HexTileIs
  <2> DEFINE D == HexDepth
             Q == t.pixels
  <2>2. D \in {1, 2, 4, 8} /\ Q \in Seq(0..255) /\ (2 * Len(Q)) % PixelsPerWord(D) = 0
    BY <2>1
  <2> HIDE DEF D, Q
  <2>3. /\ Padded(D, Q) \in Seq(0..255)
        /\ Len(Padded(D, Q))
             = Len(Q) + (IF HalfWord(D, Q) THEN PixelsPerWord(D) \div 2 ELSE 0)
        /\ Len(Padded(D, Q)) % PixelsPerWord(D) = 0
        /\ \A p \in 1..Len(Q) : Padded(D, Q)[p] = Q[p]
        /\ \A p \in (Len(Q) + 1)..Len(Padded(D, Q)) : Padded(D, Q)[p] = 0
    BY <2>2, PaddedIs
  <2> QED BY <2>3 DEF D, Q
<1>2. N \in Nat /\ N <= 256
  BY HexTileIs
<1>3. CASE half
  <2>1. n = 32
    <3>1. 32 \div 1 = 32
      OBVIOUS
    <3> QED BY <1>3, <3>1, HexTileIs DEF PixelsPerWord
  <2> HIDE DEF P, N, half, n
  <2>2. Len(P) = N + 16
    BY <1>1, <1>3, <2>1
  <2>3. Len(P) % 32 = 0
    BY <1>1, <2>1
  <2>4. Len(P) <= 256
    BY <1>2, <2>2, <2>3
  <2>5. PaddingOf(P, N, half)
    BY <1>1, <1>3, <2>2 DEF PaddingOf
  <2> QED BY <1>1, <2>4, <2>5 DEF P, N, half
<1>4. CASE ~half
  <2> HIDE DEF P, N, half, n
  <2>1. Len(P) = N
    BY <1>1, <1>2, <1>4
  <2>2. PaddingOf(P, N, half)
    BY <1>4, <2>1 DEF PaddingOf
  <2> QED BY <1>1, <1>2, <2>1, <2>2 DEF P, N, half
<1> QED BY <1>3, <1>4

HexHow(t) ==
  RleHow(HexDepth, t.pixels, 512, [nColors |-> 256, colorPal |-> <<>>, colorMap |-> <<>>], FALSE, 1)

\* Hextile tells nativeToRle to write pairs of bytes.
LEMMA HexHowTold ==
  ASSUME NEW t \in HexTiles
  PROVE  Bytewise(HexHow(t)) /\ HexHow(t).padded = HalfWord(HexDepth, t.pixels)
<1> DEFINE m == MapsColors(HexDepth, 256)
           h == HalfWord(HexDepth, t.pixels)
           how == HexHow(t)
           none == <<>>
<1>1. ~m /\ m \in BOOLEAN
  <2>1. ~(256 < NativeColors(HexDepth))
    <3>1. 2 ^ 1 = 2 /\ 2 ^ 2 = 4 /\ 2 ^ 4 = 16 /\ 2 ^ 8 = 256
      OBVIOUS
    <3>2. HexDepth \in {1, 2, 4, 8}
      BY HexTileIs
    <3>3. NativeColors(HexDepth) \in {2, 4, 16, 256}
      <4>1. NativeColors(HexDepth) = 2 ^ HexDepth
        BY DEF NativeColors
      <4>2. CASE HexDepth = 1
        BY <3>1, <4>1, <4>2
      <4>3. CASE HexDepth = 2
        BY <3>1, <4>1, <4>3
      <4>4. CASE HexDepth = 4
        BY <3>1, <4>1, <4>4
      <4>5. CASE HexDepth = 8
        BY <3>1, <4>1, <4>5
      <4> QED BY <3>2, <4>2, <4>3, <4>4, <4>5
    <3> QED BY <3>3
  <2>2. ~m
    BY <2>1 DEF MapsColors
  <2>3. m \in BOOLEAN
    BY DEF MapsColors
  <2> QED BY <2>2, <2>3
<1>2. h \in BOOLEAN
  BY Zenon DEF HalfWord
<1>3. how = [stop |-> 512, packRuns |-> FALSE, colorSize |-> 1, mapColors |-> m,
             colorMap |-> none, padded |-> h]
  BY DEF HexHow, RleHow
<1>4. \A c \in 0..255 : Place(none, c) \in Int
  <2>1. DOMAIN none = {}
    OBVIOUS
  <2> HIDE DEF none
  <2> QED BY <2>1 DEF Place
<1> DEFINE f == FALSE
<1>5. f \in BOOLEAN /\ ~f
  OBVIOUS
<1> HIDE DEF m, h, how, none, f
<1>6. how = [stop |-> 512, packRuns |-> f, colorSize |-> 1, mapColors |-> m,
             colorMap |-> none, padded |-> h]
  BY <1>3 DEF f
<1>7. /\ how.stop = 512 /\ how.packRuns = f /\ how.colorSize = 1 /\ how.mapColors = m
      /\ how.colorMap = none /\ how.padded = h
  BY <1>6
<1>8. Told(how)
  BY <1>1, <1>2, <1>4, <1>5, <1>7 DEF Told
<1>9. Bytewise(how)
  BY <1>1, <1>5, <1>7, <1>8, Zenon DEF Bytewise
<1> QED BY <1>7, <1>9 DEF how, h

\* What Hextile reads of the runs are the runs of the tile.
LEMMA HexRunsAre ==
  ASSUME NEW t \in HexTiles
  PROVE  \E m, E : Segments(t.pixels, m, E, HexRuns(t))
<1> DEFINE Q == t.pixels
           N == Len(Q)
           P == Padded(HexDepth, Q)
           W == Words(HexDepth, Q)
           how == HexHow(t)
           s == AfterWords(how, FirstState(Q), W, Len(W))[Len(W)]
           out == NativeToRle(HexDepth, Q, how).out
           runs == HexRuns(t)
<1>1. /\ HexDepth \in {1, 2, 4, 8} /\ Q \in Seq(0..255) /\ N \in Nat \ {0} /\ N <= 256 /\ N > 0
      /\ (2 * Len(Q)) % PixelsPerWord(HexDepth) = 0
  BY HexTileIs
<1>2. /\ P \in Seq(0..255) /\ Len(P) <= 256 /\ PaddingOf(P, N, how.padded)
      /\ \A k \in 1..N : P[k] = Q[k]
  BY HexPadded, HexHowTold
<1>3. Bytewise(how)
  BY HexHowTold
<1>4. RunsSoFar(s, P, Len(P))
  <2> HIDE DEF how
  <2>1. LET V == Words(HexDepth, Q)  O == Padded(HexDepth, Q) IN
         RunsSoFar(AfterWords(how, FirstState(Q), V, Len(V))[Len(V)], O, Len(O))
    BY <1>1, <1>2, <1>3, WordsGoOn
  <2> QED BY <2>1
<1>5. NativeToRle(HexDepth, Q, how) = WriteLast(how, s)
  BY NativeToRleIs
<1> HIDE DEF s, how, P, N
<1>6. \E m, E : BytesAre(WriteLast(how, s).out, P, N, m, E)
  BY <1>1, <1>2, <1>3, <1>4, LastBytes
<1>7. PICK m, E : BytesAre(out, P, N, m, E)
  BY <1>5, <1>6
<1>8. runs = [i \in 1..(Len(out) \div 2) |-> [color |-> out[2 * i - 1], count |-> out[2 * i] + 1]]
  BY DEF HexRuns, HexHow, how
<1> HIDE DEF out, runs
<1>9. /\ m \in Nat \ {0} /\ E \in [0..m -> 0..N] /\ E[0] = 0 /\ E[m] = N
      /\ out \in Seq(Int) /\ Len(out) >= 2 * m /\ PairsAre(P, out, m, E) /\ Breaking(P, m - 1, E)
  BY <1>7 DEF BytesAre
<1>10. Len(out) \div 2 \in Nat /\ Len(out) \div 2 >= m
  <2>1. Len(out) \in Nat
    BY <1>9
  <2> QED BY <1>9, <2>1
<1>11. Len(runs) = Len(out) \div 2
  BY <1>8, <1>10
<1>12. \A i \in 0..m : E[i] \in 0..N
  BY <1>9
<1>13. ASSUME NEW i \in 1..m
       PROVE  /\ E[i - 1] < E[i] /\ Alike(Q, E[i - 1], E[i])
              /\ runs[i].color = Q[E[i - 1] + 1] /\ runs[i].count = E[i] - E[i - 1]
  <2>1. /\ E[i - 1] < E[i] /\ Alike(P, E[i - 1], E[i])
        /\ out[2 * i - 1] = P[E[i - 1] + 1] /\ out[2 * i] = (E[i] - E[i - 1]) - 1
    BY <1>9, Zenon DEF PairsAre
  <2>2. E[i] \in 0..N /\ E[i - 1] \in 0..N /\ i \in 1..(Len(out) \div 2)
    <3>1. i \in 0..m /\ i - 1 \in 0..m
      BY <1>9
    <3> QED BY <1>9, <1>10, <1>12, <3>1
  <2>3. runs[i] = [color |-> out[2 * i - 1], count |-> out[2 * i] + 1]
    BY <1>8, <2>2
  <2> DEFINE a == E[i - 1]
             b == E[i]
  <2> HIDE DEF a, b
  <2>4. a \in 0..N /\ b \in 0..N /\ a < b /\ N \in Nat
    BY <1>1, <2>1, <2>2 DEF a, b
  <2>5. P[a + 1] = Q[a + 1]
    <3>1. a + 1 \in 1..N
      BY <2>4
    <3> QED BY <1>2, <3>1
  <2>6. Alike(Q, a, b)
    <3> SUFFICES ASSUME NEW k \in (a + 1)..b PROVE Q[k] = Q[a + 1]
      BY DEF Alike
    <3>1. k \in 1..N
      BY <2>4
    <3>2. P[k] = P[a + 1]
      BY <2>1 DEF Alike, a, b
    <3> QED BY <1>2, <2>5, <3>1, <3>2
  <2>7. runs[i].color = out[2 * i - 1] /\ runs[i].count = out[2 * i] + 1
    BY <2>3
  <2>8. out[2 * i] + 1 = b - a
    <3>1. out[2 * i] = (b - a) - 1
      BY <2>1 DEF a, b
    <3> QED BY <2>4, <3>1
  <2> QED BY <2>1, <2>5, <2>6, <2>7, <2>8 DEF a, b
<1>14. Breaking(Q, m - 1, E)
  <2> SUFFICES ASSUME NEW i \in 1..(m - 1) PROVE Q[E[i]] # Q[E[i] + 1]
    BY DEF Breaking
  <2>1. P[E[i]] # P[E[i] + 1]
    BY <1>9 DEF Breaking
  <2>2. i \in 0..m /\ i \in 1..m /\ i + 1 \in 0..m /\ i + 1 \in 1..m /\ (i + 1) - 1 = i /\ i - 1 \in 0..m
    BY <1>9
  <2>3. E[i] < E[i + 1] /\ E[i - 1] < E[i]
    <3>1. E[(i + 1) - 1] < E[i + 1]
      BY <1>9, <2>2, Zenon DEF PairsAre
    <3>2. E[i - 1] < E[i]
      BY <1>9, <2>2, Zenon DEF PairsAre
    <3> QED BY <2>2, <3>1, <3>2
  <2>4. E[i] \in 0..N /\ E[i + 1] \in 0..N /\ E[i - 1] \in 0..N
    BY <1>12, <2>2
  <2>5. E[i] \in 1..N /\ E[i] + 1 \in 1..N
    BY <1>1, <2>3, <2>4
  <2> QED BY <1>2, <2>1, <2>5
<1>15. Segments(Q, m, E, runs)
  <2>1. Len(Q) = N
    BY DEF N
  <2> QED BY <1>9, <1>10, <1>11, <1>13, <1>14, <2>1, Zenon DEF Segments
<1> QED BY <1>15 DEF Q, runs

----------------------------------------------------------------------------
(* Places of a tile of C columns, counted row by row.                       *)

\* A place is in a row and in a column.
LEMMA PlaceParts ==
  ASSUME NEW C \in 1..16, NEW n \in Nat, NEW q, q = n \div C, NEW r, r = n % C
  PROVE  q \in Nat /\ r \in 0..(C - 1) /\ n = q * C + r
OBVIOUS

\* The row and the column of a place.
LEMMA PlaceOf ==
  ASSUME NEW C \in 1..16, NEW y \in Nat, NEW x \in 0..(C - 1)
  PROVE  (y * C + x) \div C = y /\ (y * C + x) % C = x /\ y * C + x \in Nat
OBVIOUS

\* A row ends before the next begins.
LEMMA PlaceOrder ==
  ASSUME NEW C \in 1..16, NEW y \in Nat, NEW z \in Nat, y < z
  PROVE  y * C + C <= z * C
OBVIOUS

\* The places of some rows and of some more.
LEMMA RowsAdd ==
  ASSUME NEW C \in 1..16, NEW y \in Nat, NEW h \in Nat
  PROVE  (y + h) * C = y * C + h * C /\ y * C \in Nat /\ h * C \in Nat
OBVIOUS

----------------------------------------------------------------------------
(* The loops that make rectangles of the runs.                              *)

RectMove(t, runs, s) == IF s.y >= t.rows THEN s ELSE RectStep(t, runs, s)

RectRun(f, t, runs, s0, n) ==
  f = [k \in 0..n |-> IF k = 0 THEN s0 ELSE RectMove(t, runs, f[k - 1])]

\* The states of the loops are a function on the steps.
LEMMA RectRunExists ==
  \A t, runs, s0 : \A n \in Nat : \E f : RectRun(f, t, runs, s0, n)
<1> SUFFICES ASSUME NEW t, NEW runs, NEW s0 PROVE \A n \in Nat : \E f : RectRun(f, t, runs, s0, n)
  OBVIOUS
<1> DEFINE B == {n \in Nat : ~ \E f : RectRun(f, t, runs, s0, n)}
<1> SUFFICES ASSUME B # {} PROVE FALSE
  OBVIOUS
<1>1. PICK n \in B : \A k \in B : n <= k
  <2>1. B \in SUBSET Nat
    OBVIOUS
  <2> HIDE DEF B
  <2> QED BY <2>1, LeastNumber
<1>2. n \in Nat /\ ~ \E f : RectRun(f, t, runs, s0, n)
  OBVIOUS
<1>3. CASE n = 0
  <2> DEFINE g == [k \in 0..0 |-> s0]
  <2>1. RectRun(g, t, runs, s0, 0)
    <3>1. g = [k \in 0..0 |-> IF k = 0 THEN s0 ELSE RectMove(t, runs, g[k - 1])]
      OBVIOUS
    <3> QED BY <3>1 DEF RectRun
  <2> QED BY <1>2, <1>3, <2>1
<1>4. CASE n # 0
  <2>1. n - 1 \in Nat /\ n - 1 < n
    BY <1>2, <1>4
  <2>2. n - 1 \notin B
    <3> HIDE DEF B
    <3> QED BY <1>1, <1>2, <2>1
  <2>3. PICK f : RectRun(f, t, runs, s0, n - 1)
    BY <2>1, <2>2
  <2> DEFINE g == [k \in 0..n |-> IF k = n THEN RectMove(t, runs, f[n - 1]) ELSE f[k]]
             h == [k \in 0..n |-> IF k = 0 THEN s0 ELSE RectMove(t, runs, g[k - 1])]
  <2>4. \A k \in 0..(n - 1) : g[k] = f[k] /\ f[k] = IF k = 0 THEN s0 ELSE RectMove(t, runs, f[k - 1])
    BY <1>2, <2>3 DEF RectRun
  <2>5. g[n] = RectMove(t, runs, f[n - 1])
    BY <1>2
  <2>6. \A k \in 0..n : g[k] = IF k = 0 THEN s0 ELSE RectMove(t, runs, g[k - 1])
    <3> TAKE k \in 0..n
    <3>1. CASE k = 0
      <4>1. 0 \in 0..(n - 1)
        BY <2>1
      <4> HIDE DEF g
      <4> QED BY <2>4, <3>1, <4>1
    <3>2. CASE k = n /\ k # 0
      <4>1. n - 1 \in 0..(n - 1)
        BY <2>1
      <4>2. g[n - 1] = f[n - 1]
        BY <2>4, <4>1
      <4> HIDE DEF g
      <4> QED BY <2>5, <3>2, <4>2
    <3>3. CASE k # n /\ k # 0
      <4>1. k \in 0..(n - 1) /\ k - 1 \in 0..(n - 1)
        BY <1>2, <3>3
      <4>2. g[k] = f[k] /\ g[k - 1] = f[k - 1] /\ f[k] = RectMove(t, runs, f[k - 1])
        BY <2>4, <4>1, <3>3
      <4> HIDE DEF g
      <4> QED BY <3>3, <4>2
    <3> QED BY <3>1, <3>2, <3>3
  <2>7. g = h
    <3>1. g = [k \in 0..n |-> g[k]]
      OBVIOUS
    <3> HIDE DEF g
    <3> QED BY <2>6, <3>1
  <2>8. RectRun(g, t, runs, s0, n)
    BY <2>7 DEF RectRun
  <2> HIDE DEF g
  <2> QED BY <1>2, <2>8
<1> QED BY <1>3, <1>4

AfterRects(t, runs, s0, n) == CHOOSE f : RectRun(f, t, runs, s0, n)

\* The state after a step is made of the one before.
LEMMA AfterRectsIs ==
  ASSUME NEW t, NEW runs, NEW s0, NEW n \in Nat
  PROVE  /\ AfterRects(t, runs, s0, n)[0] = s0
         /\ \A k \in 1..n : AfterRects(t, runs, s0, n)[k]
                              = RectMove(t, runs, AfterRects(t, runs, s0, n)[k - 1])
<1> DEFINE f == AfterRects(t, runs, s0, n)
<1>1. RectRun(f, t, runs, s0, n)
  BY RectRunExists DEF AfterRects
<1> HIDE DEF f
<1>2. f[0] = s0
  BY <1>1 DEF RectRun
<1>3. ASSUME NEW k \in 1..n PROVE f[k] = RectMove(t, runs, f[k - 1])
  <2>1. k \in 0..n /\ k # 0
    OBVIOUS
  <2> QED BY <1>1, <2>1 DEF RectRun
<1> QED BY <1>2, <1>3 DEF f

FirstRects(runs) ==
  [rects |-> <<>>, top |-> [x \in 0..15 |-> 1], x |-> 0, y |-> 0,
   run |-> 1, left |-> runs[1].count]

\* The LET of Rects chooses that function.
LEMMA RectsIs ==
  ASSUME NEW t
  PROVE  LET runs == HexRuns(t)  n == t.rows * t.cols IN
         Rects(t) = AfterRects(t, runs, FirstRects(runs), n)[n].rects
BY DEF Rects, AfterRects, RectRun, RectMove, FirstRects

\* The parts of a step.
IsFull(t, s) == s.left >= t.cols /\ s.x = 0
HighOf(t, s) == IF IsFull(t, s) THEN s.left \div t.cols ELSE 1
WideOf(t, s) ==
  IF IsFull(t, s) THEN t.cols ELSE IF s.left < t.cols - s.x THEN s.left ELSE t.cols - s.x
RectOf(t, runs, s) ==
  [c |-> runs[s.run].color, x |-> s.x, y |-> s.y, w |-> WideOf(t, s) - 1, b |-> s.y + HighOf(t, s)]
LeftOf(t, s) == s.left - HighOf(t, s) * WideOf(t, s)
RowEnds(t, s) == s.x + WideOf(t, s) = t.cols
MergesTop(t, runs, s) == s.rects # <<>> /\ Merges(RectOf(t, runs, s), s.rects[s.top[s.x]])
Merged(s) == [s.rects EXCEPT ![s.top[s.x]].b = @ + 1]

\* What a step makes of the state.
Stepped(t, runs, s, n) ==
  /\ n.rects = IF MergesTop(t, runs, s) THEN Merged(s) ELSE Append(s.rects, RectOf(t, runs, s))
  /\ n.top = IF MergesTop(t, runs, s) THEN s.top ELSE [s.top EXCEPT ![s.x] = Len(s.rects) + 1]
  /\ n.x = IF RowEnds(t, s) THEN 0 ELSE s.x + WideOf(t, s)
  /\ n.y = IF RowEnds(t, s) THEN s.y + HighOf(t, s) ELSE s.y
  /\ n.run = IF LeftOf(t, s) = 0 THEN s.run + 1 ELSE s.run
  /\ n.left = IF LeftOf(t, s) = 0 /\ s.run < Len(runs) THEN runs[s.run + 1].count ELSE LeftOf(t, s)

\* The parts are those of the step.
LEMMA RectStepIs ==
  ASSUME NEW t, NEW runs, NEW s
  PROVE  Stepped(t, runs, s, RectStep(t, runs, s))
<1> DEFINE n == RectStep(t, runs, s)
<1>1. n = [rects |-> IF MergesTop(t, runs, s) THEN Merged(s) ELSE Append(s.rects, RectOf(t, runs, s)),
           top   |-> IF MergesTop(t, runs, s) THEN s.top ELSE [s.top EXCEPT ![s.x] = Len(s.rects) + 1],
           x     |-> IF RowEnds(t, s) THEN 0 ELSE s.x + WideOf(t, s),
           y     |-> IF RowEnds(t, s) THEN s.y + HighOf(t, s) ELSE s.y,
           run   |-> IF LeftOf(t, s) = 0 THEN s.run + 1 ELSE s.run,
           left  |-> IF LeftOf(t, s) = 0 /\ s.run < Len(runs) THEN runs[s.run + 1].count
                     ELSE LeftOf(t, s)]
  BY Zenon DEF RectStep, MergesTop, Merged, RectOf, RowEnds, WideOf, HighOf, LeftOf, IsFull
<1> HIDE DEF n
<1> QED BY <1>1 DEF Stepped, n

----------------------------------------------------------------------------
(* The rectangles of the runs cover the tile.                               *)

PlaceAt(t, s) == s.y * t.cols + s.x

\* How the step moves on among C columns and R rows, from x and y to x2 and y2.
Moves(C, R, x, y, left, h, w, x2, y2) ==
  /\ h \in Nat \ {0} /\ w \in Nat \ {0} /\ x + w <= C /\ h * w \in Nat \ {0} /\ h * w <= left
  /\ x2 \in 0..(C - 1) /\ y2 \in 0..R /\ (y2 = R => x2 = 0) /\ y <= y2
  /\ y2 * C + x2 = (y * C + x) + h * w
  /\ (left >= C /\ x = 0) => w = C /\ left - h * w < C /\ x2 = 0 /\ y2 = y + h
  /\ ~(left >= C /\ x = 0) => h = 1 /\ w < C /\ (x2 = 0 => y2 = y + 1)

\* A step moves on by the pixels of its rectangle, to the next row where it ends one.
LEMMA PlaceMoves ==
  ASSUME NEW C \in 1..16, NEW R \in 1..16, NEW x \in 0..(C - 1), NEW y \in Nat, y < R,
         NEW left \in Nat \ {0}, (y * C + x) + left <= R * C,
         NEW full \in BOOLEAN, full <=> (left >= C /\ x = 0),
         NEW h, h = (IF full THEN left \div C ELSE 1),
         NEW w, w = (IF full THEN C ELSE IF left < C - x THEN left ELSE C - x),
         NEW x2, x2 = (IF x + w = C THEN 0 ELSE x + w),
         NEW y2, y2 = (IF x + w = C THEN y + h ELSE y)
  PROVE  Moves(C, R, x, y, left, h, w, x2, y2)
<1>1. y * C \in Nat /\ R * C \in Nat
  BY RowsAdd
<1>2. CASE full
  <2>1. h = left \div C /\ w = C /\ x = 0 /\ left >= C
    BY <1>2
  <2>2. x2 = 0 /\ y2 = y + h
    BY <2>1
  <2> DEFINE r == left % C
  <2>12. r = left % C /\ h = left \div C /\ left \in Nat
    BY <2>1
  <2> HIDE DEF r
  <2>3. h \in Nat /\ r \in 0..(C - 1) /\ left = h * C + r
    BY <2>12
  <2>4. h # 0
    <3> SUFFICES ASSUME h = 0 PROVE FALSE
      OBVIOUS
    <3>1. h * C = 0
      OBVIOUS
    <3>2. left = 0 + r
      BY <2>3, <3>1
    <3> QED BY <2>1, <2>3, <3>2
  <2>5. (y + h) * C = y * C + h * C /\ h * C \in Nat
    BY <2>3, RowsAdd
  <2>6. y + h <= R
    <3> SUFFICES ASSUME R < y + h PROVE FALSE
      BY <2>3
    <3>1. R * C + C <= (y + h) * C
      <4>1. y + h \in Nat /\ R \in Nat
        BY <2>3
      <4> QED BY <4>1, PlaceOrder
    <3> QED BY <1>1, <2>1, <2>3, <2>5, <3>1
  <2> DEFINE hc == h * C
             yc == y * C
             zc == (y + h) * C
  <2>7. hc \in Nat /\ hc <= left /\ left - hc < C /\ zc = yc + hc /\ hc # 0
    BY <2>1, <2>3, <2>5
  <2> HIDE DEF hc, yc, zc
  <2>8. h * w = hc /\ y2 * C = zc
    BY <2>1, <2>2, Zenon DEF hc, zc
  <2>9. y2 * C + x2 = (y * C + x) + h * w
    <3>1. yc \in Nat
      BY <1>1 DEF yc
    <3>2. zc + 0 = (yc + 0) + hc
      BY <2>7, <3>1
    <3> QED BY <2>1, <2>2, <2>8, <3>2 DEF yc
  <2>10. /\ h \in Nat \ {0} /\ w \in Nat \ {0} /\ x + w <= C
         /\ x2 \in 0..(C - 1) /\ y2 \in 0..R /\ (y2 = R => x2 = 0) /\ y <= y2
    BY <2>1, <2>2, <2>3, <2>4, <2>6
  <2> HIDE DEF Moves
  <2>11. h * w \in Nat \ {0} /\ h * w <= left /\ left - h * w < C
    BY <2>7, <2>8
  <2> QED BY <1>2, <2>1, <2>2, <2>9, <2>10, <2>11, Zenon DEF Moves
<1>3. CASE ~full
  <2>1. h = 1 /\ w = (IF left < C - x THEN left ELSE C - x) /\ ~(left >= C /\ x = 0)
    BY <1>3
  <2>2. w \in Nat \ {0} /\ x + w <= C /\ w < C /\ w <= left
    BY <2>1
  <2>3. h * w = w
    BY <2>1, <2>2
  <2>4. CASE x + w = C
    <3>1. x2 = 0 /\ y2 = y + 1
      BY <2>1, <2>4
    <3>2. (y + 1) * C = y * C + 1 * C /\ 1 * C = C
      BY RowsAdd
    <3>3. y2 * C + x2 = (y * C + x) + w
      BY <1>1, <2>2, <2>4, <3>1, <3>2
    <3>4. /\ h \in Nat \ {0} /\ w \in Nat \ {0} /\ x + w <= C /\ w \in Nat \ {0} /\ w <= left
          /\ x2 \in 0..(C - 1) /\ y2 \in 0..R /\ (y2 = R => x2 = 0) /\ y <= y2
      BY <2>1, <2>2, <3>1
    <3> QED BY <2>1, <2>2, <2>3, <3>1, <3>3, <3>4, Zenon DEF Moves
  <2>5. CASE x + w # C
    <3>1. x2 = x + w /\ y2 = y /\ x2 # 0
      BY <2>2, <2>5
    <3>2. y2 * C + x2 = (y * C + x) + w
      BY <1>1, <2>2, <3>1
    <3>3. /\ h \in Nat \ {0} /\ w \in Nat \ {0} /\ x + w <= C /\ w \in Nat \ {0} /\ w <= left
          /\ x2 \in 0..(C - 1) /\ y2 \in 0..R /\ (y2 = R => x2 = 0) /\ y <= y2
      BY <2>1, <2>2, <2>5, <3>1
    <3> QED BY <2>1, <2>2, <2>3, <3>1, <3>2, <3>3, Zenon DEF Moves
  <2> QED BY <2>4, <2>5
<1> QED BY <1>2, <1>3

\* Where the loops are: in run s.run, whose pixels from here on are s.left.
Where(t, s, m, E) ==
  /\ s.x \in 0..(t.cols - 1) /\ s.y \in 0..t.rows /\ (s.y = t.rows => s.x = 0)
  /\ s.y < t.rows => /\ s.run \in 1..m /\ E[s.run - 1] <= PlaceAt(t, s)
                     /\ PlaceAt(t, s) < E[s.run] /\ s.left = E[s.run] - PlaceAt(t, s)

\* A rectangle covers pixels of its colour before place q only, and one at least.
RectRight(t, r, q) ==
  /\ r.y < r.b
  /\ \A x, y : Covers(r, x, y) =>
       x \in 0..(t.cols - 1) /\ y \in Nat /\ y * t.cols + x < q
         /\ t.pixels[(y * t.cols + x) + 1] = r.c

Rectangles == [c : Colours, x : 0..15, y : Nat, w : Nat, b : Nat]

Tops(s) ==
  /\ s.rects \in Seq(Rectangles) /\ s.top \in [0..15 -> Nat \ {0}]
  /\ \A x \in 0..15 : s.top[x] <= Len(s.rects) \/ s.top[x] = 1

AllRight(t, rects, q) == \A i \in 1..Len(rects) : RectRight(t, rects[i], q)

\* Every place before q is covered.
Covered(t, rects, q) ==
  \A k \in 0..(q - 1) : \E i \in 1..Len(rects) : Covers(rects[i], k % t.cols, k \div t.cols)

\* A rectangle as wide as the tile lies above, and is of another colour where it could be
\* merged with one that is more than a row high.
WideAbove(t, runs, s) ==
  \A i \in 1..Len(s.rects) : s.rects[i].w = t.cols - 1 =>
    /\ s.rects[i].b <= s.y
    /\ (s.rects[i].b = s.y /\ s.x = 0 /\ s.y < t.rows /\ s.left >= t.cols)
         => s.rects[i].c # runs[s.run].color

RectInv(t, runs, s, m, E) ==
  /\ Where(t, s, m, E) /\ Tops(s) /\ AllRight(t, s.rects, PlaceAt(t, s))
  /\ Covered(t, s.rects, PlaceAt(t, s)) /\ WideAbove(t, runs, s)

\* The run of the next state: the same, with what is left of it, or the one behind it.
NextRun(t, runs, s, n, m, E) ==
  \/ /\ n.run = s.run /\ n.left = s.left - HighOf(t, s) * WideOf(t, s)
     /\ n.left # 0
  \/ n.run = s.run + 1 /\ n.run <= m /\ PlaceAt(t, n) = E[s.run] /\ n.left = E[n.run] - E[s.run]

StepFacts(t, runs, s, n, m, E) ==
  /\ Moves(t.cols, t.rows, s.x, s.y, s.left, HighOf(t, s), WideOf(t, s), n.x, n.y)
  /\ PlaceAt(t, n) <= E[s.run] /\ Where(t, n, m, E)
  /\ n.y < t.rows => NextRun(t, runs, s, n, m, E)

\* A step ends in the run it is in, or where the next one begins.
LEMMA StepWhere ==
  ASSUME NEW t \in HexTiles, NEW runs, NEW m, NEW E, Segments(t.pixels, m, E, runs),
         NEW s, Where(t, s, m, E), s.y < t.rows, NEW n, Stepped(t, runs, s, n)
  PROVE  StepFacts(t, runs, s, n, m, E)
<1> DEFINE C == t.cols
           R == t.rows
           N == Len(t.pixels)
           h == HighOf(t, s)
           w == WideOf(t, s)
           q == PlaceAt(t, s)
           q2 == PlaceAt(t, n)
           left == s.left
           x == s.x
           y == s.y
           x2 == n.x
           y2 == n.y
           k == s.run
           a == E[k - 1]
           e == E[k]
<1>1. C \in 1..16 /\ R \in 1..16 /\ N = R * C
  BY HexTileIs
<1>2. x \in 0..(C - 1) /\ y \in Nat /\ y < R /\ k \in 1..m /\ a <= q /\ q < e /\ left = e - q
  BY <1>1 DEF Where
<1>3. /\ m \in Nat \ {0} /\ E \in [0..m -> 0..N] /\ E[m] = N /\ Len(runs) \in Nat /\ Len(runs) >= m
      /\ \A i \in 1..m : E[i - 1] < E[i] /\ runs[i].count = E[i] - E[i - 1]
  BY DEF Segments
<1>4. N \in Nat
  BY HexTileIs
<1>5. q = y * C + x /\ q2 = y2 * C + x2 /\ q \in Nat
  <2>1. q = y * C + x /\ q2 = y2 * C + x2
    BY DEF PlaceAt
  <2>2. C \in 1..16 /\ y \in Nat /\ x \in 0..(C - 1)
    BY <1>1, <1>2, Zenon
  <2>3. y * C + x \in Nat
    <3> HIDE DEF C, y, x
    <3> QED BY <2>2, PlaceOf
  <2> QED BY <2>1, <2>3
<1>6. e \in 0..N /\ a \in 0..N
  <2>1. k \in 0..m /\ k - 1 \in 0..m
    <3>1. k \in 1..m /\ m \in Nat \ {0}
      BY <1>2, <1>3, Zenon
    <3> HIDE DEF k
    <3> QED BY <3>1
  <2> QED BY <1>3, <2>1
<1>7. left \in Nat \ {0} /\ q + left <= N
  <2> HIDE DEF q, e, left, N
  <2> QED BY <1>2, <1>4, <1>5, <1>6
<1> DEFINE full == IsFull(t, s)
<1>8. /\ full \in BOOLEAN /\ (full <=> (left >= C /\ x = 0))
      /\ h = (IF full THEN left \div C ELSE 1)
      /\ w = (IF full THEN C ELSE IF left < C - x THEN left ELSE C - x)
  BY Zenon DEF IsFull, HighOf, WideOf
<1>9. /\ x2 = (IF x + w = C THEN 0 ELSE x + w)
      /\ y2 = (IF x + w = C THEN y + h ELSE y)
      /\ n.run = (IF LeftOf(t, s) = 0 THEN k + 1 ELSE k)
      /\ n.left = (IF LeftOf(t, s) = 0 /\ k < Len(runs) THEN runs[k + 1].count ELSE LeftOf(t, s))
      /\ LeftOf(t, s) = left - h * w
  BY ZenonT(60) DEF Stepped, RowEnds, LeftOf
<1> HIDE DEF C, R, N, h, w, q, q2, left, x, y, x2, y2, k, a, e, full
<1>10. Moves(C, R, x, y, left, h, w, x2, y2)
  <2>1. (y * C + x) + left <= R * C
    BY <1>1, <1>5, <1>7
  <2> QED BY <1>1, <1>2, <1>7, <1>8, <1>9, <2>1, PlaceMoves
<1>11. /\ h * w \in Nat \ {0} /\ h * w <= left /\ x2 \in 0..(C - 1) /\ y2 \in 0..R
       /\ (y2 = R => x2 = 0) /\ q2 = q + h * w
  BY <1>5, <1>10 DEF Moves
<1> DEFINE hw == h * w
<1> HIDE DEF hw
<1>12. /\ hw \in Nat \ {0} /\ hw <= left /\ q2 = q + hw /\ LeftOf(t, s) = left - hw
  BY <1>9, <1>11 DEF hw
<1>13. q2 <= e /\ LeftOf(t, s) = e - q2 /\ q2 \in Nat /\ q <= q2
  BY <1>2, <1>5, <1>6, <1>7, <1>12
<1>14. ASSUME y2 < R
       PROVE  /\ n.run \in 1..m /\ E[n.run - 1] <= q2 /\ q2 < E[n.run] /\ n.left = E[n.run] - q2
              /\ \/ n.run = k /\ n.left = left - hw /\ n.left # 0
                 \/ n.run = k + 1 /\ n.run <= m /\ q2 = e /\ n.left = E[n.run] - e
  <2>1. CASE LeftOf(t, s) # 0
    <3>1. n.run = k /\ n.left = LeftOf(t, s)
      BY <1>9, <2>1
    <3>2. q2 < e
      BY <1>6, <1>13, <2>1
    <3> QED BY <1>2, <1>5, <1>6, <1>12, <1>13, <2>1, <3>1, <3>2 DEF a, e
  <2>2. CASE LeftOf(t, s) = 0
    <3>1. q2 = e
      BY <1>6, <1>13, <2>2
    <3>2. k # m
      <4> SUFFICES ASSUME k = m PROVE FALSE
        OBVIOUS
      <4>1. q2 = N
        BY <1>3, <3>1 DEF e
      <4>2. y2 * C + C <= R * C
        <5>1. y2 \in Nat /\ R \in Nat
          BY <1>1, <1>11
        <5> QED BY <1>1, <1>14, <5>1, PlaceOrder
      <4> DEFINE u == y2 * C
                 v == R * C
      <4>3. u \in Nat /\ v \in Nat
        BY <1>1, <1>11, RowsAdd
      <4>4. u + x2 = v /\ u + C <= v
        BY <1>1, <1>5, <4>1, <4>2
      <4> HIDE DEF u, v
      <4> QED BY <1>1, <1>11, <4>3, <4>4
    <3>3. k + 1 \in 1..m /\ k < Len(runs) /\ (k + 1) - 1 = k
      BY <1>2, <1>3, <3>2
    <3>4. n.run = k + 1 /\ n.left = runs[k + 1].count
      BY <1>9, <2>2, <3>3
    <3>5. E[k] < E[k + 1] /\ runs[k + 1].count = E[k + 1] - E[k]
      <4>1. E[(k + 1) - 1] < E[k + 1] /\ runs[k + 1].count = E[k + 1] - E[(k + 1) - 1]
        BY <1>3, <3>3
      <4> QED BY <3>3, <4>1
    <3>6. E[n.run - 1] = e /\ E[k + 1] = E[n.run]
      BY <3>3, <3>4 DEF e
    <3> QED BY <1>13, <3>1, <3>3, <3>4, <3>5, <3>6 DEF e
  <2> QED BY <2>1, <2>2
<1>15. Where(t, n, m, E)
  BY <1>11, <1>14 DEF Where, C, R, q2, x2, y2
<1>16. n.y < t.rows => NextRun(t, runs, s, n, m, E)
  BY <1>14, Zenon DEF NextRun, R, y2, q2, e, k, left, hw, h, w
<1>17. Moves(t.cols, t.rows, s.x, s.y, s.left, HighOf(t, s), WideOf(t, s), n.x, n.y)
  BY <1>10 DEF C, R, h, w, x, y, x2, y2, left
<1>18. PlaceAt(t, n) <= E[s.run]
  BY <1>13 DEF q2, e, k
<1> QED BY <1>15, <1>16, <1>17, <1>18 DEF StepFacts

\* The rectangle of a step covers the places that the step moves over, in their colour.
NewCovers(t, r, q, q2) ==
  /\ \A x, y : Covers(r, x, y) =>
       x \in 0..(t.cols - 1) /\ y \in Nat /\ q <= y * t.cols + x /\ y * t.cols + x < q2
  /\ \A k \in q..(q2 - 1) : Covers(r, k % t.cols, k \div t.cols) /\ t.pixels[k + 1] = r.c
  /\ r \in Rectangles /\ r.y < r.b

\* The places of a rectangle that is one row high, or as wide as the tile, follow each other.
LEMMA RectPlaces ==
  ASSUME NEW C \in 1..16, NEW x \in 0..(C - 1), NEW y \in Nat, NEW h \in Nat \ {0},
         NEW w \in Nat \ {0}, x + w <= C, (x = 0 /\ w = C) \/ h = 1
  PROVE  /\ \A i, j : i \in x..(x + w - 1) /\ j \in y..(y + h - 1) =>
              /\ i \in 0..(C - 1) /\ j \in Nat
              /\ y * C + x <= j * C + i /\ j * C + i < (y * C + x) + h * w
         /\ \A k \in (y * C + x)..((y * C + x) + h * w - 1) :
              k % C \in x..(x + w - 1) /\ k \div C \in y..(y + h - 1)
<1>1. h * w \in Nat /\ y * C \in Nat /\ h * C \in Nat
  OBVIOUS
<1>2. h = 1 => h * w = w
  OBVIOUS
<1>3. w = C => h * w = h * C
  OBVIOUS
<1>4. ASSUME NEW i, NEW j, i \in x..(x + w - 1), j \in y..(y + h - 1)
      PROVE  /\ i \in 0..(C - 1) /\ j \in Nat
             /\ y * C + x <= j * C + i /\ j * C + i < (y * C + x) + h * w
  <2>1. i \in 0..(C - 1) /\ j \in Nat /\ j * C \in Nat
    <3>1. i \in 0..(C - 1) /\ j \in Nat
      BY <1>4
    <3> QED BY <3>1, RowsAdd
  <2>2. CASE h = 1
    <3>1. j = y
      BY <1>4, <2>2
    <3> QED BY <1>1, <1>2, <1>4, <2>1, <2>2, <3>1
  <2>3. CASE x = 0 /\ w = C
    <3>1. j < y + h
      BY <1>4
    <3>2. j * C + C <= (y + h) * C
      <4>1. y + h \in Nat
        OBVIOUS
      <4> QED BY <2>1, <3>1, <4>1, PlaceOrder
    <3>3. (y + h) * C = y * C + h * C
      BY RowsAdd
    <3>4. y * C <= j * C
      <4>1. CASE j = y
        BY <1>1, <4>1
      <4>2. CASE y < j
        <5>1. y * C + C <= j * C
          BY <2>1, <4>2, PlaceOrder
        <5> QED BY <1>1, <2>1, <5>1
      <4> QED BY <1>4, <4>1, <4>2
    <3> DEFINE u == j * C
               v == y * C
               z == h * C
               g == (y + h) * C
               hw == h * w
    <3>5. u + C <= g /\ g = v + z /\ v <= u /\ hw = z /\ u \in Nat /\ v \in Nat /\ z \in Nat
      BY <1>1, <1>3, <2>1, <2>3, <3>2, <3>3, <3>4
    <3> HIDE DEF u, v, z, g, hw
    <3>6. v + x <= u + i /\ u + i < (v + x) + hw
      BY <2>1, <2>3, <3>5
    <3> QED BY <2>1, <3>6 DEF u, v, hw
  <2> QED BY <2>2, <2>3
<1>5. ASSUME NEW k \in (y * C + x)..((y * C + x) + h * w - 1)
      PROVE  k % C \in x..(x + w - 1) /\ k \div C \in y..(y + h - 1)
  <2>1. k \in Nat
    BY <1>1
  <2> DEFINE q == k \div C
             r == k % C
  <2>2. q = k \div C /\ r = k % C
    OBVIOUS
  <2> HIDE DEF q, r
  <2>3. q \in Nat /\ r \in 0..(C - 1) /\ k = q * C + r
    BY <2>1, <2>2
  <2>4. CASE h = 1
    <3> DEFINE i == k - y * C
    <3>1. i \in x..(x + w - 1) /\ i \in 0..(C - 1)
      <4> DEFINE v == y * C
                 hw == h * w
      <4>1. v \in Nat /\ hw = w /\ k \in (v + x)..((v + x) + hw - 1)
        BY <1>1, <1>2, <2>4
      <4> HIDE DEF v, hw
      <4>2. k - v \in x..(x + w - 1) /\ k - v \in 0..(C - 1)
        BY <4>1
      <4> QED BY <4>2 DEF v
    <3>2. k = y * C + i
      <4> DEFINE v == y * C
      <4>1. v \in Nat
        BY <1>1
      <4> HIDE DEF v
      <4>2. k = v + (k - v)
        BY <2>1, <4>1
      <4> QED BY <4>2 DEF v
    <3> HIDE DEF i
    <3>3. k \div C = y /\ k % C = i
      BY <3>1, <3>2, PlaceOf
    <3> QED BY <2>4, <3>1, <3>3
  <2>5. CASE x = 0 /\ w = C
    <3>1. q < y + h
      <4> SUFFICES ASSUME y + h <= q PROVE FALSE
        BY <2>3
      <4>1. (y + h) * C <= q * C
        <5>1. CASE y + h = q
          BY <1>1, <5>1
        <5>2. CASE y + h < q
          <6>1. y + h \in Nat
            OBVIOUS
          <6>2. (y + h) * C + C <= q * C
            BY <2>3, <5>2, <6>1, PlaceOrder
          <6>3. (y + h) * C \in Nat /\ q * C \in Nat
            BY <2>3, <6>1, RowsAdd
          <6> QED BY <6>2, <6>3
        <5> QED BY <2>3, <5>1, <5>2
      <4>2. (y + h) * C = y * C + h * C
        BY <2>3, RowsAdd
      <4> DEFINE u == q * C
                 v == y * C
                 z == h * C
                 g == (y + h) * C
                 hw == h * w
      <4>3. /\ u \in Nat /\ v \in Nat /\ z \in Nat /\ g <= u /\ g = v + z /\ hw = z
            /\ k = u + r /\ k \in (v + x)..((v + x) + hw - 1)
        BY <1>1, <1>3, <2>3, <2>5, <4>1, <4>2, RowsAdd
      <4> HIDE DEF u, v, z, g, hw
      <4> QED BY <2>3, <2>5, <4>3
    <3>2. y <= q
      <4> SUFFICES ASSUME q < y PROVE FALSE
        BY <2>3
      <4>1. q * C + C <= y * C
        BY <2>3, PlaceOrder
      <4> DEFINE u == q * C
                 v == y * C
                 hw == h * w
      <4>2. u \in Nat /\ v \in Nat /\ u + C <= v /\ k = u + r /\ k \in (v + x)..((v + x) + hw - 1)
        BY <1>1, <2>3, <4>1, RowsAdd
      <4> HIDE DEF u, v, hw
      <4> QED BY <1>1, <2>3, <2>5, <4>2
    <3>3. q \in y..(y + h - 1) /\ r \in x..(x + w - 1)
      BY <2>3, <2>5, <3>1, <3>2
    <3> QED BY <2>2, <3>3
  <2> QED BY <2>4, <2>5
<1> QED BY <1>4, <1>5

\* A rectangle is of one run, so all its pixels have the colour of it.
LEMMA StepCovers ==
  ASSUME NEW t \in HexTiles, NEW runs, NEW m, NEW E, Segments(t.pixels, m, E, runs),
         NEW s, Where(t, s, m, E), s.y < t.rows, NEW n, Stepped(t, runs, s, n)
  PROVE  NewCovers(t, RectOf(t, runs, s), PlaceAt(t, s), PlaceAt(t, n))
<1> DEFINE C == t.cols
           R == t.rows
           h == HighOf(t, s)
           w == WideOf(t, s)
           q == PlaceAt(t, s)
           q2 == PlaceAt(t, n)
           x == s.x
           y == s.y
           r == RectOf(t, runs, s)
           P == t.pixels
           N == Len(P)
           e == E[s.run]
           a == E[s.run - 1]
<1>1. C \in 1..16 /\ R \in 1..16 /\ P \in Seq(0..255) /\ N \in Nat /\ N = R * C
  BY HexTileIs
<1>2. x \in 0..(C - 1) /\ y \in Nat /\ y < R /\ s.run \in 1..m /\ a <= q /\ q < e
  BY <1>1 DEF Where
<1>3. StepFacts(t, runs, s, n, m, E)
  BY StepWhere
<1>4. Moves(C, R, x, y, s.left, h, w, n.x, n.y) /\ q2 <= e
  BY <1>3 DEF StepFacts
<1>5. q = y * C + x /\ q2 = n.y * C + n.x
  BY DEF PlaceAt
<1>6. r.c = runs[s.run].color /\ r.x = x /\ r.y = y /\ r.w = w - 1 /\ r.b = y + h
      /\ r = [c |-> r.c, x |-> r.x, y |-> r.y, w |-> r.w, b |-> r.b]
  BY DEF RectOf
<1>17. r.x = x /\ r.y = y /\ r.w = w - 1 /\ r.b = y + h
  BY <1>6
<1>7. e \in 0..N /\ a \in 0..N /\ Alike(P, a, e) /\ r.c = P[a + 1]
  <2>1. /\ m \in Nat \ {0} /\ E \in [0..m -> 0..N]
        /\ \A i \in 1..m : Alike(P, E[i - 1], E[i]) /\ runs[i].color = P[E[i - 1] + 1]
    BY DEF Segments
  <2>2. s.run \in 0..m /\ s.run - 1 \in 0..m
    BY <1>2, <2>1
  <2> QED BY <1>2, <1>6, <2>1, <2>2
<1> HIDE DEF C, R, h, w, q, q2, x, y, r, P, N, e, a
<1>8. /\ h \in Nat \ {0} /\ w \in Nat \ {0} /\ x + w <= C /\ h * w \in Nat
      /\ q2 = (y * C + x) + h * w /\ ((x = 0 /\ w = C) \/ h = 1)
  BY <1>4, <1>5 DEF Moves
<1>9. /\ \A i, j : i \in x..(x + w - 1) /\ j \in y..(y + h - 1) =>
           /\ i \in 0..(C - 1) /\ j \in Nat
           /\ y * C + x <= j * C + i /\ j * C + i < (y * C + x) + h * w
      /\ \A k \in (y * C + x)..((y * C + x) + h * w - 1) :
           k % C \in x..(x + w - 1) /\ k \div C \in y..(y + h - 1)
  BY <1>1, <1>2, <1>8, RectPlaces
<1>10. r.x + r.w = x + w - 1 /\ r.b - 1 = y + h - 1
  BY <1>2, <1>6, <1>8
<1>11. \A i, j : Covers(r, i, j) <=> i \in x..(x + w - 1) /\ j \in y..(y + h - 1)
  BY <1>6, <1>10 DEF Covers
<1>12. \A i, j : Covers(r, i, j) =>
         i \in 0..(C - 1) /\ j \in Nat /\ q <= j * C + i /\ j * C + i < q2
  BY <1>5, <1>8, <1>9, <1>11
<1>13. q \in Nat /\ q2 \in Nat
  <2>1. q \in Nat
    BY <1>1, <1>2, <1>5, PlaceOf
  <2> QED BY <1>5, <1>8, <2>1
<1>14. ASSUME NEW k \in q..(q2 - 1) PROVE Covers(r, k % C, k \div C) /\ P[k + 1] = r.c
  <2>1. k \in (y * C + x)..((y * C + x) + h * w - 1)
    BY <1>5, <1>8
  <2>2. Covers(r, k % C, k \div C)
    BY <1>9, <1>11, <2>1
  <2>3. k + 1 \in (a + 1)..e
    BY <1>2, <1>4, <1>7, <1>13
  <2> QED BY <1>7, <2>2, <2>3 DEF Alike
<1>15. r.c \in Colours
  <2>1. a + 1 \in 1..N
    <3>1. e \in 0..N /\ a \in 0..N /\ a <= q /\ q < e /\ N \in Nat
      BY <1>1, <1>2, <1>7
    <3> QED BY <1>13, <3>1
  <2>2. P[a + 1] \in 0..255
    <3> DEFINE T == 0..255
               j == a + 1
    <3>1. P \in Seq(T) /\ j \in 1..Len(P)
      BY <1>1, <2>1 DEF N
    <3> HIDE DEF T, j
    <3>2. P[j] \in T
      BY <3>1, ElementOfSeq
    <3> QED BY <3>2 DEF T, j
  <2> QED BY <1>7, <2>2 DEF Colours
<1>16. r \in Rectangles /\ r.y < r.b
  <2>1. r.x \in 0..15 /\ r.y \in Nat /\ r.w \in Nat /\ r.b \in Nat /\ r.y < r.b
    <3>1. x \in 0..15 /\ y \in Nat /\ w - 1 \in Nat /\ y + h \in Nat /\ y < y + h
      BY <1>1, <1>2, <1>8
    <3> QED BY <1>17, <3>1
  <2> QED BY <1>6, <1>15, <2>1 DEF Rectangles
<1> QED BY <1>12, <1>14, <1>16 DEF NewCovers, C, P, r, q, q2

\* Runs that follow each other have different colours.
LEMMA NextColour ==
  ASSUME NEW P \in Seq(0..255), NEW m, NEW E, NEW runs, Segments(P, m, E, runs), NEW k \in 1..(m - 1)
  PROVE  runs[k].color # runs[k + 1].color
<1>1. /\ m \in Nat \ {0} /\ E \in [0..m -> 0..Len(P)] /\ Breaking(P, m - 1, E)
      /\ \A i \in 1..m : /\ E[i - 1] < E[i] /\ Alike(P, E[i - 1], E[i])
                         /\ runs[i].color = P[E[i - 1] + 1]
  BY DEF Segments
<1>2. k \in 1..m /\ k + 1 \in 1..m /\ (k + 1) - 1 = k /\ k \in 0..m /\ k - 1 \in 0..m
  <2>1. m \in Nat \ {0}
    BY <1>1, Zenon
  <2> QED BY <2>1
<1>3. runs[k + 1].color = P[E[k] + 1]
  <2>1. runs[k + 1].color = P[E[(k + 1) - 1] + 1]
    BY <1>1, <1>2
  <2> QED BY <1>2, <2>1
<1> DEFINE a == E[k - 1]
           e == E[k]
<1>4. a \in 0..Len(P) /\ e \in 0..Len(P) /\ a < e /\ Alike(P, a, e) /\ runs[k].color = P[a + 1]
  BY <1>1, <1>2
<1>5. P[e] # P[e + 1]
  BY <1>1 DEF Breaking
<1> HIDE DEF a, e
<1>6. e \in (a + 1)..e
  BY <1>4
<1>7. P[e] = P[a + 1]
  BY <1>4, <1>6 DEF Alike
<1> QED BY <1>3, <1>4, <1>5, <1>7 DEF e

\* What is right before a place is right before a later one.
LEMMA RightLater ==
  ASSUME NEW t, NEW r, NEW q \in Nat, NEW q2 \in Nat, q <= q2, RectRight(t, r, q), t.cols \in 1..16
  PROVE  RectRight(t, r, q2)
<1>1. r.y < r.b
  BY DEF RectRight
<1>2. ASSUME NEW x, NEW y, Covers(r, x, y)
      PROVE  x \in 0..(t.cols - 1) /\ y \in Nat /\ y * t.cols + x < q2
               /\ t.pixels[(y * t.cols + x) + 1] = r.c
  <2>1. x \in 0..(t.cols - 1) /\ y \in Nat /\ y * t.cols + x < q
          /\ t.pixels[(y * t.cols + x) + 1] = r.c
    <3>1. \A i, j : Covers(r, i, j) =>
            i \in 0..(t.cols - 1) /\ j \in Nat /\ j * t.cols + i < q
              /\ t.pixels[(j * t.cols + i) + 1] = r.c
      BY DEF RectRight
    <3>2. Covers(r, x, y)
      BY <1>2
    <3> QED BY <3>1, <3>2
  <2>2. y * t.cols + x \in Nat
    BY <2>1, PlaceOf
  <2> DEFINE k == y * t.cols + x
  <2> HIDE DEF k
  <2>3. k \in Nat /\ k < q
    BY <2>1, <2>2 DEF k
  <2>4. k < q2
    BY <2>3
  <2> QED BY <2>1, <2>4 DEF k
<1> QED BY <1>1, <1>2, Zenon DEF RectRight

\* The rectangle of a step is right.
LEMMA NewRight ==
  ASSUME NEW t, NEW r, NEW q \in Nat, NEW q2 \in Nat, NewCovers(t, r, q, q2), t.cols \in 1..16
  PROVE  RectRight(t, r, q2)
<1>1. r.y < r.b
  BY DEF NewCovers
<1>2. ASSUME NEW x, NEW y, Covers(r, x, y)
      PROVE  x \in 0..(t.cols - 1) /\ y \in Nat /\ y * t.cols + x < q2
               /\ t.pixels[(y * t.cols + x) + 1] = r.c
  <2>1. x \in 0..(t.cols - 1) /\ y \in Nat /\ q <= y * t.cols + x /\ y * t.cols + x < q2
    BY <1>2, Zenon DEF NewCovers
  <2> DEFINE k == y * t.cols + x
  <2>2. k \in Nat
    BY <2>1, PlaceOf
  <2>3. k \in q..(q2 - 1)
    <3>1. q <= k /\ k < q2
      BY <2>1
    <3> HIDE DEF k
    <3> QED BY <2>2, <3>1
  <2> HIDE DEF k
  <2>4. t.pixels[k + 1] = r.c
    BY <2>3, Zenon DEF NewCovers
  <2> QED BY <2>1, <2>4 DEF k
<1> QED BY <1>1, <1>2, Zenon DEF RectRight

\* What a step makes of a state that is right.
LEMMA AppendKeeps ==
  ASSUME NEW t \in HexTiles, NEW runs, NEW m, NEW E, Segments(t.pixels, m, E, runs),
         NEW s, RectInv(t, runs, s, m, E), s.y < t.rows, NEW n, Stepped(t, runs, s, n),
         ~MergesTop(t, runs, s)
  PROVE  RectInv(t, runs, n, m, E)
<1> DEFINE C == t.cols
           R == t.rows
           h == HighOf(t, s)
           w == WideOf(t, s)
           q == PlaceAt(t, s)
           q2 == PlaceAt(t, n)
           r == RectOf(t, runs, s)
           L == Len(s.rects)
<1>1. C \in 1..16 /\ R \in 1..16 /\ t.pixels \in Seq(0..255)
  BY HexTileIs
<1>2. /\ Where(t, s, m, E) /\ Tops(s) /\ AllRight(t, s.rects, q) /\ Covered(t, s.rects, q)
      /\ WideAbove(t, runs, s)
  BY Zenon DEF RectInv
<1>3. s.x \in 0..(C - 1) /\ s.y \in Nat /\ s.y < R /\ s.run \in 1..m
  BY <1>1, <1>2 DEF Where
<1>4. StepFacts(t, runs, s, n, m, E) /\ NewCovers(t, r, q, q2)
  BY <1>2, StepWhere, StepCovers
<1>5. n.rects = Append(s.rects, r) /\ n.top = [s.top EXCEPT ![s.x] = L + 1]
  BY DEF Stepped
<1>6. /\ s.rects \in Seq(Rectangles) /\ L \in Nat /\ r \in Rectangles
      /\ s.top \in [0..15 -> Nat \ {0}] /\ \A x \in 0..15 : s.top[x] <= L \/ s.top[x] = 1
  BY <1>2, <1>4 DEF Tops, NewCovers
<1>7. /\ n.rects \in Seq(Rectangles) /\ Len(n.rects) = L + 1 /\ n.rects[L + 1] = r
      /\ \A i \in 1..L : n.rects[i] = s.rects[i]
  <2> HIDE DEF r
  <2>1. s.rects \in Seq(Rectangles) /\ r \in Rectangles /\ n.rects = Append(s.rects, r)
    BY <1>5, <1>6
  <2> QED BY <2>1, AppendProperties
<1>8. Moves(C, R, s.x, s.y, s.left, h, w, n.x, n.y) /\ Where(t, n, m, E)
      /\ (n.y < R => NextRun(t, runs, s, n, m, E))
  BY <1>4, Zenon DEF StepFacts
<1>9. q = s.y * C + s.x /\ q2 = n.y * C + n.x
  BY DEF PlaceAt
<1>10. r.c = runs[s.run].color /\ r.w = w - 1 /\ r.b = s.y + h
  BY DEF RectOf
<1> HIDE DEF C, R, h, w, q, q2, r, L
<1>11. q \in Nat /\ q2 \in Nat /\ q <= q2
  <2>1. q \in Nat
    BY <1>1, <1>3, <1>9, PlaceOf
  <2>2. h * w \in Nat /\ q2 = q + h * w
    BY <1>8, <1>9 DEF Moves
  <2> QED BY <2>1, <2>2
<1>12. Tops(n)
  <2>1. s.x \in 0..15 /\ L + 1 \in Nat \ {0}
    <3>1. L \in Nat
      BY <1>6
    <3>2. C \in 1..16 /\ s.x \in 0..(C - 1)
      BY <1>1, <1>3
    <3> DEFINE x == s.x
    <3>3. x \in 0..(C - 1)
      BY <3>2
    <3> HIDE DEF x
    <3>4. x \in 0..15
      BY <3>2, <3>3
    <3>5. L + 1 \in Nat \ {0}
      BY <3>1
    <3> QED BY <3>4, <3>5 DEF x
  <2>2. n.top \in [0..15 -> Nat \ {0}]
    <3> DEFINE T == Nat \ {0}
    <3>1. s.top \in [0..15 -> T]
      BY <1>2 DEF Tops
    <3>2. L + 1 \in T /\ s.x \in 0..15
      BY <2>1, Zenon
    <3> HIDE DEF T
    <3>3. n.top \in [0..15 -> T]
      BY <1>5, <3>1, <3>2
    <3> QED BY <3>3 DEF T
  <2>3. ASSUME NEW x \in 0..15 PROVE n.top[x] <= L + 1 \/ n.top[x] = 1
    <3>1. CASE x = s.x
      <4>1. n.top[x] = L + 1
        BY <1>5, <1>6, <3>1
      <4> QED BY <1>6, <4>1
    <3>2. CASE x # s.x
      <4>1. s.top \in [0..15 -> Nat \ {0}] /\ (s.top[x] <= L \/ s.top[x] = 1)
        BY <1>6
      <4>2. n.top[x] = s.top[x] /\ s.top[x] \in Nat
        BY <1>5, <3>2, <4>1
      <4>3. L \in Nat
        BY <1>6
      <4> QED BY <4>1, <4>2, <4>3
    <3> QED BY <3>1, <3>2
  <2> QED BY <1>7, <2>2, <2>3, Zenon DEF Tops
<1>13. AllRight(t, n.rects, q2)
  <2> SUFFICES ASSUME NEW i \in 1..(L + 1) PROVE RectRight(t, n.rects[i], q2)
    BY <1>7 DEF AllRight
  <2>1. CASE i = L + 1
    <3>1. RectRight(t, r, q2)
      BY <1>1, <1>4, <1>11, NewRight DEF C, q, q2, r
    <3> QED BY <1>7, <2>1, <3>1
  <2>2. CASE i # L + 1
    <3>1. i \in 1..L
      BY <1>6, <2>2
    <3>2. RectRight(t, s.rects[i], q)
      BY <1>2, <3>1 DEF AllRight, L
    <3>3. RectRight(t, s.rects[i], q2)
      <4>1. t.cols \in 1..16
        BY <1>1 DEF C
      <4> QED BY <1>11, <3>2, <4>1, RightLater
    <3> QED BY <1>7, <3>1, <3>3
  <2> QED BY <2>1, <2>2
<1>14. Covered(t, n.rects, q2)
  <2> SUFFICES ASSUME NEW k \in 0..(q2 - 1)
               PROVE \E i \in 1..(L + 1) : Covers(n.rects[i], k % C, k \div C)
    BY <1>7 DEF Covered, C
  <2>1. CASE k < q
    <3>1. k \in 0..(q - 1)
      BY <1>11, <2>1
    <3>2. PICK i \in 1..L : Covers(s.rects[i], k % C, k \div C)
      BY <1>2, <3>1 DEF Covered, L, C
    <3>3. i \in 1..(L + 1) /\ n.rects[i] = s.rects[i]
      BY <1>6, <1>7
    <3> QED BY <3>2, <3>3
  <2>2. CASE q <= k
    <3>1. k \in q..(q2 - 1)
      BY <1>11, <2>2
    <3>2. Covers(r, k % C, k \div C)
      BY <1>4, <3>1, Zenon DEF NewCovers, C, q, q2
    <3>3. L + 1 \in 1..(L + 1)
      BY <1>6
    <3> QED BY <1>7, <3>2, <3>3
  <2> QED BY <1>11, <2>1, <2>2
<1>15. WideAbove(t, runs, n)
  <2> SUFFICES ASSUME NEW i \in 1..(L + 1), n.rects[i].w = C - 1
               PROVE  /\ n.rects[i].b <= n.y
                      /\ (n.rects[i].b = n.y /\ n.x = 0 /\ n.y < R /\ n.left >= C)
                           => n.rects[i].c # runs[n.run].color
    BY <1>7 DEF WideAbove, C, R
  <2>1. /\ h \in Nat \ {0} /\ w \in Nat \ {0} /\ n.x \in 0..(C - 1) /\ n.y \in 0..R /\ s.y <= n.y
        /\ (s.left >= C /\ s.x = 0) => w = C /\ s.left - h * w < C /\ n.x = 0 /\ n.y = s.y + h
        /\ ~(s.left >= C /\ s.x = 0) => h = 1 /\ w < C /\ (n.x = 0 => n.y = s.y + 1)
    BY <1>8 DEF Moves
  <2>2. CASE i = L + 1
    <3>1. n.rects[i] = r
      BY <1>7, <2>2
    <3>2. w = C
      BY <1>1, <1>10, <2>1, <3>1
    <3>3. s.left >= C /\ s.x = 0 /\ s.left - h * w < C /\ n.x = 0 /\ n.y = s.y + h
      <4>1. s.left >= C /\ s.x = 0
        BY <1>1, <2>1, <3>2
      <4> QED BY <2>1, <4>1
    <3>4. r.b = n.y
      BY <1>10, <3>3
    <3>5. ASSUME n.y < R, n.left >= C PROVE r.c # runs[n.run].color
      <4>1. NextRun(t, runs, s, n, m, E)
        BY <1>8, <3>5
      <4>2. ~(n.left = s.left - h * w)
        <5> SUFFICES ASSUME n.left = s.left - h * w PROVE FALSE
          OBVIOUS
        <5> DEFINE left == s.left - h * w
        <5>1. left < C /\ left >= C /\ left \in Int
          <6>1. s.left \in Int
            <7>1. s.left = E[s.run] - q
              BY <1>2, <1>3 DEF Where, q, R
            <7>2. E[s.run] \in Int
              <8>1. m \in Nat \ {0} /\ E \in [0..m -> 0..Len(t.pixels)]
                BY DEF Segments
              <8>2. s.run \in 0..m
                BY <1>3, <8>1
              <8>3. E[s.run] \in 0..Len(t.pixels)
                BY <8>1, <8>2
              <8> QED BY <8>3
            <7> QED BY <1>11, <7>1, <7>2
          <6>2. h * w \in Int
            BY <2>1
          <6> QED BY <3>3, <3>5, <6>1, <6>2
        <5> HIDE DEF left
        <5> QED BY <1>1, <5>1
      <4>3. n.run = s.run + 1 /\ n.run <= m
        BY <4>1, <4>2 DEF NextRun, h, w
      <4>4. s.run \in 1..(m - 1)
        <5>1. m \in Nat
          BY DEF Segments
        <5> QED BY <1>3, <4>3, <5>1
      <4>5. runs[s.run].color # runs[s.run + 1].color
        BY <1>1, <4>4, NextColour
      <4> QED BY <1>10, <4>3, <4>5
    <3>6. n.y \in Int
      BY <2>1
    <3> QED BY <3>1, <3>4, <3>5, <3>6
  <2>3. CASE i # L + 1
    <3>1. i \in 1..L
      BY <1>6, <2>3
    <3>2. n.rects[i] = s.rects[i]
      BY <1>7, <3>1
    <3>3. s.rects[i].b <= s.y
      <4>1. s.rects[i].w = C - 1
        BY <3>2
      <4> QED BY <1>2, <3>1, <4>1 DEF WideAbove, C, L
    <3>4. s.rects[i].b \in Nat
      <4>1. s.rects[i] \in Rectangles
        BY <1>6, <3>1, ElementOfSeq DEF L
      <4> QED BY <4>1 DEF Rectangles
    <3>5. n.x = 0 => s.y < n.y
      BY <1>3, <2>1
    <3> DEFINE b == s.rects[i].b
    <3>6. b \in Nat /\ b <= s.y /\ n.rects[i].b = b
      BY <3>2, <3>3, <3>4
    <3> HIDE DEF b
    <3>7. b <= n.y /\ (n.x = 0 => b # n.y)
      BY <1>3, <2>1, <3>5, <3>6
    <3> QED BY <3>6, <3>7
  <2> QED BY <2>2, <2>3
<1> QED BY <1>8, <1>12, <1>13, <1>14, <1>15, Zenon DEF RectInv, q2

\* A rectangle that is merged with one below it covers what both of them cover.
LEMMA MergedCovers ==
  ASSUME NEW r, NEW g, NEW d, r.y \in Nat, r.b \in Nat, r.y < r.b,
         d.x = r.x, d.w = r.w, d.y = r.b, d.b = d.y + 1,
         g.x = r.x, g.w = r.w, g.y = r.y, g.b = r.b + 1
  PROVE  /\ g.y < g.b
         /\ \A x, y : Covers(g, x, y) <=> Covers(r, x, y) \/ Covers(d, x, y)
<1>1. g.y < g.b
  OBVIOUS
<1>2. \A y : y \in g.y..(g.b - 1) <=> y \in r.y..(r.b - 1) \/ y \in d.y..(d.b - 1)
  <2> DEFINE a == r.y
             b == r.b
  <2>1. a \in Nat /\ b \in Nat /\ a < b
    OBVIOUS
  <2>2. g.y = a /\ g.b = b + 1 /\ d.y = b /\ d.b = b + 1
    OBVIOUS
  <2> HIDE DEF a, b
  <2>3. \A y : y \in a..((b + 1) - 1) <=> y \in a..(b - 1) \/ y \in b..((b + 1) - 1)
    BY <2>1
  <2> QED BY <2>2, <2>3 DEF a, b
<1>3. g.x..(g.x + g.w) = r.x..(r.x + r.w) /\ d.x..(d.x + d.w) = r.x..(r.x + r.w)
  OBVIOUS
<1>4. ASSUME NEW x, NEW y PROVE Covers(g, x, y) <=> Covers(r, x, y) \/ Covers(d, x, y)
  BY <1>2, <1>3, Zenon DEF Covers
<1> QED BY <1>1, <1>4

\* A rectangle that is merged with the one above it.
LEMMA MergeKeeps ==
  ASSUME NEW t \in HexTiles, NEW runs, NEW m, NEW E, Segments(t.pixels, m, E, runs),
         NEW s, RectInv(t, runs, s, m, E), s.y < t.rows, NEW n, Stepped(t, runs, s, n),
         MergesTop(t, runs, s)
  PROVE  RectInv(t, runs, n, m, E)
<1> DEFINE C == t.cols
           R == t.rows
           h == HighOf(t, s)
           w == WideOf(t, s)
           q == PlaceAt(t, s)
           q2 == PlaceAt(t, n)
           d == RectOf(t, runs, s)
           L == Len(s.rects)
           p == s.top[s.x]
           r == s.rects[p]
           g == n.rects[p]
<1>1. C \in 1..16 /\ R \in 1..16
  BY HexTileIs
<1>2. /\ Where(t, s, m, E) /\ Tops(s) /\ AllRight(t, s.rects, q) /\ Covered(t, s.rects, q)
      /\ WideAbove(t, runs, s)
  BY Zenon DEF RectInv
<1>3. s.x \in 0..(C - 1) /\ s.y \in Nat /\ s.y < R
  BY <1>1, <1>2 DEF Where
<1>4. StepFacts(t, runs, s, n, m, E) /\ NewCovers(t, d, q, q2)
  BY <1>2, StepWhere, StepCovers
<1>5. n.rects = [s.rects EXCEPT ![p].b = @ + 1] /\ n.top = s.top
  BY Zenon DEF Stepped, Merged
<1>6. s.rects \in Seq(Rectangles) /\ L \in Nat
  BY <1>2 DEF Tops
<1>7. s.rects # <<>> /\ d.y = r.b /\ d.c = r.c /\ d.w = r.w /\ d.x = r.x
  BY Zenon DEF MergesTop, Merges
<1>8. Moves(C, R, s.x, s.y, s.left, h, w, n.x, n.y) /\ Where(t, n, m, E)
  BY <1>4, Zenon DEF StepFacts
<1>9. q = s.y * C + s.x /\ q2 = n.y * C + n.x
  BY DEF PlaceAt
<1>10. d.c = runs[s.run].color /\ d.w = w - 1 /\ d.y = s.y /\ d.b = s.y + h
  BY DEF RectOf
<1> HIDE DEF C, R, h, w, q, q2, d, L
<1>11. q \in Nat /\ q2 \in Nat /\ q <= q2
  <2>1. q \in Nat
    BY <1>1, <1>3, <1>9, PlaceOf
  <2>2. h * w \in Nat /\ q2 = q + h * w
    BY <1>8, <1>9 DEF Moves
  <2> QED BY <2>1, <2>2
<1>12. p \in 1..L
  <2> HIDE DEF p
  <2>1. s.x \in 0..15
    <3> DEFINE x == s.x
    <3>1. x \in 0..(C - 1)
      BY <1>3
    <3> HIDE DEF x
    <3>2. x \in 0..15
      BY <1>1, <3>1
    <3> QED BY <3>2 DEF x
  <2>2. p \in Nat \ {0} /\ (p <= L \/ p = 1)
    BY <1>2, <2>1 DEF Tops, L, p
  <2>3. L # 0
    BY <1>6, <1>7 DEF L
  <2> QED BY <1>6, <2>2, <2>3
<1>13. r \in Rectangles /\ r.b \in Nat /\ r.y \in Nat /\ r.w \in Nat
  <2>1. r \in Rectangles
    BY <1>6, <1>12, ElementOfSeq DEF L
  <2> HIDE DEF r
  <2> QED BY <2>1 DEF Rectangles
<1>14. /\ Len(n.rects) = L /\ n.rects \in Seq(Rectangles) /\ g = [r EXCEPT !.b = @ + 1]
       /\ \A i \in 1..L : i # p => n.rects[i] = s.rects[i]
  <2> HIDE DEF p
  <2>1. [r EXCEPT !.b = @ + 1] \in Rectangles
    <3> HIDE DEF r
    <3> QED BY <1>13 DEF Rectangles
  <2>2. s.rects \in [1..L -> Rectangles]
    BY <1>6 DEF L
  <2>3. n.rects = [s.rects EXCEPT ![p] = [r EXCEPT !.b = @ + 1]]
    BY <1>5
  <2> DEFINE f == [r EXCEPT !.b = @ + 1]
             S == s.rects
             T == n.rects
  <2> HIDE DEF f, S, T
  <2>4. T = [S EXCEPT ![p] = f] /\ f \in Rectangles /\ S \in [1..L -> Rectangles]
    BY <2>1, <2>2, <2>3 DEF f, S, T
  <2>5. T \in [1..L -> Rectangles] /\ T[p] = f /\ \A i \in 1..L : i # p => T[i] = S[i]
    BY <1>12, <2>4
  <2>6. T \in Seq(Rectangles) /\ Len(T) = L
    BY <1>6, <2>5
  <2> QED BY <2>5, <2>6 DEF f, S, T
<1>15. /\ g.x = r.x /\ g.w = r.w /\ g.y = r.y /\ g.c = r.c /\ g.b = r.b + 1
  <2> HIDE DEF r, g
  <2>1. r \in Rectangles /\ g = [r EXCEPT !.b = @ + 1]
    BY <1>13, <1>14
  <2> QED BY <2>1 DEF Rectangles
<1> HIDE DEF p, r, g
<1>16. /\ h \in Nat \ {0} /\ w \in Nat \ {0} /\ n.x \in 0..(C - 1) /\ n.y \in 0..R /\ s.y <= n.y
       /\ (s.left >= C /\ s.x = 0) => w = C
       /\ ~(s.left >= C /\ s.x = 0) => h = 1 /\ w < C /\ (n.x = 0 => n.y = s.y + 1)
  BY <1>8 DEF Moves
\* A rectangle of whole rows is not merged: the one above it is of another colour.
<1>17. ~(s.left >= C /\ s.x = 0)
  <2> SUFFICES ASSUME s.left >= C, s.x = 0 PROVE FALSE
    OBVIOUS
  <2>1. r.w = C - 1
    BY <1>7, <1>10, <1>16
  <2>2. r.b = s.y
    BY <1>7, <1>10
  <2>3. r.c # runs[s.run].color
    BY <1>2, <1>3, <1>12, <2>1, <2>2 DEF WideAbove, r, L, C, R
  <2> QED BY <1>7, <1>10, <2>3
<1>18. r.y < r.b /\ RectRight(t, r, q) /\ RectRight(t, d, q2)
  <2>1. RectRight(t, r, q)
    BY <1>2, <1>12 DEF AllRight, L, r
  <2>2. RectRight(t, d, q2)
    <3>1. t.cols \in 1..16
      BY <1>1 DEF C
    <3> QED BY <1>4, <1>11, <3>1, NewRight
  <2> QED BY <2>1, <2>2 DEF RectRight
<1>19. /\ g.y < g.b /\ \A x, y : Covers(g, x, y) <=> Covers(r, x, y) \/ Covers(d, x, y)
  <2>1. d.b = d.y + 1
    BY <1>10, <1>16, <1>17
  <2> QED BY <1>7, <1>13, <1>15, <1>18, <2>1, MergedCovers
<1>20. Tops(n)
  <2>1. s.top \in [0..15 -> Nat \ {0}] /\ \A x \in 0..15 : s.top[x] <= L \/ s.top[x] = 1
    BY <1>2, Zenon DEF Tops, L
  <2> QED BY <1>5, <1>14, <2>1, Zenon DEF Tops
<1>21. AllRight(t, n.rects, q2)
  <2> SUFFICES ASSUME NEW i \in 1..L PROVE RectRight(t, n.rects[i], q2)
    BY <1>14 DEF AllRight
  <2>1. CASE i = p
    <3>1. RectRight(t, r, q2)
      <4>1. t.cols \in 1..16
        BY <1>1 DEF C
      <4> QED BY <1>11, <1>18, <4>1, RightLater
    <3>2. ASSUME NEW x, NEW y, Covers(g, x, y)
          PROVE  x \in 0..(t.cols - 1) /\ y \in Nat /\ y * t.cols + x < q2
                   /\ t.pixels[(y * t.cols + x) + 1] = g.c
      <4>1. CASE Covers(r, x, y)
        BY <1>15, <3>1, <4>1, Zenon DEF RectRight
      <4>2. CASE Covers(d, x, y)
        BY <1>7, <1>15, <1>18, <4>2, Zenon DEF RectRight
      <4> QED BY <1>19, <3>2, <4>1, <4>2
    <3>3. RectRight(t, g, q2)
      BY <1>19, <3>2, Zenon DEF RectRight
    <3> QED BY <2>1, <3>3 DEF g
  <2>2. CASE i # p
    <3>1. RectRight(t, s.rects[i], q)
      BY <1>2 DEF AllRight, L
    <3>2. RectRight(t, s.rects[i], q2)
      <4>1. t.cols \in 1..16
        BY <1>1 DEF C
      <4> QED BY <1>11, <3>1, <4>1, RightLater
    <3> QED BY <1>14, <2>2, <3>2
  <2> QED BY <2>1, <2>2
<1>22. Covered(t, n.rects, q2)
  <2> SUFFICES ASSUME NEW k \in 0..(q2 - 1)
               PROVE \E i \in 1..L : Covers(n.rects[i], k % C, k \div C)
    BY <1>14 DEF Covered, C
  <2>1. CASE k < q
    <3>1. k \in 0..(q - 1)
      BY <1>11, <2>1
    <3>2. PICK i \in 1..L : Covers(s.rects[i], k % C, k \div C)
      BY <1>2, <3>1 DEF Covered, L, C
    <3>3. CASE i = p
      <4>1. Covers(g, k % C, k \div C)
        BY <1>19, <3>2, <3>3 DEF r
      <4> QED BY <3>3, <4>1 DEF g
    <3>4. CASE i # p
      BY <1>14, <3>2, <3>4
    <3> QED BY <3>3, <3>4
  <2>2. CASE q <= k
    <3>1. k \in q..(q2 - 1)
      BY <1>11, <2>2
    <3>2. Covers(d, k % C, k \div C)
      BY <1>4, <3>1, Zenon DEF NewCovers, C, q, q2
    <3>3. Covers(g, k % C, k \div C)
      BY <1>19, <3>2
    <3> QED BY <1>12, <3>3 DEF g
  <2> QED BY <1>11, <2>1, <2>2
<1>23. WideAbove(t, runs, n)
  <2> SUFFICES ASSUME NEW i \in 1..L, n.rects[i].w = C - 1
               PROVE  /\ n.rects[i].b <= n.y
                      /\ (n.rects[i].b = n.y /\ n.x = 0 /\ n.y < R /\ n.left >= C)
                           => n.rects[i].c # runs[n.run].color
    BY <1>14 DEF WideAbove, C, R
  <2>1. w \in Nat /\ w < C /\ d.w = w - 1
    BY <1>10, <1>16, <1>17
  <2>2. i # p
    <3> SUFFICES ASSUME i = p PROVE FALSE
      OBVIOUS
    <3>1. g.w = C - 1
      BY DEF g
    <3> QED BY <1>1, <1>7, <1>15, <2>1, <3>1
  <2>3. n.rects[i] = s.rects[i]
    BY <1>14, <2>2
  <2>4. s.rects[i].b <= s.y
    <3>1. s.rects[i].w = C - 1
      BY <2>3
    <3> QED BY <1>2, <3>1 DEF WideAbove, C, L
  <2>5. s.rects[i].b \in Nat
    <3>1. s.rects[i] \in Rectangles
      BY <1>6, ElementOfSeq DEF L
    <3> QED BY <3>1 DEF Rectangles
  <2>6. n.x = 0 => s.y < n.y
    BY <1>3, <1>16, <1>17
  <2> DEFINE b == s.rects[i].b
  <2>7. b \in Nat /\ b <= s.y /\ n.rects[i].b = b
    BY <2>3, <2>4, <2>5
  <2> HIDE DEF b
  <2>8. b <= n.y /\ (n.x = 0 => b # n.y)
    BY <1>3, <1>16, <2>6, <2>7
  <2> QED BY <2>7, <2>8
<1> QED BY <1>8, <1>20, <1>21, <1>22, <1>23, Zenon DEF RectInv, q2

\* Each step keeps the invariant and moves on.
LEMMA StepKeeps ==
  ASSUME NEW t \in HexTiles, NEW runs, NEW m, NEW E, Segments(t.pixels, m, E, runs),
         NEW s, RectInv(t, runs, s, m, E), s.y < t.rows, NEW n, Stepped(t, runs, s, n)
  PROVE  RectInv(t, runs, n, m, E) /\ PlaceAt(t, s) + 1 <= PlaceAt(t, n)
<1>1. RectInv(t, runs, n, m, E)
  <2>1. CASE MergesTop(t, runs, s)
    BY <2>1, MergeKeeps
  <2>2. CASE ~MergesTop(t, runs, s)
    BY <2>2, AppendKeeps
  <2> QED BY <2>1, <2>2
<1>2. Where(t, s, m, E)
  BY DEF RectInv
<1>3. StepFacts(t, runs, s, n, m, E)
  BY <1>2, StepWhere
<1> DEFINE q == PlaceAt(t, s)
           q2 == PlaceAt(t, n)
           hw == HighOf(t, s) * WideOf(t, s)
<1>4. hw \in Nat \ {0} /\ q2 = q + hw
  BY <1>3 DEF StepFacts, Moves, PlaceAt
<1>5. q \in Nat
  <2>1. t.cols \in 1..16 /\ t.rows \in 1..16
    BY HexTileIs
  <2>2. s.x \in 0..(t.cols - 1) /\ s.y \in Nat
    BY <1>2, <2>1 DEF Where
  <2> QED BY <2>1, <2>2, PlaceOf DEF PlaceAt
<1> HIDE DEF q, q2, hw
<1>6. q + 1 <= q2
  BY <1>4, <1>5
<1> QED BY <1>1, <1>6 DEF q, q2

\* The invariant before the first step.
LEMMA FirstRight ==
  ASSUME NEW t \in HexTiles, NEW runs, NEW m, NEW E, Segments(t.pixels, m, E, runs)
  PROVE  RectInv(t, runs, FirstRects(runs), m, E) /\ PlaceAt(t, FirstRects(runs)) = 0
<1> DEFINE s == FirstRects(runs)
           none == <<>>
<1>1. t.cols \in 1..16 /\ t.rows \in 1..16
  BY HexTileIs
<1>2. /\ s.rects = none /\ s.top = [x \in 0..15 |-> 1] /\ s.x = 0 /\ s.y = 0 /\ s.run = 1
      /\ s.left = runs[1].count
  BY DEF FirstRects
<1>3. Len(none) = 0 /\ none \in Seq(Rectangles)
  OBVIOUS
<1> HIDE DEF s, none
<1>4. PlaceAt(t, s) = 0
  <2>1. 0 * t.cols + 0 = 0
    BY <1>1
  <2> QED BY <1>2, <2>1 DEF PlaceAt
<1>5. 1 \in 1..m /\ E[1 - 1] < E[1] /\ runs[1].count = E[1] - E[1 - 1] /\ E[0] = 0 /\ E[1] \in Nat
  <2>1. /\ m \in Nat \ {0} /\ E \in [0..m -> 0..Len(t.pixels)] /\ E[0] = 0
        /\ \A i \in 1..m : E[i - 1] < E[i] /\ runs[i].count = E[i] - E[i - 1]
    BY DEF Segments
  <2>2. 1 \in 1..m /\ 1 \in 0..m
    BY <2>1
  <2>3. E[1] \in 0..Len(t.pixels)
    BY <2>1, <2>2
  <2> QED BY <2>1, <2>2, <2>3
<1>6. Where(t, s, m, E)
  <2>1. E[1 - 1] = 0 /\ 0 < E[1] /\ runs[1].count = E[1] - 0
    BY <1>5
  <2> QED BY <1>1, <1>2, <1>4, <1>5, <2>1 DEF Where
<1>7. Tops(s)
  <2>1. [x \in 0..15 |-> 1] \in [0..15 -> Nat \ {0}]
    OBVIOUS
  <2> QED BY <1>2, <1>3, <2>1 DEF Tops
<1>8. AllRight(t, s.rects, PlaceAt(t, s))
  BY <1>2, <1>3 DEF AllRight
<1>9. Covered(t, s.rects, PlaceAt(t, s))
  <2>1. 0..(0 - 1) = {}
    OBVIOUS
  <2> QED BY <1>4, <2>1 DEF Covered
<1>10. WideAbove(t, runs, s)
  BY <1>2, <1>3 DEF WideAbove
<1> QED BY <1>4, <1>6, <1>7, <1>8, <1>9, <1>10 DEF RectInv, s

\* The rectangles cover the tile, each of them pixels of its colour.
TileCovered(t, rects) ==
  /\ rects \in Seq(Rectangles) /\ AllRight(t, rects, t.rows * t.cols)
  /\ Covered(t, rects, t.rows * t.cols)

\* The loops end with rectangles that cover the tile.
LEMMA RectsCover ==
  ASSUME NEW t \in HexTiles
  PROVE  TileCovered(t, Rects(t))
<1> DEFINE C == t.cols
           R == t.rows
           N == R * C
           runs == HexRuns(t)
           s0 == FirstRects(runs)
           f == AfterRects(t, runs, s0, N)
<1>1. C \in 1..16 /\ R \in 1..16 /\ N \in Nat
  <2>1. C \in 1..16 /\ R \in 1..16
    BY HexTileIs
  <2> QED BY <2>1
<1>2. PICK m, E : Segments(t.pixels, m, E, runs)
  BY HexRunsAre
<1>3. Rects(t) = f[N].rects
  BY RectsIs
<1> HIDE DEF runs, C, R, N
<1>4. f[0] = s0 /\ \A k \in 1..N : f[k] = RectMove(t, runs, f[k - 1])
  BY <1>1, AfterRectsIs
<1> HIDE DEF f, s0
<1> DEFINE Right(k) == /\ RectInv(t, runs, f[k], m, E)
                       /\ k <= PlaceAt(t, f[k]) \/ f[k].y = R
           B == {k \in 0..N : ~Right(k)}
<1>5. Right(0)
  <2>1. RectInv(t, runs, s0, m, E) /\ PlaceAt(t, s0) = 0
    BY <1>2, FirstRight DEF s0
  <2> QED BY <1>4, <2>1
<1>6. ASSUME NEW k \in 1..N, Right(k - 1) PROVE Right(k)
  <2> DEFINE s == f[k - 1]
             n == f[k]
  <2>1. n = RectMove(t, runs, s)
    BY <1>4
  <2>2. RectInv(t, runs, s, m, E) /\ (k - 1 <= PlaceAt(t, s) \/ s.y = R)
    BY <1>6
  <2>3. Where(t, s, m, E)
    BY <2>2 DEF RectInv
  <2>4. s.y \in 0..R /\ s.x \in 0..(C - 1)
    BY <2>3 DEF Where, R, C
  <2> HIDE DEF s, n
  <2>5. CASE s.y >= R
    <3>1. n = s
      BY <2>1, <2>5 DEF RectMove, R
    <3>2. n.y = R
      BY <1>1, <2>4, <2>5, <3>1
    <3> QED BY <2>2, <3>1, <3>2 DEF n
  <2>6. CASE ~(s.y >= R)
    <3>1. s.y < R /\ s.y # R
      BY <1>1, <2>4, <2>6
    <3>2. n = RectStep(t, runs, s)
      BY <2>1, <2>6 DEF RectMove, R
    <3>3. Stepped(t, runs, s, n)
      BY <3>2, RectStepIs
    <3>4. s.y < t.rows
      BY <3>1 DEF R
    <3>5. RectInv(t, runs, n, m, E) /\ PlaceAt(t, s) + 1 <= PlaceAt(t, n)
      BY <1>2, <2>2, <3>3, <3>4, StepKeeps
    <3>6. PlaceAt(t, s) \in Nat
      <4>1. s.y \in Nat
        BY <1>1, <2>4
      <4> QED BY <1>1, <2>4, <4>1, PlaceOf DEF PlaceAt, C
    <3>7. PlaceAt(t, n) \in Nat
      <4>1. Where(t, n, m, E)
        BY <3>5 DEF RectInv
      <4>2. n.x \in 0..(C - 1) /\ n.y \in 0..R
        BY <4>1 DEF Where, C, R
      <4>3. n.y \in Nat
        BY <1>1, <4>2
      <4> QED BY <1>1, <4>2, <4>3, PlaceOf DEF PlaceAt, C
    <3> DEFINE q == PlaceAt(t, s)
               q2 == PlaceAt(t, n)
    <3>8. q \in Nat /\ q2 \in Nat /\ q + 1 <= q2 /\ k - 1 <= q
      BY <2>2, <3>1, <3>5, <3>6, <3>7
    <3> HIDE DEF q, q2
    <3>9. k <= q2
      BY <1>1, <3>8
    <3> QED BY <3>5, <3>9 DEF n, q2
  <2> QED BY <2>5, <2>6
<1>7. Right(N)
  <2> SUFFICES ASSUME ~Right(N) PROVE FALSE
    OBVIOUS
  <2> HIDE DEF Right
  <2>1. B # {} /\ B \in SUBSET Nat
    <3>1. N \in B
      BY <1>1
    <3>2. 0..N \subseteq Nat
      BY <1>1
    <3> QED BY <3>1, <3>2
  <2>2. PICK k \in B : \A j \in B : k <= j
    <3> HIDE DEF B
    <3> QED BY <2>1, LeastNumber
  <2>3. k \in 0..N /\ ~Right(k)
    OBVIOUS
  <2>4. k # 0
    BY <1>5, <2>3
  <2>5. k \in 1..N /\ k - 1 \in 0..N /\ k - 1 < k
    BY <1>1, <2>3, <2>4
  <2>6. ~Right(k - 1)
    BY <1>6, <2>3, <2>5
  <2>7. k - 1 \in B
    BY <2>5, <2>6
  <2>8. k <= k - 1
    <3> HIDE DEF B
    <3> QED BY <2>2, <2>7
  <2> HIDE DEF B
  <2> QED BY <1>1, <2>3, <2>8
<1> DEFINE e == f[N]
<1>8. RectInv(t, runs, e, m, E) /\ (N <= PlaceAt(t, e) \/ e.y = R)
  BY <1>7
<1> HIDE DEF e, Right
<1>9. e.x \in 0..(C - 1) /\ e.y \in 0..R /\ (e.y = R => e.x = 0)
  <2>1. Where(t, e, m, E)
    BY <1>8 DEF RectInv
  <2> QED BY <2>1 DEF Where, C, R
<1>10. PlaceAt(t, e) = N
  <2>1. e.y \in Nat /\ R \in Nat
    BY <1>1, <1>9
  <2>2. e.y = R
    <3> SUFFICES ASSUME e.y # R PROVE FALSE
      OBVIOUS
    <3>1. e.y < R
      BY <1>1, <1>9
    <3>2. e.y * C + C <= R * C
      BY <1>1, <2>1, <3>1, PlaceOrder
    <3>3. N <= PlaceAt(t, e)
      BY <1>8
    <3> DEFINE u == e.y * C
               x == e.x
    <3>4. u + C <= N /\ N <= u + x /\ u \in Nat /\ x \in 0..(C - 1)
      BY <1>1, <1>9, <2>1, <3>2, <3>3, RowsAdd DEF PlaceAt, N, C
    <3> HIDE DEF u, x
    <3> QED BY <1>1, <3>4
  <2>3. e.x = 0
    BY <1>9, <2>2
  <2>4. R * C + 0 = N
    BY <1>1 DEF N
  <2> QED BY <2>2, <2>3, <2>4 DEF PlaceAt, C
<1>11. /\ e.rects \in Seq(Rectangles) /\ AllRight(t, e.rects, N) /\ Covered(t, e.rects, N)
  BY <1>8, <1>10 DEF RectInv, Tops
<1> QED BY <1>3, <1>11, Zenon DEF TileCovered, N, R, C, e

----------------------------------------------------------------------------
(* The form that is sent, and what the client makes of it.                  *)

ColoursOf(rects) == {rects[i].c : i \in DOMAIN rects}

\* There is a colour of most rectangles.
LEMMA BackgroundIs ==
  ASSUME NEW rects \in Seq(Rectangles), Len(rects) # 0
  PROVE  Background(rects) \in ColoursOf(rects) /\ ColoursOf(rects) \subseteq Colours
<1> DEFINE S == ColoursOf(rects)
           L == Len(rects)
           cnt(c) == CountOf(rects, c)
           M == 256 * L + 255
           v(c) == M - (256 * cnt(c) + c)
           B == {v(c) : c \in S}
           Most(c) == \A d \in S : cnt(d) < cnt(c) \/ (cnt(d) = cnt(c) /\ d <= c)
<1>1. DOMAIN rects = 1..L /\ L \in Nat /\ L # 0
  OBVIOUS
<1>2. S \subseteq Colours /\ S # {}
  <2>1. ASSUME NEW i \in 1..L PROVE rects[i].c \in Colours
    <3>1. rects[i] \in Rectangles
      BY ElementOfSeq
    <3> QED BY <3>1 DEF Rectangles
  <2>2. 1 \in 1..L
    BY <1>1
  <2>3. S = {rects[i].c : i \in 1..L}
    BY <1>1 DEF ColoursOf
  <2> HIDE DEF S, L
  <2> QED BY <2>1, <2>2, <2>3
<1>3. ASSUME NEW c PROVE cnt(c) \in Nat /\ cnt(c) <= L
  <2> DEFINE A == {i \in DOMAIN rects : rects[i].c = c}
  <2>1. A \subseteq 1..L
    BY <1>1
  <2>2. IsFiniteSet(1..L) /\ Cardinality(1..L) = L
    <3>1. 1 \in Int /\ L \in Int /\ IsFiniteSet(1..L)
          /\ Cardinality(1..L) = IF 1 > L THEN 0 ELSE L - 1 + 1
      BY <1>1, FS_Interval
    <3> HIDE DEF L
    <3> QED BY <1>1, <3>1
  <2>3. cnt(c) = Cardinality(A)
    BY DEF CountOf
  <2> HIDE DEF A, L, cnt
  <2>4. IsFiniteSet(A) /\ Cardinality(A) <= Cardinality(1..L)
    BY <2>1, <2>2, FS_Subset
  <2>5. Cardinality(A) \in Nat
    BY <2>4, FS_CardinalityType
  <2> QED BY <2>2, <2>3, <2>4, <2>5
<1> HIDE DEF S, L, cnt
<1>4. ASSUME NEW c \in S PROVE v(c) \in Nat /\ c \in 0..255
  <2>1. c \in 0..255
    BY <1>2 DEF Colours
  <2>2. cnt(c) \in Nat /\ cnt(c) <= L
    BY <1>3
  <2> QED BY <1>1, <2>1, <2>2
<1>5. B # {} /\ B \in SUBSET Nat
  <2> HIDE DEF v
  <2> QED BY <1>2, <1>4
<1>6. PICK u \in B : \A z \in B : u <= z
  <2> HIDE DEF B
  <2> QED BY <1>5, LeastNumber
<1>7. PICK c \in S : u = v(c)
  BY <1>6
<1>8. Most(c)
  <2> SUFFICES ASSUME NEW d \in S PROVE cnt(d) < cnt(c) \/ (cnt(d) = cnt(c) /\ d <= c)
    OBVIOUS
  <2>1. v(c) <= v(d)
    <3> HIDE DEF v
    <3> QED BY <1>6, <1>7
  <2>2. /\ c \in 0..255 /\ d \in 0..255 /\ cnt(c) \in Nat /\ cnt(d) \in Nat
    BY <1>3, <1>4
  <2> DEFINE a == cnt(c)
             b == cnt(d)
  <2>3. a \in Nat /\ b \in Nat /\ M - (256 * a + c) <= M - (256 * b + d)
    BY <2>1, <2>2
  <2> HIDE DEF a, b
  <2>4. M \in Nat
    BY <1>1
  <2> HIDE DEF M
  <2>5. b < a \/ (b = a /\ d <= c)
    BY <2>2, <2>3, <2>4
  <2> QED BY <2>5 DEF a, b
<1>9. Background(rects) = CHOOSE e \in S : Most(e)
  BY DEF Background, S, cnt, ColoursOf
<1> HIDE DEF Most
<1>10. Background(rects) \in S
  BY <1>8, <1>9
<1> QED BY <1>2, <1>10 DEF S

\* The rectangles with a place have the colour that the tile has there.
LEMMA PlaceColour ==
  ASSUME NEW t \in HexTiles, NEW rects, TileCovered(t, rects),
         NEW k \in 0..(t.rows * t.cols - 1)
  PROVE  /\ \E i \in 1..Len(rects) : Covers(rects[i], k % t.cols, k \div t.cols)
         /\ \A i \in 1..Len(rects) :
              Covers(rects[i], k % t.cols, k \div t.cols) => rects[i].c = t.pixels[k + 1]
<1> DEFINE C == t.cols
           N == t.rows * C
           x == k % C
           y == k \div C
<1>1. t.cols \in 1..16 /\ t.rows \in 1..16 /\ N \in Nat
  <2>1. t.cols \in 1..16 /\ t.rows \in 1..16
    BY HexTileIs
  <2> QED BY <2>1
<1>2. AllRight(t, rects, N) /\ Covered(t, rects, N)
  BY DEF TileCovered
<1>3. \E i \in 1..Len(rects) : Covers(rects[i], x, y)
  BY <1>2 DEF Covered
<1>4. k \in Nat
  <2> HIDE DEF N
  <2>1. k \in 0..(N - 1)
    BY DEF N
  <2> QED BY <1>1, <2>1
<1>5. k = y * C + x
  <2>1. C \in 1..16 /\ x = k % C /\ y = k \div C
    BY <1>1
  <2> HIDE DEF C, x, y
  <2> QED BY <1>4, <2>1
<1> HIDE DEF x, y, N
<1>6. ASSUME NEW i \in 1..Len(rects), Covers(rects[i], x, y) PROVE rects[i].c = t.pixels[k + 1]
  <2>1. RectRight(t, rects[i], N)
    BY <1>2 DEF AllRight
  <2>2. t.pixels[(y * t.cols + x) + 1] = rects[i].c
    <3>1. \A i1, j1 : Covers(rects[i], i1, j1) => t.pixels[(j1 * t.cols + i1) + 1] = rects[i].c
      BY <2>1 DEF RectRight
    <3> QED BY <1>6, <3>1
  <2> QED BY <1>5, <2>2
<1> QED BY <1>3, <1>6 DEF x, y

\* A rectangle has a colour of the tile.
LEMMA ColoursFound ==
  ASSUME NEW t \in HexTiles, NEW rects, TileCovered(t, rects)
  PROVE  ColoursOf(rects) \subseteq Range(t.pixels)
<1> DEFINE C == t.cols
           N == t.rows * C
           P == t.pixels
<1>1. /\ C \in 1..16 /\ t.rows \in 1..16 /\ N \in Nat /\ P \in Seq(0..255) /\ Len(P) = N
  <2>1. t.cols \in 1..16 /\ t.rows \in 1..16
    BY HexTileIs
  <2>2. t.rows * t.cols \in Nat
    BY <2>1
  <2> QED BY <2>1, <2>2, HexTileIs
<1>2. rects \in Seq(Rectangles) /\ AllRight(t, rects, N)
  BY DEF TileCovered
<1> HIDE DEF N, P
<1> SUFFICES ASSUME NEW i \in 1..Len(rects) PROVE rects[i].c \in Range(P)
  BY <1>2 DEF ColoursOf, P
<1> DEFINE r == rects[i]
<1>3. r \in Rectangles
  BY <1>2, ElementOfSeq
<1>4. RectRight(t, r, N)
  BY <1>2 DEF AllRight
<1> HIDE DEF r
<1>5. r.x \in 0..15 /\ r.y \in Nat /\ r.w \in Nat /\ r.b \in Nat
  BY <1>3 DEF Rectangles
<1>6. r.y < r.b
  BY <1>4 DEF RectRight
<1>7. Covers(r, r.x, r.y)
  <2> DEFINE a == r.x
             b == r.y
             z == r.w
             g == r.b
  <2>1. a \in Nat /\ b \in Nat /\ z \in Nat /\ g \in Nat /\ b < g
    BY <1>5, <1>6
  <2> HIDE DEF a, b, z, g
  <2>2. a \in a..(a + z) /\ b \in b..(g - 1)
    BY <2>1
  <2> QED BY <2>2 DEF Covers, a, b, z, g
<1> DEFINE k == r.y * C + r.x
<1>8. r.x \in 0..(C - 1) /\ k < N /\ P[k + 1] = r.c
  <2>1. \A i1, j1 : Covers(r, i1, j1) =>
          /\ i1 \in 0..(C - 1) /\ j1 * C + i1 < N
          /\ P[(j1 * C + i1) + 1] = r.c
    BY <1>4 DEF RectRight, P
  <2> QED BY <1>7, <2>1
<1>9. k \in Nat
  BY <1>1, <1>5, <1>8, PlaceOf
<1> HIDE DEF k
<1>10. k + 1 \in 1..N
  BY <1>1, <1>8, <1>9
<1>11. k + 1 \in DOMAIN P
  BY <1>1, <1>10
<1> QED BY <1>8, <1>11 DEF Range, r

OthersOf(rects, bg) == [i \in {j \in DOMAIN rects : rects[j].c # bg} |-> rects[i]]
NumberOf(rects) == Cardinality(ColoursOf(rects)) % 256
ForegroundOf(rects, bg) == CHOOSE c \in ColoursOf(rects) : c # bg

\* The forms of a tile, without their lengths.
FormOf(rects, bg, f) ==
  \/ f.form = "raw" /\ f.bg = NoColor /\ f.fg = NoColor
  \/ /\ f.form = "two" /\ NumberOf(rects) = 2 /\ f.bg = bg /\ f.fg = ForegroundOf(rects, bg)
     /\ f.rects = OthersOf(rects, bg)
  \/ f.form = "many" /\ f.bg = bg /\ f.fg = NoColor /\ f.rects = OthersOf(rects, bg)
  \/ f.form = "solid" /\ ~(NumberOf(rects) > 1) /\ f.bg = bg /\ f.fg = lastFg /\ f.rects = <<>>

\* Every form of a tile that fits is one of these.
LEMMA FormIs ==
  ASSUME NEW t \in HexTiles, NEW n, NEW f \in FirstFitting(HexTile(t), n)
  PROVE  FormOf(Rects(t), Background(Rects(t)), f)
<1> DEFINE rects == Rects(t)
           bg == Background(rects)
           others == OthersOf(rects, bg)
           nOthers == Cardinality(DOMAIN others)
           nColors == NumberOf(rects)
           fg == IF nColors = 2 THEN ForegroundOf(rects, bg) ELSE NoColor
           newBg == IF lastBg # bg THEN 1 ELSE 0
           newFg == IF lastFg # fg THEN 1 ELSE 0
           l1 == 1 + 256 * hexBytes
           l2 == 2 + (newBg + newFg) * hexBytes + 2 * nOthers
           l3 == 2 + newBg * hexBytes + nOthers * (2 + hexBytes)
           l4 == 1 + newBg * hexBytes
           none == <<>>
           raw == [form |-> "raw", len |-> l1, bg |-> NoColor, fg |-> NoColor, rects |-> none]
           two == [form |-> "two", len |-> l2, bg |-> bg, fg |-> fg, rects |-> others]
           many == [form |-> "many", len |-> l3, bg |-> bg, fg |-> NoColor, rects |-> others]
           solid == [form |-> "solid", len |-> l4, bg |-> bg, fg |-> lastFg, rects |-> none]
           A == IF nColors > 1 THEN {IF nColors = 2 THEN two ELSE many} ELSE {}
           z == IF nColors > 1 THEN raw ELSE solid
           forms == HexForms(rects, bg)
<1>1. forms = [others |-> A, last |-> z]
  BY Zenon DEF HexForms, OthersOf, NumberOf, ForegroundOf, ColoursOf
<1>2. HexTile(t) = forms
  BY DEF HexTile, RectsOf, BackgroundOf
<1> HIDE DEF forms
<1>3. forms.others = A /\ forms.last = z
  <2> HIDE DEF A, z
  <2> QED BY <1>1
<1>4. f \in forms.others \/ f = forms.last
  <2> DEFINE good == {g \in forms.others : g.len <= n /\ g.len <= forms.last.len}
  <2>1. FirstFitting(forms, n) = IF good # {} THEN good ELSE {g \in {forms.last} : g.len <= n}
    BY DEF FirstFitting
  <2>2. f \in FirstFitting(forms, n)
    BY <1>2
  <2> QED BY <2>1, <2>2
<1>5. f \in A \/ f = z
  BY <1>3, <1>4
<1>6. \/ f = raw
      \/ f = two /\ nColors = 2
      \/ f = many
      \/ f = solid /\ ~(nColors > 1)
  <2> HIDE DEF raw, two, many, solid, nColors
  <2> QED BY <1>5
<1> HIDE DEF rects, bg, others, l1, l2, l3, l4, none
<1>7. CASE f = raw
  <2>1. f.form = "raw" /\ f.bg = NoColor /\ f.fg = NoColor
    BY <1>7
  <2> QED BY <2>1 DEF FormOf
<1>8. CASE f = two /\ nColors = 2
  <2>1. f.form = "two" /\ f.bg = bg /\ f.fg = fg /\ f.rects = others
    <3> HIDE DEF fg
    <3> QED BY <1>8
  <2>2. fg = ForegroundOf(rects, bg)
    BY <1>8
  <2> QED BY <1>8, <2>1, <2>2, Zenon DEF FormOf, rects, bg, others
<1>9. CASE f = many
  <2>1. f.form = "many" /\ f.bg = bg /\ f.fg = NoColor /\ f.rects = others
    BY <1>9
  <2> QED BY <2>1, Zenon DEF FormOf, rects, bg, others
<1>10. CASE f = solid /\ ~(nColors > 1)
  <2>1. f.form = "solid" /\ f.bg = bg /\ f.fg = lastFg /\ f.rects = none
    BY <1>10
  <2> QED BY <1>10, <2>1, Zenon DEF FormOf, rects, bg, none
<1> QED BY <1>6, <1>7, <1>8, <1>9, <1>10 DEF rects, bg

\* Fewer colours than the encoder's byte counts: of 256 it counts none.
HexFewColours == \A t \in HexTiles : Cardinality(Range(t.pixels)) < 256

\* The byte counts the colours of the rectangles.
LEMMA NumberIs ==
  ASSUME HexFewColours, NEW t \in HexTiles, NEW rects, TileCovered(t, rects)
  PROVE  /\ IsFiniteSet(ColoursOf(rects)) /\ NumberOf(rects) = Cardinality(ColoursOf(rects))
         /\ Cardinality(ColoursOf(rects)) \in Nat
<1> DEFINE P == t.pixels
           N == Len(P)
           S == ColoursOf(rects)
           V == Range(P)
<1>1. P \in Seq(0..255) /\ N \in Nat
  BY HexTileIs
<1>2. IsFiniteSet(V)
  <2> DEFINE T == 0..255
  <2>1. V \subseteq T
    <3>1. P \in Seq(T)
      BY <1>1
    <3> HIDE DEF T
    <3> QED BY <3>1 DEF Range
  <2>2. IsFiniteSet(T)
    <3>1. 0 \in Int /\ 255 \in Int
      OBVIOUS
    <3> QED BY <3>1, FS_Interval
  <2> HIDE DEF V, T
  <2> QED BY <2>1, <2>2, FS_Subset
<1>3. S \subseteq V
  BY ColoursFound
<1>4. Cardinality(V) < 256
  BY DEF HexFewColours
<1> HIDE DEF S, V
<1>5. IsFiniteSet(S) /\ Cardinality(S) <= Cardinality(V)
  BY <1>2, <1>3, FS_Subset
<1>6. Cardinality(S) \in Nat /\ Cardinality(V) \in Nat
  BY <1>2, <1>5, FS_CardinalityType
<1>7. Cardinality(S) % 256 = Cardinality(S)
  BY <1>4, <1>5, <1>6
<1> QED BY <1>5, <1>6, <1>7 DEF NumberOf, S

\* What the client paints with the right colours is the tile.
LEMMA PaintIs ==
  ASSUME HexFewColours, NEW t \in HexTiles, NEW rects, TileCovered(t, rects),
         NEW bg \in ColoursOf(rects), NEW f, FormOf(rects, bg, f), f.form # "raw",
         NEW fg, f.form = "two" => fg = f.fg
  PROVE  Paint(t, f, bg, fg) = t.pixels
<1> DEFINE C == t.cols
           N == t.rows * C
           P == t.pixels
           L == Len(rects)
           S == ColoursOf(rects)
<1>1. /\ C \in 1..16 /\ t.rows \in 1..16 /\ N \in Nat /\ P \in Seq(0..255) /\ Len(P) = N
  <2>1. t.cols \in 1..16 /\ t.rows \in 1..16
    BY HexTileIs
  <2>2. t.rows * t.cols \in Nat
    BY <2>1
  <2> QED BY <2>1, <2>2, HexTileIs
<1>2. rects \in Seq(Rectangles) /\ DOMAIN rects = 1..L /\ L \in Nat
  <2>1. rects \in Seq(Rectangles)
    BY DEF TileCovered
  <2> QED BY <2>1
<1>3. IsFiniteSet(S) /\ NumberOf(rects) = Cardinality(S) /\ Cardinality(S) \in Nat
  BY NumberIs
<1>4. \A i \in 1..L : rects[i].c \in S
  BY <1>2 DEF ColoursOf
<1> HIDE DEF N, L, S
<1>5. ASSUME NEW k \in 0..(N - 1)
      PROVE  PixelAt(f, bg, fg, k % C, k \div C) = P[k + 1]
  <2> DEFINE x == k % C
             y == k \div C
             over == {i \in DOMAIN f.rects : Covers(f.rects[i], x, y)}
  <2> HIDE DEF x, y
  <2> SUFFICES PixelAt(f, bg, fg, x, y) = P[k + 1]
    BY DEF x, y
  <2>1. /\ \E i \in 1..L : Covers(rects[i], x, y)
        /\ \A i \in 1..L : Covers(rects[i], x, y) => rects[i].c = P[k + 1]
    <3>1. k \in 0..(t.rows * t.cols - 1)
      BY DEF N
    <3>2. /\ \E i \in 1..Len(rects) : Covers(rects[i], k % t.cols, k \div t.cols)
          /\ \A i \in 1..Len(rects) :
               Covers(rects[i], k % t.cols, k \div t.cols) => rects[i].c = t.pixels[k + 1]
      BY <3>1, PlaceColour
    <3> QED BY <3>2 DEF L, x, y
  <2>2. PixelAt(f, bg, fg, x, y)
          = IF over = {} THEN bg
            ELSE IF f.form = "two" THEN fg
            ELSE f.rects[CHOOSE i \in over : \A j \in over : j <= i].c
    BY DEF PixelAt
  <2>3. CASE f.rects = OthersOf(rects, bg)
    <3>1. over = {i \in 1..L : rects[i].c # bg /\ Covers(rects[i], x, y)}
          /\ \A i \in over : f.rects[i] = rects[i]
      BY <1>2, <2>3 DEF OthersOf
    <3> HIDE DEF over
    <3>2. CASE over = {}
      <4>1. PICK i \in 1..L : Covers(rects[i], x, y)
        BY <2>1
      <4>2. rects[i].c = bg
        BY <3>1, <3>2, <4>1
      <4> QED BY <2>1, <2>2, <3>2, <4>1, <4>2
    <3>3. ASSUME NEW i \in over PROVE rects[i].c = P[k + 1] /\ rects[i].c # bg /\ rects[i].c \in S
      BY <1>4, <2>1, <3>1
    <3>4. CASE over # {} /\ f.form = "two"
      <4>1. NumberOf(rects) = 2 /\ f.fg = ForegroundOf(rects, bg)
        BY <3>4 DEF FormOf
      <4>2. PICK i \in over : TRUE
        BY <3>4
      <4> DEFINE c == rects[i].c
      <4>3. c = P[k + 1] /\ c # bg /\ c \in S
        BY <3>3
      <4> HIDE DEF c
      <4>4. f.fg \in S /\ f.fg # bg
        BY <4>1, <4>3 DEF ForegroundOf, S
      <4>5. f.fg = c
        <5> SUFFICES ASSUME f.fg # c PROVE FALSE
          OBVIOUS
        <5> DEFINE d == f.fg
        <5>7. d \in S /\ d # bg /\ d # c
          BY <4>4
        <5> HIDE DEF d
        <5> DEFINE T == {bg, c, d}
                   T1 == {bg}
                   T2 == {bg, c}
        <5>1. T \subseteq S
          BY <4>3, <5>7 DEF S
        <5>2. IsFiniteSet(T1) /\ Cardinality(T1) = 1
          BY FS_Singleton
        <5>3. T2 = T1 \cup {c} /\ c \notin T1 /\ T = T2 \cup {d} /\ d \notin T2
          BY <4>3, <5>7
        <5> HIDE DEF T, T1, T2
        <5>4. IsFiniteSet(T2) /\ Cardinality(T2) = 2
          BY <5>2, <5>3, FS_AddElement
        <5>5. IsFiniteSet(T) /\ Cardinality(T) = 3
          BY <5>3, <5>4, FS_AddElement
        <5>6. Cardinality(T) <= Cardinality(S)
          BY <1>3, <5>1, FS_Subset
        <5> QED BY <1>3, <4>1, <5>5, <5>6
      <4> QED BY <2>2, <3>4, <4>3, <4>5
    <3>5. CASE over # {} /\ f.form # "two"
      <4>1. over \subseteq 1..L
        BY <3>1
      <4>2. \E i \in over : \A j \in over : j <= i
        <5> DEFINE B == {L - i : i \in over}
        <5>1. B # {} /\ B \in SUBSET Nat
          <6>1. B # {}
            BY <3>5
          <6>2. ASSUME NEW i \in over PROVE L - i \in Nat
            <7>1. i \in 1..L
              BY <4>1
            <7> QED BY <1>2, <7>1
          <6> QED BY <6>1, <6>2
        <5>2. PICK u \in B : \A v \in B : u <= v
          <6> HIDE DEF B
          <6> QED BY <5>1, LeastNumber
        <5>3. PICK i \in over : u = L - i
          BY <5>2
        <5>4. ASSUME NEW j \in over PROVE j <= i
          <6>1. L - j \in B
            OBVIOUS
          <6>2. u <= L - j
            <7> HIDE DEF B
            <7> QED BY <5>2, <6>1
          <6>3. i \in 1..L /\ j \in 1..L
            BY <4>1
          <6> HIDE DEF B
          <6> QED BY <1>2, <5>3, <6>2, <6>3
        <5> QED BY <5>4
      <4> DEFINE g == CHOOSE i \in over : \A j \in over : j <= i
      <4>3. g \in over
        BY <4>2
      <4>4. PixelAt(f, bg, fg, x, y) = f.rects[g].c
        BY <2>2, <3>5
      <4> HIDE DEF g
      <4> QED BY <3>1, <3>3, <4>3, <4>4
    <3> QED BY <3>2, <3>4, <3>5
  <2>4. CASE f.form = "solid" /\ f.rects = <<>>
    <3>1. over = {}
      BY <2>4
    <3>2. ~(NumberOf(rects) > 1)
      BY <2>4 DEF FormOf
    <3>3. PICK i \in 1..L : Covers(rects[i], x, y)
      BY <2>1
    <3> DEFINE c == rects[i].c
    <3>4. c \in S /\ c = P[k + 1]
      BY <1>4, <2>1, <3>3
    <3> HIDE DEF c, over
    <3>5. c = bg
      <4> SUFFICES ASSUME c # bg PROVE FALSE
        OBVIOUS
      <4> DEFINE T1 == {bg}
                 T2 == {bg, c}
      <4>1. T2 \subseteq S
        BY <3>4 DEF S
      <4>2. IsFiniteSet(T1) /\ Cardinality(T1) = 1
        BY FS_Singleton
      <4>3. T2 = T1 \cup {c} /\ c \notin T1
        OBVIOUS
      <4> HIDE DEF T1, T2
      <4>4. IsFiniteSet(T2) /\ Cardinality(T2) = 2
        BY <4>2, <4>3, FS_AddElement
      <4>5. Cardinality(T2) <= Cardinality(S)
        BY <1>3, <4>1, FS_Subset
      <4> QED BY <1>3, <3>2, <4>4, <4>5
    <3> QED BY <2>2, <3>1, <3>4, <3>5
  <2>5. f.rects = OthersOf(rects, bg) \/ (f.form = "solid" /\ f.rects = <<>>)
    BY Zenon DEF FormOf
  <2> QED BY <2>3, <2>4, <2>5
<1>6. Paint(t, f, bg, fg) = [i \in 1..N |-> PixelAt(f, bg, fg, (i - 1) % C, (i - 1) \div C)]
  BY DEF Paint, N
<1>7. P = [i \in 1..N |-> P[i]]
  BY <1>1
<1>8. ASSUME NEW i \in 1..N PROVE PixelAt(f, bg, fg, (i - 1) % C, (i - 1) \div C) = P[i]
  <2>1. i - 1 \in 0..(N - 1) /\ (i - 1) + 1 = i
    BY <1>1
  <2>2. PixelAt(f, bg, fg, (i - 1) % C, (i - 1) \div C) = P[(i - 1) + 1]
    BY <1>5, <2>1, Zenon
  <2> QED BY <2>1, <2>2
<1> HIDE DEF P, C
<1>9. Paint(t, f, bg, fg) = P
  BY <1>6, <1>7, <1>8, Zenon
<1> QED BY <1>9 DEF P

\* The client has the colours that the encoder takes it to have.
HexInv ==
  /\ lastBg = NoColor \/ clientBg = lastBg
  /\ lastFg = NoColor \/ clientFg = lastFg
  /\ HextileDecoded

\* At the start nothing is painted.
LEMMA HexInitRight == HexInit => HexInv
BY DEF HexInit, HexInv, HextileDecoded, NoTile

\* A new frame forgets all colours.
LEMMA HexBeginKeeps == HexBegin => HexInv'
BY DEF HexBegin, HexInv, HextileDecoded, NoTile

\* The forms send what the client does not have, and every form paints the tile.
LEMMA HexTileKeeps ==
  ASSUME HexFewColours, HexInv, NEW t \in HexTiles, NEW n,
         NEW f \in FirstFitting(HexTile(t), n), HexEncodeTile(t, f)
  PROVE  HexInv'
<1> DEFINE rects == Rects(t)
           bg == Background(rects)
           S == ColoursOf(rects)
<1>1. TileCovered(t, rects)
  BY RectsCover
<1>2. FormOf(rects, bg, f)
  BY FormIs
<1> HIDE DEF rects
<1>3. rects \in Seq(Rectangles) /\ Len(rects) # 0
  <2>1. rects \in Seq(Rectangles)
    BY <1>1 DEF TileCovered
  <2>2. 0 \in 0..(t.rows * t.cols - 1)
    <3>1. t.rows \in 1..16 /\ t.cols \in 1..16
      BY HexTileIs
    <3>2. \A i \in 1..16 : \A j \in 1..16 : 0 \in 0..(i * j - 1)
      OBVIOUS
    <3> QED BY <3>1, <3>2, Zenon
  <2>3. \E i \in 1..Len(rects) : Covers(rects[i], 0 % t.cols, 0 \div t.cols)
    BY <1>1, <2>2, PlaceColour
  <2>4. Len(rects) \in Nat
    BY <2>1
  <2> QED BY <2>1, <2>3, <2>4
<1>4. bg \in S /\ S \subseteq Colours
  BY <1>3, BackgroundIs
<1> HIDE DEF bg, S
<1>5. \A c \in S : c # NoColor
  BY <1>4 DEF Colours, NoColor
<1>6. /\ lastBg' = f.bg /\ lastFg' = f.fg
      /\ clientBg' = IF f.form = "raw" THEN NoColor ELSE IF lastBg # f.bg THEN f.bg ELSE clientBg
      /\ clientFg' = CASE f.form \in {"raw", "many"} -> NoColor
                       [] f.form = "two"   -> IF lastFg # f.fg THEN f.fg ELSE clientFg
                       [] f.form = "solid" -> clientFg
      /\ painted' = [pixels  |-> t.pixels,
                     decoded |-> IF f.form = "raw" THEN t.pixels
                                 ELSE Paint(t, f, clientBg', clientFg')]
  BY DEF HexEncodeTile, FgAfter
<1>7. /\ painted'.pixels = t.pixels
      /\ painted'.decoded = IF f.form = "raw" THEN t.pixels ELSE Paint(t, f, clientBg', clientFg')
  BY <1>6
<1>8. CASE f.form = "raw"
  <2>1. f.bg = NoColor /\ f.fg = NoColor
    BY <1>2, <1>8 DEF FormOf
  <2> QED BY <1>6, <1>7, <1>8, <2>1 DEF HexInv, HextileDecoded
<1>9. CASE f.form # "raw"
  <2>1. f.bg = bg /\ bg # NoColor
    BY <1>2, <1>4, <1>5, <1>9 DEF FormOf
  <2>2. clientBg' = bg /\ lastBg' = bg
    BY <1>6, <1>9, <2>1 DEF HexInv
  <2>3. /\ f.form = "two" => clientFg' = f.fg
        /\ lastFg' = NoColor \/ clientFg' = lastFg'
    <3>1. CASE f.form = "two"
      <4>1. NumberOf(rects) = 2 /\ f.fg = ForegroundOf(rects, bg)
        BY <1>2, <3>1 DEF FormOf
      <4>2. \E c \in S : c # bg
        <5> SUFFICES ASSUME \A c \in S : c = bg PROVE FALSE
          OBVIOUS
        <5>1. S = {bg}
          BY <1>4
        <5>2. Cardinality(S) = 1
          BY <5>1, FS_Singleton
        <5>3. 1 % 256 = 1
          OBVIOUS
        <5> QED BY <4>1, <5>2, <5>3 DEF NumberOf, S
      <4>3. f.fg \in S
        BY <4>1, <4>2 DEF ForegroundOf, S
      <4>4. f.fg # NoColor
        BY <1>5, <4>3
      <4>5. clientFg' = IF lastFg # f.fg THEN f.fg ELSE clientFg
        BY <1>6, <3>1
      <4> QED BY <1>6, <4>4, <4>5 DEF HexInv
    <3>2. CASE f.form = "many"
      <4>1. f.fg = NoColor
        BY <1>2, <3>2 DEF FormOf
      <4> QED BY <1>6, <3>2, <4>1
    <3>3. CASE f.form = "solid"
      <4>1. f.fg = lastFg
        BY <1>2, <3>3 DEF FormOf
      <4>2. clientFg' = clientFg
        BY <1>6, <3>3
      <4> QED BY <1>6, <3>3, <4>1, <4>2 DEF HexInv
    <3>4. f.form \in {"two", "many", "solid"}
      BY <1>2, <1>9 DEF FormOf
    <3> QED BY <3>1, <3>2, <3>3, <3>4
  <2>4. Paint(t, f, clientBg', clientFg') = t.pixels
    <3> DEFINE b == clientBg'
               g == clientFg'
    <3>1. b = bg /\ (f.form = "two" => g = f.fg)
      BY <2>2, <2>3
    <3> HIDE DEF b, g
    <3>2. b \in ColoursOf(rects) /\ FormOf(rects, b, f)
      BY <1>2, <1>4, <3>1 DEF S
    <3>3. Paint(t, f, b, g) = t.pixels
      BY <1>1, <1>9, <3>1, <3>2, PaintIs
    <3> QED BY <3>3 DEF b, g
  <2> QED BY <1>7, <1>9, <2>2, <2>3, <2>4 DEF HexInv, HextileDecoded
<1> QED BY <1>8, <1>9

\* Whatever tiles are sent, in whatever form and with whatever colours left from before,
\* the client sees the tiles of the screen.
THEOREM HextileSeen ==
  HexFewColours => (HexSpec => []HextileDecoded)
<1> SUFFICES ASSUME HexFewColours PROVE HexSpec => []HextileDecoded
  OBVIOUS
<1>1. HexInit => HexInv
  BY HexInitRight
<1>2. HexInv /\ [HexNext]_hvars => HexInv'
  <2> SUFFICES ASSUME HexInv, [HexNext]_hvars PROVE HexInv'
    OBVIOUS
  <2>1. CASE HexBegin
    BY <2>1, HexBeginKeeps
  <2>2. CASE \E t \in HexTiles, n \in HexBytesAvail :
               \E f \in FirstFitting(HexTile(t), n) : HexEncodeTile(t, f)
    <3>1. PICK t \in HexTiles, n \in HexBytesAvail :
            \E f \in FirstFitting(HexTile(t), n) : HexEncodeTile(t, f)
      BY <2>2
    <3>2. PICK f \in FirstFitting(HexTile(t), n) : HexEncodeTile(t, f)
      BY <3>1
    <3> QED BY <3>2, HexTileKeeps
  <2>3. CASE UNCHANGED hvars
    BY <2>3 DEF hvars, HexInv, HextileDecoded
  <2> QED BY <2>1, <2>2, <2>3 DEF HexNext
<1>3. HexInv => HextileDecoded
  BY DEF HexInv
<1> QED BY <1>1, <1>2, <1>3, PTL DEF HexSpec
===============================================================================
