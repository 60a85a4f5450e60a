-------------------------- MODULE CalibrationProofs --------------------------
(***************************************************************************)
(* A profile that is stored is loaded as what it was, or not at all; and a *)
(* change after its checksum was computed is noticed.                      *)
(*                                                                         *)
(* The heart is the checksum.  It is linear: the difference of the         *)
(* checksums of two images depends on the difference of the images only.   *)
(* And its steps can be undone, as the top bit of the polynomial tells     *)
(* whether a bit was shifted out.  So the difference, followed back from   *)
(* the end of a damage that is no wider than the checksum, is too narrow   *)
(* to come out as none at its beginning.  What is left is the layout:      *)
(* images are read back as the profiles they were made of.                 *)
(*                                                                         *)
(* The library has induction for operators only, which no prover here can  *)
(* instantiate, so that every induction is by the least counterexample.    *)
(***************************************************************************)
EXTENDS Calibration, TLAPS, WellFoundedInduction

LEMMA LeastElement ==
  ASSUME NEW Bad, Bad \subseteq Nat, Bad # {}
  PROVE  \E m \in Bad : \A j \in Bad : m <= j
<1>1. PICK m \in Bad : \A j \in Bad : ~(<<j, m>> \in OpToRel(<, Nat))
  BY NatLessThanWellFounded, WFMin
<1>2. ASSUME NEW j \in Bad PROVE m <= j
  <2>1. <<j, m>> \notin OpToRel(<, Nat)
    BY <1>1
  <2>2. ~(j < m)
    BY <2>1 DEF OpToRel
  <2> QED
    BY <2>2
<1> QED
  BY <1>2

LEMMA Widths ==
  /\ Channels \in Nat \ {0} /\ ByteBits \in Nat \ {0} /\ MagicBytes \in Nat \ {0}
  /\ VersionBytes \in Nat \ {0} /\ FloatBytes \in Nat \ {0} /\ CrcBytes \in Nat \ {0}
  /\ ReservedBytes \in Nat /\ MaxEdits \in Nat
  BY WidthAssumption

LEMMA Product ==
  ASSUME NEW m \in Nat, NEW n \in Nat
  PROVE  m * n \in Nat /\ (m # 0 /\ n # 0 => m * n # 0) /\ (m + 1) * n = m * n + n
  OBVIOUS

LEMMA ProductRises ==
  ASSUME NEW m \in Nat, NEW n \in Nat, NEW k \in Nat, m <= n
  PROVE  m * k <= n * k
<1>1. n = m + (n - m) /\ n - m \in Nat
  OBVIOUS
<1>2. (m + (n - m)) * k = m * k + (n - m) * k
  OBVIOUS
<1>3. (n - m) * k \in Nat /\ m * k \in Nat /\ n * k \in Nat
  BY <1>1
<1> QED
  BY <1>1, <1>2, <1>3

LEMMA CrcBitsType == CrcBits \in Nat \ {0}
  BY Widths, Product DEF CrcBits

(***************************************************************************)
(* The checksum, bit by bit.                                               *)
(***************************************************************************)
LEMMA XorSame == ASSUME NEW a, NEW b PROVE Xor(a, b) = {} <=> a = b
  BY DEF Xor

LEMMA XorType ==
  ASSUME NEW S, NEW a \in SUBSET S, NEW b \in SUBSET S PROVE Xor(a, b) \in SUBSET S
  BY DEF Xor

\* What was combined with b twice is what it was.
LEMMA XorTwice == ASSUME NEW a, NEW b PROVE Xor(Xor(a, b), b) = a
  BY DEF Xor

LEMMA XorSwap ==
  ASSUME NEW a, NEW b, NEW c, NEW d
  PROVE  Xor(Xor(a, b), Xor(c, d)) = Xor(Xor(a, c), Xor(b, d))
  BY DEF Xor

LEMMA ShiftedType ==
  ASSUME NEW c \in SUBSET Bits(CrcBits)
  PROVE  Shifted(c) \in SUBSET Bits(CrcBits)
<1>1. { b - 1 : b \in c \ {0} } \in SUBSET Bits(CrcBits)
  BY CrcBitsType DEF Bits
<1>2. (IF 0 \in c THEN Poly ELSE {}) \in SUBSET Bits(CrcBits)
  BY PolyAssumption
<1> QED
  BY <1>1, <1>2, XorType DEF Shifted

LEMMA ShiftedXor ==
  ASSUME NEW c \in SUBSET Bits(CrcBits), NEW d \in SUBSET Bits(CrcBits)
  PROVE  Shifted(Xor(c, d)) = Xor(Shifted(c), Shifted(d))
<1> DEFINE down(e) == { b - 1 : b \in e \ {0} }
           top(e) == IF 0 \in e THEN Poly ELSE {}
<1>1. down(Xor(c, d)) = Xor(down(c), down(d))
  <2>1. \A e \in SUBSET Bits(CrcBits) :
          \A x : x \in down(e) <=> x \in Nat /\ x + 1 \in e
    BY CrcBitsType DEF Bits
  <2>2. Xor(c, d) \in SUBSET Bits(CrcBits)
    BY XorType
  <2> HIDE DEF down
  <2> QED
    BY <2>1, <2>2 DEF Xor
<1>2. top(Xor(c, d)) = Xor(top(c), top(d))
  BY DEF Xor
<1>3. Shifted(Xor(c, d)) = Xor(down(Xor(c, d)), top(Xor(c, d)))
      /\ Shifted(c) = Xor(down(c), top(c)) /\ Shifted(d) = Xor(down(d), top(d))
  BY DEF Shifted
<1> HIDE DEF down, top
<1> QED
  BY <1>1, <1>2, <1>3, XorSwap

\* The top bit of the polynomial tells whether a bit was shifted out: a checksum
\* with no bit at m or above comes from one with no bit above m, and none at 0.
LEMMA ShiftedBack ==
  ASSUME NEW c \in SUBSET Bits(CrcBits), NEW lo \in Nat, NEW m \in Nat, m < CrcBits,
         Shifted(c) \subseteq lo .. m - 1
  PROVE  c \subseteq lo + 1 .. m
<1> DEFINE down == { b - 1 : b \in c \ {0} }
<1>1. CrcBits - 1 \notin down
  BY CrcBitsType DEF Bits
<1>2. 0 \notin c
  <2> SUFFICES ASSUME 0 \in c PROVE FALSE
    OBVIOUS
  <2>1. Shifted(c) = Xor(down, Poly)
    BY DEF Shifted
  <2>2. CrcBits - 1 \in Shifted(c)
    BY <1>1, <2>1, PolyAssumption DEF Xor
  <2> QED
    BY <2>2, CrcBitsType
<1>3. Shifted(c) = down
  BY <1>2 DEF Shifted, Xor
<1> SUFFICES ASSUME NEW b \in c PROVE b \in lo + 1 .. m
  OBVIOUS
<1>4. b \in Nat /\ b # 0
  BY <1>2, CrcBitsType DEF Bits
<1>5. b - 1 \in Shifted(c)
  BY <1>3, <1>4
<1> QED
  BY <1>4, <1>5

(***************************************************************************)
(* A byte of it.                                                           *)
(***************************************************************************)
LEMMA ShiftedRuns ==
  ASSUME NEW c, NEW n \in Nat
  PROVE  \E f : f = [i \in 0 .. n |-> IF i = 0 THEN c ELSE Shifted(f[i - 1])]
<1> DEFINE Bad ==
      { m \in Nat : ~ \E f : f = [i \in 0 .. m |-> IF i = 0 THEN c ELSE Shifted(f[i - 1])] }
<1>1. SUFFICES ASSUME Bad # {} PROVE FALSE
  OBVIOUS
<1>2. PICK m \in Bad : \A j \in Bad : m <= j
  <2>1. Bad \subseteq Nat
    OBVIOUS
  <2> HIDE DEF Bad
  <2> QED
    BY <1>1, <2>1, LeastElement
<1>3. m # 0
  <2>1. [i \in 0 .. 0 |-> c] =
          [i \in 0 .. 0 |-> IF i = 0 THEN c ELSE Shifted([j \in 0 .. 0 |-> c][i - 1])]
    OBVIOUS
  <2> QED
    BY <2>1
<1>4. m - 1 \in Nat /\ m - 1 \notin Bad
  <2>1. m \in Nat
    OBVIOUS
  <2> QED
    BY <1>2, <1>3, <2>1
<1>5. PICK f : f = [i \in 0 .. m - 1 |-> IF i = 0 THEN c ELSE Shifted(f[i - 1])]
  BY <1>4
<1> DEFINE g == [i \in 0 .. m |-> IF i = m THEN Shifted(f[m - 1]) ELSE f[i]]
<1>6. \A i \in 0 .. m : g[i] = IF i = 0 THEN c ELSE Shifted(g[i - 1])
  <2> TAKE i \in 0 .. m
  <2>1. CASE i = m
    BY <2>1, <1>3, <1>4
  <2>2. CASE i # m
    <3>1. i \in 0 .. m - 1 /\ (i # 0 => i - 1 \in 0 .. m /\ i - 1 # m)
      BY <2>2, <1>4
    <3>2. f[i] = IF i = 0 THEN c ELSE Shifted(f[i - 1])
      BY <3>1, <1>5
    <3> QED
      BY <2>2, <3>1, <3>2
  <2> QED
    BY <2>1, <2>2
<1>7. g = [i \in 0 .. m |-> IF i = 0 THEN c ELSE Shifted(g[i - 1])]
  <2>1. g = [i \in 0 .. m |-> g[i]]
    OBVIOUS
  <2> HIDE DEF g
  <2> QED
    BY <1>6, <2>1
<1> QED
  BY <1>7

LEMMA ShiftedBitsRun ==
  ASSUME NEW c \in SUBSET Bits(CrcBits), NEW n \in Nat
  PROVE  \E f : /\ f[0] = c /\ f[n] = ShiftedBits(c, n)
                /\ \A i \in 1 .. n : f[i] = Shifted(f[i - 1])
                /\ \A i \in 0 .. n : f[i] \in SUBSET Bits(CrcBits)
<1>1. PICK f : /\ f = [i \in 0 .. n |-> IF i = 0 THEN c ELSE Shifted(f[i - 1])]
               /\ ShiftedBits(c, n) = f[n]
  BY ShiftedRuns DEF ShiftedBits
<1>2. f[0] = c /\ \A i \in 1 .. n : f[i] = Shifted(f[i - 1])
  BY <1>1
<1>3. \A i \in 0 .. n : f[i] \in SUBSET Bits(CrcBits)
  <2> DEFINE Bad == { i \in 0 .. n : f[i] \notin SUBSET Bits(CrcBits) }
  <2> SUFFICES ASSUME Bad # {} PROVE FALSE
    OBVIOUS
  <2>1. PICK m \in Bad : \A j \in Bad : m <= j
    <3>1. Bad \subseteq Nat
      OBVIOUS
    <3> HIDE DEF Bad
    <3> QED
      BY <3>1, LeastElement
  <2>2. m \in 1 .. n /\ m - 1 \in 0 .. n /\ m - 1 \notin Bad
    BY <1>2, <2>1
  <2>3. f[m - 1] \in SUBSET Bits(CrcBits) /\ f[m] = Shifted(f[m - 1])
    BY <1>2, <2>2
  <2> QED
    BY <2>1, <2>3, ShiftedType
<1> QED
  BY <1>1, <1>2, <1>3

LEMMA ShiftedBitsType ==
  ASSUME NEW c \in SUBSET Bits(CrcBits), NEW n \in Nat
  PROVE  ShiftedBits(c, n) \in SUBSET Bits(CrcBits)
<1>1. n \in 0 .. n
  OBVIOUS
<1> QED
  BY <1>1, ShiftedBitsRun

LEMMA ShiftedBitsXor ==
  ASSUME NEW c \in SUBSET Bits(CrcBits), NEW d \in SUBSET Bits(CrcBits), NEW n \in Nat
  PROVE  ShiftedBits(Xor(c, d), n) = Xor(ShiftedBits(c, n), ShiftedBits(d, n))
<1>1. PICK f : /\ f[0] = c /\ f[n] = ShiftedBits(c, n)
               /\ \A i \in 1 .. n : f[i] = Shifted(f[i - 1])
  BY ShiftedBitsRun
<1>2. PICK g : /\ g[0] = d /\ g[n] = ShiftedBits(d, n)
               /\ \A i \in 1 .. n : g[i] = Shifted(g[i - 1])
  BY ShiftedBitsRun
<1>3. Xor(c, d) \in SUBSET Bits(CrcBits)
  BY XorType
<1>4. PICK h : /\ h[0] = Xor(c, d) /\ h[n] = ShiftedBits(Xor(c, d), n)
               /\ \A i \in 1 .. n : h[i] = Shifted(h[i - 1])
  BY <1>3, ShiftedBitsRun
<1> DEFINE Good(i) == /\ f[i] \in SUBSET Bits(CrcBits) /\ g[i] \in SUBSET Bits(CrcBits)
                      /\ h[i] = Xor(f[i], g[i])
           Bad == { i \in 0 .. n : ~Good(i) }
<1>5. \A i \in 0 .. n : Good(i)
  <2> SUFFICES ASSUME Bad # {} PROVE FALSE
    OBVIOUS
  <2>1. PICK m \in Bad : \A j \in Bad : m <= j
    <3>1. Bad \subseteq Nat
      OBVIOUS
    <3> HIDE DEF Bad
    <3> QED
      BY <3>1, LeastElement
  <2>2. Good(0)
    BY <1>1, <1>2, <1>4
  <2>3. m \in 1 .. n /\ m - 1 \in 0 .. n /\ m - 1 \notin Bad
    <3> HIDE DEF Good
    <3> QED
      BY <2>1, <2>2
  <2>4. Good(m - 1)
    BY <2>3
  <2>5. f[m] = Shifted(f[m - 1]) /\ g[m] = Shifted(g[m - 1]) /\ h[m] = Shifted(h[m - 1])
    BY <1>1, <1>2, <1>4, <2>3
  <2>6. Good(m)
    BY <2>4, <2>5, ShiftedType, ShiftedXor
  <2> QED
    BY <2>1, <2>6
<1> QED
  BY <1>1, <1>2, <1>4, <1>5

\* A checksum with no bit at m or above was, n bits earlier, one with no bit at
\* m + n or above, and none below n.
LEMMA ShiftedBitsBack ==
  ASSUME NEW c \in SUBSET Bits(CrcBits), NEW n \in Nat, NEW m \in Nat, m + n <= CrcBits,
         ShiftedBits(c, n) \subseteq Bits(m)
  PROVE  c \subseteq n .. m + n - 1
<1>1. PICK f : /\ f[0] = c /\ f[n] = ShiftedBits(c, n)
               /\ \A i \in 1 .. n : f[i] = Shifted(f[i - 1])
               /\ \A i \in 0 .. n : f[i] \in SUBSET Bits(CrcBits)
  BY ShiftedBitsRun
<1> DEFINE Good(j) == f[n - j] \subseteq j .. m + j - 1
           Bad == { j \in 0 .. n : ~Good(j) }
<1>2. \A j \in 0 .. n : Good(j)
  <2> SUFFICES ASSUME Bad # {} PROVE FALSE
    OBVIOUS
  <2>1. PICK k \in Bad : \A j \in Bad : k <= j
    <3>1. Bad \subseteq Nat
      OBVIOUS
    <3> HIDE DEF Bad
    <3> QED
      BY <3>1, LeastElement
  <2>2. Good(0)
    BY <1>1 DEF Bits
  <2>3. k \in 1 .. n /\ k - 1 \in 0 .. n /\ k - 1 \notin Bad
    <3> HIDE DEF Good
    <3> QED
      BY <2>1, <2>2
  <2>4. f[n - (k - 1)] \subseteq k - 1 .. m + (k - 1) - 1
    BY <2>3
  <2>5. n - k \in 0 .. n /\ n - (k - 1) \in 1 .. n /\ (n - (k - 1)) - 1 = n - k
    BY <2>3
  <2>6. Shifted(f[n - k]) \subseteq k - 1 .. m + (k - 1) - 1
    BY <1>1, <2>4, <2>5
  <2>7. k - 1 \in Nat /\ m + (k - 1) \in Nat /\ m + (k - 1) < CrcBits
    BY <2>3, CrcBitsType
  <2>8. f[n - k] \subseteq (k - 1) + 1 .. m + (k - 1)
    BY <1>1, <2>5, <2>6, <2>7, ShiftedBack
  <2> QED
    BY <2>1, <2>3, <2>8
<1>3. n \in 0 .. n /\ n - n = 0
  OBVIOUS
<1> QED
  BY <1>1, <1>2, <1>3

(***************************************************************************)
(* The checksum, byte by byte.                                             *)
(***************************************************************************)
LEMMA ByteFits == Byte \subseteq SUBSET Bits(CrcBits)
<1>1. 1 * ByteBits <= CrcBytes * ByteBits
  BY Widths, ProductRises
<1> QED
  BY <1>1, Widths DEF Byte, Bits, CrcBits

LEMMA CrcRuns ==
  ASSUME NEW bytes, NEW n \in Nat
  PROVE  \E f : f = [i \in 0 .. n |->
                       IF i = 0 THEN Bits(CrcBits)
                       ELSE ShiftedBits(Xor(f[i - 1], bytes[i]), ByteBits)]
<1> DEFINE next(f, i) == ShiftedBits(Xor(f[i - 1], bytes[i]), ByteBits)
           Bad == { m \in Nat :
                      ~ \E f : f = [i \in 0 .. m |-> IF i = 0 THEN Bits(CrcBits) ELSE next(f, i)] }
<1>1. SUFFICES ASSUME Bad # {} PROVE FALSE
  OBVIOUS
<1>2. PICK m \in Bad : \A j \in Bad : m <= j
  <2>1. Bad \subseteq Nat
    OBVIOUS
  <2> HIDE DEF Bad
  <2> QED
    BY <1>1, <2>1, LeastElement
<1>3. m # 0
  <2> DEFINE f == [i \in 0 .. 0 |-> Bits(CrcBits)]
  <2>1. f = [i \in 0 .. 0 |-> IF i = 0 THEN Bits(CrcBits) ELSE next(f, i)]
    OBVIOUS
  <2> QED
    BY <2>1
<1>4. m - 1 \in Nat /\ m - 1 \notin Bad
  <2>1. m \in Nat
    OBVIOUS
  <2> HIDE DEF Bad
  <2> QED
    BY <1>2, <1>3, <2>1
<1>5. PICK f : f = [i \in 0 .. m - 1 |-> IF i = 0 THEN Bits(CrcBits) ELSE next(f, i)]
  BY <1>4
<1> DEFINE g == [i \in 0 .. m |-> IF i = m THEN next(f, m) ELSE f[i]]
<1>6. \A i \in 0 .. m : g[i] = IF i = 0 THEN Bits(CrcBits) ELSE next(g, i)
  <2> TAKE i \in 0 .. m
  <2>1. CASE i = m
    <3>1. g[m - 1] = f[m - 1]
      BY <1>4
    <3> QED
      BY <2>1, <3>1, <1>3, <1>4
  <2>2. CASE i # m
    <3>1. i \in 0 .. m - 1 /\ (i # 0 => i - 1 \in 0 .. m /\ i - 1 # m)
      BY <2>2, <1>4
    <3>2. f[i] = IF i = 0 THEN Bits(CrcBits) ELSE next(f, i)
      BY <3>1, <1>5
    <3>3. g[i] = f[i] /\ (i # 0 => g[i - 1] = f[i - 1])
      BY <2>2, <3>1
    <3> QED
      BY <3>2, <3>3
  <2> QED
    BY <2>1, <2>2
<1>7. g = [i \in 0 .. m |-> IF i = 0 THEN Bits(CrcBits) ELSE next(g, i)]
  <2>1. g = [i \in 0 .. m |-> g[i]]
    OBVIOUS
  <2> HIDE DEF g
  <2> QED
    BY <1>6, <2>1
<1> QED
  BY <1>7

LEMMA CrcRun ==
  ASSUME NEW n \in Nat, NEW bytes \in Bytes(n)
  PROVE  \E f : /\ f[0] = Bits(CrcBits) /\ f[n] = CrcAfter(bytes, n)
                /\ \A i \in 1 .. n : f[i] = ShiftedBits(Xor(f[i - 1], bytes[i]), ByteBits)
                /\ \A i \in 0 .. n : f[i] \in SUBSET Bits(CrcBits)
<1>1. PICK f : /\ f = [i \in 0 .. n |->
                         IF i = 0 THEN Bits(CrcBits)
                         ELSE ShiftedBits(Xor(f[i - 1], bytes[i]), ByteBits)]
               /\ CrcAfter(bytes, n) = f[n]
  BY CrcRuns DEF CrcAfter
<1>2. f[0] = Bits(CrcBits)
      /\ \A i \in 1 .. n : f[i] = ShiftedBits(Xor(f[i - 1], bytes[i]), ByteBits)
  BY <1>1
<1>3. \A i \in 0 .. n : f[i] \in SUBSET Bits(CrcBits)
  <2> DEFINE Bad == { i \in 0 .. n : f[i] \notin SUBSET Bits(CrcBits) }
  <2> SUFFICES ASSUME Bad # {} PROVE FALSE
    OBVIOUS
  <2>1. PICK m \in Bad : \A j \in Bad : m <= j
    <3>1. Bad \subseteq Nat
      OBVIOUS
    <3> HIDE DEF Bad
    <3> QED
      BY <3>1, LeastElement
  <2>2. m \in 1 .. n /\ m - 1 \in 0 .. n /\ m - 1 \notin Bad
    BY <1>2, <2>1
  <2>3. f[m - 1] \in SUBSET Bits(CrcBits) /\ bytes[m] \in SUBSET Bits(CrcBits)
    BY <2>2, ByteFits DEF Bytes
  <2>4. f[m] = ShiftedBits(Xor(f[m - 1], bytes[m]), ByteBits)
    BY <1>2, <2>2
  <2> QED
    BY <2>1, <2>3, <2>4, XorType, ShiftedBitsType, Widths
<1> QED
  BY <1>1, <1>2, <1>3

\* Two checksums that differ in no bit from the k-th byte on, differed in none
\* from the one after it before a byte was added to each; and if the byte was added
\* to the same checksum, in no bit of the first.
LEMMA CrcBack ==
  ASSUME NEW a \in SUBSET Bits(CrcBits), NEW b \in SUBSET Bits(CrcBits),
         NEW x \in Byte, NEW y \in Byte, NEW k \in Nat, k + 1 <= CrcBytes,
         Xor(ShiftedBits(Xor(a, x), ByteBits), ShiftedBits(Xor(b, y), ByteBits))
           \subseteq Bits(k * ByteBits)
  PROVE  /\ Xor(a, b) \subseteq Bits((k + 1) * ByteBits)
         /\ x = y /\ k = 0 => a = b
         /\ a = b => x = y
<1> DEFINE e == Xor(Xor(a, x), Xor(b, y))
<1>1. /\ x \in SUBSET Bits(CrcBits) /\ y \in SUBSET Bits(CrcBits)
      /\ Xor(a, x) \in SUBSET Bits(CrcBits) /\ Xor(b, y) \in SUBSET Bits(CrcBits)
      /\ e \in SUBSET Bits(CrcBits)
  BY ByteFits, XorType
<1>2. ShiftedBits(e, ByteBits) \subseteq Bits(k * ByteBits)
  BY <1>1, ShiftedBitsXor, Widths
<1>3. k * ByteBits \in Nat /\ (k + 1) * ByteBits = k * ByteBits + ByteBits
  BY Widths, Product
<1>4. k * ByteBits + ByteBits <= CrcBits
  BY <1>3, Widths, ProductRises DEF CrcBits
<1>5. e \subseteq ByteBits .. k * ByteBits + ByteBits - 1
  <2> HIDE DEF e
  <2> QED
    BY <1>1, <1>2, <1>3, <1>4, ShiftedBitsBack, Widths
<1>6. e = Xor(Xor(a, b), Xor(x, y))
  BY XorSwap
<1>7. Xor(x, y) \subseteq 0 .. ByteBits - 1
  BY DEF Byte, Bits, Xor
<1>8. e \subseteq Bits((k + 1) * ByteBits) /\ Xor(x, y) \subseteq Bits((k + 1) * ByteBits)
  <2> HIDE DEF e
  <2> QED
    BY <1>3, <1>5, <1>7, Widths DEF Bits
<1>9. Xor(a, b) = Xor(e, Xor(x, y))
  BY <1>6, XorTwice
<1>10. Xor(a, b) \subseteq Bits((k + 1) * ByteBits)
  <2> HIDE DEF e
  <2> QED
    BY <1>8, <1>9 DEF Xor
<1>11. ASSUME x = y, k = 0 PROVE a = b
  <2>1. e = Xor(a, b)
    BY <1>6, <1>11 DEF Xor
  <2>2. e = {}
    <3> HIDE DEF e
    <3> QED
      BY <1>5, <1>11, Widths
  <2> HIDE DEF e
  <2> QED
    BY <2>1, <2>2, XorSame
<1>12. ASSUME a = b PROVE x = y
  <2>1. e = Xor(x, y)
    BY <1>6, <1>12 DEF Xor
  <2>2. e = {}
    <3> HIDE DEF e
    <3> QED
      BY <1>5, <1>7, <2>1, <1>3, Widths
  <2> HIDE DEF e
  <2> QED
    BY <2>1, <2>2, XorSame
<1> QED
  BY <1>10, <1>11, <1>12

\* All the n bytes of s and t that differ are between first and last, and all those
\* of their checksums among the first m; and these adjacent bytes are not more than
\* a checksum has.
Close(n, s, t, first, last, m) ==
  /\ \A i \in 1 .. n : i \notin first .. last => s[i] = t[i]
  /\ m = 0 \/ last = n
  /\ last - first + 1 + m <= CrcBytes
  /\ Xor(CrcAfter(s, n), CrcAfter(t, n)) \subseteq Bits(m * ByteBits)

\* Then they do not differ in the first of them.
LEMMA FirstChangeIsNoticed ==
  ASSUME NEW n \in Nat, NEW s \in Bytes(n), NEW t \in Bytes(n),
         NEW first \in 1 .. n, NEW last \in first .. n, NEW m \in Nat,
         Close(n, s, t, first, last, m)
  PROVE  s[first] = t[first]
<1>1. PICK f : /\ f[0] = Bits(CrcBits) /\ f[n] = CrcAfter(s, n)
               /\ \A i \in 1 .. n : f[i] = ShiftedBits(Xor(f[i - 1], s[i]), ByteBits)
               /\ \A i \in 0 .. n : f[i] \in SUBSET Bits(CrcBits)
  BY CrcRun
<1>2. PICK g : /\ g[0] = Bits(CrcBits) /\ g[n] = CrcAfter(t, n)
               /\ \A i \in 1 .. n : g[i] = ShiftedBits(Xor(g[i - 1], t[i]), ByteBits)
               /\ \A i \in 0 .. n : g[i] \in SUBSET Bits(CrcBits)
  BY CrcRun
<1> DEFINE within(i, k) == Xor(f[i], g[i]) \subseteq Bits(k * ByteBits)
<1> USE DEF Close
<1>3. \A i \in 1 .. n : s[i] \in Byte /\ t[i] \in Byte
  BY DEF Bytes
\* One byte back.
<1>4. ASSUME NEW i \in 1 .. n, NEW k \in Nat, k + 1 <= CrcBytes, within(i, k)
      PROVE  /\ within(i - 1, k + 1)
             /\ s[i] = t[i] /\ k = 0 => f[i - 1] = g[i - 1]
             /\ f[i - 1] = g[i - 1] => s[i] = t[i]
  <2>1. i - 1 \in 0 .. n
    OBVIOUS
  <2>2. Xor(ShiftedBits(Xor(f[i - 1], s[i]), ByteBits), ShiftedBits(Xor(g[i - 1], t[i]), ByteBits))
          \subseteq Bits(k * ByteBits)
    BY <1>1, <1>2, <1>4
  <2>3. /\ f[i - 1] \in SUBSET Bits(CrcBits) /\ g[i - 1] \in SUBSET Bits(CrcBits)
        /\ s[i] \in Byte /\ t[i] \in Byte /\ k + 1 <= CrcBytes
    BY <1>1, <1>2, <1>3, <1>4, <2>1
  <2>4. /\ Xor(f[i - 1], g[i - 1]) \subseteq Bits((k + 1) * ByteBits)
        /\ s[i] = t[i] /\ k = 0 => f[i - 1] = g[i - 1]
        /\ f[i - 1] = g[i - 1] => s[i] = t[i]
    BY <2>2, <2>3, CrcBack
  <2> QED
    BY <2>4
\* Before the changes.
<1>5. f[first - 1] = g[first - 1]
  <2> DEFINE Bad == { i \in 0 .. first - 1 : f[i] # g[i] }
  <2> SUFFICES ASSUME Bad # {} PROVE FALSE
    OBVIOUS
  <2>1. PICK i \in Bad : \A j \in Bad : i <= j
    <3>1. Bad \subseteq Nat
      OBVIOUS
    <3> HIDE DEF Bad
    <3> QED
      BY <3>1, LeastElement
  <2>2. i \in 1 .. n /\ i \notin first .. last /\ i - 1 \notin Bad /\ i - 1 \in 0 .. first - 1
    BY <1>1, <1>2, <2>1
  <2>3. f[i - 1] = g[i - 1] /\ s[i] = t[i]
    BY <2>2
  <2> QED
    BY <1>1, <1>2, <2>1, <2>2, <2>3
\* After them.
<1>6. within(last, m)
  <2> DEFINE Bad == { j \in 0 .. n - last : ~within(n - j, m) }
  <2> SUFFICES Bad = {}
    <3>1. n - last \in 0 .. n - last /\ n - (n - last) = last
      OBVIOUS
    <3> QED
      BY <3>1
  <2> SUFFICES ASSUME Bad # {} PROVE FALSE
    OBVIOUS
  <2>1. PICK k \in Bad : \A j \in Bad : k <= j
    <3>1. Bad \subseteq Nat
      OBVIOUS
    <3> HIDE DEF Bad
    <3> QED
      BY <3>1, LeastElement
  <2>2. n - 0 = n /\ 0 \notin Bad
    BY <1>1, <1>2
  <2>3. k \in 1 .. n - last /\ k - 1 \notin Bad
    <3> HIDE DEF within
    <3> QED
      BY <2>1, <2>2
  <2> DEFINE i == n - (k - 1)
  <2>4. within(i, m) /\ i \in 1 .. n /\ i \notin first .. last /\ i - 1 = n - k
    <3> HIDE DEF within
    <3> QED
      BY <2>3
  <2>5. m = 0 /\ 0 + 1 <= CrcBytes /\ s[i] = t[i]
    <3>1. last # n
      BY <2>3
    <3> HIDE DEF i
    <3> QED
      BY <2>4, <3>1, Widths
  <2>6. f[i - 1] = g[i - 1]
    <3> HIDE DEF i, within
    <3> QED
      BY <1>4, <2>4, <2>5
  <2>7. within(i - 1, m)
    BY <2>6 DEF Xor
  <2> HIDE DEF within, i
  <2> QED
    BY <2>1, <2>4, <2>7
\* Back to the first of them.
<1>7. within(first, m + (last - first))
  <2> DEFINE Bad == { j \in 0 .. last - first : ~within(last - j, m + j) }
  <2> SUFFICES Bad = {}
    <3>1. last - first \in 0 .. last - first /\ last - (last - first) = first
      OBVIOUS
    <3> HIDE DEF within
    <3> QED
      BY <3>1
  <2> SUFFICES ASSUME Bad # {} PROVE FALSE
    OBVIOUS
  <2>1. PICK k \in Bad : \A j \in Bad : k <= j
    <3>1. Bad \subseteq Nat
      OBVIOUS
    <3> HIDE DEF Bad
    <3> QED
      BY <3>1, LeastElement
  <2>2. last - 0 = last /\ m + 0 = m
    OBVIOUS
  <2>3. k \in 1 .. last - first /\ k - 1 \notin Bad
    <3> HIDE DEF within
    <3> QED
      BY <1>6, <2>1, <2>2
  <2> DEFINE i == last - (k - 1)
             l == m + (k - 1)
  <2>4. within(i, l) /\ i \in 1 .. n /\ l \in Nat /\ l + 1 <= CrcBytes
        /\ i - 1 = last - k /\ l + 1 = m + k
    <3> HIDE DEF within
    <3> QED
      BY <2>3, Widths
  <2>5. within(i - 1, l + 1)
    <3> HIDE DEF i, l, within
    <3> QED
      BY <1>4, <2>4
  <2> HIDE DEF within, i, l
  <2> QED
    BY <2>1, <2>4, <2>5
<1>8. m + (last - first) \in Nat /\ m + (last - first) + 1 <= CrcBytes
  BY Widths
<1> HIDE DEF within
<1> QED
  BY <1>4, <1>5, <1>7, <1>8

\* So they do not differ at all.
LEMMA ChangesAreNoticed ==
  ASSUME NEW n \in Nat, NEW s \in Bytes(n), NEW t \in Bytes(n),
         NEW first \in Nat, NEW last \in Nat, first <= last, last <= n, NEW m \in Nat,
         Close(n, s, t, first, last, m)
  PROVE  s = t
<1> DEFINE Bad == { i \in 1 .. n : s[i] # t[i] }
<1>1. Bad = {} => s = t
  BY DEF Bytes
<1> SUFFICES ASSUME Bad # {} PROVE FALSE
  BY <1>1
<1>2. PICK i \in Bad : \A j \in Bad : i <= j
  <2>1. Bad \subseteq Nat
    OBVIOUS
  <2> HIDE DEF Bad
  <2> QED
    BY <2>1, LeastElement
<1>3. i \in 1 .. n /\ i \in first .. last /\ last \in i .. n /\ last - i + 1 + m <= CrcBytes
  BY Widths DEF Close
<1>4. Close(n, s, t, i, last, m)
  BY <1>2, <1>3 DEF Close
<1>5. s[i] = t[i]
  <2> HIDE DEF Bad
  <2> QED
    BY <1>3, <1>4, FirstChangeIsNoticed
<1> QED
  BY <1>5

(***************************************************************************)
(* Bytes and their images.                                                 *)
(***************************************************************************)
LEMMA BytesAreSequences ==
  ASSUME NEW n \in Nat, NEW s
  PROVE  s \in Bytes(n) <=> s \in Seq(Byte) /\ Len(s) = n
<1>1. ASSUME s \in Bytes(n) PROVE s \in Seq(Byte) /\ Len(s) = n
  BY <1>1 DEF Bytes
<1>2. ASSUME s \in Seq(Byte), Len(s) = n PROVE s \in Bytes(n)
  BY <1>2 DEF Bytes
<1> QED
  BY <1>1, <1>2

LEMMA SameBytes ==
  ASSUME NEW n \in Nat, NEW s \in Bytes(n), NEW t \in Bytes(n), \A i \in 1 .. n : s[i] = t[i]
  PROVE  s = t
  BY DEF Bytes

LEMMA CutType ==
  ASSUME NEW s \in Seq(Byte), NEW o \in Nat, NEW n \in Nat, o + n <= Len(s)
  PROVE  Cut(s, o, n) \in Bytes(n) /\ \A i \in 1 .. n : Cut(s, o, n)[i] = s[o + i]
  BY DEF Cut, Bytes

LEMMA Joined ==
  ASSUME NEW x \in Seq(Byte), NEW y \in Seq(Byte)
  PROVE  /\ x \o y \in Seq(Byte) /\ Len(x \o y) = Len(x) + Len(y)
         /\ Len(x) \in Nat /\ Len(y) \in Nat
         /\ \A i \in 1 .. Len(x) : (x \o y)[i] = x[i]
         /\ \A i \in 1 .. Len(y) : (x \o y)[Len(x) + i] = y[i]
  OBVIOUS

BeginsWith(s, x) == \A i \in 1 .. Len(x) : s[i] = x[i]

\* Cutting a piece out of what begins with x and y.
LEMMA Piece ==
  ASSUME NEW x \in Seq(Byte), NEW y \in Seq(Byte), NEW s, BeginsWith(s, x \o y)
  PROVE  Cut(s, Len(x), Len(y)) = y /\ BeginsWith(s, x)
<1>1. ASSUME NEW i \in 1 .. Len(x) PROVE s[i] = x[i]
  <2>1. i \in 1 .. Len(x \o y) /\ (x \o y)[i] = x[i]
    BY Joined
  <2> QED
    BY <2>1 DEF BeginsWith
<1>2. ASSUME NEW i \in 1 .. Len(y) PROVE s[Len(x) + i] = y[i]
  <2>1. Len(x) + i \in 1 .. Len(x \o y) /\ (x \o y)[Len(x) + i] = y[i]
    BY Joined
  <2> QED
    BY <2>1 DEF BeginsWith
<1>3. y = [i \in 1 .. Len(y) |-> y[i]]
  OBVIOUS
<1>4. Cut(s, Len(x), Len(y)) = y
  BY <1>2, <1>3 DEF Cut
<1> QED
  BY <1>1, <1>4 DEF BeginsWith

(***************************************************************************)
(* The checksum in an image.                                               *)
(***************************************************************************)
LEMMA CrcImageType ==
  ASSUME NEW c PROVE CrcImage(c) \in Bytes(CrcBytes)
  BY DEF CrcImage, Bytes, Byte

LEMMA CrcFromType ==
  ASSUME NEW x \in Bytes(CrcBytes) PROVE CrcFrom(x) \in SUBSET Bits(CrcBits)
<1> SUFFICES ASSUME NEW i \in 1 .. CrcBytes, NEW b \in x[i]
             PROVE  b + (i - 1) * ByteBits \in Bits(CrcBits)
  BY DEF CrcFrom
<1>1. b \in 0 .. ByteBits - 1
  BY DEF Bytes, Byte, Bits
<1>2. i - 1 \in Nat /\ i \in Nat /\ (i - 1) + 1 = i
  OBVIOUS
<1>3. (i - 1) * ByteBits \in Nat /\ i * ByteBits = (i - 1) * ByteBits + ByteBits
  BY <1>2, Widths, Product
<1>4. i * ByteBits <= CrcBits
  BY <1>2, Widths, ProductRises DEF CrcBits
<1> QED
  BY <1>1, <1>3, <1>4, Widths, CrcBitsType DEF Bits

LEMMA CrcRoundTrip ==
  ASSUME NEW c \in SUBSET Bits(CrcBits)
  PROVE  CrcFrom(CrcImage(c)) = c
<1>1. CrcFrom(CrcImage(c)) \subseteq c
  BY DEF CrcFrom, CrcImage
<1>2. ASSUME NEW x \in c PROVE x \in CrcFrom(CrcImage(c))
  <2>1. x \in Nat /\ x < CrcBytes * ByteBits
    BY CrcBitsType DEF Bits, CrcBits
  <2> DEFINE Reached == { i \in Nat : x < i * ByteBits }
  <2>2. CrcBytes \in Reached
    BY <2>1, Widths
  <2>3. PICK i \in Reached : \A j \in Reached : i <= j
    <3>1. Reached \subseteq Nat
      OBVIOUS
    <3> HIDE DEF Reached
    <3> QED
      BY <2>2, <3>1, LeastElement
  <2>4. i \in Nat /\ x < i * ByteBits /\ i <= CrcBytes
    <3>1. i <= CrcBytes
      <4> HIDE DEF Reached
      <4> QED
        BY <2>2, <2>3
    <3> QED
      BY <3>1
  <2>5. i # 0
    BY <2>1, <2>4, Widths
  <2>6. i - 1 \in Nat /\ (i - 1) + 1 = i
    BY <2>4, <2>5
  <2>7. (i - 1) * ByteBits <= x
    <3>1. i - 1 \notin Reached
      <4> HIDE DEF Reached
      <4> QED
        BY <2>3, <2>4, <2>6
    <3>2. (i - 1) * ByteBits \in Nat
      BY <2>6, Widths, Product
    <3> QED
      BY <2>1, <2>6, <3>1, <3>2
  <2>8. (i - 1) * ByteBits \in Nat /\ i * ByteBits = (i - 1) * ByteBits + ByteBits
    BY <2>6, Widths, Product
  <2> DEFINE b == x - (i - 1) * ByteBits
  <2>9. b \in Bits(ByteBits) /\ b + (i - 1) * ByteBits = x
    BY <2>1, <2>4, <2>7, <2>8, Widths DEF Bits
  <2>10. i \in 1 .. CrcBytes
    BY <2>4, <2>5, Widths
  <2> HIDE DEF b
  <2>11. b \in CrcImage(c)[i]
    BY <2>9, <2>10 DEF CrcImage
  <2> QED
    BY <2>9, <2>10, <2>11 DEF CrcFrom
<1> QED
  BY <1>1, <1>2

\* Images that differ in the first m bytes only are of checksums that differ in
\* the bits of those only.
LEMMA CrcFromNear ==
  ASSUME NEW x \in Bytes(CrcBytes), NEW y \in Bytes(CrcBytes), NEW m \in Nat,
         \A i \in 1 .. CrcBytes : i > m => x[i] = y[i]
  PROVE  Xor(CrcFrom(x), CrcFrom(y)) \subseteq Bits(m * ByteBits)
<1>1. ASSUME NEW u \in Bytes(CrcBytes), NEW v \in Bytes(CrcBytes),
             \A i \in 1 .. CrcBytes : i > m => u[i] = v[i],
             NEW z \in CrcFrom(u) \ CrcFrom(v)
      PROVE  z \in Bits(m * ByteBits)
  <2>1. PICK i \in 1 .. CrcBytes : \E b \in u[i] : z = b + (i - 1) * ByteBits
    BY DEF CrcFrom
  <2>2. PICK b \in u[i] : z = b + (i - 1) * ByteBits
    BY <2>1
  <2>3. b \notin v[i]
    BY <2>2 DEF CrcFrom
  <2>4. i \in Nat /\ i - 1 \in Nat /\ (i - 1) + 1 = i /\ i <= m
    BY <1>1, <2>3
  <2>5. (i - 1) * ByteBits \in Nat /\ i * ByteBits = (i - 1) * ByteBits + ByteBits
    BY <2>4, Widths, Product
  <2>6. i * ByteBits <= m * ByteBits
    BY <2>4, Widths, ProductRises
  <2>7. b \in 0 .. ByteBits - 1
    BY DEF Bytes, Byte, Bits
  <2>8. m * ByteBits \in Nat
    BY Widths, Product
  <2> QED
    BY <2>2, <2>5, <2>6, <2>7, <2>8, Widths DEF Bits
<1>2. ASSUME NEW z \in Xor(CrcFrom(x), CrcFrom(y)) PROVE z \in Bits(m * ByteBits)
  BY <1>1 DEF Xor
<1> QED
  BY <1>2

LEMMA CrcOfType == ASSUME NEW s PROVE CrcOf(s) \in SUBSET Bits(CrcBits)
  BY DEF CrcOf

LEMMA CrcOfXor ==
  ASSUME NEW n \in Nat, NEW s \in Bytes(n), NEW t \in Bytes(n)
  PROVE  Xor(CrcAfter(s, n), CrcAfter(t, n)) = Xor(CrcOf(s), CrcOf(t))
<1>1. Len(s) = n /\ Len(t) = n
  BY BytesAreSequences
<1>2. CrcAfter(s, n) \in SUBSET Bits(CrcBits) /\ CrcAfter(t, n) \in SUBSET Bits(CrcBits)
  <2>1. n \in 0 .. n
    OBVIOUS
  <2> QED
    BY <2>1, CrcRun
<1> QED
  BY <1>1, <1>2 DEF CrcOf, Xor

(***************************************************************************)
(* Profiles and their images.                                              *)
(***************************************************************************)
LEMMA Sizes ==
  /\ ArraySize \in Nat /\ HeaderSize \in Nat /\ HeaderSize = MagicBytes + VersionBytes + 2
  /\ 2 * ArraySize \in Nat /\ 2 * ArraySize = ArraySize + ArraySize
  /\ 3 * ArraySize \in Nat /\ 3 * ArraySize = 2 * ArraySize + ArraySize
  /\ BodySize("FDC1004") \in Nat /\ BodySize("FDC2x1x") \in Nat
  /\ \A k \in Kinds : BodySize(k) \in Nat /\ ImageSize(k) = BodySize(k) + CrcBytes
<1>1. ArraySize \in Nat
  BY Widths, Product DEF ArraySize
<1>2. /\ 2 * ArraySize \in Nat /\ 2 * ArraySize = ArraySize + ArraySize
      /\ 3 * ArraySize \in Nat /\ 3 * ArraySize = 2 * ArraySize + ArraySize
  BY <1>1
<1>3. HeaderSize \in Nat /\ HeaderSize = MagicBytes + VersionBytes + 2
  BY Widths DEF HeaderSize
<1>4. BodySize("FDC1004") \in Nat /\ BodySize("FDC2x1x") \in Nat
  BY <1>1, <1>2, <1>3, Widths DEF BodySize
<1> QED
  BY <1>1, <1>2, <1>3, <1>4 DEF ImageSize, Kinds

LEMMA Image1004 ==
  ASSUME NEW p \in Profile1004, NEW c \in Bytes(CrcBytes)
  PROVE  /\ Body1004(p) \in Bytes(BodySize("FDC1004"))
         /\ Parsed1004(Body1004(p) \o c) = [p EXCEPT !.crc = CrcFrom(c)]
<1> DEFINE h  == <<p.family, p.chip>>
           x1 == p.magic
           x2 == x1 \o p.version
           x3 == x2 \o h
           x4 == x3 \o p.capdacCode
           x5 == x4 \o p.baselinePf
           x6 == x5 \o p.alphaPfPerC
           s  == x6 \o c
<1>1. p.magic \in Seq(Byte) /\ Len(p.magic) = MagicBytes
  BY BytesAreSequences, Widths DEF Profile1004
<1>2. p.version \in Seq(Byte) /\ Len(p.version) = VersionBytes
  BY BytesAreSequences, Widths DEF Profile1004
<1>3. h \in Seq(Byte) /\ Len(h) = 2
  BY DEF Profile1004
<1>4. p.capdacCode \in Seq(Byte) /\ Len(p.capdacCode) = Channels
  BY BytesAreSequences, Widths DEF Profile1004
<1>5. p.baselinePf \in Seq(Byte) /\ Len(p.baselinePf) = ArraySize
  BY BytesAreSequences, Sizes DEF Profile1004, FloatArray, ArraySize
<1>6. p.alphaPfPerC \in Seq(Byte) /\ Len(p.alphaPfPerC) = ArraySize
  BY BytesAreSequences, Sizes DEF Profile1004, FloatArray, ArraySize
<1>7. c \in Seq(Byte) /\ Len(c) = CrcBytes
  BY BytesAreSequences, Widths
<1>8. Body1004(p) = x6
  BY DEF Body1004
<1>9. x2 \in Seq(Byte) /\ Len(x2) = MagicBytes + VersionBytes
  BY <1>1, <1>2, Joined
<1>10. x3 \in Seq(Byte) /\ Len(x3) = HeaderSize
  <2> HIDE DEF x2
  <2> QED
    BY <1>3, <1>9, Joined, Sizes
<1>11. x4 \in Seq(Byte) /\ Len(x4) = HeaderSize + Channels
  <2> HIDE DEF x3
  <2> QED
    BY <1>4, <1>10, Joined
<1>12. x5 \in Seq(Byte) /\ Len(x5) = HeaderSize + Channels + ArraySize
  <2> HIDE DEF x4
  <2> QED
    BY <1>5, <1>11, Joined
<1>13. x6 \in Seq(Byte) /\ Len(x6) = HeaderSize + Channels + ArraySize + ArraySize
  <2> HIDE DEF x5
  <2> QED
    BY <1>6, <1>12, Joined
<1>14. BodySize("FDC1004") = HeaderSize + Channels + ArraySize + ArraySize
  BY Sizes, Widths DEF BodySize
<1>15. Body1004(p) \in Bytes(BodySize("FDC1004"))
  <2> HIDE DEF x6
  <2> QED
    BY <1>8, <1>13, <1>14, BytesAreSequences, Sizes
<1>16. Cut(s, BodySize("FDC1004"), CrcBytes) = c /\ BeginsWith(s, x6)
  <2>1. BeginsWith(s, x6 \o c)
    BY DEF BeginsWith
  <2> HIDE DEF x6, s
  <2> QED
    BY <1>7, <1>13, <1>14, <2>1, Piece
<1> HIDE DEF s
<1>17. Cut(s, HeaderSize + Channels + ArraySize, ArraySize) = p.alphaPfPerC /\ BeginsWith(s, x5)
  <2> HIDE DEF x5
  <2> QED
    BY <1>6, <1>12, <1>16, Piece
<1>18. Cut(s, HeaderSize + Channels, ArraySize) = p.baselinePf /\ BeginsWith(s, x4)
  <2> HIDE DEF x4
  <2> QED
    BY <1>5, <1>11, <1>17, Piece
<1>19. Cut(s, HeaderSize, Channels) = p.capdacCode /\ BeginsWith(s, x3)
  <2> HIDE DEF x3
  <2> QED
    BY <1>4, <1>10, <1>18, Piece
<1>20. Cut(s, MagicBytes + VersionBytes, 2) = h /\ BeginsWith(s, x2)
  <2> HIDE DEF x2, h
  <2> QED
    BY <1>3, <1>9, <1>19, Piece
<1>21. s[HeaderSize - 1] = p.family /\ s[HeaderSize] = p.chip
  <2>1. HeaderSize - 1 = MagicBytes + VersionBytes + 1 /\ HeaderSize = MagicBytes + VersionBytes + 2
    BY Sizes, Widths
  <2>2. Cut(s, MagicBytes + VersionBytes, 2)[1] = s[MagicBytes + VersionBytes + 1]
        /\ Cut(s, MagicBytes + VersionBytes, 2)[2] = s[MagicBytes + VersionBytes + 2]
    BY DEF Cut
  <2> QED
    BY <1>20, <2>1, <2>2
<1>22. Cut(s, MagicBytes, VersionBytes) = p.version /\ BeginsWith(s, x1)
  <2> HIDE DEF x1
  <2> QED
    BY <1>1, <1>2, <1>20, Piece DEF x1
<1>23. Cut(s, 0, MagicBytes) = p.magic
  <2>1. \A i \in 1 .. MagicBytes : s[0 + i] = p.magic[i]
    BY <1>1, <1>22 DEF BeginsWith
  <2>2. p.magic = [i \in 1 .. MagicBytes |-> p.magic[i]]
    BY DEF Profile1004, Bytes
  <2> QED
    BY <2>1, <2>2 DEF Cut
<1>24. Parsed1004(s) =
         [magic |-> p.magic, version |-> p.version, family |-> p.family, chip |-> p.chip,
          capdacCode |-> p.capdacCode, baselinePf |-> p.baselinePf,
          alphaPfPerC |-> p.alphaPfPerC, crc |-> CrcFrom(c)]
  BY <1>16, <1>17, <1>18, <1>19, <1>21, <1>22, <1>23 DEF Parsed1004, Crc
<1>25. [p EXCEPT !.crc = CrcFrom(c)] =
         [magic |-> p.magic, version |-> p.version, family |-> p.family, chip |-> p.chip,
          capdacCode |-> p.capdacCode, baselinePf |-> p.baselinePf,
          alphaPfPerC |-> p.alphaPfPerC, crc |-> CrcFrom(c)]
  BY DEF Profile1004
<1>26. Body1004(p) \o c = s
  BY <1>8 DEF s
<1> QED
  BY <1>15, <1>24, <1>25, <1>26

LEMMA Image2x1x ==
  ASSUME NEW p \in Profile2x1x, NEW c \in Bytes(CrcBytes)
  PROVE  /\ Body2x1x(p) \in Bytes(BodySize("FDC2x1x"))
         /\ Parsed2x1x(Body2x1x(p) \o c) = [p EXCEPT !.crc = CrcFrom(c)]
         /\ \A i \in 1 .. ReservedBytes : Body2x1x(p)[HeaderSize + 1 + i] = {}
<1> DEFINE h  == <<p.family, p.chip, p.variant>>
           x1 == p.magic
           x2 == x1 \o p.version
           x3 == x2 \o h
           x4 == x3 \o Gap
           x5 == x4 \o p.inductanceUH
           x6 == x5 \o p.parasiticPf
           x7 == x6 \o p.baselineHz
           x8 == x7 \o p.referenceClockHz
           s  == x8 \o c
<1>1. p.magic \in Seq(Byte) /\ Len(p.magic) = MagicBytes
  BY BytesAreSequences, Widths DEF Profile2x1x
<1>2. p.version \in Seq(Byte) /\ Len(p.version) = VersionBytes
  BY BytesAreSequences, Widths DEF Profile2x1x
<1>3. h \in Seq(Byte) /\ Len(h) = 3
  BY DEF Profile2x1x
<1>4. Gap \in Seq(Byte) /\ Len(Gap) = ReservedBytes
  BY Widths DEF Gap, Byte
<1>5. p.inductanceUH \in Seq(Byte) /\ Len(p.inductanceUH) = ArraySize
  BY BytesAreSequences, Sizes DEF Profile2x1x, FloatArray, ArraySize
<1>6. p.parasiticPf \in Seq(Byte) /\ Len(p.parasiticPf) = ArraySize
  BY BytesAreSequences, Sizes DEF Profile2x1x, FloatArray, ArraySize
<1>7. p.baselineHz \in Seq(Byte) /\ Len(p.baselineHz) = ArraySize
  BY BytesAreSequences, Sizes DEF Profile2x1x, FloatArray, ArraySize
<1>8. p.referenceClockHz \in Seq(Byte) /\ Len(p.referenceClockHz) = FloatBytes
  BY BytesAreSequences, Widths DEF Profile2x1x
<1>9. c \in Seq(Byte) /\ Len(c) = CrcBytes
  BY BytesAreSequences, Widths
<1>10. Body2x1x(p) = x8
  BY DEF Body2x1x
<1>11. x1 \in Seq(Byte) /\ Len(x1) = MagicBytes
  BY <1>1
<1>12. x2 \in Seq(Byte) /\ Len(x2) = MagicBytes + VersionBytes
  <2> HIDE DEF x1
  <2>1. x2 \in Seq(Byte) /\ Len(x2) = Len(x1) + VersionBytes
    BY <1>2, <1>11, Joined
  <2> HIDE DEF x2
  <2> QED
    BY <1>11, <2>1, Sizes, Widths
<1>13. x3 \in Seq(Byte) /\ Len(x3) = HeaderSize + 1
  <2> HIDE DEF x2
  <2>1. x3 \in Seq(Byte) /\ Len(x3) = Len(x2) + 3
    BY <1>3, <1>12, Joined
  <2> HIDE DEF x3
  <2> QED
    BY <1>12, <2>1, Sizes, Widths
<1>14. x4 \in Seq(Byte) /\ Len(x4) = HeaderSize + 1 + ReservedBytes
  <2> HIDE DEF x3
  <2>1. x4 \in Seq(Byte) /\ Len(x4) = Len(x3) + ReservedBytes
    BY <1>4, <1>13, Joined
  <2> HIDE DEF x4
  <2> QED
    BY <1>13, <2>1, Sizes, Widths
<1>15. x5 \in Seq(Byte) /\ Len(x5) = HeaderSize + 1 + ReservedBytes + ArraySize
  <2> HIDE DEF x4
  <2>1. x5 \in Seq(Byte) /\ Len(x5) = Len(x4) + ArraySize
    BY <1>5, <1>14, Joined
  <2> HIDE DEF x5
  <2> QED
    BY <1>14, <2>1, Sizes, Widths
<1>16. x6 \in Seq(Byte) /\ Len(x6) = HeaderSize + 1 + ReservedBytes + 2 * ArraySize
  <2> HIDE DEF x5
  <2>1. x6 \in Seq(Byte) /\ Len(x6) = Len(x5) + ArraySize
    BY <1>6, <1>15, Joined
  <2> HIDE DEF x6
  <2> QED
    BY <1>15, <2>1, Sizes, Widths
<1>17. x7 \in Seq(Byte) /\ Len(x7) = HeaderSize + 1 + ReservedBytes + 3 * ArraySize
  <2> HIDE DEF x6
  <2>1. x7 \in Seq(Byte) /\ Len(x7) = Len(x6) + ArraySize
    BY <1>7, <1>16, Joined
  <2> HIDE DEF x7
  <2> QED
    BY <1>16, <2>1, Sizes, Widths
<1>18. x8 \in Seq(Byte) /\ Len(x8) = HeaderSize + 1 + ReservedBytes + 3 * ArraySize + FloatBytes
  <2> HIDE DEF x7
  <2>1. x8 \in Seq(Byte) /\ Len(x8) = Len(x7) + FloatBytes
    BY <1>8, <1>17, Joined
  <2> HIDE DEF x8
  <2> QED
    BY <1>17, <2>1, Sizes, Widths
<1>19. BodySize("FDC2x1x") = HeaderSize + 1 + ReservedBytes + 3 * ArraySize + FloatBytes
  BY Sizes, Widths DEF BodySize
<1>20. Body2x1x(p) \in Bytes(BodySize("FDC2x1x"))
  <2> HIDE DEF x8
  <2> QED
    BY <1>10, <1>18, <1>19, BytesAreSequences, Sizes
<1>21. Cut(s, BodySize("FDC2x1x"), CrcBytes) = c /\ BeginsWith(s, x8)
  <2>1. BeginsWith(s, x8 \o c)
    BY DEF BeginsWith
  <2> HIDE DEF x8, s
  <2> QED
    BY <1>9, <1>18, <1>19, <2>1, Piece
<1>22. Body2x1x(p) \o c = s
  BY <1>10
<1> HIDE DEF s
<1>23. Cut(s, HeaderSize + 1 + ReservedBytes + 3 * ArraySize, FloatBytes) = p.referenceClockHz /\ BeginsWith(s, x7)
  <2> HIDE DEF x7
  <2> QED
    BY <1>8, <1>17, <1>21, Piece
<1>24. Cut(s, HeaderSize + 1 + ReservedBytes + 2 * ArraySize, ArraySize) = p.baselineHz /\ BeginsWith(s, x6)
  <2> HIDE DEF x6
  <2> QED
    BY <1>7, <1>16, <1>23, Piece
<1>25. Cut(s, HeaderSize + 1 + ReservedBytes + ArraySize, ArraySize) = p.parasiticPf /\ BeginsWith(s, x5)
  <2> HIDE DEF x5
  <2> QED
    BY <1>6, <1>15, <1>24, Piece
<1>26. Cut(s, HeaderSize + 1 + ReservedBytes, ArraySize) = p.inductanceUH /\ BeginsWith(s, x4)
  <2> HIDE DEF x4
  <2> QED
    BY <1>5, <1>14, <1>25, Piece
<1>27. Cut(s, HeaderSize + 1, ReservedBytes) = Gap /\ BeginsWith(s, x3)
  <2> HIDE DEF x3
  <2> QED
    BY <1>4, <1>13, <1>26, Piece
<1>28. Cut(s, MagicBytes + VersionBytes, 3) = h /\ BeginsWith(s, x2)
  <2> HIDE DEF x2, h
  <2> QED
    BY <1>3, <1>12, <1>27, Piece
<1>29. Cut(s, MagicBytes, VersionBytes) = p.version /\ BeginsWith(s, x1)
  <2> HIDE DEF x1
  <2> QED
    BY <1>2, <1>11, <1>28, Piece
<1>30. s[HeaderSize - 1] = p.family /\ s[HeaderSize] = p.chip /\ s[HeaderSize + 1] = p.variant
  <2>1. HeaderSize - 1 = MagicBytes + VersionBytes + 1 /\ HeaderSize = MagicBytes + VersionBytes + 2
        /\ HeaderSize + 1 = MagicBytes + VersionBytes + 3
    BY Sizes, Widths
  <2>2. /\ Cut(s, MagicBytes + VersionBytes, 3)[1] = s[MagicBytes + VersionBytes + 1]
        /\ Cut(s, MagicBytes + VersionBytes, 3)[2] = s[MagicBytes + VersionBytes + 2]
        /\ Cut(s, MagicBytes + VersionBytes, 3)[3] = s[MagicBytes + VersionBytes + 3]
    BY DEF Cut
  <2> QED
    BY <1>28, <2>1, <2>2
<1>31. Cut(s, 0, MagicBytes) = p.magic
  <2>1. \A i \in 1 .. MagicBytes : s[0 + i] = p.magic[i]
    BY <1>1, <1>29 DEF BeginsWith
  <2>2. p.magic = [i \in 1 .. MagicBytes |-> p.magic[i]]
    BY DEF Profile2x1x, Bytes
  <2> QED
    BY <2>1, <2>2 DEF Cut
<1>32. \A i \in 1 .. ReservedBytes : Body2x1x(p)[HeaderSize + 1 + i] = {}
  <2> TAKE i \in 1 .. ReservedBytes
  <2>1. HeaderSize + 1 + i \in 1 .. Len(x8)
    <3> HIDE DEF x8
    <3> QED
      BY <1>18, Sizes, Widths
  <2>2. s[HeaderSize + 1 + i] = {}
    <3>1. Cut(s, HeaderSize + 1, ReservedBytes)[i] = s[HeaderSize + 1 + i] /\ Gap[i] = {}
      BY DEF Cut, Gap
    <3> QED
      BY <1>27, <3>1
  <2>3. s[HeaderSize + 1 + i] = x8[HeaderSize + 1 + i]
    <3> HIDE DEF x8
    <3> QED
      BY <1>21, <2>1 DEF BeginsWith
  <2> QED
    BY <1>10, <2>2, <2>3
<1>33. Parsed2x1x(s) =
         [magic |-> p.magic, version |-> p.version, family |-> p.family, chip |-> p.chip,
          variant |-> p.variant, inductanceUH |-> p.inductanceUH,
          parasiticPf |-> p.parasiticPf, baselineHz |-> p.baselineHz,
          referenceClockHz |-> p.referenceClockHz, crc |-> CrcFrom(c)]
  BY <1>21, <1>23, <1>24, <1>25, <1>26, <1>29, <1>30, <1>31 DEF Parsed2x1x, Crc
<1>34. [p EXCEPT !.crc = CrcFrom(c)] =
         [magic |-> p.magic, version |-> p.version, family |-> p.family, chip |-> p.chip,
          variant |-> p.variant, inductanceUH |-> p.inductanceUH,
          parasiticPf |-> p.parasiticPf, baselineHz |-> p.baselineHz,
          referenceClockHz |-> p.referenceClockHz, crc |-> CrcFrom(c)]
  BY DEF Profile2x1x
<1> QED
  BY <1>20, <1>22, <1>32, <1>33, <1>34

\* The first n bytes of s, but for those in a gap.
Copies(x, s, n, G) ==
  /\ x \in Seq(Byte) /\ Len(x) = n /\ n <= Len(s)
  /\ \A i \in 1 .. n : i \in G \/ x[i] = s[i]

LEMMA Longer ==
  ASSUME NEW s \in Seq(Byte), NEW x, NEW m \in Nat, NEW n \in Nat, NEW G,
         Copies(x, s, m, G), m + n <= Len(s)
  PROVE  Copies(x \o Cut(s, m, n), s, m + n, G)
<1> DEFINE y == Cut(s, m, n)
<1>1. y \in Seq(Byte) /\ Len(y) = n /\ \A i \in 1 .. n : y[i] = s[m + i]
  <2> HIDE DEF y
  <2> QED
    BY CutType, BytesAreSequences DEF y
<1> HIDE DEF y
<1>2. x \o y \in Seq(Byte) /\ Len(x \o y) = m + n
  BY <1>1, Joined DEF Copies
<1>3. ASSUME NEW i \in 1 .. m + n PROVE i \in G \/ (x \o y)[i] = s[i]
  <2>1. CASE i <= m
    BY <1>1, <2>1, Joined DEF Copies
  <2>2. CASE i > m
    <3>1. PICK j \in 1 .. n : i = m + j
      <4>1. i - m \in 1 .. n /\ i = m + (i - m)
        BY <2>2
      <4> QED
        BY <4>1
    <3>2. (x \o y)[m + j] = y[j]
      BY <1>1, Joined DEF Copies
    <3> QED
      BY <1>1, <3>1, <3>2
  <2>3. i <= m \/ i > m
    OBVIOUS
  <2> QED
    BY <2>1, <2>2, <2>3
<1> QED
  BY <1>2, <1>3 DEF Copies, y

LEMMA LongerByGap ==
  ASSUME NEW s \in Seq(Byte), NEW x, NEW m \in Nat, NEW y \in Seq(Byte),
         Copies(x, s, m, {}), m + Len(y) <= Len(s)
  PROVE  Copies(x \o y, s, m + Len(y), m + 1 .. m + Len(y))
<1>1. x \o y \in Seq(Byte) /\ Len(x \o y) = m + Len(y)
      /\ \A i \in 1 .. m : (x \o y)[i] = x[i]
  BY Joined DEF Copies
<1>2. ASSUME NEW i \in 1 .. m + Len(y)
      PROVE  i \in m + 1 .. m + Len(y) \/ (x \o y)[i] = s[i]
  <2>1. i \in 1 .. m \/ i \in m + 1 .. m + Len(y)
    OBVIOUS
  <2>2. ASSUME i \in 1 .. m PROVE x[i] = s[i]
    BY <2>2 DEF Copies
  <2> QED
    BY <1>1, <2>1, <2>2
<1> QED
  BY <1>1, <1>2 DEF Copies

LEMMA HeaderCuts ==
  ASSUME NEW s \in Seq(Byte), MagicBytes + VersionBytes + 3 <= Len(s)
  PROVE  /\ Cut(s, 0, MagicBytes) \in Seq(Byte) /\ Len(Cut(s, 0, MagicBytes)) = MagicBytes
         /\ \A i \in 1 .. MagicBytes : Cut(s, 0, MagicBytes)[i] = s[i]
         /\ <<s[HeaderSize - 1], s[HeaderSize]>> = Cut(s, MagicBytes + VersionBytes, 2)
         /\ <<s[HeaderSize - 1], s[HeaderSize], s[HeaderSize + 1]>>
               = Cut(s, MagicBytes + VersionBytes, 3)
<1>1. 0 + MagicBytes <= Len(s) /\ \A i \in 1 .. MagicBytes : 0 + i = i
  BY Widths
<1>2. /\ Cut(s, 0, MagicBytes) \in Bytes(MagicBytes)
      /\ \A i \in 1 .. MagicBytes : Cut(s, 0, MagicBytes)[i] = s[0 + i]
  BY <1>1, CutType, Widths
<1>3. HeaderSize - 1 = MagicBytes + VersionBytes + 1 /\ HeaderSize = MagicBytes + VersionBytes + 2
      /\ HeaderSize + 1 = MagicBytes + VersionBytes + 3
  BY Sizes, Widths
<1>4. <<s[HeaderSize - 1], s[HeaderSize]>> = Cut(s, MagicBytes + VersionBytes, 2)
  BY <1>3 DEF Cut
<1>5. <<s[HeaderSize - 1], s[HeaderSize], s[HeaderSize + 1]>>
        = Cut(s, MagicBytes + VersionBytes, 3)
  BY <1>3 DEF Cut
<1> QED
  BY <1>1, <1>2, <1>4, <1>5, BytesAreSequences, Widths

LEMMA Parsed1004Again ==
  ASSUME NEW s \in Seq(Byte), Len(s) >= ImageSize("FDC1004")
  PROVE  /\ Parsed1004(s) \in Profile1004
         /\ Body1004(Parsed1004(s)) \in Bytes(BodySize("FDC1004"))
         /\ \A i \in 1 .. BodySize("FDC1004") :
              Body1004(Parsed1004(s))[i] = s[i]
<1> DEFINE p  == Parsed1004(s)
           G  == {}
           x1 == Cut(s, 0, MagicBytes)
           x2 == x1 \o p.version
           x3 == x2 \o <<p.family, p.chip>>
           x4 == x3 \o p.capdacCode
           x5 == x4 \o p.baselinePf
           x6 == x5 \o p.alphaPfPerC
<1>1. Len(s) \in Nat /\ BodySize("FDC1004") = HeaderSize + Channels + ArraySize + ArraySize
      /\ HeaderSize + Channels + ArraySize + ArraySize + CrcBytes <= Len(s)
  BY Sizes, Widths DEF ImageSize, BodySize
<1>2. /\ <<s[HeaderSize - 1], s[HeaderSize]>> = Cut(s, MagicBytes + VersionBytes, 2)
      /\ <<s[HeaderSize - 1], s[HeaderSize], s[HeaderSize + 1]>> = Cut(s, MagicBytes + VersionBytes, 3)
  BY <1>1, HeaderCuts, Sizes, Widths
<1>3. Copies(x1, s, MagicBytes, {})
  BY <1>1, HeaderCuts, Sizes, Widths DEF Copies
<1>4. Copies(x2, s, MagicBytes + VersionBytes, {})
  <2>1. x2 = x1 \o Cut(s, MagicBytes, VersionBytes)
    <3> HIDE DEF x1
    <3> QED
      BY <1>2 DEF Parsed1004
  <2>2. (MagicBytes) + VersionBytes = MagicBytes + VersionBytes /\ MagicBytes + VersionBytes <= Len(s) /\ VersionBytes \in Nat
        /\ MagicBytes \in Nat
    BY <1>1, Sizes, Widths
  <2> HIDE DEF x2, x1, G
  <2> QED
    BY <1>3, <2>1, <2>2, Longer
<1>5. Copies(x3, s, HeaderSize, {})
  <2>1. x3 = x2 \o Cut(s, MagicBytes + VersionBytes, 2)
    <3> HIDE DEF x2
    <3> QED
      BY <1>2 DEF Parsed1004
  <2>2. (MagicBytes + VersionBytes) + 2 = HeaderSize /\ HeaderSize <= Len(s) /\ 2 \in Nat
        /\ MagicBytes + VersionBytes \in Nat
    BY <1>1, Sizes, Widths
  <2> HIDE DEF x3, x2, G
  <2> QED
    BY <1>4, <2>1, <2>2, Longer
<1>6. Copies(x4, s, HeaderSize + Channels, {})
  <2>1. x4 = x3 \o Cut(s, HeaderSize, Channels)
    <3> HIDE DEF x3
    <3> QED
      BY <1>2 DEF Parsed1004
  <2>2. (HeaderSize) + Channels = HeaderSize + Channels /\ HeaderSize + Channels <= Len(s) /\ Channels \in Nat
        /\ HeaderSize \in Nat
    BY <1>1, Sizes, Widths
  <2> HIDE DEF x4, x3, G
  <2> QED
    BY <1>5, <2>1, <2>2, Longer
<1>7. Copies(x5, s, HeaderSize + Channels + ArraySize, {})
  <2>1. x5 = x4 \o Cut(s, HeaderSize + Channels, ArraySize)
    <3> HIDE DEF x4
    <3> QED
      BY <1>2 DEF Parsed1004
  <2>2. (HeaderSize + Channels) + ArraySize = HeaderSize + Channels + ArraySize /\ HeaderSize + Channels + ArraySize <= Len(s) /\ ArraySize \in Nat
        /\ HeaderSize + Channels \in Nat
    BY <1>1, Sizes, Widths
  <2> HIDE DEF x5, x4, G
  <2> QED
    BY <1>6, <2>1, <2>2, Longer
<1>8. Copies(x6, s, HeaderSize + Channels + ArraySize + ArraySize, {})
  <2>1. x6 = x5 \o Cut(s, HeaderSize + Channels + ArraySize, ArraySize)
    <3> HIDE DEF x5
    <3> QED
      BY <1>2 DEF Parsed1004
  <2>2. (HeaderSize + Channels + ArraySize) + ArraySize = HeaderSize + Channels + ArraySize + ArraySize /\ HeaderSize + Channels + ArraySize + ArraySize <= Len(s) /\ ArraySize \in Nat
        /\ HeaderSize + Channels + ArraySize \in Nat
    BY <1>1, Sizes, Widths
  <2> HIDE DEF x6, x5, G
  <2> QED
    BY <1>7, <2>1, <2>2, Longer
<1>9. Body1004(p) = x6
  BY DEF Body1004, Parsed1004
<1>10. Cut(s, 0, MagicBytes) \in Bytes(MagicBytes)
  <2>1. 0 \in Nat /\ MagicBytes \in Nat /\ 0 + MagicBytes <= Len(s)
    BY <1>1, Sizes, Widths
  <2> QED
    BY <2>1, CutType
<1>11. Cut(s, MagicBytes, VersionBytes) \in Bytes(VersionBytes)
  <2>1. MagicBytes \in Nat /\ VersionBytes \in Nat /\ MagicBytes + VersionBytes <= Len(s)
    BY <1>1, Sizes, Widths
  <2> QED
    BY <2>1, CutType
<1>12. Cut(s, HeaderSize, Channels) \in Bytes(Channels)
  <2>1. HeaderSize \in Nat /\ Channels \in Nat /\ HeaderSize + Channels <= Len(s)
    BY <1>1, Sizes, Widths
  <2> QED
    BY <2>1, CutType
<1>13. Cut(s, HeaderSize + Channels, ArraySize) \in Bytes(ArraySize)
  <2>1. HeaderSize + Channels \in Nat /\ ArraySize \in Nat /\ HeaderSize + Channels + ArraySize <= Len(s)
    BY <1>1, Sizes, Widths
  <2> QED
    BY <2>1, CutType
<1>14. Cut(s, HeaderSize + Channels + ArraySize, ArraySize) \in Bytes(ArraySize)
  <2>1. HeaderSize + Channels + ArraySize \in Nat /\ ArraySize \in Nat /\ HeaderSize + Channels + ArraySize + ArraySize <= Len(s)
    BY <1>1, Sizes, Widths
  <2> QED
    BY <2>1, CutType
<1>15. s[HeaderSize - 1] \in Byte /\ s[HeaderSize] \in Byte
  <2>1. HeaderSize - 1 \in 1 .. Len(s) /\ HeaderSize \in 1 .. Len(s)
    BY <1>1, Sizes, Widths
  <2> QED
    BY <2>1
<1>16. Crc("FDC1004", s) \in SUBSET Bits(CrcBits)
  <2>1. Cut(s, BodySize("FDC1004"), CrcBytes) \in Bytes(CrcBytes)
    BY <1>1, CutType, Sizes, Widths
  <2> QED
    BY <2>1, CrcFromType DEF Crc
<1>17. p \in Profile1004
  BY <1>10, <1>11, <1>12, <1>13, <1>14, <1>15, <1>16 DEF Parsed1004, Profile1004, FloatArray, ArraySize
<1> HIDE DEF x6
<1> QED
  BY <1>1, <1>8, <1>9, <1>17, BytesAreSequences, Sizes DEF Copies

LEMMA Parsed2x1xAgain ==
  ASSUME NEW s \in Seq(Byte), Len(s) >= ImageSize("FDC2x1x")
  PROVE  /\ Parsed2x1x(s) \in Profile2x1x
         /\ Body2x1x(Parsed2x1x(s)) \in Bytes(BodySize("FDC2x1x"))
         /\ \A i \in 1 .. BodySize("FDC2x1x") :
              i \in (HeaderSize + 1) + 1 .. (HeaderSize + 1) + ReservedBytes \/ Body2x1x(Parsed2x1x(s))[i] = s[i]
<1> DEFINE p  == Parsed2x1x(s)
           G  == (HeaderSize + 1) + 1 .. (HeaderSize + 1) + ReservedBytes
           x1 == Cut(s, 0, MagicBytes)
           x2 == x1 \o p.version
           x3 == x2 \o <<p.family, p.chip, p.variant>>
           x4 == x3 \o Gap
           x5 == x4 \o p.inductanceUH
           x6 == x5 \o p.parasiticPf
           x7 == x6 \o p.baselineHz
           x8 == x7 \o p.referenceClockHz
<1>1. Len(s) \in Nat /\ BodySize("FDC2x1x") = HeaderSize + 1 + ReservedBytes + 3 * ArraySize + FloatBytes
      /\ HeaderSize + 1 + ReservedBytes + 3 * ArraySize + FloatBytes + CrcBytes <= Len(s)
  BY Sizes, Widths DEF ImageSize, BodySize
<1>2. /\ <<s[HeaderSize - 1], s[HeaderSize]>> = Cut(s, MagicBytes + VersionBytes, 2)
      /\ <<s[HeaderSize - 1], s[HeaderSize], s[HeaderSize + 1]>> = Cut(s, MagicBytes + VersionBytes, 3)
  BY <1>1, HeaderCuts, Sizes, Widths
<1>3. Copies(x1, s, MagicBytes, {})
  BY <1>1, HeaderCuts, Sizes, Widths DEF Copies
<1>4. Copies(x2, s, MagicBytes + VersionBytes, {})
  <2>1. x2 = x1 \o Cut(s, MagicBytes, VersionBytes)
    <3> HIDE DEF x1
    <3> QED
      BY <1>2 DEF Parsed2x1x
  <2>2. (MagicBytes) + VersionBytes = MagicBytes + VersionBytes /\ MagicBytes + VersionBytes <= Len(s) /\ VersionBytes \in Nat
        /\ MagicBytes \in Nat
    BY <1>1, Sizes, Widths
  <2> HIDE DEF x2, x1, G
  <2> QED
    BY <1>3, <2>1, <2>2, Longer
<1>5. Copies(x3, s, HeaderSize + 1, {})
  <2>1. x3 = x2 \o Cut(s, MagicBytes + VersionBytes, 3)
    <3> HIDE DEF x2
    <3> QED
      BY <1>2 DEF Parsed2x1x
  <2>2. (MagicBytes + VersionBytes) + 3 = HeaderSize + 1 /\ HeaderSize + 1 <= Len(s) /\ 3 \in Nat
        /\ MagicBytes + VersionBytes \in Nat
    BY <1>1, Sizes, Widths
  <2> HIDE DEF x3, x2, G
  <2> QED
    BY <1>4, <2>1, <2>2, Longer
<1>6. Copies(x4, s, HeaderSize + 1 + ReservedBytes, G)
  <2> HIDE DEF x3
  <2>1. Gap \in Seq(Byte) /\ Len(Gap) = ReservedBytes
    BY Widths DEF Gap, Byte
  <2>2. HeaderSize + 1 \in Nat /\ HeaderSize + 1 + ReservedBytes <= Len(s)
    BY <1>1, Sizes, Widths
  <2> QED
    BY <1>5, <2>1, <2>2, LongerByGap
<1>7. Copies(x5, s, HeaderSize + 1 + ReservedBytes + ArraySize, G)
  <2>1. x5 = x4 \o Cut(s, HeaderSize + 1 + ReservedBytes, ArraySize)
    <3> HIDE DEF x4
    <3> QED
      BY <1>2 DEF Parsed2x1x
  <2>2. (HeaderSize + 1 + ReservedBytes) + ArraySize = HeaderSize + 1 + ReservedBytes + ArraySize /\ HeaderSize + 1 + ReservedBytes + ArraySize <= Len(s) /\ ArraySize \in Nat
        /\ HeaderSize + 1 + ReservedBytes \in Nat
    BY <1>1, Sizes, Widths
  <2> HIDE DEF x5, x4, G
  <2> QED
    BY <1>6, <2>1, <2>2, Longer
<1>8. Copies(x6, s, HeaderSize + 1 + ReservedBytes + 2 * ArraySize, G)
  <2>1. x6 = x5 \o Cut(s, HeaderSize + 1 + ReservedBytes + ArraySize, ArraySize)
    <3> HIDE DEF x5
    <3> QED
      BY <1>2 DEF Parsed2x1x
  <2>2. (HeaderSize + 1 + ReservedBytes + ArraySize) + ArraySize = HeaderSize + 1 + ReservedBytes + 2 * ArraySize /\ HeaderSize + 1 + ReservedBytes + 2 * ArraySize <= Len(s) /\ ArraySize \in Nat
        /\ HeaderSize + 1 + ReservedBytes + ArraySize \in Nat
    BY <1>1, Sizes, Widths
  <2> HIDE DEF x6, x5, G
  <2> QED
    BY <1>7, <2>1, <2>2, Longer
<1>9. Copies(x7, s, HeaderSize + 1 + ReservedBytes + 3 * ArraySize, G)
  <2>1. x7 = x6 \o Cut(s, HeaderSize + 1 + ReservedBytes + 2 * ArraySize, ArraySize)
    <3> HIDE DEF x6
    <3> QED
      BY <1>2 DEF Parsed2x1x
  <2>2. (HeaderSize + 1 + ReservedBytes + 2 * ArraySize) + ArraySize = HeaderSize + 1 + ReservedBytes + 3 * ArraySize /\ HeaderSize + 1 + ReservedBytes + 3 * ArraySize <= Len(s) /\ ArraySize \in Nat
        /\ HeaderSize + 1 + ReservedBytes + 2 * ArraySize \in Nat
    BY <1>1, Sizes, Widths
  <2> HIDE DEF x7, x6, G
  <2> QED
    BY <1>8, <2>1, <2>2, Longer
<1>10. Copies(x8, s, HeaderSize + 1 + ReservedBytes + 3 * ArraySize + FloatBytes, G)
  <2>1. x8 = x7 \o Cut(s, HeaderSize + 1 + ReservedBytes + 3 * ArraySize, FloatBytes)
    <3> HIDE DEF x7
    <3> QED
      BY <1>2 DEF Parsed2x1x
  <2>2. (HeaderSize + 1 + ReservedBytes + 3 * ArraySize) + FloatBytes = HeaderSize + 1 + ReservedBytes + 3 * ArraySize + FloatBytes /\ HeaderSize + 1 + ReservedBytes + 3 * ArraySize + FloatBytes <= Len(s) /\ FloatBytes \in Nat
        /\ HeaderSize + 1 + ReservedBytes + 3 * ArraySize \in Nat
    BY <1>1, Sizes, Widths
  <2> HIDE DEF x8, x7, G
  <2> QED
    BY <1>9, <2>1, <2>2, Longer
<1>11. Body2x1x(p) = x8
  BY DEF Body2x1x, Parsed2x1x
<1>12. Cut(s, 0, MagicBytes) \in Bytes(MagicBytes)
  <2>1. 0 \in Nat /\ MagicBytes \in Nat /\ 0 + MagicBytes <= Len(s)
    BY <1>1, Sizes, Widths
  <2> QED
    BY <2>1, CutType
<1>13. Cut(s, MagicBytes, VersionBytes) \in Bytes(VersionBytes)
  <2>1. MagicBytes \in Nat /\ VersionBytes \in Nat /\ MagicBytes + VersionBytes <= Len(s)
    BY <1>1, Sizes, Widths
  <2> QED
    BY <2>1, CutType
<1>14. Cut(s, HeaderSize + 1 + ReservedBytes, ArraySize) \in Bytes(ArraySize)
  <2>1. HeaderSize + 1 + ReservedBytes \in Nat /\ ArraySize \in Nat /\ HeaderSize + 1 + ReservedBytes + ArraySize <= Len(s)
    BY <1>1, Sizes, Widths
  <2> QED
    BY <2>1, CutType
<1>15. Cut(s, HeaderSize + 1 + ReservedBytes + ArraySize, ArraySize) \in Bytes(ArraySize)
  <2>1. HeaderSize + 1 + ReservedBytes + ArraySize \in Nat /\ ArraySize \in Nat /\ HeaderSize + 1 + ReservedBytes + ArraySize + ArraySize <= Len(s)
    BY <1>1, Sizes, Widths
  <2> QED
    BY <2>1, CutType
<1>16. Cut(s, HeaderSize + 1 + ReservedBytes + 2 * ArraySize, ArraySize) \in Bytes(ArraySize)
  <2>1. HeaderSize + 1 + ReservedBytes + 2 * ArraySize \in Nat /\ ArraySize \in Nat /\ HeaderSize + 1 + ReservedBytes + 2 * ArraySize + ArraySize <= Len(s)
    BY <1>1, Sizes, Widths
  <2> QED
    BY <2>1, CutType
<1>17. Cut(s, HeaderSize + 1 + ReservedBytes + 3 * ArraySize, FloatBytes) \in Bytes(FloatBytes)
  <2>1. HeaderSize + 1 + ReservedBytes + 3 * ArraySize \in Nat /\ FloatBytes \in Nat /\ HeaderSize + 1 + ReservedBytes + 3 * ArraySize + FloatBytes <= Len(s)
    BY <1>1, Sizes, Widths
  <2> QED
    BY <2>1, CutType
<1>18. s[HeaderSize - 1] \in Byte /\ s[HeaderSize] \in Byte /\ s[HeaderSize + 1] \in Byte
  <2>1. HeaderSize - 1 \in 1 .. Len(s) /\ HeaderSize \in 1 .. Len(s) /\ HeaderSize + 1 \in 1 .. Len(s)
    BY <1>1, Sizes, Widths
  <2> QED
    BY <2>1
<1>19. Crc("FDC2x1x", s) \in SUBSET Bits(CrcBits)
  <2>1. Cut(s, BodySize("FDC2x1x"), CrcBytes) \in Bytes(CrcBytes)
    BY <1>1, CutType, Sizes, Widths
  <2> QED
    BY <2>1, CrcFromType DEF Crc
<1>20. p \in Profile2x1x
  BY <1>12, <1>13, <1>14, <1>15, <1>16, <1>17, <1>18, <1>19 DEF Parsed2x1x, Profile2x1x, FloatArray, ArraySize
<1> HIDE DEF x8
<1> QED
  BY <1>1, <1>10, <1>11, <1>20, BytesAreSequences, Sizes DEF Copies

(***************************************************************************)
(* Both families.                                                          *)
(***************************************************************************)
LEMMA Recrced ==
  ASSUME NEW k \in Kinds, NEW p \in Profile(k), NEW c \in SUBSET Bits(CrcBits)
  PROVE  /\ [p EXCEPT !.crc = c] \in Profile(k) /\ [p EXCEPT !.crc = c].crc = c
         /\ Body(k, [p EXCEPT !.crc = c]) = Body(k, p)
         /\ Valid(k, p) => Valid(k, [p EXCEPT !.crc = c])
         /\ p.crc \in SUBSET Bits(CrcBits) /\ [p EXCEPT !.crc = p.crc] = p
<1>1. CASE k = "FDC1004"
  <2>1. p \in Profile1004
    BY <1>1 DEF Profile
  <2> DEFINE q == [p EXCEPT !.crc = c]
  <2>2. /\ q \in Profile1004 /\ q.crc = c /\ q.magic = p.magic /\ q.version = p.version
        /\ q.family = p.family /\ q.chip = p.chip /\ q.capdacCode = p.capdacCode
        /\ q.baselinePf = p.baselinePf /\ q.alphaPfPerC = p.alphaPfPerC
        /\ p.crc \in SUBSET Bits(CrcBits) /\ [p EXCEPT !.crc = p.crc] = p
    BY <2>1 DEF Profile1004
  <2> HIDE DEF q
  <2>3. Body(k, q) = Body(k, p)
    BY <1>1, <2>2 DEF Body, Body1004
  <2>4. Valid(k, p) => Valid(k, q)
    BY <1>1, <2>2 DEF Valid, HeaderValid1004, FieldsValid1004
  <2> QED
    BY <1>1, <2>2, <2>3, <2>4 DEF q, Profile
<1>2. CASE k = "FDC2x1x"
  <2>1. p \in Profile2x1x
    BY <1>2 DEF Profile
  <2> DEFINE q == [p EXCEPT !.crc = c]
  <2>2. /\ q \in Profile2x1x /\ q.crc = c /\ q.magic = p.magic /\ q.version = p.version
        /\ q.family = p.family /\ q.chip = p.chip /\ q.variant = p.variant
        /\ q.inductanceUH = p.inductanceUH /\ q.parasiticPf = p.parasiticPf
        /\ q.baselineHz = p.baselineHz /\ q.referenceClockHz = p.referenceClockHz
        /\ p.crc \in SUBSET Bits(CrcBits) /\ [p EXCEPT !.crc = p.crc] = p
    BY <2>1 DEF Profile2x1x
  <2> HIDE DEF q
  <2>3. Body(k, q) = Body(k, p)
    BY <1>2, <2>2 DEF Body, Body2x1x
  <2>4. Valid(k, p) => Valid(k, q)
    BY <1>2, <2>2 DEF Valid, HeaderValid2x1x, FieldsValid2x1x
  <2> QED
    BY <1>2, <2>2, <2>3, <2>4 DEF q, Profile
<1> QED
  BY <1>1, <1>2 DEF Kinds

Image(k, p) == Body(k, p) \o CrcImage(p.crc)

\* An image is read back as what was written.
LEMMA ProfileImage ==
  ASSUME NEW k \in Kinds, NEW p \in Profile(k)
  PROVE  /\ Body(k, p) \in Bytes(BodySize(k))
         /\ Parsed(k, Image(k, p)) = p
<1>1. p.crc \in SUBSET Bits(CrcBits) /\ [p EXCEPT !.crc = p.crc] = p
  BY Recrced, CrcOfType
<1>2. CrcImage(p.crc) \in Bytes(CrcBytes) /\ CrcFrom(CrcImage(p.crc)) = p.crc
  BY <1>1, CrcImageType, CrcRoundTrip
<1>3. CASE k = "FDC1004"
  BY <1>1, <1>2, <1>3, Image1004 DEF Image, Profile, Body, Parsed
<1>4. CASE k = "FDC2x1x"
  BY <1>1, <1>2, <1>4, Image2x1x DEF Image, Profile, Body, Parsed
<1> QED
  BY <1>3, <1>4 DEF Kinds

LEMMA ImageType ==
  ASSUME NEW k \in Kinds, NEW p \in Profile(k)
  PROVE  /\ Image(k, p) \in Seq(Byte) /\ Len(Image(k, p)) = ImageSize(k)
         /\ \A i \in 1 .. BodySize(k) : Image(k, p)[i] = Body(k, p)[i]
<1>1. Body(k, p) \in Seq(Byte) /\ Len(Body(k, p)) = BodySize(k)
  BY ProfileImage, BytesAreSequences, Sizes
<1>2. CrcImage(p.crc) \in Seq(Byte) /\ Len(CrcImage(p.crc)) = CrcBytes
  BY CrcImageType, BytesAreSequences, Widths
<1> DEFINE x == Body(k, p)
           y == CrcImage(p.crc)
<1>3. Image(k, p) = x \o y /\ x \in Seq(Byte) /\ Len(x) = BodySize(k)
      /\ y \in Seq(Byte) /\ Len(y) = CrcBytes
  <2>1. Image(k, p) = x \o y
    BY DEF Image
  <2> QED
    BY <1>1, <1>2, <2>1
<1> HIDE DEF x, y
<1>4. BodySize(k) \in Nat /\ ImageSize(k) = BodySize(k) + CrcBytes
  BY Sizes
<1>5. /\ x \o y \in Seq(Byte) /\ Len(x \o y) = Len(x) + Len(y)
      /\ \A i \in 1 .. Len(x) : (x \o y)[i] = x[i]
  BY <1>3, Joined
<1> QED
  BY <1>3, <1>4, <1>5 DEF x

\* Bytes are read as a profile, whose body is those bytes, but for the gap, which
\* is the same in every body.
LEMMA ParsedImage ==
  ASSUME NEW k \in Kinds, NEW s \in Seq(Byte), Len(s) >= ImageSize(k)
  PROVE  /\ Parsed(k, s) \in Profile(k)
         /\ \A p \in Profile(k) : \A i \in 1 .. BodySize(k) :
              \/ Body(k, Parsed(k, s))[i] = s[i]
              \/ Body(k, Parsed(k, s))[i] = Body(k, p)[i]
<1>1. CASE k = "FDC1004"
  BY <1>1, Parsed1004Again DEF Parsed, Profile, Body
<1>2. CASE k = "FDC2x1x"
  <2> DEFINE q == Parsed2x1x(s)
  <2>1. /\ q \in Profile2x1x
        /\ \A i \in 1 .. BodySize("FDC2x1x") :
             \/ i \in (HeaderSize + 1) + 1 .. (HeaderSize + 1) + ReservedBytes
             \/ Body2x1x(q)[i] = s[i]
    BY <1>2, Parsed2x1xAgain
  <2> HIDE DEF q
  <2>2. ASSUME NEW p \in Profile2x1x, NEW i \in 1 .. BodySize("FDC2x1x"), Body2x1x(q)[i] # s[i]
        PROVE  Body2x1x(q)[i] = Body2x1x(p)[i]
    <3>1. i \in (HeaderSize + 1) + 1 .. (HeaderSize + 1) + ReservedBytes
      BY <2>1, <2>2
    <3>2. PICK j \in 1 .. ReservedBytes : i = HeaderSize + 1 + j
      <4>1. i - (HeaderSize + 1) \in 1 .. ReservedBytes
            /\ i = HeaderSize + 1 + (i - (HeaderSize + 1))
        BY <3>1, Sizes, Widths
      <4> QED
        BY <4>1
    <3>3. CrcImage({}) \in Bytes(CrcBytes)
      BY CrcImageType
    <3> QED
      BY <2>1, <3>2, <3>3, Image2x1x
  <2> QED
    BY <1>2, <2>1, <2>2 DEF q, Parsed, Profile, Body
<1> QED
  BY <1>1, <1>2 DEF Kinds

\* The places of the parts of the header, and of the checksum.
LEMMA ParsedParts ==
  ASSUME NEW k \in Kinds, NEW s
  PROVE  /\ Parsed(k, s).magic = Cut(s, 0, MagicBytes)
         /\ Parsed(k, s).family = s[HeaderSize - 1]
         /\ Parsed(k, s).crc = CrcFrom(Cut(s, BodySize(k), CrcBytes))
<1>1. CASE k = "FDC1004"
  BY <1>1 DEF Parsed, Parsed1004, Crc
<1>2. CASE k = "FDC2x1x"
  BY <1>2 DEF Parsed, Parsed2x1x, Crc
<1> QED
  BY <1>1, <1>2 DEF Kinds

LEMMA SameBody ==
  ASSUME NEW k \in Kinds, NEW p \in Profile(k), NEW q \in Profile(k),
         Body(k, p) = Body(k, q), p.crc = q.crc
  PROVE  p = q
<1>1. Image(k, p) = Image(k, q)
  BY DEF Image
<1> QED
  BY <1>1, ProfileImage

(***************************************************************************)
(* Validation.                                                             *)
(***************************************************************************)
LEMMA KnownHeader ==
  ASSUME NEW k \in Kinds, NEW p, Valid(k, p)
  PROVE  p.magic = Known[k].magic /\ p.family = Known[k].family
  BY DEF Kinds, Valid, HeaderValid1004, FieldsValid2x1x, HeaderValid2x1x

WithHeader(p, m, v, f, c) ==
  [p EXCEPT !.magic = m, !.version = v, !.family = f, !.chip = c]

LEMMA Reheaded ==
  ASSUME NEW p \in Profile2x1x, NEW m \in Bytes(MagicBytes), NEW v \in Bytes(VersionBytes),
         NEW f \in Byte, NEW c \in Byte
  PROVE  /\ WithHeader(p, m, v, f, c) \in Profile2x1x
         /\ m = p.magic /\ v = p.version /\ f = p.family /\ c = p.chip =>
              WithHeader(p, m, v, f, c) = p
<1>1. [p EXCEPT !.magic = m, !.version = v, !.family = f, !.chip = c] \in Profile2x1x
  BY DEF Profile2x1x
<1>2. [p EXCEPT !.magic = p.magic, !.version = p.version, !.family = p.family, !.chip = p.chip]
        = p
  BY DEF Profile2x1x
<1> QED
  BY <1>1, <1>2 DEF WithHeader

LEMMA NormalisedType ==
  ASSUME NEW k \in Kinds, NEW p \in Profile(k)
  PROVE  /\ Normalised(k, p) \in Profile(k)
         /\ Valid(k, p) => Normalised(k, p) = p
<1>1. CASE k = "FDC1004"
  <2>1. p \in Profile1004
    BY <1>1 DEF Profile
  <2>2. Known["FDC1004"].magic \in Bytes(MagicBytes)
        /\ Known["FDC1004"].version \in Bytes(VersionBytes)
    BY KnownAssumption DEF Kinds
  <2>3. Normalised1004(p) \in Profile1004
    BY <2>1, <2>2 DEF Normalised1004, Profile1004
  <2>4. HeaderValid1004(p) => Normalised1004(p) = p
    BY <2>1 DEF HeaderValid1004, Normalised1004, Profile1004
  <2> QED
    BY <1>1, <2>3, <2>4 DEF Normalised, Profile, Valid
<1>2. CASE k = "FDC2x1x"
  <2>1. p \in Profile2x1x
    BY <1>2 DEF Profile
  <2>2. Known["FDC2x1x"].magic \in Bytes(MagicBytes)
        /\ Known["FDC2x1x"].version \in Bytes(VersionBytes) /\ Known["FDC2x1x"].family \in Byte
    BY KnownAssumption DEF Kinds
  <2> DEFINE chip == IF p.variant \in DOMAIN Known["FDC2x1x"].chips
                     THEN Known["FDC2x1x"].chips[p.variant] ELSE {}
  <2>3. chip \in Byte
    BY KnownAssumption DEF Byte
  <2>4. HeaderValid2x1x(p) => chip = p.chip
    BY DEF HeaderValid2x1x
  <2>5. Normalised2x1x(p) =
          WithHeader(p, Known["FDC2x1x"].magic, Known["FDC2x1x"].version,
                     Known["FDC2x1x"].family, chip)
    BY Zenon DEF Normalised2x1x, WithHeader
  <2> HIDE DEF chip
  <2> DEFINE m == Known["FDC2x1x"].magic
             v == Known["FDC2x1x"].version
             f == Known["FDC2x1x"].family
  <2>6. HeaderValid2x1x(p) => m = p.magic /\ v = p.version /\ f = p.family
    BY DEF HeaderValid2x1x
  <2>7. /\ m \in Bytes(MagicBytes) /\ v \in Bytes(VersionBytes) /\ f \in Byte
        /\ Normalised2x1x(p) = WithHeader(p, m, v, f, chip)
    BY <2>2, <2>5
  <2> HIDE DEF m, v, f
  <2>8. Normalised2x1x(p) \in Profile2x1x
    BY <2>1, <2>3, <2>7, Reheaded
  <2>9. HeaderValid2x1x(p) => Normalised2x1x(p) = p
    BY <2>1, <2>3, <2>4, <2>6, <2>7, Reheaded
  <2> QED
    BY <1>2, <2>8, <2>9 DEF Normalised, Profile, Valid, FieldsValid2x1x
<1> QED
  BY <1>1, <1>2 DEF Kinds

LEMMA SealedIsValid ==
  ASSUME NEW k \in Kinds, NEW p \in Profile(k), Valid(k, p)
  PROVE  WithCrc(k, p) \in Profile(k) /\ CrcIsValid(k, WithCrc(k, p))
  BY Recrced, CrcOfType DEF WithCrc, CrcIsValid

(***************************************************************************)
(* Damage and changes.                                                     *)
(***************************************************************************)
\* Two bodies that differ in bytes no further apart than the checksum is wide have
\* different checksums.
LEMMA NearbyChanges ==
  ASSUME NEW k \in Kinds, NEW p \in Profile(k), NEW q \in Profile(k),
         CrcOf(Body(k, p)) = CrcOf(Body(k, q)),
         \A i, j \in 1 .. BodySize(k) :
           Body(k, p)[i] # Body(k, q)[i] /\ Body(k, p)[j] # Body(k, q)[j] => j < i + CrcBytes
  PROVE  Body(k, p) = Body(k, q)
<1> DEFINE s == Body(k, p)
           t == Body(k, q)
           n == BodySize(k)
           Differ == { i \in 1 .. n : s[i] # t[i] }
<1>1. s \in Bytes(n) /\ t \in Bytes(n) /\ n \in Nat
  BY ProfileImage, Sizes
<1>2. CrcOf(s) = CrcOf(t)
      /\ \A i, j \in 1 .. n : s[i] # t[i] /\ s[j] # t[j] => j < i + CrcBytes
  OBVIOUS
<1> HIDE DEF s, t, n
<1>3. Differ = {} => s = t
  BY <1>1 DEF Bytes
<1> SUFFICES ASSUME Differ # {} PROVE s = t
  BY <1>3 DEF s, t
<1>4. PICK first \in Differ : \A j \in Differ : first <= j
  <2>1. Differ \subseteq Nat
    BY <1>1
  <2> HIDE DEF Differ
  <2> QED
    BY <2>1, LeastElement
<1> DEFINE last == IF first + CrcBytes - 1 <= n THEN first + CrcBytes - 1 ELSE n
<1>5. /\ first \in 1 .. n /\ first \in Nat /\ last \in Nat /\ first <= last /\ last <= n
      /\ last - first + 1 + 0 <= CrcBytes
  BY <1>1, Widths
<1>6. ASSUME NEW i \in 1 .. n, i \notin first .. last PROVE s[i] = t[i]
  <2> SUFFICES ASSUME s[i] # t[i] PROVE FALSE
    OBVIOUS
  <2>1. first <= i /\ i < first + CrcBytes
    BY <1>2, <1>4
  <2> QED
    BY <1>1, <1>5, <1>6, <2>1, Widths
<1>7. Xor(CrcAfter(s, n), CrcAfter(t, n)) = {}
  BY <1>1, <1>2, CrcOfXor, XorSame
<1>8. Close(n, s, t, first, last, 0)
  <2> HIDE DEF last
  <2> QED
    BY <1>5, <1>6, <1>7 DEF Close
<1> HIDE DEF last
<1> QED
  BY <1>1, <1>5, <1>8, ChangesAreNoticed

\* The bytes differ from the image of p only in adjacent ones from i on, no more
\* than the checksum has.
DamagedFrom(i, k, p, bytes) ==
  /\ bytes \in Seq(Byte) /\ Len(bytes) = ImageSize(k)
  /\ \A j \in 1 .. ImageSize(k) : bytes[j] # Image(k, p)[j] => j \in i .. i + CrcBytes - 1

\* Then they are read back as p, or not at all.
LEMMA DamageIsNoticed ==
  ASSUME NEW k \in Kinds, NEW p \in Profile(k), CrcIsValid(k, p),
         NEW bytes, NEW i \in Nat, DamagedFrom(i, k, p, bytes), Loads(k, bytes)
  PROVE  Parsed(k, bytes) = p
<1> DEFINE q == Parsed(k, bytes)
           s == Body(k, p)
           t == Body(k, q)
           n == BodySize(k)
           x == Cut(Image(k, p), n, CrcBytes)
           y == Cut(bytes, n, CrcBytes)
           m == IF i + CrcBytes - 1 <= n THEN 0
                ELSE IF i > n THEN CrcBytes ELSE i + CrcBytes - 1 - n
           last == IF i + CrcBytes - 1 <= n THEN i + CrcBytes - 1 ELSE n
<1>1. bytes \in Seq(Byte) /\ Len(bytes) = ImageSize(k) /\ n \in Nat /\ ImageSize(k) = n + CrcBytes
  BY Sizes DEF DamagedFrom
<1>2. q \in Profile(k) /\ \A j \in 1 .. n : t[j] = bytes[j] \/ t[j] = s[j]
  BY <1>1, ParsedImage
<1>3. s \in Bytes(n) /\ t \in Bytes(n)
  <2> HIDE DEF q
  <2> QED
    BY <1>2, ProfileImage
<1>4. ASSUME NEW j \in 1 .. n, s[j] # t[j] PROVE j \in i .. i + CrcBytes - 1
  <2>1. Image(k, p)[j] = s[j]
    BY ImageType
  <2>2. bytes[j] # Image(k, p)[j]
    <3> HIDE DEF s, t, q
    <3> QED
      BY <1>2, <1>4, <2>1
  <2>3. j \in 1 .. ImageSize(k)
    BY <1>1, Widths
  <2> QED
    BY <2>2, <2>3 DEF DamagedFrom
<1>5. x \in Bytes(CrcBytes) /\ y \in Bytes(CrcBytes)
      /\ \A j \in 1 .. CrcBytes : x[j] = Image(k, p)[n + j] /\ y[j] = bytes[n + j]
  <2>1. Image(k, p) \in Seq(Byte) /\ Len(Image(k, p)) = n + CrcBytes /\ Len(bytes) = n + CrcBytes
    BY <1>1, ImageType
  <2>2. n \in Nat /\ CrcBytes \in Nat
    BY <1>1, Widths
  <2>3. x \in Bytes(CrcBytes) /\ \A j \in 1 .. CrcBytes : x[j] = Image(k, p)[n + j]
    <3> DEFINE image == Image(k, p)
    <3>1. image \in Seq(Byte) /\ n + CrcBytes <= Len(image)
      BY <2>1, <2>2
    <3> HIDE DEF n, image
    <3>2. /\ Cut(image, n, CrcBytes) \in Bytes(CrcBytes)
          /\ \A j \in 1 .. CrcBytes : Cut(image, n, CrcBytes)[j] = image[n + j]
      BY <2>2, <3>1, CutType
    <3> QED
      BY <3>2 DEF image
  <2>4. y \in Bytes(CrcBytes) /\ \A j \in 1 .. CrcBytes : y[j] = bytes[n + j]
    <3> HIDE DEF n
    <3> QED
      BY <1>1, <2>1, <2>2, CutType
  <2> QED
    BY <2>3, <2>4
<1>6. CrcFrom(x) = CrcOf(s)
  <2>1. CrcFrom(x) = p.crc
    BY ParsedParts, ProfileImage
  <2> QED
    BY <2>1 DEF CrcIsValid
<1>7. CrcFrom(y) = CrcOf(t) /\ q.crc = CrcFrom(y)
  BY ParsedParts DEF Loads, CrcIsValid
<1> HIDE DEF q, s, t, x, y
<1>8. m \in Nat /\ \A j \in 1 .. CrcBytes : j > m => x[j] = y[j]
  <2>1. m \in Nat
    BY <1>1, Widths
  <2>2. ASSUME NEW j \in 1 .. CrcBytes, x[j] # y[j] PROVE j <= m
    <3>1. n + j \in 1 .. ImageSize(k)
      BY <1>1, Widths
    <3>2. n + j \in i .. i + CrcBytes - 1
      BY <1>5, <2>2, <3>1 DEF DamagedFrom
    <3> HIDE DEF n
    <3> QED
      BY <1>1, <3>2, Widths
  <2> HIDE DEF m
  <2> QED
    BY <2>1, <2>2
<1>9. Xor(CrcOf(s), CrcOf(t)) \subseteq Bits(m * ByteBits)
  <2> HIDE DEF m
  <2> QED
    BY <1>5, <1>6, <1>7, <1>8, CrcFromNear
<1>10. s = t
  <2>1. CASE i > n
    <3>1. ASSUME NEW j \in 1 .. n PROVE s[j] = t[j]
      <4>1. j \notin i .. i + CrcBytes - 1
        <5> HIDE DEF n
        <5> QED
          BY <1>1, <2>1
      <4> HIDE DEF n
      <4> QED
        BY <1>4, <4>1
    <3> HIDE DEF n
    <3> QED
      BY <1>1, <1>3, <3>1, SameBytes
  <2>2. CASE i <= n
    <3>1. /\ last \in Nat /\ i <= last /\ last <= n /\ last - i + 1 + m <= CrcBytes
          /\ m = 0 \/ last = n
      <4> HIDE DEF n
      <4> QED
        BY <1>1, <2>2, Widths
    <3>2. ASSUME NEW j \in 1 .. n, j \notin i .. last PROVE s[j] = t[j]
      <4> HIDE DEF n
      <4> QED
        BY <1>1, <1>4, <3>2, Widths
    <3>3. Xor(CrcAfter(s, n), CrcAfter(t, n)) \subseteq Bits(m * ByteBits)
      <4> HIDE DEF n, m
      <4> QED
        BY <1>1, <1>3, <1>9, CrcOfXor
    <3> HIDE DEF n, m, last
    <3>4. Close(n, s, t, i, last, m)
      BY <3>1, <3>2, <3>3 DEF Close
    <3> QED
      BY <1>1, <1>3, <1>8, <3>1, <3>4, ChangesAreNoticed
  <2> QED
    BY <1>1, <2>1, <2>2
<1>11. p.crc = q.crc
  <2>1. p.crc = CrcOf(s)
    BY DEF CrcIsValid, s
  <2> QED
    BY <1>7, <1>10, <2>1
<1>12. q = p
  BY <1>2, <1>10, <1>11, SameBody DEF s, t
<1> QED
  BY <1>12 DEF q

\* An image of the other family does not load: the damage spares the first byte or
\* the family.
LEMMA OtherFamilyIsNoticed ==
  ASSUME NEW k \in Kinds, NEW p \in Profile(k), CrcIsValid(k, p), NEW l \in Kinds, l # k,
         NEW bytes, NEW i \in Nat, DamagedFrom(i, k, p, bytes)
  PROVE  ~Loads(l, bytes)
<1> SUFFICES ASSUME Loads(l, bytes) PROVE FALSE
  OBVIOUS
<1> DEFINE image == Image(k, p)
<1>1. Known[k].magic[1] # Known[l].magic[1] /\ Known[k].family # Known[l].family
      /\ CrcBytes <= MagicBytes + VersionBytes
  BY KnownAssumption DEF Kinds
<1>2. /\ Cut(image, 0, MagicBytes) = Known[k].magic /\ image[HeaderSize - 1] = Known[k].family
  <2>1. p.magic = Known[k].magic /\ p.family = Known[k].family
    BY KnownHeader DEF CrcIsValid
  <2>2. Parsed(k, image) = p
    BY ProfileImage
  <2> HIDE DEF image
  <2> QED
    BY <2>1, <2>2, ParsedParts
<1>3. /\ Cut(bytes, 0, MagicBytes) = Known[l].magic /\ bytes[HeaderSize - 1] = Known[l].family
  <2>1. Parsed(l, bytes).magic = Known[l].magic /\ Parsed(l, bytes).family = Known[l].family
    BY KnownHeader DEF CrcIsValid, Loads
  <2> QED
    BY <2>1, ParsedParts
<1>4. bytes[1] = Known[l].magic[1] /\ image[1] = Known[k].magic[1]
  <2>1. Cut(bytes, 0, MagicBytes)[1] = bytes[1] /\ Cut(image, 0, MagicBytes)[1] = image[1]
    BY Widths DEF Cut
  <2> HIDE DEF image
  <2> QED
    BY <1>2, <1>3, <2>1
<1>5. 1 \in 1 .. ImageSize(k) /\ HeaderSize - 1 \in 1 .. ImageSize(k)
      /\ HeaderSize - 1 = 1 + (MagicBytes + VersionBytes)
  BY Sizes, Widths DEF ImageSize, BodySize
<1>6. 1 \in i .. i + CrcBytes - 1 /\ HeaderSize - 1 \in i .. i + CrcBytes - 1
  BY <1>1, <1>2, <1>3, <1>4, <1>5 DEF DamagedFrom
<1> QED
  BY <1>1, <1>5, <1>6, Widths

(***************************************************************************)
(* The inductive invariant: types; what is sealed is valid; what was saved *)
(* was valid, and the storage is its image, but for the damage.            *)
(***************************************************************************)
TypeOK ==
  /\ kind \in Kinds /\ profile \in Profile(kind)
  /\ storage \in Seq(Byte) /\ damaged \in BOOLEAN /\ edits \in Nat

SealedIsKnown == sealed # None => sealed \in Profile(kind) /\ CrcIsValid(kind, sealed)

NeverWritten ==
  /\ saved = None /\ ~damaged
  /\ \E b \in Blank : \A j \in DOMAIN storage : storage[j] = b

Written(k, p) ==
  /\ saved = [kind |-> k, profile |-> p] /\ CrcIsValid(k, p)
  /\ IF damaged THEN \E i \in Nat : DamagedFrom(i, k, p, storage)
     ELSE storage = Image(k, p)

StorageIsKnown == NeverWritten \/ \E k \in Kinds : \E p \in Profile(k) : Written(k, p)

Inv == TypeOK /\ SealedIsKnown /\ StorageIsKnown

(***************************************************************************)
(* It is inductive.                                                        *)
(***************************************************************************)
LEMMA InitInv == Init => Inv
<1> SUFFICES ASSUME Init PROVE Inv
  OBVIOUS
<1> USE DEF Init
<1>1. PICK b \in Blank : storage = [ i \in 1 .. ImageSize("FDC2x1x") |-> b ]
  OBVIOUS
<1>2. b \in Byte /\ ImageSize("FDC2x1x") \in Nat
  BY Sizes, Widths DEF Blank, Byte, Kinds
<1>3. storage \in Seq(Byte) /\ \A j \in DOMAIN storage : storage[j] = b
  BY <1>1, <1>2
<1>4. kind \in Kinds /\ profile \in Profile(kind) /\ damaged \in BOOLEAN /\ edits \in Nat
  BY CalibrationsAssumption
<1> QED
  BY <1>3, <1>4 DEF Inv, TypeOK, SealedIsKnown, StorageIsKnown, NeverWritten

LEMMA UpdateCrcInv == ASSUME Inv, UpdateCrc PROVE TypeOK' /\ SealedIsKnown'
<1> DEFINE p == Normalised(kind, profile)
<1> USE DEF UpdateCrc, Inv
<1>1. kind \in Kinds /\ p \in Profile(kind) /\ kind' = kind
      /\ storage' = storage /\ damaged' = damaged /\ edits' = edits
  BY NormalisedType DEF TypeOK
<1>2. CASE Valid(kind, p)
  <2>1. profile' = WithCrc(kind, p) /\ sealed' = profile'
    BY <1>2
  <2>2. WithCrc(kind, p) \in Profile(kind) /\ CrcIsValid(kind, WithCrc(kind, p))
    <3> HIDE DEF p
    <3> QED
      BY <1>1, <1>2, SealedIsValid
  <2> QED
    BY <1>1, <2>1, <2>2 DEF TypeOK, SealedIsKnown
<1>3. CASE ~Valid(kind, p)
  <2>1. profile' = p /\ sealed' = sealed
    BY <1>3
  <2> QED
    BY <1>1, <2>1 DEF TypeOK, SealedIsKnown
<1> QED
  BY <1>2, <1>3

\* The copy that is saved is the profile itself with its checksum.
LEMMA SaveInv == ASSUME Inv, Save PROVE Inv'
<1> USE DEF Save, Inv
<1>1. kind \in Kinds /\ profile \in Profile(kind) /\ Valid(kind, profile)
  BY DEF TypeOK
<1>2. PICK k \in Kinds : k = kind
  BY <1>1
<1>3. WithCrc(kind, profile) \in Profile(kind) /\ CrcIsValid(kind, WithCrc(kind, profile))
  BY <1>1, SealedIsValid
<1>4. PICK p \in Profile(k) : p = WithCrc(kind, profile)
  BY <1>2, <1>3
<1>5. Resealed(kind, profile) = p
  BY <1>1, <1>4, NormalisedType DEF Resealed
<1>6. storage' = Image(k, p) /\ saved' = [kind |-> k, profile |-> p] /\ damaged' = FALSE
  BY <1>2, <1>4, <1>5 DEF Image
<1>7. UNCHANGED <<kind, profile, sealed, edits>>
  OBVIOUS
<1>8. CrcIsValid(k, p) /\ Image(k, p) \in Seq(Byte)
  BY <1>2, <1>3, <1>4, ImageType
<1>9. Written(k, p)'
  BY <1>6, <1>8 DEF Written
<1>10. StorageIsKnown'
  BY <1>9 DEF StorageIsKnown
<1>11. TypeOK'
  BY <1>6, <1>7, <1>8 DEF TypeOK
<1>12. SealedIsKnown'
  BY <1>7 DEF SealedIsKnown
<1> QED
  BY <1>10, <1>11, <1>12

LEMMA LoadInv == ASSUME Inv, Load PROVE TypeOK' /\ SealedIsKnown'
<1> USE DEF Load, Inv
<1>1. kind \in Kinds /\ UNCHANGED <<kind, storage, saved, damaged, edits>>
  BY DEF TypeOK
<1>2. CASE Loads(kind, storage)
  <2>1. profile' = Parsed(kind, storage) /\ sealed' = profile'
    BY <1>2 DEF Loaded
  <2>2. CrcIsValid(kind, Parsed(kind, storage)) /\ Parsed(kind, storage) \in Profile(kind)
    BY <1>1, <1>2, ParsedImage DEF Loads, TypeOK
  <2> QED
    BY <1>1, <2>1, <2>2 DEF TypeOK, SealedIsKnown
<1>3. CASE ~Loads(kind, storage)
  <2>1. profile' = profile /\ sealed' = sealed
    BY <1>3 DEF Loaded
  <2> QED
    BY <1>1, <2>1 DEF TypeOK, SealedIsKnown
<1> QED
  BY <1>2, <1>3

LEMMA EditInv ==
  ASSUME Inv, NEW i \in 1 .. BodySize(kind), NEW b \in Byte, Edit(i, b)
  PROVE  TypeOK' /\ SealedIsKnown'
<1> DEFINE body == [Body(kind, profile) EXCEPT ![i] = b]
           c == CrcImage(profile.crc)
<1>1. kind \in Kinds /\ profile \in Profile(kind)
      /\ UNCHANGED <<kind, storage, saved, damaged, sealed>>
      /\ profile' = Parsed(kind, body \o c) /\ edits' \in Nat
  BY DEF Edit, Inv, TypeOK
<1>2. body \in Bytes(BodySize(kind)) /\ BodySize(kind) \in Nat
  <2>1. Body(kind, profile) \in Bytes(BodySize(kind))
    BY <1>1, ProfileImage
  <2> QED
    BY <1>1, <2>1, Sizes DEF Bytes
<1>3. c \in Bytes(CrcBytes)
  BY CrcImageType
<1> HIDE DEF body, c
<1>4. body \in Seq(Byte) /\ Len(body) = BodySize(kind) /\ c \in Seq(Byte) /\ Len(c) = CrcBytes
  BY <1>2, <1>3, BytesAreSequences, Widths
<1>5. body \o c \in Seq(Byte) /\ Len(body \o c) = ImageSize(kind)
  <2>1. body \o c \in Seq(Byte) /\ Len(body \o c) = Len(body) + Len(c)
    BY <1>4, Joined
  <2>2. ImageSize(kind) = BodySize(kind) + CrcBytes
    BY <1>1, Sizes
  <2> QED
    BY <1>4, <2>1, <2>2
<1>6. Parsed(kind, body \o c) \in Profile(kind)
  <2> DEFINE image == body \o c
  <2>1. image \in Seq(Byte) /\ Len(image) >= ImageSize(kind)
    BY <1>5
  <2> HIDE DEF image
  <2>2. Parsed(kind, image) \in Profile(kind)
    BY <1>1, <2>1, ParsedImage
  <2> QED
    BY <2>2 DEF image
<1> QED
  BY <1>1, <1>6 DEF TypeOK, SealedIsKnown, Inv

LEMMA PowerCycleInv ==
  ASSUME Inv, NEW k \in Kinds, PowerCycle(k) PROVE TypeOK' /\ SealedIsKnown'
  BY CalibrationsAssumption DEF PowerCycle, Inv, TypeOK, SealedIsKnown

LEMMA CalibrateInv ==
  ASSUME Inv, NEW p \in Calibrations[kind], Calibrate(p) PROVE TypeOK' /\ SealedIsKnown'
  BY CalibrationsAssumption DEF Calibrate, Inv, TypeOK, SealedIsKnown

\* The storage is damaged once, and only after something was saved.
LEMMA DamageInv ==
  ASSUME Inv, NEW i \in DOMAIN storage, NEW flips \in Bursts, Damage(i, flips)
  PROVE  Inv'
<1>1. /\ UNCHANGED <<kind, profile, saved, sealed, edits>> /\ saved # None /\ ~damaged /\ damaged' = TRUE
      /\ storage' = [ j \in DOMAIN storage |->
                        IF j \in i .. i + Len(flips) - 1
                        THEN Xor(storage[j], flips[j - i + 1]) ELSE storage[j] ]
  BY DEF Damage
<1>2. PICK n \in 1 .. CrcBytes : flips \in Bytes(n)
  BY DEF Bursts
<1>3. n \in Nat /\ Len(flips) = n /\ n <= CrcBytes /\ \A j \in 1 .. n : flips[j] \in Byte
  BY <1>2, Widths, BytesAreSequences DEF Bytes
<1>4. storage \in Seq(Byte) /\ DOMAIN storage = 1 .. Len(storage) /\ i \in Nat
  BY DEF Inv, TypeOK
<1>5. storage' \in Seq(Byte) /\ Len(storage') = Len(storage)
  <2>1. ASSUME NEW j \in DOMAIN storage PROVE storage'[j] \in Byte
    <3>1. CASE j \in i .. i + n - 1
      <4>1. j - i + 1 \in 1 .. n
        BY <1>3, <1>4, <3>1
      <4>2. storage[j] \in Byte /\ flips[j - i + 1] \in Byte
        BY <1>3, <1>4, <4>1
      <4>3. storage'[j] = Xor(storage[j], flips[j - i + 1])
        BY <1>1, <1>3, <3>1
      <4> QED
        BY <4>2, <4>3 DEF Byte, Xor
    <3>2. CASE j \notin i .. i + n - 1
      BY <1>1, <1>3, <1>4, <3>2
    <3> QED
      BY <3>1, <3>2
  <2>2. storage' \in [1 .. Len(storage) -> Byte] /\ Len(storage) \in Nat
    BY <1>1, <1>4, <2>1
  <2> QED
    BY <2>2
<1>6. PICK k \in Kinds : \E p \in Profile(k) : Written(k, p)
  BY <1>1 DEF Inv, StorageIsKnown, NeverWritten
<1>12. PICK p \in Profile(k) : Written(k, p)
  BY <1>6
<1>7. storage = Image(k, p) /\ Len(storage) = ImageSize(k)
  BY <1>1, <1>12, ImageType DEF Written
<1>8. DamagedFrom(i, k, p, storage')
  <2>1. ASSUME NEW j \in 1 .. ImageSize(k), storage'[j] # Image(k, p)[j]
        PROVE  j \in i .. i + CrcBytes - 1
    <3>1. storage'[j] # storage[j] /\ j \in DOMAIN storage
      BY <1>4, <1>7, <2>1
    <3>2. j \in i .. i + n - 1
      BY <1>1, <1>3, <3>1
    <3> QED
      BY <1>3, <1>4, <3>2, Widths
  <2> QED
    BY <1>5, <1>7, <2>1 DEF DamagedFrom
<1>9. Written(k, p)'
  BY <1>1, <1>4, <1>8, <1>12 DEF Written
<1>10. StorageIsKnown'
  BY <1>6, <1>9 DEF StorageIsKnown
<1>11. TypeOK' /\ SealedIsKnown'
  BY <1>1, <1>5 DEF Inv, TypeOK, SealedIsKnown
<1> QED
  BY <1>10, <1>11 DEF Inv

LEMMA NextInv == ASSUME Inv, [Next]_vars PROVE Inv'
<1>1. ASSUME UNCHANGED <<storage, saved, damaged>> PROVE StorageIsKnown'
  BY <1>1 DEF Inv, StorageIsKnown, NeverWritten, Written
<1>2. ASSUME NEW p \in Calibrations[kind], Calibrate(p) PROVE Inv'
  BY <1>1, <1>2, CalibrateInv DEF Calibrate, Inv
<1>3. ASSUME NEW i \in 1 .. BodySize(kind), NEW b \in Byte, Edit(i, b) PROVE Inv'
  BY <1>1, <1>3, EditInv DEF Edit, Inv
<1>4. ASSUME UpdateCrc PROVE Inv'
  BY <1>1, <1>4, UpdateCrcInv DEF UpdateCrc, Inv
<1>5. ASSUME Load PROVE Inv'
  BY <1>1, <1>5, LoadInv DEF Load, Inv
<1>6. ASSUME NEW k \in Kinds, PowerCycle(k) PROVE Inv'
  BY <1>1, <1>6, PowerCycleInv DEF PowerCycle, Inv
<1>7. ASSUME UNCHANGED vars PROVE Inv'
  BY <1>1, <1>7 DEF vars, Inv, TypeOK, SealedIsKnown
<1> QED
  BY <1>2, <1>3, <1>4, <1>5, <1>6, <1>7, SaveInv, DamageInv DEF Next

LEMMA Invariance == Spec => []Inv
<1>1. Init => Inv
  BY InitInv
<1>2. Inv /\ [Next]_vars => Inv'
  BY NextInv
<1> QED
  BY <1>1, <1>2, PTL DEF Spec

(***************************************************************************)
(* The theorems.                                                           *)
(***************************************************************************)
LEMMA InvLoads == Inv => LoadsWhatWasSaved
<1> SUFFICES ASSUME Inv, NEW k \in Kinds
             PROVE  /\ Loads(k, storage) => saved = [kind |-> k, profile |-> Parsed(k, storage)]
                    /\ saved # None /\ saved.kind = k /\ ~damaged => Loads(k, storage)
  BY DEF LoadsWhatWasSaved
<1>1. CASE NeverWritten
  <2>1. saved = None
    BY <1>1 DEF NeverWritten
  <2>2. ASSUME Loads(k, storage) PROVE FALSE
    <3>1. storage \in Seq(Byte) /\ Len(storage) >= ImageSize(k)
      BY <2>2 DEF Inv, TypeOK, Loads
    <3>2. PICK i \in 1 .. MagicBytes : Known[k].magic[i] \notin Blank
      BY KnownAssumption
    <3>3. Known[k].magic = Cut(storage, 0, MagicBytes)
      BY <2>2, KnownHeader, ParsedParts DEF Loads, CrcIsValid
    <3>4. Cut(storage, 0, MagicBytes)[i] = storage[i]
      BY Widths DEF Cut
    <3>5. i \in 1 .. ImageSize(k)
      BY <3>2, Sizes, Widths DEF BodySize
    <3>6. i \in DOMAIN storage
      BY <3>1, <3>5, Sizes, Widths
    <3> QED
      BY <1>1, <3>2, <3>3, <3>4, <3>6 DEF NeverWritten
  <2> QED
    BY <2>1, <2>2
<1>2. ASSUME NEW l \in Kinds, NEW p \in Profile(l), Written(l, p)
      PROVE  /\ Loads(k, storage) => saved = [kind |-> k, profile |-> Parsed(k, storage)]
             /\ saved # None /\ saved.kind = k /\ ~damaged => Loads(k, storage)
  <2>1. saved = [kind |-> l, profile |-> p] /\ CrcIsValid(l, p)
    BY <1>2 DEF Written
  <2>2. ~damaged => storage = Image(l, p) /\ Len(storage) = ImageSize(l)
    BY <1>2, ImageType DEF Written
  <2>3. PICK i \in Nat : DamagedFrom(i, l, p, storage)
    <3>1. CASE damaged
      BY <1>2, <3>1 DEF Written
    <3>2. CASE ~damaged
      <4>1. DamagedFrom(0, l, p, storage)
        BY <2>2, <3>2 DEF DamagedFrom, Inv, TypeOK
      <4> QED
        BY <4>1
    <3> QED
      BY <3>1, <3>2
  <2>4. ASSUME Loads(k, storage) PROVE saved = [kind |-> k, profile |-> Parsed(k, storage)]
    <3>1. k = l
      BY <2>1, <2>3, <2>4, OtherFamilyIsNoticed
    <3>2. Parsed(k, storage) = p
      BY <2>1, <2>3, <2>4, <3>1, DamageIsNoticed
    <3> QED
      BY <2>1, <3>1, <3>2
  <2>5. ASSUME saved.kind = k, ~damaged PROVE Loads(k, storage)
    <3>1. k = l
      BY <2>1, <2>5
    <3>2. Parsed(k, storage) = p
      BY <2>2, <2>5, <3>1, ProfileImage
    <3>3. Len(storage) >= ImageSize(k)
      BY <2>2, <2>5, <3>1, Sizes, Widths
    <3> QED
      BY <2>1, <3>1, <3>2, <3>3 DEF Loads
  <2> QED
    BY <2>4, <2>5
<1> QED
  BY <1>1, <1>2 DEF Inv, StorageIsKnown

LEMMA InvStale == Inv => StaleCrcIsNoticed
<1> DEFINE now == Body(kind, profile)
           then == Body(kind, sealed)
           differ == { i \in DOMAIN now : now[i] # then[i] }
           nearby == \A i, j \in differ : j < i + CrcBytes
<1> SUFFICES ASSUME Inv, sealed # None, profile.crc = sealed.crc, nearby
             PROVE  CrcIsValid(kind, profile) <=> differ = {}
  BY DEF StaleCrcIsNoticed
<1>1. /\ kind \in Kinds /\ profile \in Profile(kind) /\ sealed \in Profile(kind)
      /\ CrcIsValid(kind, sealed)
  BY DEF Inv, TypeOK, SealedIsKnown
<1>2. now \in Bytes(BodySize(kind)) /\ then \in Bytes(BodySize(kind)) /\ BodySize(kind) \in Nat
  BY <1>1, ProfileImage, Sizes
<1>3. DOMAIN now = 1 .. BodySize(kind)
  <2> HIDE DEF now
  <2> QED
    BY <1>2 DEF Bytes
<1>4. ASSUME differ = {} PROVE CrcIsValid(kind, profile)
  <2>1. now = then
    <3> HIDE DEF now, then
    <3>1. \A i \in 1 .. BodySize(kind) : now[i] = then[i]
      BY <1>3, <1>4
    <3> QED
      BY <1>2, <3>1, SameBytes
  <2>2. profile = sealed
    BY <1>1, <2>1, SameBody
  <2> QED
    BY <1>1, <2>2
<1>5. ASSUME CrcIsValid(kind, profile) PROVE differ = {}
  <2>1. CrcOf(now) = CrcOf(then)
    BY <1>1, <1>5 DEF CrcIsValid
  <2>2. \A i, j \in 1 .. BodySize(kind) : now[i] # then[i] /\ now[j] # then[j] => j < i + CrcBytes
    <3> HIDE DEF now, then
    <3> QED
      BY <1>3
  <2>3. now = then
    BY <1>1, <2>1, <2>2, NearbyChanges
  <2> HIDE DEF now, then
  <2> QED
    BY <2>3
<1> QED
  BY <1>4, <1>5

(* A stored profile loads as exactly what was saved, by a sketch for the   *)
(* same family, and any damage of adjacent bytes no wider than the         *)
(* checksum is noticed, for every width, and every polynomial with a top   *)
(* bit.                                                                    *)
THEOREM StorageTheorem == Spec => []LoadsWhatWasSaved
  BY Invariance, InvLoads, PTL

(* A change after the checksum was computed is noticed, if the bytes       *)
(* changed are no further apart than the checksum is wide.                 *)
THEOREM StaleTheorem == Spec => []StaleCrcIsNoticed
  BY Invariance, InvStale, PTL

(* Neither an update of the checksum nor a load, done or refused, makes a  *)
(* valid profile invalid.                                                  *)
THEOREM ValidTheorem == Spec => ValidStaysValid
<1> DEFINE A == CrcIsValid(kind, profile) /\ kind' = kind /\ edits' = edits
                /\ profile' \notin Calibrations[kind] => CrcIsValid(kind, profile')
<1>1. ASSUME Inv, Next, CrcIsValid(kind, profile), kind' = kind, edits' = edits,
             profile' \notin Calibrations[kind]
      PROVE  CrcIsValid(kind, profile')
  <2>1. kind \in Kinds /\ profile \in Profile(kind)
    BY <1>1 DEF Inv, TypeOK
  <2>2. ASSUME NEW i \in 1 .. BodySize(kind), NEW b \in Byte, Edit(i, b) PROVE FALSE
    <3>1. edits' = edits + 1 /\ edits \in Nat
      BY <1>1, <2>2 DEF Edit, Inv, TypeOK
    <3> QED
      BY <1>1, <3>1
  <2>3. ASSUME UpdateCrc PROVE CrcIsValid(kind, profile')
    <3>1. Normalised(kind, profile) = profile /\ Valid(kind, profile)
      BY <1>1, <2>1, NormalisedType DEF CrcIsValid
    <3>2. profile' = WithCrc(kind, profile)
      BY <2>3, <3>1 DEF UpdateCrc
    <3> QED
      BY <2>1, <3>1, <3>2, SealedIsValid
  <2>4. ASSUME Load PROVE CrcIsValid(kind, profile')
    BY <1>1, <2>4 DEF Load, Loaded, Loads
  <2>5. ASSUME Save PROVE CrcIsValid(kind, profile')
    BY <1>1, <2>5 DEF Save
  <2>6. ASSUME NEW i \in DOMAIN storage, NEW flips \in Bursts, Damage(i, flips)
        PROVE  CrcIsValid(kind, profile')
    BY <1>1, <2>6 DEF Damage
  <2>7. ASSUME NEW p \in Calibrations[kind], Calibrate(p) PROVE FALSE
    BY <1>1, <2>7 DEF Calibrate
  <2>8. ASSUME NEW k \in Kinds, PowerCycle(k) PROVE FALSE
    BY <1>1, <2>8 DEF PowerCycle
  <2> QED
    BY <1>1, <2>2, <2>3, <2>4, <2>5, <2>6, <2>7, <2>8 DEF Next
<1>2. Inv /\ [Next]_vars => [A]_vars
  BY <1>1
<1> QED
  BY <1>2, Invariance, PTL DEF Spec, ValidStaysValid

=============================================================================
