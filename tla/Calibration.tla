----------------------------- MODULE Calibration -----------------------------
(***************************************************************************)
(* The calibration profiles of both families                               *)
(* (src/src/fdcx/FDCxProfile.cpp,                                          *)
(* src/src/calibration/fdc2x1x/FDC2x1xCalibrationProfile.cpp): their       *)
(* validation, their checksum, and the image a sketch keeps in a storage   *)
(* that outlives it and may be damaged.                                    *)
(*                                                                         *)
(* A byte is the set of its bits that are one.  A field of several bytes   *)
(* is the sequence of them, an array of floats the sequence of the bytes   *)
(* of all its elements; only the checksum is the set of its bits.  The     *)
(* checksum is computed as the code does.  The widths of the fields and of *)
(* the checksum and its polynomial are parameters: the code has bytes of   *)
(* 8 bits and widths of 4, 2, 4, 3 and 4 bytes.                            *)
(***************************************************************************)
EXTENDS Integers, Sequences

CONSTANTS
  Channels,     \* length of the arrays of a profile
  ByteBits,     \* bits of a byte
  MagicBytes,   \* bytes of the magic number
  VersionBytes, \* ... of the version
  FloatBytes,   \* ... of a float
  ReservedBytes, \* ... of the gap in the image of the FDC2x1x
  CrcBytes,     \* ... of the checksum
  Poly,         \* the polynomial, the bits of 0xEDB88320 in the code
  Known,        \* of either kind: magic, version, family, chips and variants
  Finite,       \* floats that are finite
  CodeMax31,    \* bytes that are CAPDAC codes
  Bounded,      \* floats within the bounds of: reference, parasitic, inductance, frequency
  Calibrations, \* of either kind: profiles a sketch may set up
  MaxEdits,     \* how many single bytes of its profile a sketch changes
  None          \* nothing saved, no checksum computed

Bits(n) == 0 .. n - 1

Byte == SUBSET Bits(ByteBits)

CrcBits == CrcBytes * ByteBits

Bytes(n) == [1 .. n -> Byte]

FloatArray == Bytes(Channels * FloatBytes)

Kinds == {"FDC1004", "FDC2x1x"}

Profile1004 ==
  [magic : Bytes(MagicBytes), version : Bytes(VersionBytes), family : Byte, chip : Byte,
   capdacCode : Bytes(Channels), baselinePf : FloatArray, alphaPfPerC : FloatArray,
   crc : SUBSET Bits(CrcBits)]

Profile2x1x ==
  [magic : Bytes(MagicBytes), version : Bytes(VersionBytes), family : Byte, chip : Byte,
   variant : Byte, inductanceUH : FloatArray, parasiticPf : FloatArray,
   baselineHz : FloatArray, referenceClockHz : Bytes(FloatBytes), crc : SUBSET Bits(CrcBits)]

Profile(k) == IF k = "FDC1004" THEN Profile1004 ELSE Profile2x1x

ASSUME WidthAssumption ==
  /\ {Channels, ByteBits, MagicBytes, VersionBytes, FloatBytes, CrcBytes} \subseteq Nat \ {0}
  /\ {ReservedBytes, MaxEdits} \subseteq Nat

\* The top bit makes the checksum notice every damage that is no wider than it.
ASSUME PolyAssumption == Poly \subseteq Bits(CrcBits) /\ CrcBits - 1 \in Poly

\* A storage never written is all zeros or all ones.
Blank == {{}, Bits(ByteBits)}

\* No magic number looks like a blank storage.  The headers of the two kinds
\* differ in places too far apart for one damage: in their first byte ('X', '2')
\* and in the family.
ASSUME KnownAssumption ==
  /\ \A k \in Kinds :
       /\ Known[k].magic \in Bytes(MagicBytes) /\ Known[k].version \in Bytes(VersionBytes)
       /\ Known[k].family \in Byte
       /\ \E i \in 1 .. MagicBytes : Known[k].magic[i] \notin Blank
  /\ \A v \in DOMAIN Known["FDC2x1x"].chips : Known["FDC2x1x"].chips[v] \in Byte
  /\ Known["FDC1004"].magic[1] # Known["FDC2x1x"].magic[1]
  /\ Known["FDC1004"].family # Known["FDC2x1x"].family
  /\ CrcBytes <= MagicBytes + VersionBytes

ASSUME CalibrationsAssumption == \A k \in Kinds : Calibrations[k] \subseteq Profile(k)

VARIABLES
  kind,     \* the family whose profile the sketch has
  profile,  \* the profile in memory
  storage,  \* the stored bytes: an image, as long as it is
  saved,    \* history: kind and profile of the image saved last
  damaged,  \* history: the storage has been damaged since
  sealed,   \* history: the profile whose checksum was computed or found valid last
  edits     \* number of fields changed so far, up to MaxEdits

vars == <<kind, profile, storage, saved, damaged, sealed, edits>>

(***************************************************************************)
(* The checksum.                                                           *)
(***************************************************************************)
Xor(a, b) == (a \ b) \cup (b \ a)

\* A bug the runs must notice: nothing but shifts, the polynomial is forgotten.
ShiftedPlain(crc) == { b - 1 : b \in crc \ {0} }

Shifted(crc) ==
  Xor({ b - 1 : b \in crc \ {0} }, IF 0 \in crc THEN Poly ELSE {})

\* The bit by bit loop.
ShiftedBits(crc, bits) ==
  LET after[n \in 0 .. bits] == IF n = 0 THEN crc ELSE Shifted(after[n - 1])
  IN  after[bits]

\* And the loop over the bytes, up to the complement at the end.
CrcAfter(bytes, length) ==
  LET crc[n \in 0 .. length] ==
        IF n = 0 THEN Bits(CrcBits)
        ELSE ShiftedBits(Xor(crc[n - 1], bytes[n]), ByteBits)
  IN  crc[length]

CrcOf(bytes) == Bits(CrcBits) \ CrcAfter(bytes, Len(bytes))

\* Least significant byte first.
CrcImage(crc) ==
  [ i \in 1 .. CrcBytes |-> { b \in Bits(ByteBits) : b + (i - 1) * ByteBits \in crc } ]

CrcFrom(bytes) ==
  UNION { { b + (i - 1) * ByteBits : b \in bytes[i] } : i \in 1 .. CrcBytes }

(***************************************************************************)
(* The images, without the checksum.  The one of the FDC2x1x has a gap     *)
(* that is written as zeros and skipped when it is read.                   *)
(***************************************************************************)
Body1004(p) ==
  p.magic \o p.version \o <<p.family, p.chip>> \o p.capdacCode \o p.baselinePf \o p.alphaPfPerC

Gap == [ i \in 1 .. ReservedBytes |-> {} ]

Body2x1x(p) ==
  p.magic \o p.version \o <<p.family, p.chip, p.variant>> \o Gap
  \o p.inductanceUH \o p.parasiticPf \o p.baselineHz \o p.referenceClockHz

Body(k, p) == IF k = "FDC1004" THEN Body1004(p) ELSE Body2x1x(p)

HeaderSize == MagicBytes + VersionBytes + 2

ArraySize == Channels * FloatBytes

BodySize(k) ==
  IF k = "FDC1004" THEN HeaderSize + Channels + 2 * ArraySize
  ELSE HeaderSize + 1 + ReservedBytes + 3 * ArraySize + FloatBytes

ImageSize(k) == BodySize(k) + CrcBytes

\* The size bytes from an offset on.
Cut(bytes, offset, size) == [ i \in 1 .. size |-> bytes[offset + i] ]

Crc(k, bytes) == CrcFrom(Cut(bytes, BodySize(k), CrcBytes))

\* The fields in the order in which they are read back.  Bytes beyond the image
\* are not looked at.
Parsed1004(bytes) ==
  LET data == HeaderSize + Channels
  IN  [magic |-> Cut(bytes, 0, MagicBytes), version |-> Cut(bytes, MagicBytes, VersionBytes),
       family |-> bytes[HeaderSize - 1], chip |-> bytes[HeaderSize],
       capdacCode |-> Cut(bytes, HeaderSize, Channels),
       baselinePf |-> Cut(bytes, data, ArraySize),
       alphaPfPerC |-> Cut(bytes, data + ArraySize, ArraySize),
       crc |-> Crc("FDC1004", bytes)]

Parsed2x1x(bytes) ==
  LET data == HeaderSize + 1 + ReservedBytes
  IN  [magic |-> Cut(bytes, 0, MagicBytes), version |-> Cut(bytes, MagicBytes, VersionBytes),
       family |-> bytes[HeaderSize - 1], chip |-> bytes[HeaderSize],
       variant |-> bytes[HeaderSize + 1],
       inductanceUH |-> Cut(bytes, data, ArraySize),
       parasiticPf |-> Cut(bytes, data + ArraySize, ArraySize),
       baselineHz |-> Cut(bytes, data + 2 * ArraySize, ArraySize),
       referenceClockHz |-> Cut(bytes, data + 3 * ArraySize, FloatBytes),
       crc |-> Crc("FDC2x1x", bytes)]

Parsed(k, bytes) == IF k = "FDC1004" THEN Parsed1004(bytes) ELSE Parsed2x1x(bytes)

(***************************************************************************)
(* Validation.                                                             *)
(***************************************************************************)
HeaderValid1004(p) ==
  LET known == Known["FDC1004"]
  IN  /\ p.magic = known.magic /\ p.version = known.version /\ p.family = known.family
      /\ p.chip \in known.chips

\* The chip has to be the one of the variant.
HeaderValid2x1x(p) ==
  LET known == Known["FDC2x1x"]
  IN  /\ p.magic = known.magic /\ p.version = known.version /\ p.family = known.family
      /\ p.variant \in DOMAIN known.chips /\ p.chip = known.chips[p.variant]

Float(floats, i) == Cut(floats, (i - 1) * FloatBytes, FloatBytes)

FieldsValid1004(p) ==
  \A i \in 1 .. Channels :
    /\ p.capdacCode[i] \in CodeMax31
    /\ {Float(p.baselinePf, i), Float(p.alphaPfPerC, i)} \subseteq Finite

\* With fewer channels the remaining elements of the arrays need only be finite,
\* but for the parasitic capacitances.
FieldsValid2x1x(p) ==
  /\ HeaderValid2x1x(p)
  /\ p.referenceClockHz \in Bounded.reference
  /\ \A i \in 1 .. Channels :
       /\ {Float(p.inductanceUH, i), Float(p.parasiticPf, i), Float(p.baselineHz, i)}
            \subseteq Finite
       /\ Float(p.parasiticPf, i) \in Bounded.parasitic
       /\ i <= Known["FDC2x1x"].channels[p.variant] =>
            /\ Float(p.inductanceUH, i) \in Bounded.inductance
            /\ Float(p.baselineHz, i) \in Bounded.frequency

Valid(k, p) ==
  IF k = "FDC1004" THEN HeaderValid1004(p) /\ FieldsValid1004(p) ELSE FieldsValid2x1x(p)

\* A bug the runs must notice: the checksum is not compared.
FieldsDecide(k, p) == Valid(k, p)

CrcIsValid(k, p) == Valid(k, p) /\ CrcOf(Body(k, p)) = p.crc

Loads(k, bytes) == Len(bytes) >= ImageSize(k) /\ CrcIsValid(k, Parsed(k, bytes))

(***************************************************************************)
(* Memory.                                                                 *)
(***************************************************************************)
\* The header as the update of the checksum sets it, whatever it was.
Normalised1004(p) ==
  [p EXCEPT !.magic = Known["FDC1004"].magic, !.version = Known["FDC1004"].version]

\* An unknown variant has an unknown chip and is left to the validation.
Normalised2x1x(p) ==
  LET known == Known["FDC2x1x"]
  IN  [p EXCEPT !.magic = known.magic, !.version = known.version, !.family = known.family,
                !.chip = IF p.variant \in DOMAIN known.chips THEN known.chips[p.variant] ELSE {}]

Normalised(k, p) == IF k = "FDC1004" THEN Normalised1004(p) ELSE Normalised2x1x(p)

WithCrc(k, p) == [p EXCEPT !.crc = CrcOf(Body(k, p))]

\* The sketch sets its profile up.
Calibrate(p) ==
  /\ profile' = p
  /\ sealed' = None
  /\ UNCHANGED <<kind, storage, saved, damaged, edits>>

\* And changes a single byte of it.
Edit(i, b) ==
  /\ edits < MaxEdits
  /\ LET body == [Body(kind, profile) EXCEPT ![i] = b]
     IN  profile' = Parsed(kind, body \o CrcImage(profile.crc))
  /\ edits' = edits + 1
  /\ UNCHANGED <<kind, storage, saved, damaged, sealed>>

\* A refused update has set the header all the same.
UpdateCrc ==
  /\ LET p == Normalised(kind, profile)
     IN  IF Valid(kind, p)
         THEN profile' = WithCrc(kind, p) /\ sealed' = profile'
         ELSE profile' = p /\ sealed' = sealed
  /\ UNCHANGED <<kind, storage, saved, damaged, edits>>

(***************************************************************************)
(* Storage.                                                                *)
(***************************************************************************)
Resealed(k, p) == WithCrc(k, Normalised(k, p))

\* The checksum is computed on a copy; the one in memory stays.
Save ==
  /\ Valid(kind, profile)
  /\ LET copy == Resealed(kind, profile)
         image == Body(kind, copy) \o CrcImage(copy.crc)
     IN  /\ storage' = image
         /\ saved' = [kind |-> kind, profile |-> WithCrc(kind, profile)]
  /\ damaged' = FALSE
  /\ UNCHANGED <<kind, profile, sealed, edits>>

\* A bug the runs must notice: a refused image has overwritten the profile.
LoadedInPlace ==
  IF Len(storage) >= ImageSize(kind) THEN Parsed(kind, storage) ELSE profile

Loaded == IF Loads(kind, storage) THEN Parsed(kind, storage) ELSE profile

Load ==
  /\ profile' = Loaded
  /\ sealed' = IF Loads(kind, storage) THEN profile' ELSE sealed
  /\ UNCHANGED <<kind, storage, saved, damaged, edits>>

\* The microcontroller is switched off and on again, perhaps with a sketch for
\* the other family.
PowerCycle(k) ==
  /\ kind' = k
  /\ profile' \in Calibrations[k]
  /\ sealed' = None
  /\ UNCHANGED <<storage, saved, damaged, edits>>

\* While it is off, adjacent bytes of the storage change, no more of them than
\* the checksum has.
Bursts == UNION { { flips \in Bytes(n) : flips[1] # {} /\ flips[n] # {} } : n \in 1 .. CrcBytes }

Damage(i, flips) ==
  /\ saved # None /\ ~damaged /\ sealed = None
  /\ i + Len(flips) - 1 <= Len(storage)
  /\ storage' = [ j \in DOMAIN storage |->
                    IF j \in i .. i + Len(flips) - 1
                    THEN Xor(storage[j], flips[j - i + 1]) ELSE storage[j] ]
  /\ damaged' = TRUE
  /\ UNCHANGED <<kind, profile, saved, sealed, edits>>

Init ==
  /\ kind \in Kinds
  /\ profile \in Calibrations[kind]
  /\ storage \in { [ i \in 1 .. ImageSize("FDC2x1x") |-> b ] : b \in Blank }
  /\ saved = None
  /\ damaged = FALSE
  /\ sealed = None
  /\ edits = 0

Next ==
  \/ \E p \in Calibrations[kind] : Calibrate(p)
  \/ \E i \in 1 .. BodySize(kind), b \in Byte : Edit(i, b)
  \/ UpdateCrc
  \/ Save
  \/ Load
  \/ \E k \in Kinds : PowerCycle(k)
  \/ \E i \in DOMAIN storage, flips \in Bursts : Damage(i, flips)

Spec == Init /\ [][Next]_vars

(***************************************************************************)
(* Properties.                                                             *)
(***************************************************************************)
(* What the storage holds loads as exactly the profile that was saved, by  *)
(* a sketch for the same family; after damage no wider than the checksum   *)
(* it loads as that or not at all.  A storage that was never written, and  *)
(* the image of the other family, damaged or not, never load.              *)
LoadsWhatWasSaved ==
  \A k \in Kinds :
    /\ Loads(k, storage) => saved = [kind |-> k, profile |-> Parsed(k, storage)]
    /\ saved # None /\ saved.kind = k /\ ~damaged => Loads(k, storage)

(* A profile in memory that was changed after its checksum was computed,   *)
(* or it was loaded, in bytes that are no further apart than the checksum  *)
(* is wide, is not taken for valid; and one that was not changed is.       *)
StaleCrcIsNoticed ==
  sealed # None =>
    LET now == Body(kind, profile)
        then == Body(kind, sealed)
        differ == { i \in DOMAIN now : now[i] # then[i] }
        nearby == \A i, j \in differ : j < i + CrcBytes
    IN  profile.crc = sealed.crc /\ nearby =>
          (CrcIsValid(kind, profile) <=> differ = {})

(* A load that is refused leaves the profile in use alone.                 *)
ValidStaysValid ==
  [][CrcIsValid(kind, profile) /\ kind' = kind /\ edits' = edits
     /\ profile' \notin Calibrations[kind] => CrcIsValid(kind, profile')]_vars

=============================================================================
