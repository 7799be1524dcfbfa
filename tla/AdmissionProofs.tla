--------------------------- MODULE AdmissionProofs ---------------------------
(***************************************************************************)
(* What serve_connection admits, proved for every width of its integers,   *)
(* size of its buffers and header: the memory committed to a request holds *)
(* it, and the descriptors suffice.                                        *)
(***************************************************************************)
EXTENDS Admission, WellFoundedInduction, TLAPS

(* Integer arithmetic.                                                     *)

LEMMA ProductGrows ==
    ASSUME NEW a \in Int, NEW b \in Int, NEW s \in Nat, a <= b
    PROVE  a * s <= b * s
  OBVIOUS

LEMMA Divided ==
    ASSUME NEW p \in Nat, NEW s \in Nat \ {0}
    PROVE  /\ p \div s \in Nat
           /\ (p \div s) * s <= p /\ p < (p \div s + 1) * s
           /\ p % s = p - (p \div s) * s /\ p % s \in 0 .. s - 1
  OBVIOUS

LEMMA NextProduct == ASSUME NEW d \in Int, NEW s \in Int PROVE (d + 1) * s = d * s + s
  OBVIOUS

\* A quotient is where it is squeezed.
LEMMA QuotientIs ==
    ASSUME NEW p \in Nat, NEW s \in Nat \ {0}, NEW q \in Nat, q * s <= p, p < (q + 1) * s
    PROVE  p \div s = q
<1>1. p \div s \in Nat /\ (p \div s) * s <= p /\ p < (p \div s + 1) * s
  BY Divided
<1>2. ASSUME p \div s < q PROVE FALSE
  <2>1. (p \div s + 1) * s <= q * s
    BY <1>1, <1>2, ProductGrows
  <2> QED
    BY <1>1, <2>1
<1>3. ASSUME q < p \div s PROVE FALSE
  <2>1. (q + 1) * s <= (p \div s) * s
    BY <1>1, <1>3, ProductGrows
  <2> QED
    BY <1>1, <2>1
<1> QED
  BY <1>1, <1>2, <1>3

\* A positive length divided among as many parts as fit it exactly.
LEMMA ExactParts ==
    ASSUME NEW p \in Nat \ {0}, NEW s \in Nat \ {0}, p % s = 0
    PROVE  p \div s \in Nat \ {0} /\ (p \div s) * s = p /\ p \div (p \div s) = s
<1>1. p \div s \in Nat /\ (p \div s) * s = p
  BY Divided
<1>2. p \div s # 0
  BY <1>1
<1>3. PICK c \in Nat \ {0} : c = p \div s
  BY <1>1, <1>2
<1>4. s * c = p /\ (s + 1) * c = s * c + c
  BY <1>1, <1>3
<1>5. p \div c = s
  BY <1>4, QuotientIs
<1> QED
  BY <1>1, <1>3, <1>5

-----------------------------------------------------------------------------
(* The inductive invariant.                                                *)

\* The header is of the wire format, whatever its fields say.
HeaderKept ==
    /\ req = [type |-> req.type, bitness |-> req.bitness, width |-> req.width,
              height |-> req.height, len |-> req.len, ready |-> req.ready]
    /\ req.type \in {"image", "stream", "other"}
    /\ req.width \in Nat /\ req.height \in Nat /\ req.len \in Nat

\* What was admitted was laid out for the header that was judged.
LaidOut ==
    /\ verdict # "none" => verdict = Verdict(req)
    /\ Admitted => mm2s = RingOver(req.len, Chunk)
    /\ Admitted /\ req.type = "stream" =>
          slot = SlotBytes(req.len \div Count(req)) /\ s2mm = RingOver(slot * Count(req), slot)
    /\ Admitted /\ req.type # "stream" => slot = RxSize /\ s2mm = RingOver(RxSize, Chunk)

\* What ojls_client is said to have asked for is what it asked.
AskKept ==
    asked # NotAsked => \E p \in Pgm : \/ \E b \in Overrides : AskImage(p, b)
                                      \/ \E count \in Counts : AskStream(p, count)

AInv == HeaderKept /\ LaidOut /\ AskKept

LEMMA Sizes ==
    /\ WordMod \in Nat \ {0} /\ LenMod \in Nat \ {0} /\ Chunk \in Nat \ {0} /\ Page \in Nat \ {0}
    /\ TxSize \in Nat \ {0} /\ RxSize \in Nat \ {0} /\ DescCap \in Nat \ {0} /\ Chunk < LenMod
    /\ RxSize <= Chunk * DescCap /\ TxSize <= Chunk * DescCap
  BY WidthAssumption, SizeAssumption, ChunkAssumption

LEMMA Remainder == ASSUME NEW n \in Nat PROVE n % WordMod \in Nat /\ n % WordMod < WordMod
<1>1. WordMod \in Nat \ {0}
  BY Sizes
<1>2. n % WordMod \in 0 .. WordMod - 1
  BY <1>1, Divided
<1> QED
  BY <1>1, <1>2

\* What a client says its picture has.
LEMMA PictureBytes == ASSUME NEW p \in Pgm PROVE p.width \in Nat /\ p.height \in Nat /\ PgmBytes(p) \in Nat
<1>1. p.width \in Nat /\ p.height \in Nat
  BY BoundAssumption DEF Pgm
<1>2. PICK w, h \in Nat : w = p.width /\ h = p.height
  BY <1>1
<1>3. w * h * 2 \in Nat /\ w * h * 1 \in Nat
  OBVIOUS
<1>4. PICK n \in Nat : n = w * h * (IF p.maxval > 255 THEN 2 ELSE 1)
  BY <1>3
<1>5. PgmBytes(p) = n % WordMod
  BY <1>2, <1>4 DEF PgmBytes
<1> QED
  BY <1>1, <1>5, Remainder

LEMMA InitLaidOut == Init => AInv
<1> SUFFICES ASSUME Init PROVE AInv
  OBVIOUS
<1>1. ~Admitted
  BY DEF Init, Admitted
<1>2. ASSUME req \in Header PROVE HeaderKept
  <2>1. req = [type |-> req.type, bitness |-> req.bitness, width |-> req.width,
               height |-> req.height, len |-> req.len, ready |-> req.ready]
    BY <1>2 DEF Header
  <2>2. req.type \in {"image", "stream", "other"} /\ req.width \in Dims /\ req.height \in Dims
        /\ req.len \in Lens
    BY <1>2 DEF Header
  <2>3. Dims \subseteq Nat /\ Lens \subseteq Nat
    BY BoundAssumption, Sizes
  <2> QED
    BY <2>1, <2>2, <2>3 DEF HeaderKept
<1>3. ASSUME NEW p \in Pgm, NEW b, AskImage(p, b) PROVE HeaderKept
  <2>1. p.width \in Nat /\ p.height \in Nat /\ PgmBytes(p) \in Nat
    BY PictureBytes
  <2>2. req = [type |-> "image", bitness |-> IF b = 0 THEN PgmBitness(p) ELSE b, ready |-> 0,
               width |-> p.width, height |-> p.height, len |-> PgmBytes(p)]
    BY <1>3 DEF AskImage
  <2> QED
    BY <2>1, <2>2 DEF HeaderKept
<1>4. ASSUME NEW p \in Pgm, NEW count \in Counts, AskStream(p, count) PROVE HeaderKept
  <2>1. p.width \in Nat /\ p.height \in Nat /\ (PgmBytes(p) * count) % WordMod \in Nat
    <3>1. PICK n, c \in Nat : n = PgmBytes(p) /\ c = count
      <4>1. Counts \subseteq Nat \ {0}
        BY ClientAssumption
      <4> QED
        BY <4>1, PictureBytes
    <3>2. PICK m \in Nat : m = n * c
      OBVIOUS
    <3>3. (PgmBytes(p) * count) % WordMod = m % WordMod
      BY <3>1, <3>2
    <3> QED
      BY <3>2, <3>3, PictureBytes, Remainder
  <2>2. req = [type |-> "stream", bitness |-> PgmBitness(p), ready |-> 100,
               width |-> p.width, height |-> p.height, len |-> (PgmBytes(p) * count) % WordMod]
    BY <1>4 DEF AskStream
  <2> QED
    BY <2>1, <2>2 DEF HeaderKept
<1>5. HeaderKept
  BY <1>2, <1>3, <1>4 DEF Init
<1>6. AskKept
  BY DEF Init, AskKept
<1> QED
  BY <1>1, <1>5, <1>6 DEF Init, AInv, LaidOut, Admitted

LEMMA NextLaidOut == AInv /\ [Next]_vars => AInv'
<1> SUFFICES ASSUME AInv, [Next]_vars PROVE AInv'
  OBVIOUS
<1>1. CASE Judge
  <2>1. HeaderKept'
    BY <1>1 DEF Judge, AInv, HeaderKept
  <2>2. LaidOut'
    BY <1>1 DEF Judge, LaidOut, Admitted, Verdict, SizeMismatch, Expect, ImageBytes, BadDims,
                TooLarge, Count, SlotBytes, RingOver, BytesPerPixel
  <2>3. AskKept'
    BY <1>1 DEF Judge, AInv, AskKept, AskImage, AskStream
  <2> QED
    BY <2>1, <2>2, <2>3 DEF AInv
<1>2. CASE NextHeader
  <2>1. PICK type \in {"image", "stream"} : req' = [req EXCEPT !.type = type]
    BY <1>2 DEF NextHeader
  <2>2. req' = [type |-> type, bitness |-> req.bitness, width |-> req.width,
                height |-> req.height, len |-> req.len, ready |-> req.ready]
    BY <2>1 DEF AInv, HeaderKept
  <2>3. HeaderKept'
    BY <2>2 DEF AInv, HeaderKept
  <2> QED
    BY <1>2, <2>3 DEF NextHeader, AInv, LaidOut, Admitted, AskKept
<1>3. CASE UNCHANGED vars
  <2>1. HeaderKept'
    BY <1>3 DEF vars, AInv, HeaderKept
  <2>2. LaidOut'
    BY <1>3 DEF vars, AInv, LaidOut, Admitted, Verdict, SizeMismatch, Expect, ImageBytes, BadDims,
                TooLarge, Count, SlotBytes, RingOver, BytesPerPixel
  <2>3. AskKept'
    BY <1>3 DEF vars, AInv, AskKept, AskImage, AskStream
  <2> QED
    BY <2>1, <2>2, <2>3 DEF AInv
<1> QED
  BY <1>1, <1>2, <1>3 DEF Next

LEMMA AlwaysLaidOut == Spec => []AInv
  BY InitLaidOut, NextLaidOut, PTL DEF Spec
-----------------------------------------------------------------------------
(* The rings and the slots.                                                *)

\* A ring over no more than its descriptors' worth of chunks is built, and ends
\* in the chunk that the data ends in.
RingCount(len, chunk) == (len + chunk - 1) \div chunk

LEMMA RingIsBuilt ==
    ASSUME NEW len \in Nat \ {0}, NEW chunk \in Nat \ {0}, len <= chunk * DescCap
    PROVE  /\ RingCount(len, chunk) \in 1 .. DescCap
           /\ (RingCount(len, chunk) - 1) * chunk < len /\ len <= RingCount(len, chunk) * chunk
           /\ RingOver(len, chunk) =
                [i \in 1 .. RingCount(len, chunk) |->
                    LET base == (i - 1) * chunk
                        this == IF len - base > chunk THEN chunk ELSE len - base
                    IN  [base |-> base, len |-> this % LenMod]]
           /\ Len(RingOver(len, chunk)) = RingCount(len, chunk) /\ RingOver(len, chunk) # <<>>
<1>1. PICK n \in Nat : n = RingCount(len, chunk) /\ n * chunk <= len + chunk - 1
                       /\ len + chunk - 1 < (n + 1) * chunk
  <2>1. len + chunk - 1 \in Nat
    OBVIOUS
  <2> QED
    BY <2>1, Divided DEF RingCount
<1>2. (n + 1) * chunk = n * chunk + chunk /\ n * chunk \in Int /\ (n - 1) * chunk = n * chunk - chunk
  OBVIOUS
<1>3. n # 0
  BY <1>1, <1>2
<1>4. n <= DescCap
  <2>1. ASSUME DescCap < n PROVE FALSE
    <3>1. (DescCap + 1) * chunk <= n * chunk /\ (DescCap + 1) * chunk = DescCap * chunk + chunk
      BY <2>1, Sizes, ProductGrows, NextProduct
    <3>2. chunk * DescCap = DescCap * chunk /\ chunk * DescCap \in Int
      BY Sizes
    <3> QED
      BY <1>1, <3>1, <3>2
  <2> QED
    BY <2>1, Sizes
<1>5. n \in 1 .. DescCap /\ (n - 1) * chunk < len /\ len <= n * chunk
  BY <1>1, <1>2, <1>3, <1>4, Sizes
<1>6. RingOver(len, chunk) =
        [i \in 1 .. n |->
            LET base == (i - 1) * chunk
                this == IF len - base > chunk THEN chunk ELSE len - base
            IN  [base |-> base, len |-> this % LenMod]]
  BY <1>1, <1>5, Sizes DEF RingOver, RingCount
<1>7. Len(RingOver(len, chunk)) = n
  BY <1>6
<1> QED
  BY <1>1, <1>3, <1>5, <1>6, <1>7

LEMMA LeastOf ==
    ASSUME NEW T \in SUBSET Nat, T # {}
    PROVE  \E x \in T : \A y \in T : ~(y < x)
<1>1. \E x \in T : \A y \in T : ~(<<y, x>> \in OpToRel(<, Nat))
  BY NatLessThanWellFounded, WFMin
<1> QED
  BY <1>1 DEF OpToRel

\* A descriptor's length field keeps the length it is given, and together they
\* cover the data: the lengths of a ring add up to what it was built over.
LEMMA RingCovers ==
    ASSUME NEW len \in Nat \ {0}, NEW chunk \in Nat \ {0}, chunk < LenMod, len <= chunk * DescCap
    PROVE  Covered(RingOver(len, chunk)) = len
<1> DEFINE n == RingCount(len, chunk)
           ring == RingOver(len, chunk)
           Upto(i) == IF i < n THEN i * chunk ELSE len
           Step(f, i) == IF i = 0 THEN 0 ELSE f[i - 1] + ring[i].len
           IsSum(f) == f = [i \in 0 .. Len(ring) |-> Step(f, i)]
           upto == [i \in 0 .. Len(ring) |-> Upto(i)]
           sum == CHOOSE f : IsSum(f)
<1>1. n \in Nat \ {0} /\ (n - 1) * chunk < len /\ len <= n * chunk /\ Len(ring) = n
  BY RingIsBuilt, Sizes
<1>2. ring = [i \in 1 .. n |->
                LET base == (i - 1) * chunk
                    this == IF len - base > chunk THEN chunk ELSE len - base
                IN  [base |-> base, len |-> this % LenMod]]
  BY RingIsBuilt
<1> HIDE DEF n, ring
<1>3. ASSUME NEW i \in 1 .. n
      PROVE  /\ Upto(i - 1) \in Nat /\ Upto(i) \in Nat
             /\ ring[i].len = Upto(i) - Upto(i - 1)
  <2>1. PICK b \in Nat : b = (i - 1) * chunk
    OBVIOUS
  <2>2. i * chunk = b + chunk
    <3>1. PICK j \in Nat : j = i - 1
      BY <1>1
    <3>2. (j + 1) * chunk = j * chunk + chunk /\ j + 1 = i
      BY <3>1, <1>1, NextProduct
    <3> QED
      BY <2>1, <3>1, <3>2
  <2>3. Upto(i - 1) = b
    BY <1>1, <2>1
  <2>4. PICK t : t = IF len - b > chunk THEN chunk ELSE len - b
    OBVIOUS
  <2>5. ring[i].len = t % LenMod
    BY <1>2, <2>1, <2>4
  <2>6. CASE i < n
    <3>1. i * chunk <= (n - 1) * chunk
      BY <1>1, <2>6, ProductGrows
    <3>2. len - b > chunk
      BY <1>1, <2>2, <3>1
    <3>3. t = chunk /\ Upto(i) = b + chunk
      BY <2>2, <2>4, <2>6, <3>2
    <3>4. t % LenMod = chunk
      BY <3>3, Sizes
    <3> HIDE DEF Upto
    <3> QED
      BY <2>1, <2>3, <2>5, <3>3, <3>4
  <2>7. CASE i = n
    <3>1. len - b \in 1 .. chunk
      BY <1>1, <2>1, <2>2, <2>7
    <3>2. t = len - b /\ Upto(i) = len
      BY <1>1, <2>4, <2>7, <3>1
    <3>3. t % LenMod = t
      BY <3>1, <3>2, Sizes
    <3> QED
      BY <2>1, <2>3, <2>5, <3>2, <3>3
  <2> QED
    BY <1>1, <2>6, <2>7
<1>4. Upto(0) = 0 /\ Upto(n) = len
  BY <1>1
<1> HIDE DEF Upto
<1>5. IsSum(upto)
  <2>1. ASSUME NEW i \in 0 .. Len(ring) PROVE upto[i] = Step(upto, i)
    <3>1. CASE i = 0
      BY <1>1, <1>4, <3>1
    <3>2. CASE i # 0
      <4>1. i \in 1 .. n /\ i - 1 \in 0 .. Len(ring)
        BY <1>1, <3>2
      <4>2. upto[i] = Upto(i) /\ upto[i - 1] = Upto(i - 1)
        BY <4>1
      <4>3. PICK x, y \in Nat : x = Upto(i) /\ y = Upto(i - 1) /\ ring[i].len = x - y
        BY <1>3, <4>1
      <4>4. Step(upto, i) = upto[i - 1] + ring[i].len
        BY <3>2
      <4> HIDE DEF upto, Step
      <4> QED
        BY <4>2, <4>3, <4>4
    <3> QED
      BY <3>1, <3>2
  <2> HIDE DEF Step
  <2> QED
    BY <2>1
<1>6. IsSum(sum)
  <2> HIDE DEF IsSum, upto
  <2> QED
    BY <1>5
<1>7. ASSUME NEW i \in 0 .. Len(ring) PROVE sum[i] = Step(sum, i)
  <2> HIDE DEF Step, sum
  <2> QED
    BY <1>6
<1>8. Covered(ring) = sum[Len(ring)]
  BY DEF Covered
<1> HIDE DEF sum, IsSum, upto
<1>9. ASSUME NEW i \in 0 .. n, sum[i] # Upto(i) PROVE FALSE
  <2> DEFINE T == {j \in Nat : j \in 0 .. n /\ sum[j] # Upto(j)}
  <2>1. i \in T
    BY <1>1, <1>9
  <2>2. PICK x \in T : \A y \in T : ~(y < x)
    <3> HIDE DEF T
    <3>1. T \in SUBSET Nat
      BY DEF T
    <3> QED
      BY <2>1, <3>1, LeastOf
  <2>3. x \in 0 .. n /\ sum[x] # Upto(x)
    BY <2>2
  <2>4. x # 0
    BY <1>1, <1>4, <1>7, <2>3
  <2>5. x \in 1 .. n /\ x - 1 \in 0 .. n /\ x - 1 \in Nat /\ x - 1 < x
    BY <1>1, <2>3, <2>4
  <2>6. sum[x - 1] = Upto(x - 1)
    BY <2>2, <2>5
  <2>7. sum[x] = sum[x - 1] + ring[x].len
    BY <1>1, <1>7, <2>4, <2>5
  <2>8. PICK a, b \in Nat : a = Upto(x) /\ b = Upto(x - 1) /\ ring[x].len = a - b
    BY <1>3, <2>5
  <2>9. b + (a - b) = a
    OBVIOUS
  <2> QED
    BY <2>3, <2>6, <2>7, <2>8, <2>9
<1> QED
  BY <1>1, <1>4, <1>8, <1>9 DEF ring

\* A slot holds the image and its headroom, and slots start where pages do.
LEMMA SlotHolds ==
    ASSUME NEW image \in Nat
    PROVE  /\ SlotBytes(image) \in Nat \ {0}
           /\ SlotBytes(image) >= image + (image \div 4) + Page
           /\ \A k \in Nat : (k * SlotBytes(image)) % Page = 0
<1>1. PICK q \in Nat : q = image \div 4
  BY 4 \in Nat \ {0}, Divided
<1>2. Page \in Nat \ {0}
  BY Sizes
<1>3. PICK x \in Nat : x = image + q + Page
  BY <1>2
<1>4. PICK n \in Nat : n = (x + Page - 1) \div Page /\ x + Page - 1 < (n + 1) * Page
  <2>1. x + Page - 1 \in Nat
    BY <1>2
  <2> QED
    BY <1>2, <2>1, Divided
<1>5. SlotBytes(image) = n * Page
  BY <1>1, <1>3, <1>4 DEF SlotBytes
<1>6. n * Page >= x /\ n * Page \in Nat /\ x # 0
  BY <1>2, <1>3, <1>4, NextProduct
<1>7. ASSUME NEW k \in Nat PROVE (k * SlotBytes(image)) % Page = 0
  <2>1. PICK m \in Nat : m = k * n
    OBVIOUS
  <2>2. k * (n * Page) = m * Page /\ m * Page \in Nat /\ (m + 1) * Page = m * Page + Page
    BY <1>2, <2>1
  <2>3. (m * Page) \div Page = m
    BY <1>2, <2>2, QuotientIs
  <2>4. (m * Page) % Page = m * Page - m * Page
    BY <1>2, <2>2, <2>3, Divided
  <2> QED
    BY <1>5, <2>2, <2>4
<1> QED
  BY <1>1, <1>3, <1>5, <1>6, <1>7
-----------------------------------------------------------------------------
(* What is known of an admitted request.                                   *)

LEMMA AdmittedPasses ==
    ASSUME AInv, Admitted
    PROVE  req.type \in {"image", "stream"} /\ ~SizeMismatch(req) /\ ~BadDims(req) /\ ~TooLarge(req)
  BY DEF AInv, LaidOut, HeaderKept, Verdict, Admitted

LEMMA ExpectTyped == ASSUME AInv PROVE Expect(req) \in Nat
<1>1. PICK w, h \in Nat : w = req.width /\ h = req.height
  BY DEF AInv, HeaderKept
<1>2. w * h * 1 \in Nat /\ w * h * 2 \in Nat
  OBVIOUS
<1>3. PICK n \in Nat : n = w * h * BytesPerPixel(req.bitness)
  BY <1>2 DEF BytesPerPixel
<1>4. Expect(req) = n % WordMod
  BY <1>1, <1>3 DEF Expect, ImageBytes
<1> QED
  BY <1>4, Remainder

LEMMA AdmittedSize ==
    ASSUME AInv, Admitted
    PROVE  req.len \in Nat \ {0} /\ req.len <= TxSize /\ req.len + (req.len \div 4) + Page <= RxSize
<1>1. req.len \in Nat
  BY DEF AInv, HeaderKept
<1>2. PICK q \in Nat : q = req.len \div 4
  BY <1>1, 4 \in Nat \ {0}, Divided
<1>3. req.len <= TxSize /\ req.len + (req.len \div 4) + Page <= RxSize
  BY <1>1, <1>2, Sizes, AdmittedPasses DEF TooLarge
<1>4. CASE req.type = "stream"
  BY <1>1, <1>3, <1>4, AdmittedPasses DEF SizeMismatch
<1>5. CASE req.type = "image"
  <2>1. req.width \in 1 .. MaxDim /\ req.height \in 1 .. MaxDim
    BY AdmittedPasses DEF BadDims
  <2>2. BytesPerPixel(req.bitness) \in {1, 2}
    BY DEF BytesPerPixel
  <2>3. Expect(req) # 0
    BY <2>1, <2>2, WrapAssumption DEF Expect, ImageBytes
  <2>4. req.len = Expect(req)
    BY <1>5, AdmittedPasses DEF SizeMismatch
  <2> QED
    BY <1>1, <1>3, <2>3, <2>4
<1> QED
  BY <1>4, <1>5, AdmittedPasses

LEMMA AdmittedStream ==
    ASSUME AInv, Admitted, req.type = "stream"
    PROVE  /\ Count(req) \in 1 .. DescCap /\ req.len \div Count(req) \in Nat
           /\ Count(req) * (req.len \div Count(req)) = req.len
           /\ slot = SlotBytes(req.len \div Count(req)) /\ slot \in Nat \ {0}
           /\ Count(req) * slot <= RxSize
           /\ s2mm = RingOver(slot * Count(req), slot)
<1>1. slot = SlotBytes(req.len \div Count(req)) /\ s2mm = RingOver(slot * Count(req), slot)
  BY DEF AInv, LaidOut
<1>2. Expect(req) # 0 /\ req.len % Expect(req) = 0
  BY AdmittedPasses DEF SizeMismatch
<1>3. PICK e \in Nat \ {0} : e = Expect(req)
  BY <1>2, ExpectTyped
<1>4. /\ req.len \div e \in Nat \ {0} /\ (req.len \div e) * e = req.len
      /\ req.len \div (req.len \div e) = e
  BY <1>2, <1>3, AdmittedSize, ExactParts
<1>5. PICK c \in Nat \ {0} : c = Count(req) /\ c = req.len \div e
  BY <1>3, <1>4 DEF Count
<1>6. Count(req) * SlotBytes(req.len \div Count(req)) <= RxSize /\ Count(req) <= DescCap
  <2>1. Count(req) * SlotBytes(req.len \div Count(req)) \in Int
    BY <1>4, <1>5, SlotHolds
  <2> QED
    BY <1>5, <2>1, Sizes, AdmittedPasses DEF TooLarge
<1>7. SlotBytes(e) \in Nat \ {0}
  BY SlotHolds
<1>8. c * e = req.len
  BY <1>4, <1>5
<1>9. req.len \div Count(req) = e
  BY <1>4, <1>5
<1>10. c <= DescCap /\ DescCap \in Nat
  BY <1>5, <1>6, Sizes
<1>11. Count(req) \in 1 .. DescCap /\ Count(req) * e = req.len
  BY <1>5, <1>8, <1>10
<1> QED
  BY <1>1, <1>6, <1>7, <1>9, <1>11

\* A stream's ring has a descriptor per image, where its slot starts.
LEMMA StreamRing ==
    ASSUME AInv, Admitted, req.type = "stream"
    PROVE  /\ s2mm # <<>> /\ Len(s2mm) = Count(req)
           /\ \A k \in 1 .. Count(req) : s2mm[k].base = (k - 1) * slot
<1>1. PICK c, t \in Nat \ {0} : c = Count(req) /\ c <= DescCap /\ t = slot * c /\ t = c * slot
  <2>1. Count(req) \in Nat \ {0} /\ Count(req) <= DescCap /\ slot \in Nat \ {0}
    BY AdmittedStream, Sizes
  <2>2. slot * Count(req) \in Nat \ {0} /\ slot * Count(req) = Count(req) * slot
    <3>1. 1 * slot <= Count(req) * slot /\ 1 * slot = slot
      BY <2>1, ProductGrows
    <3> QED
      BY <2>1, <3>1
  <2> QED
    BY <2>1, <2>2
<1>2. slot \in Nat \ {0} /\ t <= slot * DescCap
  <2>1. c * slot <= DescCap * slot /\ DescCap * slot = slot * DescCap
    BY <1>1, AdmittedStream, Sizes, ProductGrows
  <2> QED
    BY <1>1, <2>1, AdmittedStream
<1>3. RingCount(t, slot) = c
  <2>1. t + slot - 1 \in Nat /\ c * slot <= t + slot - 1 /\ t + slot - 1 < (c + 1) * slot
    <3>1. (c + 1) * slot = c * slot + slot
      BY <1>1, <1>2, NextProduct
    <3> QED
      BY <1>1, <1>2, <3>1
  <2> QED
    BY <1>1, <1>2, <2>1, QuotientIs DEF RingCount
<1>4. s2mm = RingOver(t, slot)
  BY <1>1, AdmittedStream
<1>5. /\ s2mm # <<>> /\ Len(s2mm) = c
      /\ s2mm = [i \in 1 .. c |->
                    LET base == (i - 1) * slot
                        this == IF t - base > slot THEN slot ELSE t - base
                    IN  [base |-> base, len |-> this % LenMod]]
  BY <1>1, <1>2, <1>3, <1>4, RingIsBuilt
<1>6. ASSUME NEW k \in 1 .. c PROVE s2mm[k].base = (k - 1) * slot
  BY <1>5
<1> QED
  BY <1>1, <1>5, <1>6

-----------------------------------------------------------------------------
(* What ojls_client asks for.                                              *)

LEMMA Powers ==
    ASSUME NEW k \in 0 .. 16
    PROVE  /\ 2 ^ k \in Nat /\ (k <= 8 => 2 ^ k <= 256)
           /\ (k = 8 => 2 ^ k = 256)
<1>0. CASE k = 0
  BY <1>0
<1>1. CASE k = 1
  BY <1>1
<1>2. CASE k = 2
  BY <1>2
<1>3. CASE k = 3
  BY <1>3
<1>4. CASE k = 4
  BY <1>4
<1>5. CASE k = 5
  BY <1>5
<1>6. CASE k = 6
  BY <1>6
<1>7. CASE k = 7
  BY <1>7
<1>8. CASE k = 8
  BY <1>8
<1>9. CASE k = 9
  BY <1>9
<1>10. CASE k = 10
  BY <1>10
<1>11. CASE k = 11
  BY <1>11
<1>12. CASE k = 12
  BY <1>12
<1>13. CASE k = 13
  BY <1>13
<1>14. CASE k = 14
  BY <1>14
<1>15. CASE k = 15
  BY <1>15
<1>16. CASE k = 16
  BY <1>16
<1> QED
  BY <1>0, <1>1, <1>2, <1>3, <1>4, <1>5, <1>6, <1>7, <1>8,
     <1>9, <1>10, <1>11, <1>12, <1>13, <1>14, <1>15, <1>16

LEMMA MinIs ==
    ASSUME NEW T \in SUBSET Nat, T # {}
    PROVE  Min(T) \in T /\ \A y \in T : Min(T) <= y
<1>1. PICK x \in T : \A y \in T : ~(y < x)
  BY LeastOf
<1>2. \A y \in T : x <= y
  BY <1>1
<1> QED
  BY <1>2 DEF Min

\* maxval needs more than a byte exactly when it needs more than eight bits, and
\* the sweep's bucket of a picture is the depth the client finds for it.
LEMMA PictureDepth ==
    ASSUME NEW p \in Pgm
    PROVE  /\ PgmBitness(p) \in 8 .. 16 /\ (PgmBitness(p) <= 8 <=> p.maxval <= 255)
           /\ Bucket(p) = PgmBitness(p)
<1> DEFINE Fit == {b \in 8 .. 16 : 2 ^ b - 1 >= p.maxval}
           Above == {k \in 0 .. 16 : p.maxval < 2 ^ k}
<1>1. p.maxval \in Maxvals
  BY DEF Pgm
<1>2. PICK m \in Nat : m = p.maxval /\ m < 65536
  BY <1>1, PgmAssumption
<1>3. 16 \in Fit /\ 16 \in Above
  <2>1. PICK k \in 0 .. 16 : k = 16
    OBVIOUS
  <2>2. 2 ^ k = 65536
    BY <2>1
  <2> QED
    BY <1>2, <2>1, <2>2
<1>4. Min(Fit) \in Fit /\ \A y \in Fit : Min(Fit) <= y
  <2>1. Fit \in SUBSET Nat
    <3>1. ASSUME NEW y \in Fit PROVE y \in 8 .. 16
      OBVIOUS
    <3> HIDE DEF Fit
    <3>2. 8 .. 16 \subseteq Nat
      OBVIOUS
    <3> QED
      BY <3>1, <3>2, Zenon
  <2> HIDE DEF Fit
  <2> QED
    BY <1>3, <2>1, MinIs
<1>5. Min(Above) \in Above /\ \A y \in Above : Min(Above) <= y
  <2>1. Above \in SUBSET Nat
    <3>1. ASSUME NEW y \in Above PROVE y \in 0 .. 16
      OBVIOUS
    <3> HIDE DEF Above
    <3>2. 0 .. 16 \subseteq Nat
      OBVIOUS
    <3> QED
      BY <3>1, <3>2, Zenon
  <2> HIDE DEF Above
  <2> QED
    BY <1>3, <2>1, MinIs
<1>6. PICK b \in 8 .. 16 : b = PgmBitness(p) /\ b \in Fit /\ \A y \in Fit : b <= y
  <2>1. PgmBitness(p) = Min(Fit)
    BY DEF PgmBitness
  <2>2. ASSUME NEW y \in Fit PROVE y \in 8 .. 16
    OBVIOUS
  <2> HIDE DEF Fit
  <2> QED
    BY <1>4, <2>1, <2>2
<1>7. PICK k \in 0 .. 16 : k = BitLength(p.maxval) /\ k \in Above /\ \A y \in Above : k <= y
  <2>1. BitLength(p.maxval) = Min(Above)
    BY DEF BitLength
  <2>2. ASSUME NEW y \in Above PROVE y \in 0 .. 16
    OBVIOUS
  <2> HIDE DEF Above
  <2> QED
    BY <1>5, <2>1, <2>2
<1>8. ASSUME NEW y \in 8 .. 16 PROVE y \in Fit <=> m < 2 ^ y
  <2>1. y \in 0 .. 16
    OBVIOUS
  <2>2. PICK n \in Nat : n = 2 ^ y
    BY <2>1, Powers
  <2>3. n - 1 >= m <=> m < n
    OBVIOUS
  <2>4. y \in Fit <=> 2 ^ y - 1 >= m
    BY <1>2
  <2> QED
    BY <2>2, <2>3, <2>4
<1>9. ASSUME NEW y \in 0 .. 16 PROVE y \in Above <=> m < 2 ^ y
  BY <1>2
<1>10. PICK e \in 8 .. 16 : e = 8 /\ 2 ^ e = 256
  <2>1. PICK e \in 8 .. 16 : e = 8
    OBVIOUS
  <2> QED
    BY <2>1, Powers
<1> HIDE DEF Fit, Above
<1>11. b = 8 <=> m <= 255
  <2>1. m < 2 ^ b
    BY <1>6, <1>8
  <2>2. ASSUME b = 8 PROVE m < 256
    BY <1>10, <2>1, <2>2
  <2>3. ASSUME m < 256 PROVE e \in Fit
    BY <1>8, <1>10, <2>3
  <2> QED
    BY <1>6, <1>10, <2>2, <2>3
<1>12. b \in Above /\ k <= b
  <2>1. b \in 0 .. 16
    BY <1>6
  <2>2. m < 2 ^ b
    BY <1>6, <1>8
  <2> QED
    BY <1>7, <1>9, <2>1, <2>2
<1>13. k >= 8 => k = b
  <2>1. m < 2 ^ k
    BY <1>7, <1>9
  <2>2. k >= 8 => k \in 8 .. 16
    BY <1>7
  <2>3. k >= 8 => k \in Fit
    BY <1>8, <2>1, <2>2
  <2> QED
    BY <1>6, <1>7, <1>12, <2>3
<1>14. k < 8 => b = 8
  <2>1. m < 2 ^ k
    BY <1>7, <1>9
  <2>2. 2 ^ k \in Nat /\ (k <= 8 => 2 ^ k <= 256)
    BY <1>7, Powers
  <2>3. PICK n \in Nat : n = 2 ^ k /\ (k <= 8 => n <= 256)
    BY <2>2, Zenon
  <2>4. k < 8 => m <= 255
    <3>1. m < n
      BY <2>1, <2>3, Zenon
    <3> QED
      BY <1>7, <2>3, <3>1
  <2> QED
    BY <1>11, <2>4
<1>15. Bucket(p) = b
  <2>1. Bucket(p) = Max({8, k})
    BY <1>7 DEF Bucket
  <2>2. b \in {8, k} /\ \A y \in {8, k} : b >= y
    BY <1>6, <1>12, <1>13, <1>14
  <2>3. \A x \in {8, k} : (\A y \in {8, k} : x >= y) => x = b
    BY <2>2
  <2> QED
    BY <2>1, <2>2, <2>3 DEF Max
<1> QED
  BY <1>2, <1>6, <1>11, <1>15

\* The bytes of a picture are those of its dimensions at its depth, and not 0.
LEMMA PictureSize ==
    ASSUME NEW p \in Pgm
    PROVE  /\ p.width * p.height \in Nat \ {0} /\ p.width * p.height < WordMod
           /\ PgmBytes(p) \in Nat \ {0} /\ PgmBytes(p) < WordMod
           /\ PgmBytes(p) = (p.width * p.height * BytesPerPixel(PgmBitness(p))) % WordMod
<1>1. p.width \in 1 .. MaxPgm /\ p.height \in 1 .. MaxPgm
  BY DEF Pgm
<1>2. PICK w, h \in Nat \ {0} : /\ w = p.width /\ h = p.height /\ w <= MaxPgm /\ h <= MaxPgm
                                /\ w \in 1 .. MaxPgm /\ h \in 1 .. MaxPgm /\ MaxPgm \in Nat
  BY <1>1, PictureBytes, PgmAssumption
<1>3. PICK n \in Nat \ {0} : n = w * h /\ n <= MaxPgm * MaxPgm
  <2>1. w * h <= MaxPgm * h
    BY <1>2, ProductGrows
  <2>2. h * MaxPgm <= MaxPgm * MaxPgm /\ h * MaxPgm = MaxPgm * h
    BY <1>2, ProductGrows
  <2>3. 1 * h <= w * h /\ w * h \in Nat /\ MaxPgm * h \in Nat /\ MaxPgm * MaxPgm \in Nat
    BY <1>2, ProductGrows
  <2> QED
    BY <1>2, <2>1, <2>2, <2>3
<1>4. PICK s \in {1, 2} : s = IF p.maxval > 255 THEN 2 ELSE 1
  OBVIOUS
<1>5. BytesPerPixel(PgmBitness(p)) = s
  <2>1. p.maxval \in Nat
    BY PgmAssumption DEF Pgm
  <2>2. PgmBitness(p) \in 8 .. 16 /\ (PgmBitness(p) <= 8 <=> p.maxval <= 255)
    BY PictureDepth
  <2> QED
    BY <1>4, <2>1, <2>2 DEF BytesPerPixel
<1>6. PgmBytes(p) = (w * h * s) % WordMod
  BY <1>2, <1>4 DEF PgmBytes
<1>7. (w * h * s) % WordMod # 0
  BY <1>2, <1>4, WrapAssumption
<1>8. (w * h * s) % WordMod \in Nat /\ (w * h * s) % WordMod < WordMod
  <2>1. PICK i \in Nat : i = w * h * s
    BY <1>2
  <2> QED
    BY <2>1, Remainder
<1> QED
  BY <1>2, <1>3, <1>5, <1>6, <1>7, <1>8, PgmAssumption, Sizes

\* An image, whatever -b asks: its payload has the size of its header.
LEMMA ImageUnderstood ==
    ASSUME NEW p \in Pgm, NEW b \in Overrides, AskImage(p, b)
    PROVE  ~SizeMismatch(req)
<1>1. /\ req.type = "image" /\ req.len = PgmBytes(p) /\ req.width = p.width /\ req.height = p.height
      /\ req.bitness = IF b = 0 THEN PgmBitness(p) ELSE b
  BY DEF AskImage
<1>2. BytesPerPixel(req.bitness) = BytesPerPixel(PgmBitness(p))
  <2>1. CASE b = 0
    BY <1>1, <2>1
  <2>2. CASE b # 0
    <3>1. b \in PgmBitness(p) .. 16 /\ PgmBitness(p) \in 8 .. 16
          /\ ~(PgmBytes(p) \div (p.width * p.height) = 1 /\ b > 8)
      BY <2>2, PictureDepth DEF AskImage, OverrideFits
    <3>2. CASE b <= 8
      BY <1>1, <2>2, <3>1, <3>2 DEF BytesPerPixel
    <3>3. CASE b > 8 /\ PgmBitness(p) > 8
      BY <1>1, <2>2, <3>1, <3>3 DEF BytesPerPixel
    <3>4. CASE b > 8 /\ PgmBitness(p) <= 8
      <4>1. PICK n \in Nat \ {0} : n = p.width * p.height /\ n < WordMod
        BY PictureSize
      <4>2. PgmBytes(p) = (n * 1) % WordMod
        BY <3>4, <4>1, PictureSize DEF BytesPerPixel
      <4>3. PgmBytes(p) = n
        BY <4>1, <4>2, Sizes
      <4>4. n \div n = 1
        BY QuotientIs
      <4> QED
        BY <3>1, <3>4, <4>1, <4>3, <4>4
    <3> QED
      BY <3>1, <3>2, <3>3, <3>4
  <2> QED
    BY <2>1, <2>2
<1>3. Expect(req) = PgmBytes(p)
  BY <1>1, <1>2, PictureSize DEF Expect, ImageBytes
<1> QED
  BY <1>1, <1>3 DEF SizeMismatch

\* A stream: a whole number of images, as long as their bytes fit the length field.
LEMMA StreamUnderstood ==
    ASSUME NEW p \in Pgm, NEW count \in Counts, AskStream(p, count),
           PgmBytes(p) * count < WordMod
    PROVE  ~SizeMismatch(req)
<1>1. /\ req.type = "stream" /\ req.len = (PgmBytes(p) * count) % WordMod
      /\ req.width = p.width /\ req.height = p.height /\ req.bitness = PgmBitness(p)
  BY DEF AskStream
<1>2. Expect(req) = PgmBytes(p)
  BY <1>1, PictureSize DEF Expect, ImageBytes
<1>3. PICK n, c \in Nat \ {0} : n = PgmBytes(p) /\ c = count /\ n * c < WordMod
  BY PictureSize, ClientAssumption
<1>4. n * c \in Nat \ {0} /\ c * n = n * c /\ c * n < (c + 1) * n
  BY <1>3, ProductGrows
<1>5. req.len = n * c
  <2>1. PICK i \in Nat : i = n * c
    OBVIOUS
  <2>2. req.len = i % WordMod /\ i < WordMod /\ WordMod \in Nat \ {0}
    BY <1>1, <1>3, <2>1, Sizes
  <2> QED
    BY <2>1, <2>2
<1>6. (c * n) \div n = c
  BY <1>4, QuotientIs
<1>7. (c * n) % n = c * n - ((c * n) \div n) * n
  BY <1>4, Divided
<1>8. (n * c) % n = 0
  BY <1>4, <1>6, <1>7
<1> QED
  BY <1>1, <1>2, <1>3, <1>4, <1>5, <1>8 DEF SizeMismatch

-----------------------------------------------------------------------------
(* The theorems.                                                           *)

\* A request that is admitted never fails for want of descriptors, whatever the
\* buffers and the integers' widths (axidma.c:85-96, ojls_server.c:561-569).
THEOREM NeverShortOfDescriptors == Spec => []RingsFit
<1>1. AInv => RingsFit
  <2> SUFFICES ASSUME AInv, Admitted PROVE s2mm # <<>> /\ mm2s # <<>>
    BY DEF RingsFit
  <2>1. mm2s # <<>>
    <3>1. mm2s = RingOver(req.len, Chunk)
      BY DEF AInv, LaidOut
    <3>2. req.len \in Nat \ {0} /\ req.len <= Chunk * DescCap /\ Chunk \in Nat \ {0}
      BY AdmittedSize, Sizes
    <3> QED
      BY <3>1, <3>2, RingIsBuilt
  <2>2. CASE req.type = "stream"
    BY <2>1, <2>2, StreamRing
  <2>3. CASE req.type = "image"
    <3>1. s2mm = RingOver(RxSize, Chunk)
      BY <2>3 DEF AInv, LaidOut
    <3>2. RxSize \in Nat \ {0} /\ RxSize <= Chunk * DescCap /\ Chunk \in Nat \ {0}
      BY Sizes
    <3> QED
      BY <2>1, <3>1, <3>2, RingIsBuilt
  <2> QED
    BY <2>2, <2>3, AdmittedPasses
<1> QED
  BY <1>1, AlwaysLaidOut, PTL

\* The images of an admitted request have disjoint slots with their headroom, that
\* start where pages do and end in the receive buffer (stream_slot_bytes and the
\* checks of serve_connection, ojls_server.c:352-360, 555-569).
THEOREM SlotsApart == Spec => []SlotsDisjoint
<1>1. AInv => SlotsDisjoint
  <2> SUFFICES ASSUME AInv, Admitted PROVE SlotsDisjoint
    BY DEF SlotsDisjoint
  <2>1. CASE req.type = "stream"
    <3>1. LET image == req.len \div Count(req) IN slot >= image + (image \div 4) + Page
      BY <2>1, AdmittedStream, SlotHolds
    <3>2. ASSUME NEW k \in 1 .. Count(req) PROVE s2mm[k].base % Page = 0
      <4>1. s2mm[k].base = (k - 1) * slot /\ k - 1 \in Nat
        BY <2>1, StreamRing, AdmittedStream
      <4>2. PICK i \in Nat : i = k - 1
        BY <4>1
      <4>3. (i * slot) % Page = 0
        BY <2>1, AdmittedStream, SlotHolds
      <4> QED
        BY <4>1, <4>2, <4>3
    <3> QED
      BY <2>1, <3>1, <3>2, AdmittedStream, StreamRing DEF SlotsDisjoint, Images
  <2>2. CASE req.type = "image"
    <3>1. slot = RxSize /\ Count(req) = 1
      BY <2>2 DEF AInv, LaidOut, Count
    <3>2. req.len \div 1 = req.len
      BY AdmittedSize, QuotientIs
    <3> QED
      BY <2>2, <3>1, <3>2, AdmittedSize, Sizes DEF SlotsDisjoint
  <2> QED
    BY <2>1, <2>2, AdmittedPasses
<1> QED
  BY <1>1, AlwaysLaidOut, PTL

\* MM2S sends the whole payload of an admitted request and no more, from within
\* the transmit buffer: no chunk is lost in the 26 bits of a descriptor's length
\* (axidma.c:85-112, ojls_server.c:550-569).
THEOREM PayloadSent == Spec => []PayloadCovered
<1>1. AInv => PayloadCovered
  <2> SUFFICES ASSUME AInv, Admitted PROVE req.len <= TxSize /\ Covered(mm2s) = req.len
    BY DEF PayloadCovered
  <2>1. mm2s = RingOver(req.len, Chunk)
    BY DEF AInv, LaidOut
  <2>2. /\ req.len \in Nat \ {0} /\ req.len <= TxSize /\ req.len <= Chunk * DescCap
        /\ Chunk \in Nat \ {0} /\ Chunk < LenMod
    BY AdmittedSize, Sizes
  <2> QED
    BY <2>1, <2>2, RingCovers
<1> QED
  BY <1>1, AlwaysLaidOut, PTL

\* What ojls_client makes of a picture the server does not misunderstand, whatever -b
\* and the number of images: its type and ready level are known, its payload has the
\* size its header tells, and a board loaded for the picture takes its depth
\* (ojls_client.c:135-160, 452-462; run_hil_sweep.py:117-120).
THEOREM RequestsUnderstood == Spec => []ClientUnderstood
<1>1. AInv => ClientUnderstood
  <2> SUFFICES ASSUME AInv, asked # NotAsked, verdict # "none"
               PROVE  /\ verdict \notin {"BAD_TYPE", "BAD_READY"}
                      /\ PgmBytes(asked.pgm) * asked.count < WordMod => verdict # "SIZE_MISMATCH"
                      /\ asked.override = 0 /\ Bucket(asked.pgm) = Depth => verdict # "BAD_BITNESS"
    BY DEF ClientUnderstood
  <2>1. verdict = Verdict(req)
    BY DEF AInv, LaidOut
  <2>2. ASSUME NEW p \in Pgm, asked.pgm = p, ~SizeMismatch(req) \/ ~(PgmBytes(p) * asked.count < WordMod),
               req.type \in {"image", "stream"}, req.type = "stream" => req.ready = 100,
               asked.override = 0 => req.bitness = PgmBitness(p)
        PROVE  /\ verdict \notin {"BAD_TYPE", "BAD_READY"}
               /\ PgmBytes(asked.pgm) * asked.count < WordMod => verdict # "SIZE_MISMATCH"
               /\ asked.override = 0 /\ Bucket(asked.pgm) = Depth => verdict # "BAD_BITNESS"
    <3>1. verdict \notin {"BAD_TYPE", "BAD_READY"}
      BY <2>1, <2>2 DEF Verdict
    <3>2. PgmBytes(asked.pgm) * asked.count < WordMod => verdict # "SIZE_MISMATCH"
      BY <2>1, <2>2 DEF Verdict
    <3>3. ASSUME asked.override = 0, Bucket(asked.pgm) = Depth PROVE verdict # "BAD_BITNESS"
      <4>1. req.bitness = Depth /\ Depth \in 8 .. 16
        BY <2>2, <3>3, PictureDepth
      <4>2. ~(req.bitness < 8 \/ req.bitness > 16)
        BY <4>1
      <4> QED
        BY <2>1, <4>1, <4>2 DEF Verdict
    <3> QED
      BY <3>1, <3>2, <3>3
  <2>3. PICK p \in Pgm : \/ \E b \in Overrides : AskImage(p, b)
                         \/ \E count \in Counts : AskStream(p, count)
    BY DEF AInv, AskKept
  <2>4. CASE \E b \in Overrides : AskImage(p, b)
    <3>1. PICK b \in Overrides : AskImage(p, b)
      BY <2>4
    <3>2. /\ asked.pgm = p /\ req.type = "image"
          /\ asked.override = 0 => req.bitness = PgmBitness(p)
      BY <3>1 DEF AskImage
    <3> QED
      BY <2>2, <3>1, <3>2, ImageUnderstood
  <2>5. CASE \E count \in Counts : AskStream(p, count)
    <3>1. PICK count \in Counts : AskStream(p, count)
      BY <2>5
    <3>2. /\ asked.pgm = p /\ asked.count = count /\ req.type = "stream" /\ req.ready = 100
          /\ req.bitness = PgmBitness(p)
      BY <3>1 DEF AskStream
    <3> QED
      BY <2>2, <3>1, <3>2, StreamUnderstood
  <2> QED
    BY <2>3, <2>4, <2>5
<1> QED
  BY <1>1, AlwaysLaidOut, PTL
===============================================================================
