------------------------------ MODULE Admission ------------------------------
(***************************************************************************)
(* Which requests serve_connection lets through to the hardware, and the   *)
(* memory it then commits to them: the stream's slots (stream_slot_bytes)  *)
(* and the descriptor rings (axidma_ring_build), in the arithmetic of the  *)
(* code's integer types; and which requests ojls_client makes of a picture, *)
(* in its own arithmetic.                                                  *)
(*                                                                         *)
(* Widths are parameters, so that a small instance wraps where the program *)
(* does: WordMod stands for 2^32, LenMod for the 26-bit length field of a  *)
(* descriptor, and sizes are in a common unit.                             *)
(***************************************************************************)
EXTENDS Integers, Sequences, FiniteSetsExt

CONSTANTS
    WordMod,              \* 2^32: payload_len and `expect` are uint32_t
    LenMod,               \* 2^26: AXIDMA_DESC_LEN_MASK + 1
    TxSize, RxSize,       \* bytes in the transmit and receive buffers
    DescCap,              \* descriptors in half of the descriptor buffer
    Chunk,                \* AXIDMA_DESC_CHUNK
    Page,                 \* the 4096 of the headroom and of the slots' alignment
    Depth,                \* BITNESS of the bitstream
    MinDim, MaxDim,       \* OJLS_MIN_WIDTH, and the dimensions of MAXDIM
    Dims, Depths, Lens,   \* bounds: the dimensions, depths and lengths asked for
    MaxPgm,               \* 65535: the dimensions a PGM may have
    Maxvals,              \* bounds: the maxvals of PGMs, the -b options of the client,
    Overrides, Counts     \*         0 for none, and the number of images it streams

ASSUME WidthAssumption == WordMod \in Nat \ {0} /\ LenMod \in 1 .. WordMod
ASSUME SizeAssumption  == {TxSize, RxSize, DescCap, Chunk, Page} \subseteq 1 .. WordMod - 1
\* One descriptor carries a chunk, and the ring of an image, over the whole receive
\* buffer, and that of a payload, over at most the transmit buffer, have room.
ASSUME ChunkAssumption == /\ Chunk < LenMod
                          /\ RxSize <= Chunk * DescCap /\ TxSize <= Chunk * DescCap
ASSUME DimAssumption   == Depth \in 8 .. 16 /\ MinDim \in Nat /\ MaxDim \in Nat
\* The bytes of an image never wrap to 0: in the program because its dimensions are
\* below 2^16 (ojls_regs.h:30-31), so that no two of them multiply to 2^31 or 2^32.
ASSUME WrapAssumption  == \A w, h \in (1 .. MaxDim) \cup (1 .. MaxPgm), bytes \in {1, 2} :
                               (w * h * bytes) % WordMod # 0
ASSUME BoundAssumption == Dims \subseteq Nat /\ Depths \subseteq Nat /\ Lens \subseteq 0 .. WordMod - 1
ASSUME PgmAssumption   == /\ MaxPgm \in Nat /\ MaxPgm * MaxPgm < WordMod
                          /\ \A maxval \in Maxvals : maxval \in Nat /\ 0 < maxval /\ maxval < 65536
ASSUME ClientAssumption == Overrides \subseteq Nat /\ Counts \subseteq Nat \ {0}

VARIABLES
    req,                  \* the header received
    asked,                \* the picture, option and count a client made it of, or NotAsked
    verdict,              \* the status given to it, or "none" while it is being judged
    slot,                 \* stride of the images in the receive buffer
    s2mm, mm2s            \* the rings built, as sequences of [base, len]

vars == <<req, asked, verdict, slot, s2mm, mm2s>>

Header == [type : {"image", "stream", "other"}, bitness : Depths, width : Dims, height : Dims,
           len : Lens, ready : {0, 100, 101}]

-----------------------------------------------------------------------------
(* Sizes.                                                                  *)

BytesPerPixel(bitness) == IF bitness <= 8 THEN 1 ELSE 2

\* Bytes of an image of the header's dimensions, and the uint32_t they are
\* compared in.
ImageBytes(r) == r.width * r.height * BytesPerPixel(r.bitness)
Expect(r)     == ImageBytes(r) % WordMod

Count(r) == IF r.type = "stream" THEN r.len \div Expect(r) ELSE 1

SlotTight(image) == ((image + (image \div 4) + Page) \div Page) * Page

\* stream_slot_bytes: headroom for incompressible input, rounded up to a page.
SlotBytes(image) == ((image + (image \div 4) + Page + Page - 1) \div Page) * Page

-----------------------------------------------------------------------------
(* The checks of serve_connection, in its order: a header gets the status   *)
(* of the first that it fails.                                              *)

SizeMismatch(r) ==
    IF r.type = "stream"
    THEN Expect(r) = 0 \/ r.len = 0 \/ r.len % Expect(r) # 0
    ELSE r.len # Expect(r)

BadDims(r) == ~({r.width, r.height} \subseteq 1 .. MaxDim /\ r.width >= MinDim)

TooLargeByPayload(r) == r.len > TxSize \/ r.len + (r.len \div 4) + Page > RxSize

TooLarge(r) ==
    \/ r.len > TxSize
    \/ r.len + (r.len \div 4) + Page > RxSize
    \/ r.type = "stream" /\ (\/ Count(r) * SlotBytes(r.len \div Count(r)) > RxSize
                             \/ Count(r) > DescCap)

Verdict(r) ==
    IF r.type = "other"                              THEN "BAD_TYPE"
    ELSE IF r.type = "stream" /\ r.ready > 100       THEN "BAD_READY"
    ELSE IF r.bitness < 8 \/ r.bitness > 16          THEN "BAD_BITNESS"
    ELSE IF SizeMismatch(r)                          THEN "SIZE_MISMATCH"
    ELSE IF r.bitness # Depth                        THEN "BAD_BITNESS"
    ELSE IF BadDims(r)                               THEN "BAD_DIMS"
    ELSE IF TooLarge(r)                              THEN "TOO_LARGE"
    ELSE "OK"

-----------------------------------------------------------------------------
(* axidma_ring_build: descriptors over `len` bytes in chunks, or <<>> when    *)
(* it refuses.  The length field of a descriptor keeps its low 26 bits.       *)

RingRounded(len, chunk) ==
    [i \in 1 .. len \div chunk |-> [base |-> (i - 1) * chunk, len |-> chunk % LenMod]]

RingOver(len, chunk) ==
    LET count == (len + chunk - 1) \div chunk
    IN  IF len = 0 \/ count > DescCap THEN <<>>
        ELSE [i \in 1 .. count |->
                 LET base == (i - 1) * chunk
                     this == IF len - base > chunk THEN chunk ELSE len - base
                 IN  [base |-> base, len |-> this % LenMod]]

-----------------------------------------------------------------------------
(* ojls_client: what it asks for a PGM.                                     *)

Pgm      == [width : Dims \cap 1 .. MaxPgm, height : Dims \cap 1 .. MaxPgm, maxval : Maxvals]
NotAsked == [override |-> 0, count |-> 0]

\* The depth: the bits of maxval, and 8 at least.
PgmBitness(p) == Min({b \in 8 .. 16 : 2 ^ b - 1 >= p.maxval})

\* The payload: two bytes per pixel when one does not hold maxval, in a uint32_t.
PgmBytes(p) == (p.width * p.height * (IF p.maxval > 255 THEN 2 ELSE 1)) % WordMod

DeeperFits(p, b) == b \in PgmBitness(p) .. 16

\* -b: a greater depth, unless it would change the size of a pixel.
OverrideFits(p, b) ==
    b \in PgmBitness(p) .. 16 /\ ~(PgmBytes(p) \div (p.width * p.height) = 1 /\ b > 8)

AskImage(p, b) ==
    /\ b # 0 => OverrideFits(p, b)
    /\ asked = [pgm |-> p, override |-> b, count |-> 1]
    /\ req = [type |-> "image", bitness |-> IF b = 0 THEN PgmBitness(p) ELSE b, ready |-> 0,
              width |-> p.width, height |-> p.height, len |-> PgmBytes(p)]

\* run_stream: count pictures of one size and depth; -b is not looked at.
AskStream(p, count) ==
    /\ asked = [pgm |-> p, override |-> 0, count |-> count]
    /\ req = [type |-> "stream", bitness |-> PgmBitness(p), ready |-> 100,
              width |-> p.width, height |-> p.height, len |-> (PgmBytes(p) * count) % WordMod]

\* bucket_of: the depth whose bitstream the sweep has loaded when it sends a picture,
\* from the length of maxval in bits.
BitLength(n) == Min({k \in 0 .. 16 : n < 2 ^ k})
Bucket(p)    == Max({8, BitLength(p.maxval)})

-----------------------------------------------------------------------------
\* A header arrives, from ojls_client or from any other program.
Init ==
    /\ \/ req \in Header /\ asked = NotAsked
       \/ \E p \in Pgm, b \in Overrides : AskImage(p, b)
       \/ \E p \in Pgm, count \in Counts : AskStream(p, count)
    /\ verdict = "none"
    /\ slot = 0 /\ s2mm = <<>> /\ mm2s = <<>>

\* serve_connection judges the header; encode_and_reply or stream_and_reply then
\* lays the request out.
Judge ==
    /\ verdict = "none"
    /\ verdict' = Verdict(req)
    /\ IF verdict' = "OK"
       THEN /\ mm2s' = RingOver(req.len, Chunk)
            /\ IF req.type = "stream"
               THEN /\ slot' = SlotBytes(req.len \div Count(req))
                    /\ s2mm' = RingOver(slot' * Count(req), slot')
               ELSE slot' = RxSize /\ s2mm' = RingOver(RxSize, Chunk)
       ELSE UNCHANGED <<slot, s2mm, mm2s>>
    /\ UNCHANGED <<req, asked>>

\* The next header on the connection (bound: it differs in its type only, as every
\* header is an initial one too).
NextHeader ==
    /\ verdict # "none"
    /\ \E type \in {"image", "stream"} : req' = [req EXCEPT !.type = type]
    /\ asked' = NotAsked
    /\ verdict' = "none" /\ slot' = 0 /\ s2mm' = <<>> /\ mm2s' = <<>>

Next == Judge \/ NextHeader

Spec == Init /\ [][Next]_vars

-----------------------------------------------------------------------------
(* Properties.                                                             *)

Admitted == verdict = "OK"

\* The bytes a ring covers.
Covered(ring) ==
    LET sum[i \in 0 .. Len(ring)] == IF i = 0 THEN 0 ELSE sum[i - 1] + ring[i].len
    IN  sum[Len(ring)]

Images == 1 .. Count(req)

\* An admitted request never fails for want of descriptors: both rings can be
\* built (axidma.c:85-96 against ojls_server.c:561-569).
RingsFit == Admitted => s2mm # <<>> /\ mm2s # <<>>

\* Every image of an admitted request has its own part of the receive buffer, of
\* at least its size and a quarter and a page more, starting where a page does and
\* ending inside the buffer: whatever S2MM writes within a slot harms no other.
SlotsDisjoint ==
    Admitted =>
        /\ Count(req) * slot <= RxSize
        /\ Count(req) * (req.len \div Count(req)) = req.len
        /\ LET image == req.len \div Count(req) IN slot >= image + (image \div 4) + Page
        /\ req.type = "stream" =>
              /\ Len(s2mm) = Count(req)
              /\ \A k \in Images : s2mm[k].base = (k - 1) * slot /\ s2mm[k].base % Page = 0

\* MM2S sends the payload, all of it and no more, and within the transmit buffer.
PayloadCovered == Admitted => req.len <= TxSize /\ Covered(mm2s) = req.len

\* Client and server find the size of a pixel in different ways, from maxval
\* (ojls_client.c:140) and from the depth (ojls_proto.h:134), and -b moves one of the
\* two: they agree all the same.  And a picture the sweep sends to a board loaded for it
\* (run_hil_sweep.py:117-120) has the depth of that board.
ClientUnderstood ==
    asked # NotAsked /\ verdict # "none" =>
        /\ verdict \notin {"BAD_TYPE", "BAD_READY"}
        /\ PgmBytes(asked.pgm) * asked.count < WordMod => verdict # "SIZE_MISMATCH"
        /\ asked.override = 0 /\ Bucket(asked.pgm) = Depth => verdict # "BAD_BITNESS"

\* axidma.h:100-105: a ring "maps the contiguous data buffer [buf_phys, buf_phys + len)",
\* so a stream's ring holds every slot.
RingCoversSlots ==
    Admitted /\ req.type = "stream" => Covered(s2mm) = slot * Count(req)
=============================================================================
