-------------------------- MODULE EncodeRepliesProofs --------------------------
(***************************************************************************)
(* What the encode path replies, proved: every image sent is the one asked *)
(* for, whole, whatever fails between two requests.                        *)
(***************************************************************************)
EXTENDS EncodePathProofs, WellFoundedInduction

\* An encoded image fits its slot, and the one descriptor of an image: the headroom
\* of stream_slot_bytes and of the admission (ojls_server.c:352, 561) is for this.
\* Beyond it a stream's images run into each other and a reply of several
\* descriptors may be cut short (axidma.c:183-227, runs foreign_pixels, short_read).
Fits == MaxBeats <= Slot /\ MaxBeats <= Chunk

-----------------------------------------------------------------------------
(* The inductive invariant.                                                *)

Serving  == pc \notin {"idle", "down"}
\* The hardware may be at work for the request.
Encoding == pc \in {"start_mm2s", "wait", "recover_dma"}
\* What it stored is read, or will be.
Storing  == Encoding \/ pc \in {"recover_core", "collect", "send"}

\* Beats from the start of an image in the receive buffer to that of the next.
Stride == IF job.kind = "image" THEN Chunk ELSE Slot

\* The pixels the request consists of, in a copy of the transmit buffer.
HoldsPixels(mem) == \A p \in 0 .. TxLen(job) - 1 : mem[p] = <<job.id, p \div job.size + 1>>

\* Beat n of image k of the request, and where it is stored.
BeatOf(k, n, last) == [own |-> {<<job.id, k>>}, n |-> n, last |-> last]
Place(k, n)        == (k - 1) * Stride + n - 1

\* The payload is in the transmit buffer, and in DRAM once it is synchronised.
Loaded ==
    /\ Serving => HoldsPixels(tx)
    /\ pc \in {"dma_reset", "ring_build", "desc_sync", "start_s2mm"} \/ Encoding => HoldsPixels(txd)

\* An image is one, a stream has its slots, and a status is that of what happened.
JobKept ==
    /\ Serving => job.id # 0
    /\ job.kind = "image" => job.count = 1
    /\ job.kind = "stream" => job.count * Slot <= RxSize
    /\ pc \in {"error", "recover_dma", "recover_core"} => job.status # "OK"
    /\ pc \in {"collect", "send"} /\ job.kind = "image" => job.status = "OK"

\* The encoder is as hw_configure left it, the gate as gate_set did, until pixels come.
Fresh ==
    /\ pc \in {"gate_set", "tx_sync", "dma_reset", "ring_build", "desc_sync", "start_s2mm",
               "start_mm2s"} => core = ResetCore(job.size)
    /\ pc \in {"tx_sync", "dma_reset", "ring_build", "desc_sync", "start_s2mm",
               "start_mm2s"} => gate = NoBeat
    /\ pc \in {"ring_build", "desc_sync", "start_s2mm"} => s2mm = HaltedS2mm
    /\ pc \in {"ring_build", "desc_sync", "start_s2mm", "start_mm2s"} => mm2s = HaltedMm2s

\* Pixels move while a wait looks on, or until the engine is reset after it.
Quiet == Mm2sReady => pc \in {"wait", "recover_dma", "down"}

\* Nothing is stored any more.
Still ==
    pc \in {"recover_core", "collect", "send"} =>
        ~S2mmReady \/ (gate = NoBeat /\ core.got = 0)

\* A ring with a descriptor for each image, of room enough for it.
Laid(ring) ==
    /\ job.count <= Len(ring) /\ (job.kind = "stream" => Len(ring) = job.count)
    /\ \A k \in 1 .. job.count :
          /\ ring[k].base = (k - 1) * Stride /\ MaxBeats <= ring[k].len
          /\ ring[k].base + ring[k].len <= RxSize

Unused(ring) == \A i \in 1 .. Len(ring) : ~ring[i].eof /\ ~ring[i].cmplt

RingKept ==
    /\ pc = "desc_sync" => Laid(line) /\ Unused(line)
    /\ pc = "start_s2mm" => line = desc
    /\ pc \in {"start_s2mm", "start_mm2s"} => Unused(desc)
    /\ pc = "start_s2mm" \/ Storing => Laid(desc)

\* The processor's copy of a descriptor may be old, not wrong.
CopyTrue(i) ==
    line[i] # NoLine =>
        /\ line[i].cmplt => desc[i].cmplt
        /\ line[i].eof => desc[i].eof /\ line[i].used = desc[i].used

CopiesTrue == Encoding \/ pc \in {"start_s2mm", "recover_core", "collect"} =>
    Len(line) = Len(desc) /\ \A i \in 1 .. Len(line) : CopyTrue(i)

\* The first e images are stored, each whole in its place, and no more are.
Recorded(e) ==
    /\ e \in 0 .. job.count
    /\ \A i \in 1 .. Len(desc) : (desc[i].eof <=> i <= e) /\ (desc[i].cmplt <=> i <= e)
    /\ \A k \in 1 .. e :
          /\ desc[k].used \in 1 .. MaxBeats
          /\ \A n \in 1 .. desc[k].used : rx[Place(k, n)] = BeatOf(k, n, n = desc[k].used)

\* d images are encoded, e of them stored, and the beats of the next are on their way.
CoreAt(d) ==
    /\ core.size = job.size
    /\ d * job.size + core.got <= TxLen(job)
    /\ core.own = (IF core.got = 0 THEN {} ELSE {<<job.id, d + 1>>})
    /\ core.got = 0 => core.out = 0
    /\ core.out < MaxBeats
    /\ \/ mm2s.pos = mm2s.end
       \/ mm2s.pos = d * job.size + core.got /\ mm2s.end = TxLen(job)

GateAt(e, d) ==
    gate # NoBeat =>
        IF gate.last THEN e < d /\ core.out = 0 /\ gate = BeatOf(d, gate.n, TRUE)
                     ELSE core.got > 0 /\ gate.n = core.out /\ gate = BeatOf(d + 1, gate.n, FALSE)

S2mmAt(e, d) ==
    S2mmReady =>
        /\ s2mm.cur = e + 1
        /\ IF gate = NoBeat THEN d = e /\ s2mm.off = core.out
                            ELSE /\ d = (IF gate.last THEN e + 1 ELSE e)
                                 /\ s2mm.off + 1 = gate.n
        /\ \A n \in 1 .. s2mm.off : rx[Place(e + 1, n)] = BeatOf(e + 1, n, FALSE)

Flow == Encoding =>
    \E e, d \in 0 .. job.count : Recorded(e) /\ e <= d /\ CoreAt(d) /\ GateAt(e, d) /\ S2mmAt(e, d)

ImagesKept == pc \in {"recover_core", "collect", "send"} => \E e \in 0 .. job.count : Recorded(e)

\* A wait that ends well has seen the last image closed.
WaitSaw ==
    /\ pc = "wait" /\ wait.at = "last" /\ wait.eof /\ job.kind = "image" => View(1).eof
    /\ pc = "wait" /\ wait.at = "done" /\ wait.ret = 0 =>
          desc[job.count].eof /\ (job.kind = "image" => View(1).eof)
    /\ pc = "collect" /\ job.status = "OK" =>
          desc[job.count].eof /\ (job.kind = "image" => View(1).eof)
    /\ pc = "send" /\ job.status = "OK" => desc[job.count].eof

\* The reply being sent holds images of this request, and the rest will be.
Replying ==
    pc = "send" =>
        /\ reply.id = job.id /\ reply.kind = job.kind /\ reply.count = job.count
        /\ reply.status = job.status /\ ~reply.done
        /\ Len(reply.body) < job.count
        /\ \A k \in 1 .. job.count : lens[k] = IF desc[k].eof THEN desc[k].used ELSE 0
        /\ \A k \in 1 .. job.count : \A n \in 1 .. lens[k] :
              rxc[Place(k, n)] \in {NoLine, rx[Place(k, n)]}
        /\ reply.status = "OK" => \A k \in 1 .. Len(reply.body) : reply.body[k] # <<>>

Reply == [id : 0 .. MaxReq, kind : {"image", "stream"}, count : Image, status : Status,
          body : Seq(Seq(Beat)), done : BOOLEAN]

ReplyInv ==
    /\ reply \in Reply
    /\ RepliesWhole /\ OkComplete

IInv ==
    /\ Loaded /\ JobKept /\ Fresh /\ Quiet /\ Still
    /\ RingKept /\ CopiesTrue /\ Flow /\ ImagesKept
    /\ WaitSaw /\ Replying /\ ReplyInv
-----------------------------------------------------------------------------
(* What a step leaves as it was.                                           *)

SameJob == job'.id = job.id /\ job'.kind = job.kind /\ job'.count = job.count /\ job'.size = job.size

LEMMA JobStays ==
    ASSUME TypeInv, NEW next, NEW status, Goto(next) \/ Refuse(status)
    PROVE  /\ SameJob /\ pc' \in {next, "error"}
           /\ Goto(next) => job' = job /\ pc' = next
           /\ Refuse(status) => job'.status = status /\ pc' = "error"
  BY DEF TypeInv, TypeOK, ServerTypeOK, Job, Goto, Refuse, SameJob

LEMMA ReplyStays == ReplyInv /\ reply' = reply => ReplyInv'
  BY DEF ReplyInv, RepliesWhole, OkComplete, IsWhole, Reply, Status, Beat

\* Before a request starts the hardware, and after it ends, only this is said.
Early ==
    pc \in {"idle", "configure", "gate_set", "tx_sync", "dma_reset", "ring_build", "desc_sync",
            "start_s2mm", "error", "down"}

LEMMA EarlyInv ==
    ASSUME Early', Loaded', JobKept', Fresh', Quiet', RingKept', CopiesTrue', ReplyInv'
    PROVE  IInv'
  BY DEF Early, IInv, Encoding, Storing, Still, Flow, ImagesKept, WaitSaw, Replying

-----------------------------------------------------------------------------
(* The steps that prepare the hardware.                                    *)

LEMMA ReceiveKeeps == TypeInv /\ IInv /\ Receive => IInv'
<1> SUFFICES ASSUME TypeInv, IInv, Receive PROVE IInv'
  OBVIOUS
<1>1. PICK kind \in Kinds, size \in Sizes, count \in 1 .. MaxCount :
         LET j == [NoJob EXCEPT !.id = job.id + 1, !.kind = kind, !.count = count, !.size = size]
         IN  /\ kind = "image" => count = 1
             /\ kind = "stream" => count * Slot <= RxSize
             /\ TxLen(j) <= TxSize /\ job' = j /\ tx' = Stored(tx, j)
  BY DEF Receive
<1>2. job' = [id |-> job.id + 1, kind |-> kind, count |-> count, size |-> size, status |-> "OK"]
  BY <1>1 DEF NoJob
<1>3. HoldsPixels(tx)'
  <2>1. tx' = [p \in 0 .. TxSize - 1 |-> IF p < count * size THEN <<job.id + 1, p \div size + 1>>
                                                              ELSE tx[p]]
    BY <1>1, <1>2 DEF Stored, TxLen
  <2>2. TxLen(job') = count * size /\ count * size <= TxSize
    BY <1>1, <1>2 DEF TxLen
  <2>3. count * size \in Int /\ TxSize \in Int
    BY SizeAssumption, RoomAssumption
  <2> QED
    BY <1>2, <2>1, <2>2, <2>3 DEF HoldsPixels
<1>4. pc' \in {"configure", "idle"} /\ UNCHANGED <<dmaVars, core, gate, reply>>
  BY DEF Receive
<1>5. Loaded' /\ JobKept'
  BY <1>1, <1>2, <1>3, <1>4 DEF TypeInv, TypeOK, ServerTypeOK, Job, Loaded, JobKept, Serving, Encoding
<1>6. Fresh' /\ Quiet' /\ RingKept' /\ CopiesTrue'
  BY <1>4 DEF Receive, IInv, Quiet, Fresh, Mm2sReady, RingKept, CopiesTrue, Encoding, Storing, dmaVars
<1>7. ReplyInv'
  BY <1>4, ReplyStays DEF IInv
<1> QED
  BY <1>4, <1>5, <1>6, <1>7, EarlyInv DEF Early

\* A stream's ring has a descriptor per slot, an image's at least one.
LEMMA RingIsLaid ==
    ASSUME Fits, TypeInv, JobKept, RingsBuilt
    PROVE  Laid(line') /\ Unused(line')
<1>1. /\ Slot \in Nat \ {0} /\ Slot <= RxSize /\ Chunk \in Nat \ {0} /\ RxSize \in Nat \ {0}
      /\ MaxBeats \in Nat \ {0} /\ MaxBeats <= Slot /\ MaxBeats <= Chunk
      /\ job.count \in Nat \ {0} /\ job.kind \in {"image", "stream"}
  BY RoomAssumption, BoundAssumption DEF Fits, TypeInv, TypeOK, ServerTypeOK, Job, Image
<1>2. CASE job.kind = "image"
  <2> DEFINE n == (RxSize + Chunk - 1) \div Chunk
  <2>1. n \in Nat /\ RxSize + Chunk - 1 < (n + 1) * Chunk
    BY <1>1, Quotient
  <2>2. n # 0
    BY <1>1, <2>1
  <2> HIDE DEF n
  <2>3. line' = [i \in 1 .. n |-> [base |-> (i - 1) * Chunk,
                 len |-> IF RxSize - (i - 1) * Chunk > Chunk THEN Chunk ELSE RxSize - (i - 1) * Chunk,
                 used |-> 0, cmplt |-> FALSE, eof |-> FALSE, err |-> FALSE]]
    BY <1>2 DEF RingsBuilt, RingBuild, Ring, n
  <2>4. Len(line') = n /\ job.count = 1
    BY <1>2, <2>1, <2>3 DEF JobKept
  <2>5. line'[1].base = 0 /\ MaxBeats <= line'[1].len /\ line'[1].len <= RxSize
    <3>1. 1 \in 1 .. n /\ (1 - 1) * Chunk = 0 /\ RxSize - 0 = RxSize
      BY <1>1, <2>1, <2>2
    <3>2. /\ line'[1].base = (1 - 1) * Chunk
          /\ line'[1].len = IF RxSize - (1 - 1) * Chunk > Chunk THEN Chunk
                            ELSE RxSize - (1 - 1) * Chunk
      BY <2>3, <3>1
    <3> QED
      BY <1>1, <3>1, <3>2
  <2> QED
    BY <1>1, <1>2, <2>1, <2>2, <2>3, <2>4, <2>5 DEF Laid, Unused, Stride
<1>3. CASE job.kind = "stream"
  <2>1. PICK total \in Nat : total = Slot * job.count /\ total = job.count * Slot
    BY <1>1
  <2> DEFINE n == (total + Slot - 1) \div Slot
  <2>2. n \in Nat /\ n * Slot <= total + Slot - 1 /\ total + Slot - 1 < (n + 1) * Slot
    <3>1. total + Slot - 1 \in Nat
      BY <1>1
    <3> QED
      BY <1>1, <3>1, Quotient
  <2>4. line' = [i \in 1 .. n |-> [base |-> (i - 1) * Slot,
                 len |-> IF total - (i - 1) * Slot > Slot THEN Slot ELSE total - (i - 1) * Slot,
                 used |-> 0, cmplt |-> FALSE, eof |-> FALSE, err |-> FALSE]]
    BY <1>3, <2>1 DEF RingsBuilt, RingBuild, Ring, n
  <2> HIDE DEF n
  <2>3. n = job.count
    <3>1. ASSUME n < job.count PROVE FALSE
      <4>1. (n + 1) * Slot <= job.count * Slot
        BY <1>1, <2>2, <3>1, ProductMonotone
      <4> QED
        BY <1>1, <2>1, <2>2, <4>1
    <3>2. ASSUME job.count < n PROVE FALSE
      <4>1. (job.count + 1) * Slot <= n * Slot /\ (job.count + 1) * Slot = job.count * Slot + Slot
        BY <1>1, <2>2, <3>2, ProductMonotone
      <4> QED
        BY <1>1, <2>1, <2>2, <4>1
    <3> QED
      BY <1>1, <2>2, <3>1, <3>2
  <2>5. ASSUME NEW k \in 1 .. job.count
        PROVE  /\ line'[k].base = (k - 1) * Slot /\ line'[k].len = Slot
               /\ line'[k].base + line'[k].len <= RxSize
    <3>1. k * Slot <= job.count * Slot /\ (k - 1) * Slot = k * Slot - Slot
      BY <1>1, ProductMonotone
    <3>2. (k - 1) * Slot + Slot <= job.count * Slot /\ job.count * Slot <= RxSize
      BY <1>1, <1>3, <3>1 DEF JobKept
    <3>3. PICK base \in Int : base = (k - 1) * Slot
      BY <1>1
    <3>4. line'[k].base = base /\ line'[k].len = IF total - base > Slot THEN Slot ELSE total - base
      BY <2>3, <2>4, <3>3
    <3>5. base + Slot <= total /\ total <= RxSize
      BY <2>1, <3>2, <3>3
    <3> QED
      BY <1>1, <3>3, <3>4, <3>5
  <2>6. Len(line') = job.count /\ \A i \in 1 .. Len(line') : ~line'[i].eof /\ ~line'[i].cmplt
    BY <2>2, <2>3, <2>4
  <2>7. Stride = Slot
    BY <1>3 DEF Stride
  <2> QED
    BY <1>1, <2>5, <2>6, <2>7 DEF Laid, Unused
<1> QED
  BY <1>1, <1>2, <1>3

\* hw_configure resets the encoder while MM2S is quiet: no pixel comes after.
LEMMA ConfigureKeeps == TypeInv /\ IInv /\ Configure => IInv'
<1> SUFFICES ASSUME TypeInv, IInv, Configure PROVE IInv'
  OBVIOUS
<1>1. /\ SameJob /\ UNCHANGED <<dmaVars, tx, txd, gate, reply>>
      /\ \/ pc' = "gate_set" /\ job' = job /\ core' = ResetCore(job.size)
         \/ pc' = "error" /\ job'.status = "HW_ERROR"
  BY JobStays DEF Configure, Configured
<1>2. Loaded' /\ JobKept'
  BY <1>1 DEF Configure, IInv, Loaded, JobKept, Serving, Encoding, HoldsPixels, TxLen, SameJob
<1>3. Fresh' /\ Quiet' /\ RingKept' /\ CopiesTrue'
  BY <1>1 DEF Configure, IInv, Quiet, Fresh, Mm2sReady, RingKept, CopiesTrue, Encoding, Storing, dmaVars
<1> QED
  BY <1>1, <1>2, <1>3, ReplyStays, EarlyInv DEF Early, IInv

LEMMA GateSetKeeps == TypeInv /\ IInv /\ GateSet => IInv'
<1> SUFFICES ASSUME TypeInv, IInv, GateSet PROVE IInv'
  OBVIOUS
<1>1. /\ SameJob /\ UNCHANGED <<dmaVars, tx, txd, core, reply>> /\ gate' = NoBeat
      /\ \/ pc' = "tx_sync" /\ job' = job
         \/ pc' = "error" /\ job'.status = "HW_ERROR"
  BY JobStays DEF GateSet
<1>2. Loaded' /\ JobKept'
  BY <1>1 DEF GateSet, IInv, Loaded, JobKept, Serving, Encoding, HoldsPixels, TxLen, SameJob
<1>3. Fresh' /\ Quiet' /\ RingKept' /\ CopiesTrue'
  BY <1>1 DEF GateSet, IInv, Quiet, Fresh, Mm2sReady, RingKept, CopiesTrue, Encoding, Storing, dmaVars,
              SameJob
<1> QED
  BY <1>1, <1>2, <1>3, ReplyStays, EarlyInv DEF Early, IInv

LEMMA TxSyncKeeps == TypeInv /\ IInv /\ TxSync => IInv'
<1> SUFFICES ASSUME TypeInv, IInv, TxSync PROVE IInv'
  OBVIOUS
<1>1. /\ SameJob /\ UNCHANGED <<dmaVars, tx, core, gate, reply>>
      /\ \/ /\ pc' = "dma_reset" /\ job' = job
            /\ txd' = [p \in 0 .. TxSize - 1 |-> IF p < TxLen(job) THEN tx[p] ELSE txd[p]]
         \/ pc' = "error" /\ job'.status = "HW_ERROR"
  BY JobStays DEF TxSync
<1>2. Loaded' /\ JobKept'
  <2>1. TxLen(job) \in Int /\ TxLen(job) <= TxSize /\ TxSize \in Int
    BY RoomAssumption DEF TypeInv, TypeOK, ServerTypeOK, Job, Image, TxLen
  <2>2. HoldsPixels(tx) /\ TxLen(job') = TxLen(job)
    BY <1>1 DEF TxSync, IInv, Loaded, Serving, SameJob, TxLen
  <2>3. pc' = "dma_reset" => HoldsPixels(txd)'
    BY <1>1, <2>1, <2>2 DEF HoldsPixels, SameJob
  <2>4. HoldsPixels(tx)'
    BY <1>1, <2>2 DEF HoldsPixels, SameJob
  <2> QED
    BY <1>1, <2>3, <2>4 DEF TxSync, IInv, Loaded, JobKept, Serving, Encoding, SameJob
<1>3. Fresh' /\ Quiet' /\ RingKept' /\ CopiesTrue'
  BY <1>1 DEF TxSync, IInv, Quiet, Fresh, Mm2sReady, RingKept, CopiesTrue, Encoding, Storing, dmaVars,
              SameJob
<1> QED
  BY <1>1, <1>2, <1>3, ReplyStays, EarlyInv DEF Early, IInv

LEMMA DmaResetKeeps == TypeInv /\ IInv /\ DmaReset => IInv'
<1> SUFFICES ASSUME TypeInv, IInv, DmaReset PROVE IInv'
  OBVIOUS
<1>1. /\ SameJob /\ UNCHANGED <<desc, line, tx, txd, core, gate, reply>>
      /\ s2mm' = HaltedS2mm /\ mm2s' = HaltedMm2s
      /\ \/ pc' = "ring_build" /\ job' = job
         \/ pc' = "error" /\ job'.status = "HW_ERROR"
  BY JobStays DEF DmaReset, ResetDma
<1>2. Loaded' /\ JobKept'
  BY <1>1 DEF DmaReset, IInv, Loaded, JobKept, Serving, Encoding, HoldsPixels, TxLen, SameJob
<1>3. Fresh' /\ Quiet' /\ RingKept' /\ CopiesTrue'
  BY <1>1 DEF DmaReset, IInv, Quiet, Fresh, Mm2sReady, RingKept, CopiesTrue, Encoding, Storing,
              SameJob, HaltedMm2s
<1> QED
  BY <1>1, <1>2, <1>3, ReplyStays, EarlyInv DEF Early, IInv

LEMMA BuildRingsKeeps == Fits /\ TypeInv /\ IInv /\ BuildRings => IInv'
<1> SUFFICES ASSUME Fits, TypeInv, IInv, BuildRings PROVE IInv'
  OBVIOUS
<1>1. /\ job' = job /\ UNCHANGED <<s2mm, mm2s, tx, txd, core, gate, reply>>
      /\ pc' = "desc_sync" /\ pc = "ring_build" /\ RingsBuilt
  BY DEF BuildRings, Goto
<1>2. Loaded' /\ JobKept'
  BY <1>1 DEF IInv, Loaded, JobKept, Serving, Encoding, HoldsPixels, TxLen
<1>3. Laid(line)' /\ Unused(line)'
  <2>1. Laid(line') /\ Unused(line')
    BY <1>1, RingIsLaid DEF IInv
  <2> QED
    BY <1>1, <2>1 DEF Laid, Unused, Stride
<1>4. Fresh' /\ Quiet' /\ RingKept' /\ CopiesTrue'
  BY <1>1, <1>3 DEF IInv, Quiet, Fresh, Mm2sReady, RingKept, CopiesTrue, Encoding, Storing
<1> QED
  BY <1>1, <1>2, <1>4, ReplyStays, EarlyInv DEF Early, IInv

LEMMA SyncRingsKeeps == TypeInv /\ IInv /\ SyncRings => IInv'
<1> SUFFICES ASSUME TypeInv, IInv, SyncRings PROVE IInv'
  OBVIOUS
<1>1. /\ SameJob /\ UNCHANGED <<line, s2mm, mm2s, tx, txd, core, gate, reply>>
      /\ pc = "desc_sync" /\ line \in Seq(Descriptor)
      /\ \/ pc' = "start_s2mm" /\ job' = job /\ desc' = line
         \/ pc' = "error" /\ job'.status = "HW_ERROR"
  BY JobStays DEF SyncRings, RingSync, TypeInv, RingShape
<1>2. Loaded' /\ JobKept'
  BY <1>1 DEF IInv, Loaded, JobKept, Serving, Encoding, HoldsPixels, TxLen, SameJob
<1>3. Fresh' /\ Quiet'
  BY <1>1 DEF IInv, Quiet, Fresh, Mm2sReady, SameJob
<1>4. RingKept' /\ CopiesTrue'
  <2>1. CASE pc' = "error"
    BY <2>1 DEF RingKept, CopiesTrue, Encoding, Storing
  <2>2. CASE pc' = "start_s2mm" /\ job' = job /\ desc' = line
    <3>1. Laid(line) /\ Unused(line)
      BY <1>1 DEF IInv, RingKept
    <3>2. Laid(desc)' /\ Unused(desc)'
      BY <2>2, <3>1 DEF Laid, Unused, Stride
    <3>3. line' = desc' /\ Len(line') = Len(desc')
      BY <1>1, <2>2
    <3> QED
      BY <2>2, <3>2, <3>3 DEF RingKept, CopiesTrue, CopyTrue
  <2> QED
    BY <1>1, <2>1, <2>2
<1> QED
  BY <1>1, <1>2, <1>3, <1>4, ReplyStays, EarlyInv DEF Early, IInv

-----------------------------------------------------------------------------
(* The server dies, another starts.                                        *)

LEMMA RecordStays ==
    ASSUME NEW e, Recorded(e), SameJob, UNCHANGED <<desc, rx>>
    PROVE  Recorded(e)'
  BY DEF Recorded, SameJob, Place, Stride, BeatOf

LEMMA ImagesStay ==
    ASSUME \E e \in 0 .. job.count : Recorded(e), SameJob, UNCHANGED <<desc, rx>>
    PROVE  (\E e \in 0 .. job.count : Recorded(e))'
<1>1. PICK e \in 0 .. job.count : Recorded(e)
  OBVIOUS
<1>2. Recorded(e)' /\ e \in 0 .. job'.count
  BY <1>1, RecordStays DEF SameJob
<1> QED
  BY <1>2

LEMMA CrashKeeps == TypeInv /\ IInv /\ Crash => IInv'
<1> SUFFICES ASSUME TypeInv, IInv, Crash PROVE IInv'
  OBVIOUS
<1>1. pc' = "down" /\ UNCHANGED <<desc, line, s2mm, mm2s, job, tx, txd, core, gate, reply>>
  BY DEF Crash
<1>2. Loaded' /\ JobKept' /\ Fresh' /\ Quiet' /\ RingKept' /\ CopiesTrue'
  BY <1>1 DEF IInv, Loaded, JobKept, Fresh, Quiet, RingKept, CopiesTrue, Serving, Encoding, Storing
<1> QED
  BY <1>1, <1>2, ReplyStays, EarlyInv DEF Early, IInv

LEMMA RestartKeeps == TypeInv /\ IInv /\ Restart => IInv'
<1> SUFFICES ASSUME TypeInv, IInv, Restart PROVE IInv'
  OBVIOUS
<1>1. /\ pc' = "idle" /\ UNCHANGED <<desc, line, job, tx, txd, core, gate, reply>>
      /\ mm2s' = HaltedMm2s
  BY DEF Restart, ResetDma
<1>2. Loaded' /\ JobKept' /\ Fresh' /\ Quiet' /\ RingKept' /\ CopiesTrue'
  BY <1>1 DEF IInv, Loaded, JobKept, Fresh, Quiet, RingKept, CopiesTrue, Serving, Encoding, Storing,
              Mm2sReady, HaltedMm2s
<1> QED
  BY <1>1, <1>2, ReplyStays, EarlyInv DEF Early, IInv

\* What holds whatever the engine is at: all but the four parts that speak of it.
LEMMA AsideStays ==
    ASSUME IInv, UNCHANGED <<pc, job, tx, txd, desc, line, rx, rxc, wait, lens, reply>>
    PROVE  /\ Loaded' /\ JobKept' /\ RingKept' /\ CopiesTrue' /\ ImagesKept'
           /\ WaitSaw' /\ Replying' /\ ReplyInv'
<1>1. Loaded' /\ JobKept'
  BY DEF IInv, Loaded, JobKept, Serving, Encoding, HoldsPixels, TxLen
<1>2. RingKept' /\ CopiesTrue'
  BY DEF IInv, RingKept, CopiesTrue, CopyTrue, Laid, Unused, Stride, Encoding, Storing
<1>3. ImagesKept'
  BY ImagesStay DEF IInv, ImagesKept, SameJob
<1>4. WaitSaw'
  BY DEF IInv, WaitSaw, View
<1>5. Replying'
  BY DEF IInv, Replying, Place, Stride
<1> QED
  BY <1>1, <1>2, <1>3, <1>4, <1>5, ReplyStays DEF IInv

\* A second server halts both channels at any moment: what is stored stays, and
\* nothing more comes.
LEMMA SecondServerKeeps == TypeInv /\ IInv /\ SecondServer => IInv'
<1> SUFFICES ASSUME TypeInv, IInv, SecondServer PROVE IInv'
  OBVIOUS
<1>1. /\ UNCHANGED <<pc, job, tx, txd, desc, line, rx, rxc, wait, lens, reply, core, gate>>
      /\ s2mm' = HaltedS2mm /\ mm2s' = HaltedMm2s
  BY DEF SecondServer, ResetDma, serverVars
<1>2. Fresh' /\ Quiet' /\ Still'
  BY <1>1 DEF IInv, Fresh, Quiet, Still, Mm2sReady, HaltedMm2s, S2mmReady, HaltedS2mm
<1>3. Flow'
  <2> SUFFICES ASSUME Encoding'
               PROVE  (\E e, d \in 0 .. job.count : Recorded(e) /\ e <= d /\ CoreAt(d) /\ GateAt(e, d)
                                                    /\ S2mmAt(e, d))'
    BY DEF Flow
  <2>1. PICK e, d \in 0 .. job.count : Recorded(e) /\ e <= d /\ CoreAt(d) /\ GateAt(e, d)
    BY <1>1 DEF IInv, Flow, Encoding
  <2>2. Recorded(e)'
    BY <1>1, <2>1, RecordStays DEF SameJob
  <2>3. CoreAt(d)'
    BY <1>1, <2>1 DEF CoreAt, TxLen, HaltedMm2s
  <2>4. GateAt(e, d)' /\ S2mmAt(e, d)'
    BY <1>1, <2>1 DEF GateAt, BeatOf, S2mmAt, S2mmReady, HaltedS2mm
  <2> QED
    BY <1>1, <2>1, <2>2, <2>3, <2>4
<1> QED
  BY <1>1, <1>2, <1>3, AsideStays DEF IInv

-----------------------------------------------------------------------------
(* The hardware at work.                                                   *)

\* The next pixel of a payload belongs to the image the encoder is at.
LEMMA PixelOf ==
    ASSUME NEW d \in Nat, NEW s \in Nat \ {0}, NEW g \in Nat, g < s
    PROVE  (d * s + g) \div s = d
<1>1. PICK p \in Nat : p = d * s + g
  OBVIOUS
<1>2. p \div s \in Nat /\ (p \div s) * s <= p /\ p < (p \div s + 1) * s
  BY Quotient
<1>3. ASSUME p \div s < d PROVE FALSE
  <2>1. (p \div s + 1) * s <= d * s
    BY <1>2, <1>3, ProductMonotone
  <2> QED
    BY <1>1, <1>2, <2>1
<1>4. ASSUME d < p \div s PROVE FALSE
  <2>1. (d + 1) * s <= (p \div s) * s /\ (d + 1) * s = d * s + s
    BY <1>2, <1>4, ProductMonotone
  <2> QED
    BY <1>1, <1>2, <2>1
<1> QED
  BY <1>1, <1>2, <1>3, <1>4

LEMMA NextMultiple == ASSUME NEW d \in Int, NEW s \in Int PROVE (d + 1) * s = d * s + s
  OBVIOUS

\* A multiple of a size within another bounds the factor.
LEMMA FactorBound ==
    ASSUME NEW d \in Nat, NEW c \in Nat, NEW s \in Nat \ {0}, d * s <= c * s
    PROVE  d <= c
<1>1. ASSUME c < d PROVE FALSE
  <2>1. (c + 1) * s <= d * s /\ (c + 1) * s = c * s + s
    BY <1>1, ProductMonotone
  <2> QED
    BY <2>1
<1> QED
  BY <1>1

LEMMA JobTyped ==
    ASSUME TypeInv
    PROVE  /\ job.id \in Nat /\ job.count \in Nat \ {0} /\ job.count <= MaxCount
           /\ job.size \in Nat \ {0} /\ job.kind \in {"image", "stream"}
           /\ TxLen(job) = job.count * job.size /\ TxLen(job) \in Nat /\ TxLen(job) <= TxSize
<1>1. /\ job.id \in Nat /\ job.count \in Nat \ {0} /\ job.count <= MaxCount
      /\ job.size \in Nat \ {0} /\ job.kind \in {"image", "stream"} /\ TxLen(job) <= TxSize
  BY BoundAssumption DEF TypeInv, TypeOK, ServerTypeOK, Job, Image
<1>2. job.count * job.size \in Nat
  BY <1>1
<1> QED
  BY <1>1, <1>2 DEF TxLen

LEMMA TagOfImage ==
    ASSUME TypeInv, JobKept, Serving, NEW k \in 1 .. job.count
    PROVE  <<job.id, k>> \in Tag /\ <<job.id, k>> # NoBeat
<1>1. job.id \in Request /\ k \in Image
  BY JobTyped, BoundAssumption DEF TypeInv, TypeOK, ServerTypeOK, Job, JobKept, Request, Image
<1> QED
  BY <1>1, BeatAssumption DEF Tag

\* The encoder takes a pixel of the image it is at.
LEMMA CorePullKeeps == TypeInv /\ IInv /\ CorePull => IInv'
<1> SUFFICES ASSUME TypeInv, IInv, CorePull PROVE IInv'
  OBVIOUS
<1>1. /\ UNCHANGED <<pc, job, tx, txd, desc, line, rx, rxc, wait, lens, reply, s2mm, gate>>
      /\ Mm2sReady /\ mm2s' = [mm2s EXCEPT !.pos = @ + 1]
      /\ core.got < core.size
      /\ core' = [core EXCEPT !.got = @ + 1, !.own = @ \cup ({txd[mm2s.pos]} \ {NoBeat})]
  BY DEF CorePull, Mm2sRead, serverVars
<1>2. pc \in {"wait", "recover_dma", "down"}
  BY <1>1 DEF IInv, Quiet
<1>3. Fresh' /\ Quiet' /\ Still'
  BY <1>1, <1>2 DEF Fresh, Quiet, Still
<1>4. /\ mm2s \in Mm2sChannel /\ mm2s.pos < mm2s.end /\ mm2s.pos \in Nat
      /\ mm2s'.pos = mm2s.pos + 1 /\ mm2s'.end = mm2s.end
      /\ core.got \in Nat /\ core.out \in Nat /\ core'.got = core.got + 1
      /\ core'.size = core.size /\ core'.out = core.out
      /\ core'.own = core.own \cup ({txd[mm2s.pos]} \ {NoBeat})
  BY <1>1 DEF Mm2sReady, TypeInv, TypeOK, PipelineTypeOK, Mm2sChannel, Core
<1>5. Flow'
  <2> SUFFICES ASSUME Encoding'
               PROVE  (\E e, d \in 0 .. job.count : Recorded(e) /\ e <= d /\ CoreAt(d) /\ GateAt(e, d)
                                                    /\ S2mmAt(e, d))'
    BY DEF Flow
  <2>1. PICK e, d \in 0 .. job.count :
            Recorded(e) /\ e <= d /\ CoreAt(d) /\ GateAt(e, d) /\ S2mmAt(e, d)
    BY <1>1 DEF IInv, Flow, Encoding
  <2>2. Recorded(e)'
    BY <1>1, <2>1, RecordStays DEF SameJob
  <2>3. mm2s.pos = d * job.size + core.got /\ mm2s.end = TxLen(job) /\ core.size = job.size
    BY <1>4, <2>1 DEF CoreAt
  <2>4. txd[mm2s.pos] = <<job.id, d + 1>>
    <3>1. HoldsPixels(txd) /\ mm2s.pos \in 0 .. TxLen(job) - 1
      BY <1>1, <1>2, <1>4, <2>3, JobTyped DEF IInv, Loaded, Encoding
    <3>2. mm2s.pos \div job.size = d
      BY <1>1, <1>4, <2>1, <2>3, PixelOf, JobTyped
    <3> QED
      BY <3>1, <3>2 DEF HoldsPixels
  <2>5. <<job.id, d + 1>> # NoBeat => core'.own = {<<job.id, d + 1>>}
    BY <1>4, <2>1, <2>4 DEF CoreAt
  <2>6. <<job.id, d + 1>> # NoBeat
    <3>1. d < job.count
      <4>1. d * job.size < job.count * job.size
        BY <1>4, <2>3, JobTyped
      <4>2. ASSUME job.count <= d PROVE FALSE
        <5>1. job.count * job.size <= d * job.size
          BY <4>2, JobTyped, ProductMonotone
        <5> QED
          BY <4>1, <5>1, JobTyped
      <4> QED
        BY <4>2, JobTyped
    <3> QED
      <4>1. d + 1 \in 1 .. job.count
        BY <3>1, JobTyped
      <4>2. Serving /\ JobKept
        BY <1>1 DEF IInv, Encoding, Serving
      <4> QED
        BY <4>1, <4>2, TagOfImage
  <2>7. CoreAt(d)'
    BY <1>1, <1>4, <2>1, <2>3, <2>5, <2>6, JobTyped DEF CoreAt, TxLen
  <2>8. GateAt(e, d)' /\ S2mmAt(e, d)'
    BY <1>1, <1>4, <2>1 DEF GateAt, BeatOf, S2mmAt, S2mmReady, Place, Stride
  <2> QED
    BY <1>1, <2>1, <2>2, <2>7, <2>8
<1> QED
  BY <1>1, <1>3, <1>5, AsideStays DEF IInv

\* The encoder hands over a beat of the image it is at; after the last it is at the next.
LEMMA CorePushKeeps == TypeInv /\ IInv /\ CorePush => IInv'
<1> SUFFICES ASSUME TypeInv, IInv, CorePush PROVE IInv'
  OBVIOUS
<1>1. /\ UNCHANGED <<pc, job, tx, txd, desc, line, rx, rxc, wait, lens, reply, s2mm, mm2s>>
      /\ gate = NoBeat /\ core.got > 0 /\ core.out < MaxBeats
      /\ core.got \in Nat /\ core.out \in Nat /\ core.size \in Nat /\ core.got <= core.size
  BY DEF CorePush, dmaVars, serverVars, TypeInv, TypeOK, PipelineTypeOK, Core
<1>2. PICK last \in BOOLEAN :
         /\ last => core.got = core.size
         /\ core.out + 1 = MaxBeats => last
         /\ gate' = [own |-> core.own, n |-> core.out + 1, last |-> last]
         /\ core' = IF last THEN ResetCore(core.size) ELSE [core EXCEPT !.out = @ + 1]
  BY DEF CorePush
<1>3. Fresh' /\ Quiet' /\ Still'
  BY <1>1 DEF IInv, Fresh, Quiet, Still, ResetCore, Mm2sReady, S2mmReady
<1>4. gate' # NoBeat
  <2>1. core.own \in SUBSET Tag /\ core.out + 1 \in 1 .. MaxBeats
    BY <1>1, BoundAssumption DEF TypeInv, TypeOK, PipelineTypeOK, Core
  <2>2. gate' \in Beat
    BY <1>2, <2>1, Zenon DEF Beat
  <2> QED
    BY <2>2, BeatAssumption
<1>5. gate'.own = core.own /\ gate'.n = core.out + 1 /\ gate'.last = last
  BY <1>2
<1>6. /\ last => core' = ResetCore(core.size)
      /\ ~last => /\ core'.size = core.size /\ core'.got = core.got /\ core'.own = core.own
                  /\ core'.out = core.out + 1
  BY <1>2 DEF TypeInv, TypeOK, PipelineTypeOK, Core
<1>7. Flow'
  <2> SUFFICES ASSUME Encoding'
               PROVE  (\E e, d \in 0 .. job.count : Recorded(e) /\ e <= d /\ CoreAt(d) /\ GateAt(e, d)
                                                    /\ S2mmAt(e, d))'
    BY DEF Flow
  <2>1. PICK e, d \in 0 .. job.count :
            Recorded(e) /\ e <= d /\ CoreAt(d) /\ GateAt(e, d) /\ S2mmAt(e, d)
    BY <1>1 DEF IInv, Flow, Encoding
  <2>2. Recorded(e)'
    BY <1>1, <2>1, RecordStays DEF SameJob
  <2>3. gate' = BeatOf(d + 1, core.out + 1, last)
    <3>1. core.own = {<<job.id, d + 1>>}
      BY <1>1, <2>1 DEF CoreAt
    <3> QED
      BY <1>2, <3>1 DEF BeatOf
  <2>4. CASE last
    <3>1. d + 1 \in 0 .. job.count /\ (d + 1) * job.size <= TxLen(job)
      <4>1. (d + 1) * job.size <= job.count * job.size
        BY <1>1, <1>2, <2>1, <2>4, JobTyped DEF CoreAt
      <4> QED
        BY <4>1, JobTyped, FactorBound
    <3>2. CoreAt(d + 1)'
      <4>1. mm2s.pos = d * job.size + core.got => mm2s.pos = (d + 1) * job.size
        <5>1. core.got = job.size
          BY <1>2, <2>1, <2>4 DEF CoreAt
        <5>2. (d + 1) * job.size = d * job.size + job.size
          <6>1. d \in Int /\ job.size \in Int
            BY JobTyped
          <6> QED
            BY <6>1, NextMultiple
        <5> QED
          BY <5>1, <5>2
      <4>2. TxLen(job)' = TxLen(job) /\ core' = [size |-> core.size, got |-> 0, own |-> {}, out |-> 0]
        BY <1>1, <1>6, <2>4 DEF TxLen, ResetCore
      <4>3. (d + 1) * job.size + 0 = (d + 1) * job.size
        BY <3>1, JobTyped
      <4> QED
        BY <1>1, <2>1, <3>1, <4>1, <4>2, <4>3, BoundAssumption DEF CoreAt
    <3>3. GateAt(e, d + 1)'
      <4>1. gate'.last /\ e < d + 1 /\ core'.out = 0
        BY <1>2, <1>6, <2>1, <2>4 DEF ResetCore
      <4>2. (gate = BeatOf(d + 1, gate.n, TRUE))'
        BY <1>1, <1>5, <2>3, <2>4 DEF BeatOf
      <4> QED
        BY <4>1, <4>2 DEF GateAt
    <3>4. S2mmAt(e, d + 1)'
      BY <1>1, <1>4, <1>5, <2>1, <2>4 DEF S2mmAt, S2mmReady, Place, Stride, BeatOf
    <3>5. e \in 0 .. job'.count /\ d + 1 \in 0 .. job'.count /\ e <= d + 1
      BY <1>1, <2>1, <3>1
    <3> QED
      BY <2>2, <3>2, <3>3, <3>4, <3>5
  <2>5. CASE ~last
    <3>1. CoreAt(d)'
      BY <1>1, <1>2, <1>6, <2>1, <2>5, BoundAssumption DEF CoreAt, TxLen
    <3>2. GateAt(e, d)'
      BY <1>1, <1>5, <1>6, <2>3, <2>5 DEF GateAt, BeatOf
    <3>3. S2mmAt(e, d)'
      BY <1>1, <1>4, <1>5, <2>1, <2>5 DEF S2mmAt, S2mmReady, Place, Stride, BeatOf
    <3> QED
      BY <1>1, <2>1, <2>2, <3>1, <3>2, <3>3
  <2> QED
    BY <2>4, <2>5
<1> QED
  BY <1>1, <1>3, <1>7, AsideStays DEF IInv

\* Images do not overlap in the receive buffer.
LEMMA PlacesApart ==
    ASSUME Fits, TypeInv, NEW k \in Nat \ {0}, NEW e \in Nat, k <= e,
           NEW n \in 1 .. MaxBeats, NEW m \in Nat \ {0}
    PROVE  /\ Place(k, n) \in Nat /\ Place(e + 1, m) \in Nat
           /\ Place(k, n) < Place(e + 1, m)
<1>1. Stride \in Nat /\ MaxBeats \in Nat /\ MaxBeats <= Stride
  BY RoomAssumption, BoundAssumption DEF Fits, Stride
<1>2. k * Stride <= e * Stride /\ 0 * Stride <= (k - 1) * Stride /\ 0 * Stride <= e * Stride
  BY <1>1, ProductMonotone
<1>3. (k - 1) * Stride = k * Stride - Stride /\ (e + 1 - 1) * Stride = e * Stride
  BY <1>1
<1>4. k * Stride \in Int /\ e * Stride \in Int /\ n \in Int /\ m \in Int
  BY <1>1, BoundAssumption
<1> HIDE DEF Stride
<1> QED
  BY <1>1, <1>2, <1>3, <1>4 DEF Place

\* What S2MM does with the beat it is handed: the next of the image it is at.
LEMMA BeatArrives ==
    ASSUME Fits, TypeInv, IInv, Encoding, GatePass,
           NEW e \in 0 .. job.count, NEW d \in 0 .. job.count,
           Recorded(e), e <= d, CoreAt(d), GateAt(e, d), S2mmAt(e, d)
    PROVE  /\ e + 1 \in 1 .. job.count /\ s2mm.cur = e + 1 /\ s2mm.off \in Nat
           /\ gate = BeatOf(e + 1, s2mm.off + 1, gate.last) /\ gate.last \in BOOLEAN
           /\ s2mm.off + 1 \in 1 .. MaxBeats
           /\ rx' = [rx EXCEPT ![Place(e + 1, s2mm.off + 1)] = gate]
           /\ Place(e + 1, s2mm.off + 1) \in 0 .. RxSize - 1
           /\ ~gate.last => desc' = desc /\ s2mm' = [s2mm EXCEPT !.off = @ + 1]
           /\ gate.last =>
                 /\ desc' = [desc EXCEPT ![e + 1] = [desc[e + 1] EXCEPT !.used = s2mm.off + 1,
                                                     !.cmplt = TRUE, !.eof = TRUE]]
                 /\ s2mm' = [s2mm EXCEPT !.cur = @ + 1, !.off = 0]
<1>1. /\ gate # NoBeat /\ S2mmReady /\ gate \in Beat /\ gate.n \in 1 .. MaxBeats /\ gate.last \in BOOLEAN
      /\ s2mm \in S2mmChannel /\ s2mm.off \in Nat /\ desc \in Seq(Descriptor)
      /\ core.got \in Nat /\ core.out \in Nat /\ MaxBeats \in Nat
  BY BoundAssumption
  DEF GatePass, S2mmWrite, TypeInv, TypeOK, PipelineTypeOK, RingTypeOK, Beat, S2mmChannel, Core
<1>2. e + 1 \in 1 .. job.count
  <2>1. CASE gate.last
    BY <1>1, <2>1, JobTyped DEF GateAt
  <2>2. CASE ~gate.last
    <3>1. d * job.size + core.got <= job.count * job.size /\ core.got > 0 /\ d = e
      BY <1>1, <2>2, JobTyped DEF GateAt, CoreAt, S2mmAt
    <3>2. ASSUME job.count <= d PROVE FALSE
      <4>1. job.count * job.size <= d * job.size
        BY <3>2, JobTyped, ProductMonotone
      <4>2. job.count * job.size \in Int /\ d * job.size \in Int
        BY JobTyped
      <4> QED
        BY <1>1, <3>1, <4>1, <4>2
    <3> QED
      BY <3>1, <3>2, JobTyped
  <2> QED
    BY <2>1, <2>2
<1>3. s2mm.cur = e + 1 /\ s2mm.off + 1 = gate.n
  BY <1>1 DEF S2mmAt
<1>4. gate = BeatOf(e + 1, s2mm.off + 1, gate.last)
  BY <1>1, <1>3 DEF GateAt, S2mmAt, BeatOf
<1>5. /\ Laid(desc) /\ desc[e + 1] \in Descriptor /\ e + 1 \in 1 .. Len(desc)
      /\ desc[e + 1].base = e * Stride /\ MaxBeats <= desc[e + 1].len
      /\ desc[e + 1].base + desc[e + 1].len <= RxSize
      /\ desc[e + 1].len \in Nat /\ desc[e + 1].base \in Nat
  <2>1. Laid(desc)
    BY DEF IInv, RingKept, Storing
  <2>2. job.count <= Len(desc) /\ desc[e + 1] \in Descriptor /\ e + 1 \in 1 .. Len(desc)
    BY <1>1, <1>2, <2>1, JobTyped DEF Laid
  <2>3. ASSUME NEW k \in 1 .. job.count
        PROVE  /\ desc[k].base = (k - 1) * Stride /\ MaxBeats <= desc[k].len
               /\ desc[k].base + desc[k].len <= RxSize
    BY <2>1 DEF Laid
  <2>4. (e + 1) - 1 = e
    OBVIOUS
  <2>5. desc[e + 1].len \in Nat /\ desc[e + 1].base \in Nat
    BY <2>2, Zenon DEF Descriptor
  <2> QED
    BY <1>2, <2>1, <2>2, <2>3, <2>4, <2>5
<1>6. desc[e + 1].base + s2mm.off = Place(e + 1, s2mm.off + 1) /\ Place(e + 1, s2mm.off + 1) \in 0 .. RxSize - 1
  <2>1. desc[e + 1].base + s2mm.off = (e + 1 - 1) * Stride + (s2mm.off + 1) - 1
    <3>1. PICK b \in Nat : b = desc[e + 1].base /\ b = e * Stride
      BY <1>5
    <3>2. e + 1 - 1 = e /\ b + s2mm.off = b + (s2mm.off + 1) - 1
      BY <1>1, <3>1
    <3> QED
      BY <3>1, <3>2
  <2>2. desc[e + 1].base + s2mm.off \in 0 .. RxSize - 1
    <3>1. PICK b, l \in Nat : b = desc[e + 1].base /\ l = desc[e + 1].len
      BY <1>5
    <3>2. b + l <= RxSize /\ MaxBeats <= l
      BY <1>5, <3>1
    <3>3. s2mm.off + 1 <= MaxBeats
      BY <1>1, <1>3
    <3> QED
      <4>1. PICK o \in Nat : o = s2mm.off
        BY <1>1
      <4>2. b + o \in 0 .. RxSize - 1
        BY <1>1, <3>2, <3>3, <4>1, RoomAssumption
      <4> QED
        BY <3>1, <4>1, <4>2
  <2> QED
    BY <2>1, <2>2 DEF Place
<1>7. rx' = [rx EXCEPT ![Place(e + 1, s2mm.off + 1)] = gate]
  BY <1>3, <1>6 DEF GatePass, S2mmWrite
<1>8. CASE gate.last
  <2>1. desc' = [desc EXCEPT ![e + 1].used = s2mm.off + 1, ![e + 1].cmplt = TRUE, ![e + 1].eof = gate.last]
    BY <1>3, <1>8, Zenon DEF GatePass, S2mmWrite
  <2>2. gate.last = TRUE
    BY <1>1, <1>8
  <2>3. desc' = [desc EXCEPT ![e + 1] = [desc[e + 1] EXCEPT !.used = s2mm.off + 1, !.cmplt = TRUE, !.eof = TRUE]]
    BY <2>1, <2>2, Zenon
  <2>4. s2mm' = [s2mm EXCEPT !.cur = @ + 1, !.off = 0]
    BY <1>8 DEF GatePass, S2mmWrite
  <2> QED
    BY <1>1, <1>2, <1>3, <1>4, <1>6, <1>7, <1>8, <2>3, <2>4
<1>9. CASE ~gate.last
  <2>1. gate.n = core.out /\ core.out < MaxBeats
    BY <1>1, <1>9 DEF GateAt, CoreAt
  <2>2. s2mm.off + 1 # desc[s2mm.cur].len
    BY <1>1, <1>3, <1>5, <2>1
  <2>3. desc' = desc /\ s2mm' = [s2mm EXCEPT !.off = s2mm.off + 1]
    BY <1>9, <2>2 DEF GatePass, S2mmWrite
  <2> QED
    BY <1>1, <1>2, <1>3, <1>4, <1>6, <1>7, <1>9, <2>3
<1> QED
  BY <1>1, <1>8, <1>9

\* A descriptor that has been closed stays as it is; only the one in turn changes.
LEMMA ClosedStays ==
    ASSUME desc \in Seq(Descriptor), NEW c \in 1 .. Len(desc), NEW used,
           desc' = [desc EXCEPT ![c] = [desc[c] EXCEPT !.used = used, !.cmplt = TRUE, !.eof = TRUE]]
    PROVE  /\ Len(desc') = Len(desc)
           /\ \A i \in 1 .. Len(desc) : desc'[i].base = desc[i].base /\ desc'[i].len = desc[i].len
           /\ \A i \in 1 .. Len(desc) : i # c => desc'[i] = desc[i]
           /\ desc'[c].used = used /\ desc'[c].cmplt /\ desc'[c].eof
<1> DEFINE closed == [desc[c] EXCEPT !.used = used, !.cmplt = TRUE, !.eof = TRUE]
<1>1. desc[c] \in Descriptor
  OBVIOUS
<1>2. /\ closed.base = desc[c].base /\ closed.len = desc[c].len
      /\ closed.used = used /\ closed.cmplt /\ closed.eof
  BY <1>1, Zenon DEF Descriptor
<1> HIDE DEF closed
<1>3. desc' = [desc EXCEPT ![c] = closed]
  BY DEF closed
<1> QED
  BY <1>2, <1>3

LEMMA GatePassFlows ==
    ASSUME Fits, TypeInv, IInv, Encoding, GatePass
    PROVE  Flow' /\ RingKept' /\ CopiesTrue' /\ WaitSaw'
<1>1. /\ UNCHANGED <<pc, job, line, wait, mm2s, core>> /\ gate' = NoBeat /\ gate # NoBeat /\ S2mmReady
  BY DEF GatePass, S2mmWrite, serverVars
<1>2. /\ s2mm \in S2mmChannel /\ desc \in Seq(Descriptor) /\ MaxBeats \in Nat
      /\ rx \in [0 .. RxSize - 1 -> Beat \cup {NoBeat}]
  BY BoundAssumption DEF TypeInv, TypeOK, PipelineTypeOK, RingTypeOK, BufferTypeOK
<1>3. PICK e, d \in 0 .. job.count :
          Recorded(e) /\ e <= d /\ CoreAt(d) /\ GateAt(e, d) /\ S2mmAt(e, d)
  BY DEF IInv, Flow
<1>4. /\ e + 1 \in 1 .. job.count /\ s2mm.cur = e + 1 /\ s2mm.off \in Nat
      /\ gate = BeatOf(e + 1, s2mm.off + 1, gate.last) /\ gate.last \in BOOLEAN
      /\ s2mm.off + 1 \in 1 .. MaxBeats
      /\ rx' = [rx EXCEPT ![Place(e + 1, s2mm.off + 1)] = gate]
      /\ Place(e + 1, s2mm.off + 1) \in 0 .. RxSize - 1
      /\ ~gate.last => desc' = desc /\ s2mm' = [s2mm EXCEPT !.off = @ + 1]
      /\ gate.last =>
            /\ desc' = [desc EXCEPT ![e + 1] = [desc[e + 1] EXCEPT !.used = s2mm.off + 1,
                                                !.cmplt = TRUE, !.eof = TRUE]]
            /\ s2mm' = [s2mm EXCEPT !.cur = @ + 1, !.off = 0]
  BY <1>3, BeatArrives
<1>5. Laid(desc) /\ e + 1 \in 1 .. Len(desc) /\ ~desc[e + 1].eof
  <2>1. Laid(desc) /\ e + 1 \in 1 .. Len(desc)
    BY <1>2, <1>4, JobTyped DEF IInv, RingKept, Storing, Laid
  <2> QED
    BY <1>3, <2>1 DEF Recorded
\* The images stored before are untouched, and so is what is there of this one.
<1>6. ASSUME NEW k \in 1 .. e, NEW n \in 1 .. desc[k].used
      PROVE  rx'[Place(k, n)] = BeatOf(k, n, n = desc[k].used)
  <2>1. desc[k].used \in 1 .. MaxBeats /\ rx[Place(k, n)] = BeatOf(k, n, n = desc[k].used)
    BY <1>3 DEF Recorded
  <2>2. Place(k, n) # Place(e + 1, s2mm.off + 1)
    <3>1. k \in Nat \ {0} /\ e \in Nat /\ k <= e /\ n \in 1 .. MaxBeats /\ s2mm.off + 1 \in Nat \ {0}
      BY <1>2, <1>4, <2>1
    <3> QED
      BY <3>1, PlacesApart
  <2> QED
    BY <1>2, <1>4, <2>1, <2>2
<1>7. ASSUME NEW n \in 1 .. s2mm.off
      PROVE  rx'[Place(e + 1, n)] = BeatOf(e + 1, n, FALSE)
  <2>1. Place(e + 1, n) \in 0 .. RxSize - 1 /\ Place(e + 1, n) # Place(e + 1, s2mm.off + 1)
    <3>1. PICK b \in Nat : b = (e + 1 - 1) * Stride
      BY RoomAssumption DEF Stride
    <3>2. PICK o \in Nat : o = s2mm.off
      BY <1>4
    <3>3. b + (o + 1) - 1 \in 0 .. RxSize - 1
      BY <1>4, <3>1, <3>2 DEF Place
    <3>4. n \in Nat /\ 1 <= n /\ n <= o /\ RxSize \in Nat
      BY <3>2, RoomAssumption
    <3>5. b + n - 1 \in 0 .. RxSize - 1 /\ b + n - 1 # b + (o + 1) - 1
      BY <3>1, <3>3, <3>4
    <3> QED
      BY <3>1, <3>2, <3>5 DEF Place
  <2>2. rx[Place(e + 1, n)] = BeatOf(e + 1, n, FALSE)
    BY <1>1, <1>3 DEF S2mmAt
  <2> QED
    BY <1>2, <1>4, <2>1, <2>2
<1>8. rx'[Place(e + 1, s2mm.off + 1)] = BeatOf(e + 1, s2mm.off + 1, gate.last)
  BY <1>2, <1>4
<1>9. CASE ~gate.last
  <2>1. desc' = desc /\ s2mm'.off = s2mm.off + 1 /\ s2mm'.cur = s2mm.cur
        /\ s2mm'.run = s2mm.run /\ s2mm'.err = s2mm.err
    BY <1>2, <1>4, <1>9 DEF S2mmChannel
  <2>2. RingKept' /\ CopiesTrue' /\ WaitSaw'
    BY <1>1, <2>1 DEF IInv, RingKept, Laid, Unused, Stride, CopiesTrue, CopyTrue, WaitSaw, View,
                      Encoding, Storing
  <2>3. Recorded(e)'
    BY <1>1, <1>3, <1>6, <2>1 DEF Recorded, Place, Stride, BeatOf
  <2>4. CoreAt(d)'
    BY <1>1, <1>3 DEF CoreAt, TxLen
  <2>5. GateAt(e, d)'
    BY <1>1 DEF GateAt
  <2>6. S2mmAt(e, d)'
    <3>1. d = e /\ gate.n = core.out
      BY <1>1, <1>3, <1>9 DEF S2mmAt, GateAt
    <3>2. s2mm.off + 1 = gate.n
      BY <1>1, <1>3 DEF S2mmAt
    <3>3. ASSUME NEW n \in 1 .. s2mm.off + 1
          PROVE  rx'[Place(e + 1, n)] = BeatOf(e + 1, n, FALSE)
      <4>1. CASE n = s2mm.off + 1
        BY <1>4, <1>8, <1>9, <4>1
      <4>2. CASE n # s2mm.off + 1
        <5>1. n \in 1 .. s2mm.off
          BY <1>4, <4>2
        <5> QED
          BY <1>7, <5>1
      <4> QED
        BY <4>1, <4>2
    <3> QED
      BY <1>1, <1>4, <2>1, <3>1, <3>2, <3>3 DEF S2mmAt, Place, Stride, BeatOf
  <2> QED
    BY <1>1, <1>3, <2>2, <2>3, <2>4, <2>5, <2>6 DEF Flow
<1>10. CASE gate.last
  <2>1. /\ Len(desc') = Len(desc)
        /\ \A i \in 1 .. Len(desc) : desc'[i].base = desc[i].base /\ desc'[i].len = desc[i].len
        /\ \A i \in 1 .. Len(desc) : i # e + 1 => desc'[i] = desc[i]
        /\ desc'[e + 1].used = s2mm.off + 1 /\ desc'[e + 1].cmplt /\ desc'[e + 1].eof
    BY <1>2, <1>4, <1>5, <1>10, ClosedStays
  <2>2. s2mm'.off = 0 /\ s2mm'.cur = e + 2 /\ s2mm'.run = s2mm.run /\ s2mm'.err = s2mm.err
    <3>1. s2mm' = [s2mm EXCEPT !.cur = s2mm.cur + 1, !.off = 0] /\ s2mm.cur + 1 = e + 2
      BY <1>4, <1>10
    <3> QED
      BY <1>2, <3>1 DEF S2mmChannel
  <2>3. RingKept'
    <3>1. Laid(desc)'
      BY <1>1, <1>5, <2>1, JobTyped DEF Laid, Stride
    <3>2. pc \notin {"desc_sync", "start_s2mm", "start_mm2s"}
      BY <1>1 DEF Encoding, IInv, Fresh
    <3> QED
      BY <1>1, <3>1, <3>2 DEF RingKept
  <2>4. \A i \in 1 .. Len(desc) : desc[i].eof => desc'[i] = desc[i]
    BY <1>5, <2>1
  <2>5. Len(line) = Len(desc) /\ \A i \in 1 .. Len(line) : CopyTrue(i)
    BY DEF IInv, CopiesTrue
  <2>6. CopiesTrue'
    <3>1. ASSUME NEW i \in 1 .. Len(line) PROVE CopyTrue(i)'
      BY <1>1, <2>1, <2>4, <2>5 DEF CopyTrue
    <3> QED
      BY <1>1, <2>1, <2>5, <3>1 DEF CopiesTrue
  <2>7. WaitSaw'
    <3>1. 1 \in 1 .. Len(desc) /\ job.count \in 1 .. Len(desc)
      BY <1>2, <1>5, JobTyped DEF Laid
    <3>2. View(1).eof => View(1)'.eof
      BY <1>1, <2>4, <3>1 DEF View
    <3>3. desc[job.count].eof => desc'[job.count].eof
      BY <2>4, <3>1
    <3> QED
      BY <1>1, <3>2, <3>3 DEF IInv, WaitSaw, Encoding
  <2>8. Recorded(e + 1)'
    <3>1. ASSUME NEW i \in 1 .. Len(desc)
          PROVE  (desc'[i].eof <=> i <= e + 1) /\ (desc'[i].cmplt <=> i <= e + 1)
      <4>1. CASE i = e + 1
        BY <2>1, <4>1
      <4>2. CASE i # e + 1
        BY <1>3, <2>1, <4>2 DEF Recorded
      <4> QED
        BY <4>1, <4>2
    <3>2. ASSUME NEW k \in 1 .. e + 1
          PROVE  /\ desc'[k].used \in 1 .. MaxBeats
                 /\ \A n \in 1 .. desc'[k].used : rx'[Place(k, n)] = BeatOf(k, n, n = desc'[k].used)
      <4>1. CASE k = e + 1
        <5>1. ASSUME NEW n \in 1 .. s2mm.off + 1
              PROVE  rx'[Place(e + 1, n)] = BeatOf(e + 1, n, n = s2mm.off + 1)
          <6>1. CASE n = s2mm.off + 1
            BY <1>8, <1>10, <6>1, <1>4
          <6>2. CASE n # s2mm.off + 1
            <7>1. n \in 1 .. s2mm.off
              BY <1>4, <6>2
            <7> QED
              BY <1>7, <6>2, <7>1
          <6> QED
            BY <6>1, <6>2
        <5> QED
          BY <1>4, <2>1, <4>1, <5>1
      <4>2. CASE k # e + 1
        <5>1. k \in 1 .. e /\ desc'[k] = desc[k] /\ desc[k].used \in 1 .. MaxBeats
          BY <1>3, <1>4, <1>5, <2>1, <4>2 DEF Recorded
        <5> QED
          BY <1>6, <5>1
      <4> QED
        BY <4>1, <4>2
    <3> QED
      BY <1>1, <1>4, <2>1, <3>1, <3>2 DEF Recorded, Place, Stride, BeatOf
  <2>9. CoreAt(d)' /\ GateAt(e + 1, d)' /\ d = e + 1
    BY <1>1, <1>3, <1>10 DEF CoreAt, TxLen, GateAt, S2mmAt
  <2>10. S2mmAt(e + 1, d)'
    <3>1. core.out = 0
      BY <1>1, <1>3, <1>10 DEF GateAt
    <3> QED
      BY <1>1, <1>4, <2>2, <2>9, <3>1 DEF S2mmAt
  <2>11. e + 1 \in 0 .. job.count /\ d \in 0 .. job.count /\ e + 1 <= d
    BY <1>4, <2>9
  <2> QED
    BY <1>1, <2>3, <2>6, <2>7, <2>8, <2>9, <2>10, <2>11 DEF Flow
<1> QED
  BY <1>4, <1>9, <1>10

\* S2MM stores the beat it is handed, if any server still wants it.
LEMMA GatePassKeeps == Fits /\ TypeInv /\ IInv /\ GatePass => IInv'
<1> SUFFICES ASSUME Fits, TypeInv, IInv, GatePass PROVE IInv'
  OBVIOUS
<1>1. /\ UNCHANGED <<pc, job, tx, txd, line, rxc, wait, lens, reply, mm2s, core>>
      /\ gate' = NoBeat /\ gate # NoBeat /\ S2mmReady
  BY DEF GatePass, S2mmWrite, serverVars
<1>2. Encoding \/ pc \in {"idle", "configure", "gate_set", "error", "down"}
  BY <1>1 DEF IInv, Fresh, Still, Encoding, TypeInv, TypeOK, ServerTypeOK
<1>3. Loaded' /\ JobKept'
  BY <1>1 DEF IInv, Loaded, JobKept, Serving, Encoding, HoldsPixels, TxLen
<1>4. Fresh' /\ Quiet' /\ Still' /\ ImagesKept' /\ Replying'
  BY <1>1, <1>2 DEF IInv, Fresh, Quiet, Mm2sReady, Still, ImagesKept, Replying, Encoding
<1>5. Flow' /\ RingKept' /\ CopiesTrue' /\ WaitSaw'
  <2>1. CASE ~Encoding
    BY <1>1, <1>2, <2>1 DEF Flow, RingKept, CopiesTrue, WaitSaw, Encoding, Storing
  <2> QED
    BY <2>1, GatePassFlows
<1> QED
  BY <1>1, <1>3, <1>4, <1>5, ReplyStays DEF IInv

\* An error in a descriptor is no end of packet.
SameImages ==
    /\ Len(desc') = Len(desc)
    /\ \A i \in 1 .. Len(desc) : /\ desc'[i].base = desc[i].base /\ desc'[i].len = desc[i].len
                                 /\ desc'[i].used = desc[i].used /\ desc'[i].cmplt = desc[i].cmplt
                                 /\ desc'[i].eof = desc[i].eof

LEMMA ErrorMarked ==
    ASSUME desc \in Seq(Descriptor), NEW c \in 1 .. Len(desc), desc' = [desc EXCEPT ![c].err = TRUE]
    PROVE  SameImages
<1> DEFINE marked == [desc[c] EXCEPT !.err = TRUE]
<1>1. desc[c] \in Descriptor
  OBVIOUS
<1>2. /\ marked.base = desc[c].base /\ marked.len = desc[c].len /\ marked.used = desc[c].used
      /\ marked.cmplt = desc[c].cmplt /\ marked.eof = desc[c].eof
  BY <1>1, Zenon DEF Descriptor
<1>3. desc' = [desc EXCEPT ![c] = marked]
  BY Zenon
<1> HIDE DEF marked
<1> QED
  BY <1>2, <1>3 DEF SameImages

LEMMA S2mmFaultKeeps == TypeInv /\ IInv /\ HwFault /\ S2mmFault => IInv'
<1> SUFFICES ASSUME TypeInv, IInv, HwFault, S2mmFault PROVE IInv'
  OBVIOUS
<1>1. /\ UNCHANGED <<pc, job, tx, txd, line, rx, rxc, wait, lens, reply, core, gate, mm2s>>
      /\ S2mmReady /\ ~s2mm'.run
  BY DEF HwFault, S2mmFault, serverVars, TypeInv, TypeOK, PipelineTypeOK, S2mmChannel
<1>2. SameImages /\ desc \in Seq(Descriptor)
  <2>1. desc \in Seq(Descriptor) /\ s2mm.cur \in 1 .. Len(desc)
    BY <1>1 DEF S2mmReady, S2mmChannel, TypeInv, TypeOK, PipelineTypeOK, RingTypeOK
  <2> QED
    BY <2>1, ErrorMarked DEF S2mmFault
<1>3. pc \notin {"ring_build", "desc_sync", "start_s2mm"}
  BY <1>1 DEF IInv, Fresh, S2mmReady, HaltedS2mm
<1>4. Loaded' /\ JobKept'
  BY <1>1 DEF IInv, Loaded, JobKept, Serving, Encoding, HoldsPixels, TxLen
<1>5. Fresh' /\ Quiet' /\ Still'
  BY <1>1, <1>3 DEF IInv, Fresh, Quiet, Mm2sReady, Still, S2mmReady
<1>6. RingKept'
  <2>1. ASSUME Storing PROVE Laid(desc)'
    <3>1. Laid(desc) /\ Len(desc) \in Nat
      BY <1>2, <2>1 DEF IInv, RingKept
    <3>2. ASSUME NEW k \in 1 .. job.count
          PROVE  desc'[k].base = desc[k].base /\ desc'[k].len = desc[k].len
      <4>1. k \in 1 .. Len(desc)
        BY <3>1, JobTyped DEF Laid
      <4> QED
        BY <1>2, <4>1 DEF SameImages
    <3>3. Len(desc') = Len(desc) /\ Stride' = Stride
      BY <1>1, <1>2 DEF SameImages, Stride
    <3> QED
      BY <1>1, <3>1, <3>2, <3>3 DEF Laid
  <2> QED
    <3>1. pc = "start_mm2s" => Unused(desc)'
      BY <1>2 DEF IInv, RingKept, Unused, SameImages
    <3> QED
      BY <1>1, <1>3, <2>1, <3>1 DEF RingKept, Storing, Encoding
<1>7. CopiesTrue'
  BY <1>1, <1>2, <1>3 DEF IInv, CopiesTrue, CopyTrue, Encoding, SameImages
<1>8. ASSUME NEW e, Recorded(e), Storing PROVE Recorded(e)'
  <2>1. job.count <= Len(desc) /\ e \in 0 .. job.count /\ Len(desc) \in Nat
    BY <1>2, <1>8 DEF IInv, RingKept, Laid, Recorded
  <2>2. \A i \in 1 .. Len(desc') : (desc'[i].eof <=> i <= e) /\ (desc'[i].cmplt <=> i <= e)
    BY <1>2, <1>8 DEF Recorded, SameImages
  <2>3. ASSUME NEW k \in 1 .. e
        PROVE  /\ desc'[k].used = desc[k].used
               /\ desc[k].used \in 1 .. MaxBeats
               /\ \A n \in 1 .. desc[k].used : rx'[Place(k, n)] = BeatOf(k, n, n = desc[k].used)
    <3>1. k \in 1 .. Len(desc)
      BY <2>1, JobTyped
    <3> QED
      BY <1>1, <1>2, <1>8, <3>1 DEF Recorded, SameImages
  <2> QED
    BY <1>1, <2>1, <2>2, <2>3 DEF Recorded, Place, Stride, BeatOf
<1>9. Flow'
  <2> SUFFICES ASSUME Encoding'
               PROVE  (\E e, d \in 0 .. job.count : Recorded(e) /\ e <= d /\ CoreAt(d) /\ GateAt(e, d)
                                                    /\ S2mmAt(e, d))'
    BY DEF Flow
  <2>1. PICK e, d \in 0 .. job.count : Recorded(e) /\ e <= d /\ CoreAt(d) /\ GateAt(e, d)
    BY <1>1 DEF IInv, Flow, Encoding
  <2>2. Recorded(e)' /\ CoreAt(d)'
    <3>1. Storing
      BY <1>1 DEF Storing, Encoding
    <3> QED
      BY <1>1, <1>8, <2>1, <3>1 DEF CoreAt, TxLen
  <2>3. GateAt(e, d)' /\ S2mmAt(e, d)'
    BY <1>1, <2>1 DEF GateAt, BeatOf, S2mmAt, S2mmReady
  <2> QED
    BY <1>1, <2>1, <2>2, <2>3
<1>10. ImagesKept'
  BY <1>1, <1>8 DEF IInv, ImagesKept, Storing
<1>11. ASSUME Storing \/ pc = "collect" PROVE job.count \in 1 .. Len(desc) /\ 1 \in 1 .. Len(desc)
  BY <1>2, <1>11, JobTyped DEF IInv, RingKept, Storing, Laid
<1>12. WaitSaw'
  <2>1. ASSUME Storing PROVE desc'[job.count].eof = desc[job.count].eof /\ View(1)'.eof = View(1).eof
    BY <1>1, <1>2, <1>11, <2>1 DEF SameImages, View
  <2> QED
    BY <1>1, <2>1 DEF IInv, WaitSaw, Storing, Encoding
<1>13. Replying'
  <2>1. ASSUME pc = "send", NEW k \in 1 .. job.count
        PROVE  desc'[k].eof = desc[k].eof /\ desc'[k].used = desc[k].used
    BY <1>2, <1>11, <2>1, JobTyped DEF Storing, SameImages
  <2> QED
    BY <1>1, <2>1 DEF IInv, Replying, Place, Stride
<1> QED
  BY <1>1, <1>4, <1>5, <1>6, <1>7, <1>9, <1>10, <1>12, <1>13, ReplyStays DEF IInv

LEMMA Mm2sFaultKeeps == TypeInv /\ IInv /\ HwFault /\ Mm2sFault => IInv'
<1> SUFFICES ASSUME TypeInv, IInv, HwFault, Mm2sFault PROVE IInv'
  OBVIOUS
<1>1. /\ UNCHANGED <<pc, job, tx, txd, desc, line, rx, rxc, wait, lens, reply, core, gate, s2mm>>
      /\ Mm2sReady /\ ~mm2s'.run /\ mm2s'.pos = mm2s.pos /\ mm2s'.end = mm2s.end
  BY DEF HwFault, Mm2sFault, serverVars, TypeInv, TypeOK, PipelineTypeOK, Mm2sChannel
<1>2. Fresh' /\ Quiet' /\ Still'
  BY <1>1 DEF IInv, Fresh, Quiet, Mm2sReady, Still, S2mmReady
<1>3. Flow'
  <2> SUFFICES ASSUME Encoding'
               PROVE  (\E e, d \in 0 .. job.count : Recorded(e) /\ e <= d /\ CoreAt(d) /\ GateAt(e, d)
                                                    /\ S2mmAt(e, d))'
    BY DEF Flow
  <2>1. PICK e, d \in 0 .. job.count :
            Recorded(e) /\ e <= d /\ CoreAt(d) /\ GateAt(e, d) /\ S2mmAt(e, d)
    BY <1>1 DEF IInv, Flow, Encoding
  <2>2. Recorded(e)' /\ CoreAt(d)'
    BY <1>1, <2>1, RecordStays DEF CoreAt, TxLen, SameJob
  <2>3. GateAt(e, d)' /\ S2mmAt(e, d)'
    BY <1>1, <2>1 DEF GateAt, BeatOf, S2mmAt, S2mmReady, Place, Stride
  <2> QED
    BY <1>1, <2>1, <2>2, <2>3
<1> QED
  BY <1>1, <1>2, <1>3, AsideStays DEF IInv

LEMMA HwFaultKeeps == TypeInv /\ IInv /\ HwFault => IInv'
  BY S2mmFaultKeeps, Mm2sFaultKeeps DEF HwFault
-----------------------------------------------------------------------------
(* The cache, the clock, and the start of both channels.                   *)

LEMMA FlowStays ==
    ASSUME IInv, Encoding, SameJob, UNCHANGED <<desc, rx, core, gate, s2mm, mm2s>>
    PROVE  Flow'
<1>1. PICK e, d \in 0 .. job.count :
          Recorded(e) /\ e <= d /\ CoreAt(d) /\ GateAt(e, d) /\ S2mmAt(e, d)
  BY DEF IInv, Flow
<1>2. Recorded(e)' /\ CoreAt(d)'
  BY <1>1, RecordStays DEF CoreAt, TxLen, SameJob
<1>3. GateAt(e, d)' /\ S2mmAt(e, d)'
  BY <1>1 DEF GateAt, BeatOf, S2mmAt, S2mmReady, Place, Stride, SameJob
<1>4. e \in 0 .. job'.count /\ d \in 0 .. job'.count
  BY <1>1 DEF SameJob
<1> QED
  BY <1>1, <1>2, <1>3, <1>4 DEF Flow

\* What a step that leaves the engine and the buffers alone leaves as it was.
LEMMA EngineStays ==
    ASSUME IInv, SameJob, UNCHANGED <<pc, desc, rx, core, gate, s2mm, mm2s>>
    PROVE  Fresh' /\ Quiet' /\ Still' /\ Flow' /\ ImagesKept'
<1>1. Fresh' /\ Quiet' /\ Still'
  BY DEF IInv, Fresh, Quiet, Still, Mm2sReady, S2mmReady, SameJob
<1>2. Flow'
  BY FlowStays DEF Flow, Encoding
<1>3. ImagesKept'
  BY ImagesStay DEF IInv, ImagesKept
<1> QED
  BY <1>1, <1>2, <1>3

\* Once the last look at a descriptor found its image, every later one does.
LEMMA EvictLineKeeps == TypeInv /\ IInv /\ EvictLine => IInv'
<1> SUFFICES ASSUME TypeInv, IInv, EvictLine PROVE IInv'
  OBVIOUS
<1>1. /\ UNCHANGED <<pc, job, tx, txd, desc, rx, rxc, wait, lens, reply, core, gate, s2mm, mm2s>>
      /\ pc \in {"wait", "collect"}
  BY DEF EvictLine, Evict, serverVars
<1>2. PICK i \in 1 .. Len(line) : line[i] # NoLine /\ line' = [line EXCEPT ![i] = NoLine]
  BY DEF EvictLine, Evict
<1>3. /\ line \in Seq(Descriptor \cup {NoLine}) /\ Len(line') = Len(line)
      /\ line'[i] = NoLine /\ \A j \in 1 .. Len(line) : j # i => line'[j] = line[j]
  BY <1>2 DEF TypeInv, TypeOK, RingTypeOK
<1>4. Len(line) = Len(desc) /\ \A j \in 1 .. Len(line) : CopyTrue(j)
  BY <1>1 DEF IInv, CopiesTrue, Encoding
<1>5. CopiesTrue'
  <2>1. ASSUME NEW j \in 1 .. Len(line) PROVE CopyTrue(j)'
    BY <1>1, <1>3, <1>4, <2>1 DEF CopyTrue
  <2> QED
    BY <1>1, <1>3, <1>4, <2>1 DEF CopiesTrue
<1>6. WaitSaw'
  <2>1. 1 \in 1 .. Len(line)
    BY <1>2, <1>3
  <2>2. View(1).eof => View(1)'.eof
    BY <1>1, <1>3, <1>4, <2>1 DEF View, CopyTrue
  <2> QED
    BY <1>1, <2>2 DEF IInv, WaitSaw
<1>7. Loaded' /\ JobKept' /\ RingKept'
  BY <1>1 DEF IInv, Loaded, JobKept, RingKept, Laid, Unused, Stride, Serving, Encoding, Storing,
              HoldsPixels, TxLen
<1>8. Replying'
  BY <1>1 DEF Replying
<1> QED
  BY <1>1, <1>5, <1>6, <1>7, <1>8, EngineStays, ReplyStays DEF IInv, SameJob

LEMMA TimeoutKeeps == TypeInv /\ IInv /\ (Timeout \/ UNCHANGED vars) => IInv'
<1> SUFFICES ASSUME TypeInv, IInv, Timeout \/ UNCHANGED vars PROVE IInv'
  OBVIOUS
<1>1. UNCHANGED <<pc, job, tx, txd, desc, line, rx, rxc, wait, lens, reply, core, gate, s2mm, mm2s>>
  BY DEF Timeout, Expire, vars, dmaVars, serverVars
<1> QED
  BY <1>1, AsideStays, EngineStays DEF IInv, SameJob

LEMMA StartReceivingKeeps == TypeInv /\ IInv /\ StartReceiving => IInv'
<1> SUFFICES ASSUME TypeInv, IInv, StartReceiving PROVE IInv'
  OBVIOUS
<1>1. /\ pc = "start_s2mm" /\ pc' = "start_mm2s"
      /\ UNCHANGED <<job, tx, txd, desc, line, rx, rxc, wait, lens, reply, core, gate, mm2s>>
  BY DEF StartReceiving, Goto
<1>2. /\ core = ResetCore(job.size) /\ gate = NoBeat /\ mm2s = HaltedMm2s
      /\ s2mm' = [run |-> TRUE, err |-> FALSE, cur |-> 1, off |-> 0]
  <2>1. core = ResetCore(job.size) /\ gate = NoBeat /\ mm2s = HaltedMm2s /\ s2mm = HaltedS2mm
    BY <1>1 DEF IInv, Fresh
  <2>2. s2mm' = [s2mm EXCEPT !.run = TRUE, !.cur = 1, !.off = 0]
    BY DEF StartReceiving, StartS2mm
  <2> QED
    BY <2>1, <2>2 DEF HaltedS2mm
<1>3. Loaded' /\ JobKept'
  BY <1>1 DEF IInv, Loaded, JobKept, Serving, Encoding, HoldsPixels, TxLen
<1>4. Fresh' /\ Quiet' /\ Still'
  BY <1>1, <1>2 DEF Fresh, Quiet, Still, Mm2sReady, HaltedMm2s
<1>5. RingKept' /\ CopiesTrue' /\ Laid(desc) /\ Unused(desc)
  <2>1. Laid(desc) /\ Unused(desc)
    BY <1>1 DEF IInv, RingKept
  <2>2. Laid(desc)' /\ Unused(desc)'
    BY <1>1, <2>1 DEF Laid, Unused, Stride
  <2>3. CopiesTrue'
    BY <1>1 DEF IInv, CopiesTrue, CopyTrue
  <2> QED
    BY <1>1, <2>1, <2>2, <2>3 DEF RingKept, Storing, Encoding
<1>6. Flow'
  <2>1. Recorded(0)'
    BY <1>1, <1>5, JobTyped DEF Recorded, Unused
  <2>2. CoreAt(0)'
    <3>1. 0 * job.size = 0
      BY JobTyped
    <3> QED
      BY <1>1, <1>2, <3>1, JobTyped, BoundAssumption DEF CoreAt, ResetCore, HaltedMm2s, TxLen
  <2>3. GateAt(0, 0)' /\ S2mmAt(0, 0)'
    BY <1>1, <1>2 DEF GateAt, S2mmAt, ResetCore
  <2>4. 0 \in 0 .. job'.count
    BY <1>1, JobTyped
  <2> QED
    BY <2>1, <2>2, <2>3, <2>4 DEF Flow
<1>7. ImagesKept' /\ WaitSaw' /\ Replying'
  BY <1>1 DEF ImagesKept, WaitSaw, Replying
<1> QED
  BY <1>1, <1>3, <1>4, <1>5, <1>6, <1>7, ReplyStays DEF IInv

LEMMA StartSendingKeeps == TypeInv /\ IInv /\ StartSending => IInv'
<1> SUFFICES ASSUME TypeInv, IInv, StartSending PROVE IInv'
  OBVIOUS
<1>1. /\ pc = "start_mm2s" /\ pc' = "wait" /\ wait'.at = "poll"
      /\ UNCHANGED <<job, tx, txd, desc, line, rx, rxc, lens, reply, core, gate, s2mm>>
      /\ mm2s' = [run |-> TRUE, pos |-> 0, end |-> TxLen(job)]
  BY TurnStarts DEF StartSending, StartMm2s, WaitStart, Goto
<1>2. core = ResetCore(job.size) /\ gate = NoBeat
  BY <1>1 DEF IInv, Fresh
<1>3. Loaded' /\ JobKept'
  BY <1>1 DEF IInv, Loaded, JobKept, Serving, Encoding, HoldsPixels, TxLen
<1>4. Fresh' /\ Quiet' /\ Still'
  BY <1>1, <1>2 DEF Fresh, Quiet, Still
<1>5. RingKept' /\ CopiesTrue' /\ Laid(desc) /\ Unused(desc) /\ Len(desc) \in Nat
  BY <1>1 DEF IInv, RingKept, CopiesTrue, CopyTrue, Laid, Unused, Stride, Encoding, Storing,
              TypeInv, TypeOK, RingTypeOK
<1>6. Flow'
  <2>1. Recorded(0)'
    BY <1>1, <1>5, JobTyped DEF Recorded, Unused
  <2>2. CoreAt(0)'
    <3>1. 0 * job.size = 0
      BY JobTyped
    <3> QED
      BY <1>1, <1>2, <3>1, JobTyped, BoundAssumption DEF CoreAt, ResetCore, TxLen
  <2>3. GateAt(0, 0)'
    BY <1>1, <1>2 DEF GateAt
  <2>4. S2mmAt(0, 0)'
    <3>1. PICK e, d \in 0 .. job.count :
              Recorded(e) /\ e <= d /\ CoreAt(d) /\ GateAt(e, d) /\ S2mmAt(e, d)
      BY <1>1 DEF IInv, Flow, Encoding
    <3>2. e = 0
      <4>1. ASSUME 1 <= e PROVE FALSE
        <5>1. 1 \in 1 .. Len(desc) /\ ~desc[1].eof
          BY <1>5, <3>1, <4>1, JobTyped DEF Unused, Laid
        <5> QED
          BY <3>1, <4>1, <5>1 DEF Recorded
      <4> QED
        BY <3>1, <4>1
    <3>3. core.out = 0
      BY <1>2 DEF ResetCore
    <3>4. S2mmReady => s2mm.cur = 1 /\ s2mm.off = 0
      BY <1>2, <3>1, <3>2, <3>3 DEF S2mmAt
    <3>5. S2mmReady' = S2mmReady
      BY <1>1 DEF S2mmReady
    <3>6. S2mmReady' => s2mm'.cur = 0 + 1 /\ gate' = NoBeat /\ s2mm'.off = core'.out /\ s2mm'.off = 0
      BY <1>1, <1>2, <3>3, <3>4, <3>5
    <3>7. ASSUME NEW n \in 1 .. 0 PROVE FALSE
      BY <3>7
    <3> QED
      BY <3>6, <3>7 DEF S2mmAt
  <2>5. 0 \in 0 .. job'.count
    BY <1>1, JobTyped
  <2> QED
    BY <2>1, <2>2, <2>3, <2>4, <2>5 DEF Flow
<1>7. ImagesKept' /\ WaitSaw' /\ Replying'
  BY <1>1 DEF ImagesKept, WaitSaw, Replying
<1> QED
  BY <1>1, <1>3, <1>4, <1>5, <1>6, <1>7, ReplyStays DEF IInv
-----------------------------------------------------------------------------
(* The wait.                                                               *)

\* What is read of a descriptor is old at worst.
LEMMA ViewTrue ==
    ASSUME NEW i, CopyTrue(i)
    PROVE  /\ View(i).cmplt => desc[i].cmplt
           /\ View(i).eof => desc[i].eof /\ View(i).used = desc[i].used
  BY DEF View, CopyTrue

\* A read changes what is cached, not what is read.
LEMMA ReadKeeps ==
    ASSUME RingTypeOK, NEW i \in Nat, Read(i), desc' = desc,
           Len(line) = Len(desc) /\ \A j \in 1 .. Len(line) : CopyTrue(j)
    PROVE  /\ Len(line') = Len(desc') /\ \A j \in 1 .. Len(line') : CopyTrue(j)'
           /\ \A j \in 1 .. Len(line) : View(j)' = View(j)
<1>1. /\ line \in Seq(Descriptor \cup {NoLine}) /\ Len(line') = Len(line)
      /\ \A j \in 1 .. Len(line) : line'[j] = IF j = i THEN View(i) ELSE line[j]
  BY DEF RingTypeOK, Read
<1>2. ASSUME NEW j \in 1 .. Len(line) PROVE CopyTrue(j)' /\ View(j)' = View(j)
  <2>1. CASE j # i \/ line[j] # NoLine
    <3>1. line'[j] = line[j]
      BY <1>1, <1>2, <2>1 DEF View
    <3> QED
      BY <1>2, <3>1 DEF CopyTrue, View
  <2>2. CASE j = i /\ line[j] = NoLine
    <3>1. line'[j] = desc'[j]
      BY <1>1, <1>2, <2>2 DEF View
    <3> QED
      BY <2>2, <3>1 DEF CopyTrue, View
  <2> QED
    BY <2>1, <2>2
<1>3. Len(line') = Len(desc') /\ 1 .. Len(line') = 1 .. Len(line)
  BY <1>1
<1> QED
  BY <1>2, <1>3 DEF CopyTrue

\* A wait that returns 0 has seen the image, or the last of the stream, closed.
LEMMA Returned == \A ret : Return(ret) => wait'.at = "done" /\ wait'.ret = ret
  BY DEF Return, NotWaiting

LEMMA DeadlineWaits ==
    ASSUME Deadline PROVE wait'.at # "last" /\ ~(wait'.at = "done" /\ wait'.ret = 0)
<1>1. CASE expired
  <2>1. wait'.at = "done" /\ wait'.ret = -2
    BY <1>1 DEF Deadline, Return, NotWaiting
  <2> QED
    BY <2>1
<1>2. CASE ~expired
  BY <1>2 DEF Deadline, NotWaiting
<1> QED
  BY <1>1, <1>2

LEMMA WaitTurnSaw ==
    ASSUME TypeInv, IInv, WaitStep
    PROVE  CopiesTrue' /\ WaitSaw'
<1>1. /\ UNCHANGED <<pc, job, desc, rx>> /\ pc = "wait" /\ wait \in Waiting /\ RingTypeOK
      /\ desc \in Seq(Descriptor) /\ Len(line) = Len(desc) /\ Len(line) \in Nat \ {0}
  <2>1. UNCHANGED <<pc, job, desc, rx>> /\ pc = "wait"
    BY DEF WaitStep, WaitPoll, WaitSyncFails, ScanImage, LastImage, ScanPackets, LastPackets,
           serverVars
  <2>2. wait \in Waiting /\ RingTypeOK /\ desc \in Seq(Descriptor)
    BY DEF TypeInv, TypeOK, ServerTypeOK, RingTypeOK
  <2>3. Len(line) = Len(desc) /\ Len(line) # 0
    BY <2>1 DEF TypeInv, RingShape
  <2> QED
    BY <2>1, <2>2, <2>3
<1>2. \A i \in 1 .. Len(line) : CopyTrue(i)
  BY <1>1 DEF IInv, CopiesTrue, Encoding
<1>3. PICK e \in 0 .. job.count : Recorded(e)
  BY <1>1 DEF IInv, Flow, Encoding
<1>4. job.count \in 1 .. Len(desc) /\ (job.kind = "stream" => Len(desc) = job.count)
  BY <1>1, JobTyped DEF IInv, RingKept, Storing, Encoding, Laid
<1>5. ASSUME line' = line \/ line' = NoLines PROVE CopiesTrue'
  BY <1>1, <1>2, <1>5 DEF NoLines, CopiesTrue, CopyTrue
<1>6. CASE WaitPoll \/ WaitSyncFails
  <2>1. line' = line \/ line' = NoLines
    BY <1>6 DEF WaitPoll, WaitSyncFails
  <2>2. wait'.at = "scan" \/ (wait'.at = "done" /\ wait'.ret = -1)
    BY <1>1, <1>6 DEF WaitPoll, WaitSyncFails, Return, NotWaiting, Waiting
  <2> QED
    BY <1>1, <1>5, <2>1, <2>2 DEF WaitSaw
<1>7. CASE ScanImage /\ job.kind = "image"
  <2>1. Read(wait.i) /\ wait.i \in 1 .. Len(line) /\ job.count = 1
    BY <1>1, <1>7 DEF ScanImage, TypeInv, RingShape, IInv, JobKept, Waiting
  <2>2. CopiesTrue' /\ \A j \in 1 .. Len(line) : View(j)' = View(j)
    <3>1. wait.i \in Nat
      BY <1>1, <2>1
    <3> QED
      BY <1>1, <1>2, <2>1, <3>1, ReadKeeps DEF CopiesTrue
  <2>3. View(wait.i).eof => wait.i = 1
    <3>1. View(wait.i).eof => desc[wait.i].eof
      BY <1>2, <2>1, ViewTrue
    <3> QED
      BY <1>1, <1>3, <2>1, <3>1 DEF Recorded
  <2>4. wait'.at = "last" /\ wait'.eof => View(wait.i).eof
    BY <1>1, <1>7 DEF ScanImage, ScanOn, Return, NotWaiting, Waiting
  <2>5. wait'.at = "done" => wait'.ret = -1
    BY <1>1, <1>7 DEF ScanImage, ScanOn, Return, NotWaiting, Waiting
  <2> QED
    BY <1>1, <2>1, <2>2, <2>3, <2>4, <2>5 DEF WaitSaw
<1>8. CASE LastImage /\ job.kind = "image"
  <2>1. Read(Len(line)) /\ job.count = 1 /\ 1 \in 1 .. Len(line)
    BY <1>1, <1>8 DEF LastImage, IInv, JobKept
  <2>2. CopiesTrue' /\ View(1)' = View(1)
    BY <1>1, <1>2, <2>1, ReadKeeps DEF CopiesTrue
  <2>3. wait'.at = "done" /\ wait'.ret = 0 => View(1).eof
    BY <1>1, <1>8, Returned, DeadlineWaits DEF LastImage, IInv, WaitSaw
  <2>4. wait'.at # "last"
    BY <1>8, Returned, DeadlineWaits DEF LastImage
  <2>5. View(1).eof => desc[1].eof
    BY <1>2, <2>1, ViewTrue
  <2> QED
    BY <1>1, <2>1, <2>2, <2>3, <2>4, <2>5 DEF WaitSaw
<1>9. CASE ScanPackets /\ job.kind = "stream"
  <2>1. Read(wait.i) /\ wait.i \in Nat
    BY <1>1, <1>9 DEF ScanPackets, Waiting
  <2>2. CopiesTrue'
    BY <1>1, <1>2, <2>1, ReadKeeps DEF CopiesTrue
  <2>3. wait'.at = "done" => wait'.ret = -1
    BY <1>1, <1>9 DEF ScanPackets, ScanOn, Return, NotWaiting, Waiting
  <2> QED
    BY <1>1, <1>9, <2>2, <2>3 DEF WaitSaw
<1>10. CASE LastPackets /\ job.kind = "stream"
  <2>1. Read(Len(line)) /\ Len(line) \in 1 .. Len(line) /\ Len(desc) = job.count
    BY <1>1, <1>4, <1>10 DEF LastPackets
  <2>2. CopiesTrue'
    BY <1>1, <1>2, <2>1, ReadKeeps DEF CopiesTrue
  <2>3. wait'.at = "done" /\ wait'.ret = 0 => View(Len(line)).cmplt
    BY <1>10, Returned, DeadlineWaits DEF LastPackets
  <2>4. View(Len(line)).cmplt => desc[job.count].eof
    <3>1. View(Len(line)).cmplt => desc[job.count].cmplt
      BY <1>1, <1>2, <2>1, ViewTrue
    <3> QED
      BY <1>3, <1>4, <3>1 DEF Recorded
  <2> QED
    BY <1>1, <1>10, <2>2, <2>3, <2>4 DEF WaitSaw
<1> QED
  BY <1>6, <1>7, <1>8, <1>9, <1>10 DEF WaitStep

LEMMA WaitStepKeeps == TypeInv /\ IInv /\ WaitStep => IInv'
<1> SUFFICES ASSUME TypeInv, IInv, WaitStep PROVE IInv'
  OBVIOUS
<1>1. /\ UNCHANGED <<pc, job, tx, txd, desc, rx, rxc, lens, reply, core, gate, s2mm, mm2s>>
      /\ pc = "wait"
  BY DEF WaitStep, WaitPoll, WaitSyncFails, ScanImage, LastImage, ScanPackets, LastPackets, serverVars
<1>2. Loaded' /\ JobKept' /\ RingKept'
  BY <1>1 DEF IInv, Loaded, JobKept, RingKept, Laid, Unused, Stride, Serving, Encoding, Storing,
              HoldsPixels, TxLen
<1>3. Replying'
  BY <1>1 DEF Replying
<1> QED
  BY <1>1, <1>2, <1>3, WaitTurnSaw, EngineStays, ReplyStays DEF IInv, SameJob

\* When the last image is stored the engine, the encoder and the gate are empty.
LEMMA Drained ==
    ASSUME TypeInv, IInv, Encoding, desc[job.count].eof
    PROVE  ~Mm2sReady /\ (~S2mmReady \/ (gate = NoBeat /\ core.got = 0))
<1>1. PICK e, d \in 0 .. job.count :
          Recorded(e) /\ e <= d /\ CoreAt(d) /\ GateAt(e, d) /\ S2mmAt(e, d)
  BY DEF IInv, Flow
<1>2. /\ core.got \in Nat /\ mm2s.pos \in Nat /\ mm2s.end \in Nat
      /\ gate # NoBeat => gate.last \in BOOLEAN
  BY DEF TypeInv, TypeOK, PipelineTypeOK, Core, Mm2sChannel, Beat
<1>3. d = job.count
  <2>1. job.count \in 1 .. Len(desc)
    BY JobTyped DEF IInv, RingKept, Storing, Laid, TypeInv, TypeOK, RingTypeOK
  <2>2. job.count <= e
    BY <1>1, <2>1 DEF Recorded
  <2> QED
    BY <1>1, <2>2, JobTyped
<1>4. core.got = 0 /\ d * job.size = TxLen(job)
  BY <1>1, <1>2, <1>3, JobTyped DEF CoreAt
<1>5. ~Mm2sReady
  BY <1>1, <1>2, <1>4, JobTyped DEF CoreAt, Mm2sReady
<1>6. gate # NoBeat => ~S2mmReady
  <2>1. e = job.count
    <3>1. job.count \in 1 .. Len(desc)
      BY JobTyped DEF IInv, RingKept, Storing, Laid, TypeInv, TypeOK, RingTypeOK
    <3> QED
      BY <1>1, <3>1 DEF Recorded
  <2>2. ASSUME gate # NoBeat PROVE FALSE
    <3>1. ~(e < d) /\ ~(core.got > 0)
      BY <1>3, <1>4, <2>1, JobTyped
    <3> QED
      BY <1>1, <2>2, <3>1 DEF GateAt
  <2> QED
    BY <2>2
<1> QED
  BY <1>4, <1>5, <1>6

LEMMA WaitEndKeeps == TypeInv /\ IInv /\ WaitEnd => IInv'
<1> SUFFICES ASSUME TypeInv, IInv, WaitEnd PROVE IInv'
  OBVIOUS
<1>1. /\ UNCHANGED <<desc, line, rx, s2mm, mm2s, tx, txd, rxc, core, gate, reply, lens>>
      /\ pc = "wait" /\ wait.at = "done" /\ SameJob
      /\ pc' = IF wait.ret = 0 THEN "collect" ELSE "recover_dma"
      /\ job'.status = StatusOf(wait.ret)
  BY DEF WaitEnd, SameJob, TypeInv, TypeOK, ServerTypeOK, Job
<1>2. (job'.status = "OK" <=> wait.ret = 0)
  <2>1. wait.ret \in {0, -1, -2}
    BY DEF TypeInv, TypeOK, ServerTypeOK, Waiting
  <2> QED
    BY <1>1, <2>1 DEF StatusOf
<1>3. Loaded' /\ JobKept'
  BY <1>1, <1>2 DEF IInv, Loaded, JobKept, Serving, Encoding, HoldsPixels, TxLen, SameJob
<1>4. RingKept' /\ CopiesTrue'
  BY <1>1 DEF IInv, RingKept, CopiesTrue, CopyTrue, Laid, Stride, Encoding, Storing, SameJob
<1>5. Fresh' /\ Replying'
  BY <1>1 DEF Fresh, Replying
<1>6. CASE wait.ret = 0
  <2>1. desc[job.count].eof /\ (job.kind = "image" => View(1).eof)
    BY <1>1, <1>6 DEF IInv, WaitSaw
  <2>2. ~Mm2sReady /\ (~S2mmReady \/ (gate = NoBeat /\ core.got = 0))
    BY <1>1, <2>1, Drained DEF Encoding
  <2>3. Quiet' /\ Still' /\ Flow'
    BY <1>1, <1>6, <2>2 DEF Quiet, Still, Mm2sReady, S2mmReady, Flow, Encoding
  <2>4. \E e \in 0 .. job.count : Recorded(e)
    BY <1>1 DEF IInv, Flow, Encoding
  <2>5. ImagesKept'
    BY <1>1, <2>4, ImagesStay DEF ImagesKept
  <2>6. WaitSaw'
    BY <1>1, <1>6, <2>1 DEF WaitSaw, View, SameJob
  <2> QED
    BY <1>1, <1>3, <1>4, <1>5, <2>3, <2>5, <2>6, ReplyStays DEF IInv
<1>7. CASE wait.ret # 0
  <2>1. Flow'
    BY <1>1, FlowStays DEF Encoding
  <2>2. Quiet' /\ Still' /\ ImagesKept' /\ WaitSaw'
    BY <1>1, <1>7 DEF Quiet, Still, ImagesKept, WaitSaw
  <2> QED
    BY <1>1, <1>3, <1>4, <1>5, <2>1, <2>2, ReplyStays DEF IInv
<1> QED
  BY <1>6, <1>7

LEMMA RecoverDmaKeeps == TypeInv /\ IInv /\ RecoverDma => IInv'
<1> SUFFICES ASSUME TypeInv, IInv, RecoverDma PROVE IInv'
  OBVIOUS
<1>1. /\ UNCHANGED <<job, desc, line, rx, tx, txd, rxc, core, gate, reply, lens>>
      /\ pc = "recover_dma" /\ pc' = "recover_core" /\ ~s2mm'.run /\ ~mm2s'.run
  BY DEF RecoverDma, ResetDma, HaltedS2mm, HaltedMm2s, Goto
<1>2. Loaded' /\ JobKept'
  BY <1>1 DEF IInv, Loaded, JobKept, Serving, Encoding, HoldsPixels, TxLen
<1>3. RingKept' /\ CopiesTrue'
  BY <1>1 DEF IInv, RingKept, CopiesTrue, CopyTrue, Laid, Stride, Encoding, Storing
<1>4. Fresh' /\ Quiet' /\ Still' /\ Flow' /\ WaitSaw' /\ Replying'
  BY <1>1 DEF Fresh, Quiet, Still, Flow, Encoding, WaitSaw, Replying, Mm2sReady, S2mmReady
<1>5. ImagesKept'
  <2>1. \E e \in 0 .. job.count : Recorded(e)
    BY <1>1 DEF IInv, Flow, Encoding
  <2> QED
    BY <1>1, <2>1, ImagesStay DEF ImagesKept, SameJob
<1> QED
  BY <1>1, <1>2, <1>3, <1>4, <1>5, ReplyStays DEF IInv

LEMMA RecoverCoreKeeps == TypeInv /\ IInv /\ RecoverCore => IInv'
<1> SUFFICES ASSUME TypeInv, IInv, RecoverCore PROVE IInv'
  OBVIOUS
<1>1. /\ UNCHANGED <<job, desc, line, rx, s2mm, mm2s, tx, txd, rxc, gate, reply, lens>>
      /\ pc = "recover_core" /\ pc' = (IF job.kind = "stream" THEN "collect" ELSE "error")
      /\ core' \in {core, ResetCore(job.size)}
  BY DEF RecoverCore, Configured, Goto, dmaVars
<1>2. Loaded' /\ JobKept'
  BY <1>1 DEF IInv, Loaded, JobKept, Serving, Encoding, HoldsPixels, TxLen
<1>3. RingKept' /\ CopiesTrue'
  BY <1>1 DEF IInv, RingKept, CopiesTrue, CopyTrue, Laid, Stride, Encoding, Storing
<1>4. Fresh' /\ Quiet' /\ Flow' /\ Replying'
  BY <1>1 DEF IInv, Fresh, Quiet, Flow, Encoding, Replying, Mm2sReady
<1>5. Still'
  BY <1>1 DEF IInv, Still, S2mmReady, ResetCore
<1>6. ImagesKept' /\ WaitSaw'
  <2>1. ImagesKept'
    BY <1>1, ImagesStay DEF IInv, ImagesKept, SameJob
  <2>2. WaitSaw'
    BY <1>1 DEF IInv, JobKept, WaitSaw
  <2> QED
    BY <2>1, <2>2
<1> QED
  BY <1>1, <1>2, <1>3, <1>4, <1>5, <1>6, ReplyStays DEF IInv

\* A reply of which no image has been sent yet.
LEMMA EmptyReply ==
    ASSUME TypeInv, NEW done \in BOOLEAN, done => job.status # "OK",
           reply' = [id |-> job.id, kind |-> job.kind, count |-> job.count,
                     status |-> job.status, body |-> <<>>, done |-> done]
    PROVE  ReplyInv'
<1>1. <<>> \in Seq(Seq(Beat)) /\ Len(<<>>) = 0
  OBVIOUS
<1>2. reply' \in Reply
  BY <1>1 DEF Reply, TypeInv, TypeOK, ServerTypeOK, Job
<1>3. /\ reply'.body = <<>> /\ reply'.status = job.status /\ reply'.done = done
      /\ 1 .. 0 = {}
  OBVIOUS
<1>4. RepliesWhole' /\ OkComplete'
  BY <1>1, <1>3 DEF RepliesWhole, OkComplete
<1> QED
  BY <1>2, <1>4 DEF ReplyInv, Reply, Status, Beat

LEMMA SendErrorKeeps == TypeInv /\ IInv /\ SendError => IInv'
<1> SUFFICES ASSUME TypeInv, IInv, SendError PROVE IInv'
  OBVIOUS
<1>1. /\ UNCHANGED <<job, dmaVars, tx, txd, rxc, core, gate, lens>>
      /\ pc = "error" /\ pc' = "idle"
      /\ reply' = [id |-> job.id, kind |-> job.kind, count |-> job.count,
                   status |-> job.status, body |-> <<>>, done |-> TRUE]
  BY DEF SendError, Goto
<1>2. Loaded' /\ JobKept' /\ Fresh' /\ Quiet' /\ RingKept' /\ CopiesTrue'
  BY <1>1 DEF IInv, Loaded, JobKept, Fresh, Quiet, RingKept, CopiesTrue, Serving, Encoding, Storing,
              Mm2sReady, dmaVars
<1>3. ReplyInv'
  <2>1. job.status # "OK"
    BY <1>1 DEF IInv, JobKept
  <2> QED
    BY <1>1, <2>1, EmptyReply
<1> QED
  BY <1>1, <1>2, <1>3, EarlyInv DEF Early
-----------------------------------------------------------------------------
(* The lengths.                                                            *)

LEMMA LeastOf ==
    ASSUME NEW T \in SUBSET Nat, T # {}
    PROVE  \E x \in T : \A y \in T : ~(y < x)
<1>1. \E x \in T : \A y \in T : ~(<<y, x>> \in OpToRel(<, Nat))
  BY NatLessThanWellFounded, WFMin
<1> QED
  BY <1>1 DEF OpToRel

\* The sum of the lengths of a packet that ends in its first descriptor.
LEMMA FirstCloses ==
    ASSUME Len(line) \in Nat \ {0}, View(1).eof, View(1).used \in Nat
    PROVE  RingBytes = View(1).used
<1> DEFINE Step(f, i) == IF i = 0 THEN 0
                         ELSE IF \E j \in 1 .. i - 1 : View(j).eof THEN f[i - 1]
                         ELSE f[i - 1] + View(i).used
           IsSum(f) == f = [i \in 0 .. Len(line) |-> Step(f, i)]
           first == [i \in 0 .. Len(line) |-> IF i = 0 THEN 0 ELSE View(1).used]
           sum == CHOOSE f : IsSum(f)
<1>1. IsSum(first)
  <2>1. ASSUME NEW i \in 0 .. Len(line) PROVE first[i] = Step(first, i)
    <3>1. CASE i = 0
      BY <3>1
    <3>2. CASE i = 1
      <4>1. ~\E j \in 1 .. 1 - 1 : View(j).eof
        OBVIOUS
      <4>2. first[1] = View(1).used /\ first[1 - 1] = 0
        OBVIOUS
      <4> QED
        BY <3>2, <4>1, <4>2
    <3>3. CASE i > 1
      <4>1. 1 \in 1 .. i - 1 /\ i - 1 \in 0 .. Len(line) /\ i - 1 # 0 /\ i # 0
        BY <3>3
      <4>2. \E j \in 1 .. i - 1 : View(j).eof
        BY <4>1
      <4>3. first[i] = View(1).used /\ first[i - 1] = View(1).used
        BY <4>1
      <4> QED
        BY <4>1, <4>2, <4>3
    <3> QED
      BY <3>1, <3>2, <3>3
  <2> HIDE DEF Step
  <2> QED
    BY <2>1
<1>2. IsSum(sum)
  <2> HIDE DEF IsSum, first
  <2> QED
    BY <1>1
<1>3. ASSUME NEW i \in 0 .. Len(line) PROVE sum[i] = Step(sum, i)
  <2> HIDE DEF Step, sum
  <2> QED
    BY <1>2
<1>4. RingBytes = sum[Len(line)]
  BY DEF RingBytes
<1> HIDE DEF sum, IsSum, first
<1>5. ASSUME NEW i \in 1 .. Len(line), sum[i] # View(1).used PROVE FALSE
  <2> DEFINE T == {j \in Nat : j \in 1 .. Len(line) /\ sum[j] # View(1).used}
  <2>1. i \in T
    BY <1>5
  <2>2. PICK x \in T : \A y \in T : ~(y < x)
    <3> HIDE DEF T
    <3>1. T \in SUBSET Nat
      BY DEF T
    <3> QED
      BY <2>1, <3>1, LeastOf
  <2>3. x \in 1 .. Len(line) /\ sum[x] # View(1).used
    BY <2>2
  <2>4. x # 1
    <3>1. ~\E j \in 1 .. 1 - 1 : View(j).eof
      OBVIOUS
    <3>2. sum[0] = 0
      BY <1>3
    <3>3. sum[1] = sum[1 - 1] + View(1).used
      BY <1>3, <3>1
    <3>4. sum[1] = View(1).used
      BY <3>2, <3>3
    <3> QED
      BY <2>3, <3>4
  <2>5. 1 \in 1 .. x - 1 /\ x - 1 \in 1 .. Len(line) /\ x - 1 < x /\ x \in 0 .. Len(line) /\ x # 0
    BY <2>3, <2>4
  <2>6. sum[x] = sum[x - 1]
    <3>1. \E j \in 1 .. x - 1 : View(j).eof
      BY <2>5
    <3> QED
      BY <1>3, <2>5, <3>1
  <2> QED
    BY <2>2, <2>3, <2>5, <2>6
<1> QED
  BY <1>4, <1>5
-----------------------------------------------------------------------------
(* The reply.                                                              *)

\* Every image lies in the receive buffer, a stream's in their slots.
LEMMA PlaceIn ==
    ASSUME Fits, TypeInv, IInv, Storing, NEW k \in 1 .. job.count, NEW n \in 1 .. MaxBeats
    PROVE  /\ Place(k, n) \in 0 .. RxSize - 1
           /\ Place(k, n) = (k - 1) * Slot + n - 1
           /\ Place(k, n) < IF job.kind = "image" THEN n ELSE Slot * job.count
<1>1. /\ Slot \in Nat /\ Chunk \in Nat /\ MaxBeats \in Nat /\ MaxBeats <= Slot /\ RxSize \in Nat
      /\ k \in Nat /\ k >= 1 /\ n \in Nat /\ n >= 1 /\ n <= MaxBeats /\ k <= job.count
  BY RoomAssumption, BoundAssumption, JobTyped DEF Fits
<1>2. MaxBeats <= desc[k].len /\ desc[k].base = (k - 1) * Stride /\ desc[k].base + desc[k].len <= RxSize
      /\ desc[k] \in Descriptor
  BY <1>1, JobTyped DEF IInv, RingKept, Laid, TypeInv, TypeOK, RingTypeOK
<1>3. PICK b \in Nat : b = (k - 1) * Stride
  BY <1>2 DEF Descriptor
<1>4. PICK l \in Nat : l = desc[k].len
  BY <1>2 DEF Descriptor
<1>5. b + n - 1 \in 0 .. RxSize - 1
  BY <1>1, <1>2, <1>3, <1>4
<1>6. Place(k, n) = b + n - 1
  BY <1>3 DEF Place
<1>7. CASE job.kind = "image"
  <2>1. k = 1
    BY <1>1, <1>7 DEF IInv, JobKept
  <2>2. b = 0 /\ (k - 1) * Slot = 0
    BY <1>1, <1>3, <1>7, <2>1 DEF Stride
  <2> QED
    BY <1>1, <1>5, <1>6, <1>7, <2>2
<1>8. CASE job.kind = "stream"
  <2>1. b = (k - 1) * Slot
    BY <1>3, <1>8 DEF Stride
  <2>2. k * Slot <= job.count * Slot /\ k * Slot = (k - 1) * Slot + Slot
    BY <1>1, JobTyped, ProductMonotone
  <2>3. PICK t \in Int : t = job.count * Slot /\ t = Slot * job.count
    BY <1>1, JobTyped
  <2>4. b + Slot <= t
    BY <1>1, <2>1, <2>2, <2>3
  <2>5. b + n - 1 < t
    BY <1>1, <2>4
  <2>6. Place(k, n) < Slot * job.count
    BY <1>6, <2>3, <2>5
  <2> QED
    BY <1>5, <1>6, <1>8, <2>1, <2>6
<1> QED
  BY <1>7, <1>8, JobTyped

\* What is known of a request whose images are stored.
LEMMA StoredImages ==
    ASSUME TypeInv, IInv, pc \in {"collect", "send"}
    PROVE  \E e \in 0 .. job.count :
              /\ Recorded(e)
              /\ \A k \in 1 .. job.count : k \in 1 .. Len(desc) /\ (desc[k].eof <=> k <= e)
<1>1. PICK e \in 0 .. job.count : Recorded(e)
  BY DEF IInv, ImagesKept
<1>2. job.count <= Len(desc) /\ Len(desc) \in Nat
  BY DEF IInv, RingKept, Storing, Laid, TypeInv, TypeOK, RingTypeOK
<1>3. ASSUME NEW k \in 1 .. job.count PROVE k \in 1 .. Len(desc) /\ (desc[k].eof <=> k <= e)
  BY <1>1, <1>2, JobTyped DEF Recorded
<1> QED
  BY <1>1, <1>3

\* The lengths are those of the images that closed, and their beats leave the cache.
LEMMA Collected ==
    ASSUME Fits, TypeInv, IInv, Collect, pc' = "send"
    PROVE  Replying'
<1>1. /\ UNCHANGED <<job, desc, rx>> /\ pc = "collect"
      /\ IF job.kind = "image"
         THEN RxSync(RingBytes) /\ lens' = <<RingBytes>>
         ELSE RxSync(Slot * job.count) /\ lens' = ClosedLens
      /\ reply' = [id |-> job.id, kind |-> job.kind, count |-> job.count,
                   status |-> job.status, body |-> <<>>, done |-> FALSE]
  BY DEF Collect, Refuse
<1>2. PICK e \in 0 .. job.count :
         /\ Recorded(e)
         /\ \A k \in 1 .. job.count : k \in 1 .. Len(desc) /\ (desc[k].eof <=> k <= e)
  BY <1>1, StoredImages
<1>3. Storing
  BY <1>1 DEF Storing
<1>4. \A k \in 1 .. job.count : desc[k].eof => desc[k].used \in 1 .. MaxBeats
  BY <1>2, JobTyped DEF Recorded
<1>5. CASE job.kind = "image"
  <2>1. job.count = 1 /\ View(1).eof
    BY <1>1, <1>5 DEF IInv, JobKept, WaitSaw
  <2>2. /\ Len(line) = Len(desc) /\ 1 \in 1 .. Len(line) /\ CopyTrue(1) /\ Len(line) \in Nat
    BY <1>1, <1>2, <2>1 DEF IInv, CopiesTrue, TypeInv, TypeOK, RingTypeOK
  <2>3. desc[1].eof /\ View(1).used = desc[1].used
    BY <2>1, <2>2, ViewTrue
  <2>4. desc[1].used \in 1 .. MaxBeats /\ desc[1].used \in Nat
    BY <1>4, <2>1, <2>3, BoundAssumption
  <2>5. RingBytes = desc[1].used
    BY <2>1, <2>2, <2>3, <2>4, FirstCloses
  <2>6. ASSUME NEW n \in 1 .. desc[1].used PROVE rxc'[Place(1, n)] = NoLine
    <3>1. n \in 1 .. MaxBeats /\ n <= desc[1].used
      BY <2>4, BoundAssumption
    <3>2. Place(1, n) \in 0 .. RxSize - 1 /\ Place(1, n) < n
      BY <1>3, <1>5, <2>1, <3>1, PlaceIn
    <3>3. Place(1, n) < desc[1].used
      BY <2>4, <3>1, <3>2
    <3> QED
      BY <1>1, <1>5, <2>5, <3>2, <3>3 DEF RxSync
  <2>7. lens'[1] = desc[1].used /\ \A k \in 1 .. job.count : k = 1
    BY <1>1, <1>5, <2>1, <2>5
  <2>8. \A k \in 1 .. job.count : lens'[k] = IF desc[k].eof THEN desc[k].used ELSE 0
    BY <2>3, <2>7
  <2>9. \A k \in 1 .. job.count : \A n \in 1 .. lens'[k] : rxc'[Place(k, n)] = NoLine
    BY <2>6, <2>7
  <2> QED
    BY <1>1, <2>8, <2>9, JobTyped DEF Replying, Place, Stride
<1>6. CASE job.kind = "stream"
  <2>1. ASSUME NEW k \in 1 .. job.count
        PROVE  lens'[k] = IF desc[k].eof THEN desc[k].used ELSE 0
    <3>1. lens'[k] = IF \A i \in 1 .. k : desc[i].eof THEN desc[k].used ELSE 0
      BY <1>1, <1>6 DEF ClosedLens, Resynced
    <3>2. desc[k].eof => \A i \in 1 .. k : desc[i].eof
      BY <1>2, JobTyped
    <3>3. k \in 1 .. k
      BY JobTyped
    <3> QED
      BY <3>1, <3>2, <3>3
  <2>2. ASSUME NEW k \in 1 .. job.count, NEW n \in 1 .. lens'[k]
        PROVE  rxc'[Place(k, n)] = NoLine
    <3>1. n \in 1 .. MaxBeats
      <4>1. CASE desc[k].eof
        BY <1>4, <2>1, <4>1, BoundAssumption
      <4>2. CASE ~desc[k].eof
        BY <2>1, <4>2
      <4> QED
        BY <4>1, <4>2
    <3>2. Place(k, n) \in 0 .. RxSize - 1 /\ Place(k, n) < Slot * job.count
      BY <1>3, <1>6, <3>1, PlaceIn
    <3> QED
      BY <1>1, <1>6, <3>2 DEF RxSync
  <2> QED
    BY <1>1, <2>1, <2>2, JobTyped DEF Replying, Place, Stride
<1> QED
  BY <1>5, <1>6, JobTyped

LEMMA CollectKeeps == Fits /\ TypeInv /\ IInv /\ Collect => IInv'
<1> SUFFICES ASSUME Fits, TypeInv, IInv, Collect PROVE IInv'
  OBVIOUS
<1>1. /\ UNCHANGED <<desc, rx, s2mm, mm2s, tx, txd, core, gate>> /\ SameJob
      /\ pc = "collect"
      /\ \/ /\ pc' = "send" /\ job' = job
            /\ reply' = [id |-> job.id, kind |-> job.kind, count |-> job.count,
                         status |-> job.status, body |-> <<>>, done |-> FALSE]
         \/ pc' = "error" /\ job'.status = "HW_ERROR" /\ reply' = reply
  BY DEF Collect, Refuse, SameJob, TypeInv, TypeOK, ServerTypeOK, Job
<1>2. Loaded' /\ JobKept'
  BY <1>1 DEF IInv, Loaded, JobKept, Serving, Encoding, HoldsPixels, TxLen, SameJob
<1>3. RingKept' /\ CopiesTrue'
  BY <1>1 DEF IInv, RingKept, CopiesTrue, Laid, Stride, Encoding, Storing, SameJob
<1>4. Fresh' /\ Quiet' /\ Still' /\ Flow'
  BY <1>1 DEF IInv, Fresh, Quiet, Still, Mm2sReady, S2mmReady, Flow, Encoding
<1>5. CASE pc' = "send" /\ job' = job
  <2>1. ReplyInv'
    BY <1>1, <1>5, EmptyReply
  <2>2. ImagesKept'
    BY <1>1, ImagesStay DEF IInv, ImagesKept
  <2>3. WaitSaw'
    BY <1>1, <1>5 DEF IInv, WaitSaw
  <2> QED
    BY <1>2, <1>3, <1>4, <1>5, <2>1, <2>2, <2>3, Collected DEF IInv
<1>6. CASE pc' = "error"
  BY <1>1, <1>2, <1>3, <1>4, <1>6, ReplyStays, EarlyInv DEF Early, IInv
<1> QED
  BY <1>1, <1>5, <1>6

\* The image sent next: read through the cache, it is what was stored of it.
LEMMA SentImage ==
    ASSUME Fits, TypeInv, IInv, pc = "send", NEW k, k = Len(reply.body) + 1,
           NEW body, body = [n \in 1 .. lens[k] |-> CpuRx((k - 1) * Slot + n - 1)]
    PROVE  /\ k \in 1 .. job.count /\ body \in Seq(Beat) /\ IsWhole(body, <<job.id, k>>)
           /\ reply.status = "OK" => body # <<>>
<1>1. k \in 1 .. job.count
  BY JobTyped DEF IInv, Replying, ReplyInv, Reply
<1>2. PICK e \in 0 .. job.count :
         /\ Recorded(e)
         /\ \A i \in 1 .. job.count : i \in 1 .. Len(desc) /\ (desc[i].eof <=> i <= e)
  BY StoredImages
<1>3. lens[k] = IF k <= e THEN desc[k].used ELSE 0
  BY <1>1, <1>2 DEF IInv, Replying
<1>4. lens[k] \in 0 .. MaxBeats /\ (k <= e => lens[k] \in 1 .. MaxBeats)
  BY <1>1, <1>2, <1>3, BoundAssumption DEF Recorded
<1>5. Serving /\ JobKept /\ Storing
  BY DEF Serving, IInv, Storing
<1>6. ASSUME NEW n \in 1 .. MaxBeats, NEW last \in BOOLEAN
      PROVE  BeatOf(k, n, last) \in Beat /\ BeatOf(k, n, last) # NoBeat
  <2>1. {<<job.id, k>>} \in SUBSET Tag
    BY <1>1, <1>5, TagOfImage
  <2>2. BeatOf(k, n, last) \in Beat
    BY <2>1, Zenon DEF BeatOf, Beat
  <2> QED
    BY <2>2, BeatAssumption
<1>7. ASSUME NEW n \in 1 .. lens[k]
      PROVE  body[n] = BeatOf(k, n, n = lens[k]) /\ body[n] \in Beat /\ body[n] # NoBeat
  <2>1. n \in 1 .. MaxBeats /\ k \in 1 .. e
    BY <1>1, <1>3, <1>4, BoundAssumption
  <2>2. Place(k, n) = (k - 1) * Slot + n - 1
    BY <1>1, <1>5, <2>1, PlaceIn
  <2>3. rx[Place(k, n)] = BeatOf(k, n, n = lens[k])
    BY <1>2, <1>3, <2>1 DEF Recorded
  <2>4. rxc[Place(k, n)] \in {NoLine, rx[Place(k, n)]}
    BY <1>1 DEF IInv, Replying
  <2>5. body[n] = CpuRx(Place(k, n))
    BY <2>2
  <2>6. body[n] = BeatOf(k, n, n = lens[k])
    BY <2>3, <2>4, <2>5 DEF CpuRx
  <2>7. (n = lens[k]) \in BOOLEAN
    OBVIOUS
  <2>8. BeatOf(k, n, n = lens[k]) \in Beat /\ BeatOf(k, n, n = lens[k]) # NoBeat
    BY <1>6, <2>1, <2>7, Zenon
  <2> QED
    BY <2>6, <2>8, Zenon
<1>8. body \in Seq(Beat) /\ Len(body) = lens[k]
  <2>1. \A n \in 1 .. lens[k] : body[n] \in Beat
    BY <1>7
  <2>2. PICK len \in Nat : len = lens[k]
    BY <1>4, BoundAssumption
  <2>3. body \in [1 .. len -> Beat]
    BY <2>1, <2>2
  <2>4. \A S : \A f \in [1 .. len -> S] : f \in Seq(S) /\ Len(f) = len
    OBVIOUS
  <2> QED
    BY <2>2, <2>3, <2>4, Zenon
<1>9. IsWhole(body, <<job.id, k>>)
  <2>1. ASSUME NEW n \in 1 .. lens[k]
        PROVE  /\ body[n] # NoBeat /\ body[n].n = n /\ body[n].last = (n = lens[k])
               /\ body[n].own = {<<job.id, k>>}
    <3>1. body[n] # NoBeat /\ body[n] = [own |-> {<<job.id, k>>}, n |-> n, last |-> (n = lens[k])]
      BY <1>7 DEF BeatOf
    <3>2. body[n].n = n /\ body[n].own = {<<job.id, k>>}
      BY <3>1
    <3>3. body[n].last = (n = lens[k])
      BY <3>1
    <3> QED
      BY <3>1, <3>2, <3>3, Zenon
  <2> QED
    BY <1>8, <2>1 DEF IsWhole
<1>10. reply.status = "OK" => body # <<>>
  <2>1. reply.status = "OK" => desc[job.count].eof
    BY DEF IInv, Replying, WaitSaw
  <2>2. reply.status = "OK" => k <= e
    BY <1>1, <1>2, <2>1, JobTyped
  <2> QED
    BY <1>4, <1>8, <2>2
<1> QED
  BY <1>1, <1>8, <1>9, <1>10

LEMMA SendKeeps == Fits /\ TypeInv /\ IInv /\ Send => IInv'
<1> SUFFICES ASSUME Fits, TypeInv, IInv, Send PROVE IInv'
  OBVIOUS
<1>1. UNCHANGED <<dmaVars, job, tx, txd, core, gate, lens>> /\ pc = "send" /\ pc' \in {"send", "idle"}
  BY DEF Send, Goto
<1>2. /\ Loaded' /\ JobKept' /\ Fresh' /\ Quiet' /\ Still' /\ RingKept' /\ CopiesTrue'
      /\ ImagesKept' /\ WaitSaw' /\ Flow'
  <2>1. Loaded' /\ JobKept'
    BY <1>1 DEF IInv, Loaded, JobKept, Serving, Encoding, HoldsPixels, TxLen
  <2>2. RingKept' /\ CopiesTrue'
    BY <1>1 DEF IInv, RingKept, CopiesTrue, Laid, Stride, Encoding, Storing, dmaVars
  <2>3. Fresh' /\ Quiet' /\ Still' /\ Flow'
    BY <1>1 DEF IInv, Fresh, Quiet, Still, Mm2sReady, S2mmReady, Flow, Encoding, dmaVars
  <2>4. ImagesKept'
    BY <1>1, ImagesStay DEF IInv, ImagesKept, SameJob, dmaVars
  <2>5. WaitSaw'
    BY <1>1 DEF IInv, WaitSaw, dmaVars
  <2> QED
    BY <2>1, <2>2, <2>3, <2>4, <2>5
<1>3. CASE reply' = reply /\ pc' = "idle"
  BY <1>2, <1>3, ReplyStays, EarlyInv DEF Early, IInv
<1> DEFINE k    == Len(reply.body) + 1
           base == (k - 1) * Slot
           body == [n \in 1 .. lens[k] |-> CpuRx(base + n - 1)]
<1>4. CASE /\ reply' = [reply EXCEPT !.body = Append(@, body), !.done = (k = job.count)]
           /\ rxc' = [p \in 0 .. RxSize - 1 |->
                        IF p \in base .. base + lens[k] - 1 THEN CpuRx(p) ELSE rxc[p]]
           /\ pc' = (IF k = job.count THEN "idle" ELSE "send")
  <2>1. /\ k \in 1 .. job.count /\ body \in Seq(Beat) /\ IsWhole(body, <<job.id, k>>)
        /\ reply.status = "OK" => body # <<>>
    BY <1>1, SentImage
  <2>2. reply.body \in Seq(Seq(Beat)) /\ reply \in Reply
    BY DEF IInv, ReplyInv, Reply
  <2>3. /\ reply.id = job.id /\ reply.kind = job.kind /\ reply.count = job.count
        /\ reply.status = job.status /\ ~reply.done
    BY <1>1 DEF IInv, Replying
  <2>4. PICK sent \in Seq(Seq(Beat)) : sent = Append(reply.body, body)
    <3>1. \A S : \A seq \in Seq(S), x \in S : Append(seq, x) \in Seq(S)
      OBVIOUS
    <3> HIDE DEF body
    <3> QED
      BY <2>1, <2>2, <3>1, Zenon
  <2>5. /\ Len(sent) = k /\ sent[k] = body
        /\ \A i \in 1 .. Len(reply.body) : sent[i] = reply.body[i]
    <3> HIDE DEF body
    <3> QED
      BY <2>1, <2>2, <2>4
  <2>6. /\ reply' \in Reply /\ reply'.body = sent /\ reply'.id = reply.id /\ reply'.kind = reply.kind
        /\ reply'.count = reply.count /\ reply'.status = reply.status /\ reply'.done = (k = job.count)
    <3>1. reply' = [reply EXCEPT !.body = sent, !.done = (k = job.count)]
      BY <1>4, <2>4, Zenon
    <3>2. (k = job.count) \in BOOLEAN
      OBVIOUS
    <3> HIDE DEF k
    <3> QED
      BY <2>2, <3>1, <3>2, Zenon DEF Reply
  <2>7. RepliesWhole'
    <3>1. ASSUME NEW i \in 1 .. k PROVE IsWhole(sent[i], <<job.id, i>>)
      <4>1. CASE i = k
        BY <2>1, <2>5, <4>1
      <4>2. CASE i # k
        <5>1. i \in 1 .. Len(reply.body)
          BY <2>1, <2>2, <4>2
        <5> QED
          BY <2>3, <2>5, <5>1 DEF IInv, ReplyInv, RepliesWhole
      <4> QED
        BY <4>1, <4>2
    <3> HIDE DEF k
    <3> QED
      BY <2>3, <2>5, <2>6, <3>1 DEF RepliesWhole, IsWhole
  <2>8. ASSUME reply.status = "OK", NEW i \in 1 .. k PROVE sent[i] # <<>>
    <3>1. CASE i = k
      BY <2>1, <2>5, <2>8, <3>1
    <3>2. CASE i # k
      <4>1. i \in 1 .. Len(reply.body)
        BY <2>1, <2>2, <3>2
      <4> QED
        BY <1>1, <2>5, <2>8, <4>1 DEF IInv, Replying
    <3> QED
      BY <3>1, <3>2
  <2>9. OkComplete'
    <3> HIDE DEF k, body
    <3> QED
      BY <2>3, <2>5, <2>6, <2>8 DEF OkComplete
  <2>10. ReplyInv'
    BY <2>6, <2>7, <2>9 DEF ReplyInv
  <2>11. CASE k = job.count
    BY <1>2, <1>4, <2>10, <2>11, EarlyInv DEF Early
  <2>12. CASE k # job.count
    <3>1. ASSUME NEW j \in 1 .. job.count, NEW n \in 1 .. lens[j]
          PROVE  rxc'[Place(j, n)] \in {NoLine, rx[Place(j, n)]}
      <4>1. rxc[Place(j, n)] \in {NoLine, rx[Place(j, n)]}
        BY <1>1 DEF IInv, Replying
      <4>2. n \in 1 .. MaxBeats
        <5>1. PICK e \in 0 .. job.count : Recorded(e) /\ (desc[j].eof <=> j <= e)
          BY <1>1, StoredImages
        <5>2. lens[j] = IF desc[j].eof THEN desc[j].used ELSE 0
          BY <1>1 DEF IInv, Replying
        <5>3. desc[j].eof => desc[j].used \in 1 .. MaxBeats
          BY <5>1, JobTyped DEF Recorded
        <5> QED
          BY <5>2, <5>3, BoundAssumption
      <4>3. Place(j, n) \in 0 .. RxSize - 1
        BY <1>1, <4>2, PlaceIn DEF Storing
      <4>4. rxc'[Place(j, n)] \in {CpuRx(Place(j, n)), rxc[Place(j, n)]}
        <5> HIDE DEF k, base
        <5> QED
          BY <1>4, <4>3
      <4> QED
        BY <4>1, <4>4 DEF CpuRx
    <3>2. Len(sent) < job.count
      BY <2>1, <2>5, <2>12, JobTyped
    <3>3. reply.status = "OK" => \A i \in 1 .. Len(sent) : sent[i] # <<>>
      BY <2>5, <2>8
    <3>4. \A j \in 1 .. job.count : lens[j] = IF desc[j].eof THEN desc[j].used ELSE 0
      BY <1>1 DEF IInv, Replying
    <3>5. ~reply'.done
      BY <2>6, <2>12
    <3>6. desc' = desc /\ rx' = rx /\ job' = job /\ lens' = lens
      BY <1>1 DEF dmaVars
    <3>7. Replying'
      <4> HIDE DEF k, base, body
      <4> QED
        BY <2>3, <2>6, <3>1, <3>2, <3>3, <3>4, <3>5, <3>6 DEF Replying, Place, Stride
    <3> QED
      BY <1>2, <2>10, <3>7 DEF IInv
  <2> QED
    BY <2>11, <2>12
<1> QED
  <2>1. \/ reply' = reply /\ pc' = "idle"
        \/ /\ reply' = [reply EXCEPT !.body = Append(@, body), !.done = (k = job.count)]
           /\ rxc' = [p \in 0 .. RxSize - 1 |->
                        IF p \in base .. base + lens[k] - 1 THEN CpuRx(p) ELSE rxc[p]]
           /\ pc' = (IF k = job.count THEN "idle" ELSE "send")
    BY DEF Send, Goto
  <2> QED
    BY <1>3, <1>4, <2>1

-----------------------------------------------------------------------------
(* The theorems.                                                           *)

LEMMA InitKeeps == Init => IInv
<1> SUFFICES ASSUME Init PROVE IInv
  OBVIOUS
<1>1. /\ pc = "idle" /\ mm2s = HaltedMm2s /\ job = NoJob
      /\ reply = [id |-> 0, kind |-> "image", count |-> 1, status |-> "OK", body |-> <<>>, done |-> FALSE]
  BY DEF Init, NoReply
<1>2. ReplyInv
  <2>1. <<>> \in Seq(Seq(Beat)) /\ Len(<<>>) = 0 /\ 1 .. 0 = {}
    OBVIOUS
  <2>2. reply \in Reply
    BY <1>1, <2>1, BoundAssumption DEF Reply, Image, Status
  <2>3. reply.body = <<>> /\ ~reply.done
    BY <1>1
  <2> QED
    BY <2>1, <2>2, <2>3 DEF ReplyInv, RepliesWhole, OkComplete
<1> QED
  BY <1>1, <1>2
  DEF IInv, Loaded, JobKept, Fresh, Quiet, Still, RingKept, CopiesTrue, Flow, ImagesKept, WaitSaw,
      Replying, Serving, Encoding, Storing, Mm2sReady, HaltedMm2s, NoJob

LEMMA NextKeeps == Fits /\ TypeInv /\ IInv /\ [Next]_vars => IInv'
<1> SUFFICES ASSUME Fits, TypeInv, IInv, [Next]_vars PROVE IInv'
  OBVIOUS
<1>1. CASE Receive
  BY <1>1, ReceiveKeeps
<1>2. CASE Server
  BY <1>2, ConfigureKeeps, GateSetKeeps, TxSyncKeeps, DmaResetKeeps, BuildRingsKeeps,
     SyncRingsKeeps, StartReceivingKeeps, StartSendingKeeps, WaitStepKeeps, WaitEndKeeps,
     RecoverDmaKeeps, RecoverCoreKeeps, CollectKeeps, SendKeeps, SendErrorKeeps
  DEF Server
<1>3. CASE Hardware
  BY <1>3, CorePullKeeps, CorePushKeeps, GatePassKeeps DEF Hardware
<1>4. CASE HwFault \/ EvictLine
  BY <1>4, HwFaultKeeps, EvictLineKeeps
<1>5. CASE Timeout \/ UNCHANGED vars
  BY <1>5, TimeoutKeeps
<1>6. CASE Crash \/ Restart \/ SecondServer
  BY <1>6, CrashKeeps, RestartKeeps, SecondServerKeeps
<1> QED
  BY <1>1, <1>2, <1>3, <1>4, <1>5, <1>6 DEF Next

LEMMA Inductive == ASSUME Fits PROVE Spec => [](TypeInv /\ IInv)
<1>1. Init => TypeInv /\ IInv
  BY InitTypes, InitKeeps
<1>2. TypeInv /\ IInv /\ [Next]_vars => (TypeInv /\ IInv)'
  BY NextTypes, NextKeeps
<1> QED
  BY <1>1, <1>2, PTL DEF Spec

\* Whatever was sent for an image is that image of that request, whole, for every
\* size of the buffers, number of requests and choice of what fails, as long as an
\* encoded image fits its slot (encode_and_reply, stream_and_reply).
THEOREM EveryReplyWhole == ASSUME Fits PROVE Spec => []RepliesWhole
<1>1. IInv => RepliesWhole
  BY DEF IInv, ReplyInv
<1> QED
  BY <1>1, Inductive, PTL

\* Status OK stands for every image asked for (stream_send, ojls_server.c:397-402).
THEOREM OkIsComplete == ASSUME Fits PROVE Spec => []OkComplete
<1>1. IInv => OkComplete
  BY DEF IInv, ReplyInv
<1> QED
  BY <1>1, Inductive, PTL

\* A stream reports the images that closed, after a failure too, and no others
\* (stream_and_reply, ojls_server.c:440-456).
THEOREM ReportsClosed == ASSUME Fits PROVE Spec => []ClosedAreReported
<1>1. TypeInv /\ IInv => ClosedAreReported
  <2> SUFFICES ASSUME TypeInv, IInv, pc = "send", NEW k \in 1 .. job.count
               PROVE  lens[k] > 0 <=> desc[k].eof
    BY DEF ClosedAreReported
  <2>1. PICK e \in 0 .. job.count : Recorded(e) /\ (desc[k].eof <=> k <= e)
    BY StoredImages
  <2>2. lens[k] = IF desc[k].eof THEN desc[k].used ELSE 0
    BY DEF IInv, Replying
  <2>3. desc[k].eof => desc[k].used \in 1 .. MaxBeats
    BY <2>1, JobTyped DEF Recorded
  <2> QED
    BY <2>2, <2>3, BoundAssumption
<1> QED
  BY <1>1, Inductive, PTL

\* S2MM starts behind an encoder fresh from its reset, an empty gate and a halted
\* engine, after any number of requests that failed anywhere (ojls_server.c:285-293).
THEOREM StartsFresh == ASSUME Fits PROVE Spec => []FreshPipeline
<1>1. IInv => FreshPipeline
  BY DEF IInv, Fresh, FreshPipeline, HaltedS2mm, HaltedMm2s
<1> QED
  BY <1>1, Inductive, PTL

\* No payload is received over pixels that MM2S still reads (ojls_server.c:590, 285).
THEOREM PixelsStay == ASSUME Fits PROVE Spec => TxStable
<1>1. IInv /\ [Next]_vars => [Mm2sReady => tx' = tx /\ txd' = txd]_vars
  <2> SUFFICES ASSUME IInv, Next, Mm2sReady PROVE tx' = tx /\ txd' = txd
    BY DEF vars
  <2>1. pc \in {"wait", "recover_dma", "down"}
    BY DEF IInv, Quiet
  <2> QED
    BY <2>1
    DEF Next, Receive, Server, Configure, GateSet, TxSync, DmaReset, BuildRings, SyncRings,
        StartReceiving, StartSending, WaitStep, WaitEnd, RecoverDma, RecoverCore, Collect, Send,
        SendError, Hardware, CorePull, CorePush, GatePass, HwFault, Timeout, EvictLine, Crash,
        Restart, SecondServer, serverVars
<1> QED
  BY <1>1, Inductive, PTL DEF Spec, TxStable

\* S2MM, left running with the ring of an image, stores nothing under a reply
\* (ojls_server.c:295-341).
THEOREM ReplyStaysPut == ASSUME Fits PROVE Spec => RxStable
<1>1. IInv /\ [Next]_vars => [pc = "send" => rx' = rx]_vars
  <2> SUFFICES ASSUME IInv, Next, pc = "send" PROVE rx' = rx
    BY DEF vars
  <2>1. ~GatePass
    BY DEF IInv, Still, GatePass, S2mmWrite
  <2> QED
    BY <2>1
    DEF Next, Receive, Server, Configure, GateSet, TxSync, DmaReset, BuildRings, SyncRings,
        StartReceiving, StartSending, WaitStep, WaitEnd, RecoverDma, RecoverCore, Collect, Send,
        SendError, Hardware, CorePull, CorePush, HwFault, S2mmFault, Mm2sFault, Timeout, Expire,
        EvictLine, Evict, Crash, Restart, SecondServer, dmaVars
<1> QED
  BY <1>1, Inductive, PTL DEF Spec, RxStable
===============================================================================
