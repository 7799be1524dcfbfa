----------------------------- MODULE EncodePath -----------------------------
(***************************************************************************)
(* One request through the server: encode_and_reply and stream_and_reply   *)
(* of ojls_server.c, the registers they program, and the hardware they set *)
(* going: MM2S feeds pixels to the encoder, the encoder's output passes    *)
(* the ready gate, S2MM stores it.  The hardware runs concurrently with    *)
(* every step of the server, and goes on when the server dies.             *)
(*                                                                         *)
(* Memory is counted in beats.  A pixel beat is known by the request and   *)
(* image it belongs to; an output beat by the pixels that went into the    *)
(* image it encodes, its number in the image and whether it is the last    *)
(* (TLAST).  Images of one request have `size` pixel beats each and encode *)
(* to at most MaxBeats output beats, which the encoder chooses.            *)
(***************************************************************************)
EXTENDS AxiDma

CONSTANTS
    NoBeat,               \* an empty ready gate, or memory never written
    MaxReq,               \* bound: requests admitted
    Kinds,                \* kinds of request made: subset of {"image", "stream"}
    Sizes,                \* pixel beats per image
    MaxCount,             \* bound: images in a stream
    MaxBeats,             \* longest encoded image, in beats
    TxSize,               \* pixel beats in the transmit buffer
    RxSize,               \* beats in the receive buffer
    Chunk,                \* AXIDMA_DESC_CHUNK, in beats
    Slot,                 \* stream_slot_bytes of an image, in beats
    Faults,               \* what may fail
    Faulty                \* bound: the requests during which it may

FaultKinds == {"configure", "gate", "sync", "reset", "memory", "send", "recv",
               "s2mm", "mm2s", "slow", "crash", "second"}

ASSUME BoundAssumption == MaxReq \in Nat /\ MaxCount \in Nat \ {0} /\ MaxBeats \in Nat \ {0}
ASSUME SizeAssumption  == Sizes \subseteq Nat \ {0} /\ Sizes # {}
ASSUME KindAssumption  == Kinds \subseteq {"image", "stream"}
ASSUME FaultAssumption == Faults \subseteq FaultKinds /\ Faulty \subseteq Nat
ASSUME RoomAssumption  == TxSize \in Nat \ {0} /\ RxSize \in Nat \ {0} /\ Chunk \in Nat \ {0} /\ Slot \in 1 .. RxSize

VARIABLES
    pc,                   \* the server's next step
    job,                  \* the request being served
    tx,                   \* the transmit buffer as the processor wrote it
    txd,                  \* the transmit buffer in DRAM
    rxc,                  \* receive-buffer lines in the processor's cache
    core,                 \* the encoder: image size applied, pixels in, beats out
    gate,                 \* the beat held by the ready gate, or NoBeat
    lens,                 \* the lengths it will be answered with
    reply                 \* history: the last reply, as sent so far

serverVars == <<pc, job, tx, txd, rxc, reply, lens>>
vars       == <<dmaVars, serverVars, core, gate>>

Request == 1 .. MaxReq
Image   == 1 .. MaxCount
Tag     == Request \X Image
Beat    == [own : SUBSET Tag, n : 1 .. MaxBeats, last : BOOLEAN]
Status  == {"OK", "HW_TIMEOUT", "HW_ERROR"}
Core    == [size : Nat, got : Nat, own : SUBSET Tag, out : 0 .. MaxBeats]
Job     == [id : 0 .. MaxReq, kind : {"image", "stream"}, count : Image,
            size : Nat \ {0}, status : Status]

\* The absence of a beat is neither a pixel beat nor an output beat.
ASSUME BeatAssumption == NoBeat \notin Tag \cup Beat \cup {NoLine}

NoJob   == [id |-> 0, kind |-> "image", count |-> 1, size |-> 1, status |-> "OK"]
NoReply == [id |-> 0, kind |-> "image", count |-> 1, status |-> "OK", body |-> <<>>, done |-> FALSE]
\* The encoder after reset, with an image size sampled from WIDTH and HEIGHT.
ResetCore(size) == [size |-> size, got |-> 0, own |-> {}, out |-> 0]

-----------------------------------------------------------------------------
(* The hardware.                                                           *)

MayFail(kind) == kind \in Faults /\ job.id \in Faulty

\* MM2S hands the encoder a pixel beat of what DRAM holds, while the image
\* still wants one.
CorePull ==
    /\ core.got < core.size
    /\ Mm2sRead
    /\ core' = [core EXCEPT !.got = @ + 1, !.own = @ \cup ({txd[mm2s.pos]} \ {NoBeat})]
    /\ UNCHANGED <<desc, line, rx, s2mm, wait, expired, serverVars, gate>>

\* The encoder hands the gate a beat: never before it has a pixel, the last one
\* only with every pixel of the image in.
CorePush ==
    /\ gate = NoBeat /\ core.got > 0 /\ core.out < MaxBeats
    /\ \E last \in BOOLEAN :
          /\ last => core.got = core.size
          /\ core.out + 1 = MaxBeats => last
          /\ gate' = [own |-> core.own, n |-> core.out + 1, last |-> last]
          /\ core' = IF last THEN ResetCore(core.size) ELSE [core EXCEPT !.out = @ + 1]
    /\ UNCHANGED <<dmaVars, serverVars>>

\* The gate hands S2MM the beat it holds.
GatePass ==
    /\ gate # NoBeat
    /\ S2mmWrite(gate)
    /\ gate' = NoBeat
    /\ UNCHANGED <<line, mm2s, wait, expired, serverVars, core>>

HwFault ==
    /\ \/ MayFail("s2mm") /\ S2mmFault
       \/ MayFail("mm2s") /\ Mm2sFault
    /\ UNCHANGED <<serverVars, core, gate>>

Hardware == CorePull \/ CorePush \/ GatePass

-----------------------------------------------------------------------------
(* The server.  Every step of a request but the wait is one action; where   *)
(* the call it stands for can fail, so can the action, when `Faults` says   *)
(* so.                                                                      *)

\* A step leads on to the next one, or to an error reply (send_error).
Goto(next)      == pc' = next /\ UNCHANGED job
Refuse(status)  == pc' = "error" /\ job' = [job EXCEPT !.status = status]

TxLen(j) == j.count * j.size

Stored(mem, j) ==
    [p \in 0 .. TxSize - 1 |-> IF p < TxLen(j) THEN <<j.id, p \div j.size + 1>> ELSE mem[p]]

\* serve_connection has admitted a request and receives its payload straight
\* into the transmit buffer; the client may go away before the end of it.
Receive ==
    /\ pc = "idle" /\ job.id < MaxReq
    /\ \E kind \in Kinds, size \in Sizes, count \in 1 .. MaxCount :
          LET j == [NoJob EXCEPT !.id = job.id + 1, !.kind = kind, !.count = count, !.size = size]
          IN  /\ kind = "image" => count = 1
              /\ TxLen(j) <= TxSize
              /\ kind = "stream" => count * Slot <= RxSize
              /\ job' = j
              /\ tx' = Stored(tx, j)
              /\ lens' = <<>>
              /\ pc' \in {"configure"} \cup (IF "recv" \in Faults /\ j.id \in Faulty THEN {"idle"} ELSE {})
    /\ UNCHANGED <<dmaVars, txd, rxc, core, gate, reply>>

\* hw_configure: the dimensions, then the reset pulse that samples them.  It
\* fails before the pulse on the readback, or after it on BUSY.
Configured(next, otherwise) ==
    \/ core' = ResetCore(job.size) /\ next
    \/ MayFail("configure") /\ core' \in {core, ResetCore(job.size)} /\ otherwise

Configure ==
    /\ pc = "configure"
    /\ Configured(Goto("gate_set"), Refuse("HW_ERROR"))
    /\ UNCHANGED <<dmaVars, tx, txd, rxc, gate, reply, lens>>

\* gate_set: the write of THRESH drops the beat held.
GateSetKeepsBeat ==
    /\ pc = "gate_set"
    /\ Goto("tx_sync")
    /\ UNCHANGED <<dmaVars, tx, txd, rxc, core, gate, reply, lens>>

GateSet ==
    /\ pc = "gate_set"
    /\ gate' = NoBeat
    /\ Goto("tx_sync") \/ (MayFail("gate") /\ Refuse("HW_ERROR"))
    /\ UNCHANGED <<dmaVars, tx, txd, rxc, core, reply, lens>>

TxSync ==
    /\ pc = "tx_sync"
    /\ \/ /\ txd' = [p \in 0 .. TxSize - 1 |-> IF p < TxLen(job) THEN tx[p] ELSE txd[p]]
          /\ Goto("dma_reset")
       \/ MayFail("sync") /\ Refuse("HW_ERROR") /\ UNCHANGED txd
    /\ UNCHANGED <<dmaVars, tx, rxc, core, gate, reply, lens>>

DmaReset ==
    /\ pc = "dma_reset"
    /\ ResetDma
    /\ Goto("ring_build") \/ (MayFail("reset") /\ Refuse("HW_ERROR"))
    /\ UNCHANGED <<desc, line, rx, wait, expired, tx, txd, rxc, core, gate, reply, lens>>

\* Both rings are built; S2MM's spans the receive buffer for one image, and has
\* a slot per image for a stream.  MM2S's is one frame, and stands for its length.
RingsBuilt ==
    IF job.kind = "image" THEN RingBuild(RxSize, Chunk) ELSE RingBuild(Slot * job.count, Slot)

BuildRings ==
    /\ pc = "ring_build"
    /\ RingsBuilt
    /\ Goto("desc_sync")
    /\ UNCHANGED <<desc, rx, s2mm, mm2s, wait, expired, tx, txd, rxc, core, gate, reply, lens>>

\* The descriptors reach DRAM; a stream then allocates its table of lengths.
SyncRings ==
    /\ pc = "desc_sync"
    /\ \/ RingSync /\ Goto("start_s2mm")
       \/ MayFail("sync") /\ UNCHANGED desc /\ Refuse("HW_ERROR")
       \/ MayFail("memory") /\ job.kind = "stream" /\ RingSync /\ Refuse("HW_ERROR")
    /\ UNCHANGED <<line, rx, s2mm, mm2s, wait, expired, tx, txd, rxc, core, gate, reply, lens>>

\* axidma_sg_start on S2MM, then on MM2S; only a ring with no descriptor fails it.
StartReceiving ==
    /\ pc = "start_s2mm"
    /\ StartS2mm
    /\ Goto("start_mm2s")
    /\ UNCHANGED <<desc, line, rx, mm2s, wait, expired, tx, txd, rxc, core, gate, reply, lens>>

StartSending ==
    /\ pc = "start_mm2s"
    /\ StartMm2s(TxLen(job))
    /\ WaitStart
    /\ Goto("wait")
    /\ UNCHANGED <<desc, line, rx, s2mm, tx, txd, rxc, core, gate, reply, lens>>

WaitStep ==
    /\ pc = "wait"
    /\ \/ WaitPoll
       \/ MayFail("sync") /\ WaitSyncFails
       \/ job.kind = "image"  /\ (ScanImage \/ LastImage)
       \/ job.kind = "stream" /\ (ScanPackets \/ LastPackets)
    /\ UNCHANGED <<serverVars, core, gate>>

StatusOfLate(ret) == IF ret = -1 THEN "HW_ERROR" ELSE "OK"

StatusOf(ret) == CASE ret = 0 -> "OK" [] ret = -2 -> "HW_TIMEOUT" [] OTHER -> "HW_ERROR"

\* A wait that failed leads to hw_recover.
WaitEnd ==
    /\ pc = "wait" /\ wait.at = "done"
    /\ job' = [job EXCEPT !.status = StatusOf(wait.ret)]
    /\ pc' = IF wait.ret = 0 THEN "collect" ELSE "recover_dma"
    /\ wait' = NotWaiting
    /\ expired' = FALSE
    /\ UNCHANGED <<desc, line, rx, s2mm, mm2s, tx, txd, rxc, core, gate, reply, lens>>

\* hw_recover looks at neither of its two results.  A stream then still reports
\* the images that closed.
RecoverDmaNoReset ==
    /\ pc = "recover_dma"
    /\ Goto("recover_core")
    /\ UNCHANGED <<dmaVars, tx, txd, rxc, core, gate, reply, lens>>

RecoverDma ==
    /\ pc = "recover_dma"
    /\ ResetDma
    /\ Goto("recover_core")
    /\ UNCHANGED <<desc, line, rx, wait, expired, tx, txd, rxc, core, gate, reply, lens>>

RecoverCore ==
    /\ pc = "recover_core"
    /\ LET next == Goto(IF job.kind = "stream" THEN "collect" ELSE "error")
       IN  Configured(next, next)
    /\ UNCHANGED <<dmaVars, tx, txd, rxc, gate, reply, lens>>

-----------------------------------------------------------------------------
(* The reply.                                                              *)

\* Once the descriptors are invalidated, a read of one goes to DRAM.
ResyncedStale(i) == View(i)
Resynced(i)      == desc[i]

\* Lengths of the images of a stream that closed, in order, up to the first
\* descriptor without an end of packet; the rest stay 0.
ClosedLens ==
    [k \in 1 .. job.count |->
        IF \A i \in 1 .. k : Resynced(i).eof THEN Resynced(k).used ELSE 0]

\* The receive buffer's cached lines are dropped, over the first `len` beats.
RxSyncNone(len) == UNCHANGED rxc
RxSync(len)     == rxc' = [p \in 0 .. RxSize - 1 |-> IF p < len THEN NoLine ELSE rxc[p]]

\* The lengths to send, then the sync of what will be read.
Collect ==
    /\ pc = "collect"
    /\ \/ /\ pc' = "send"
          /\ UNCHANGED job
          /\ IF job.kind = "image"
             THEN UNCHANGED line /\ RxSync(RingBytes) /\ lens' = <<RingBytes>>
             ELSE line' = NoLines /\ RxSync(Slot * job.count) /\ lens' = ClosedLens
          /\ reply' = [id |-> job.id, kind |-> job.kind, count |-> job.count,
                       status |-> job.status, body |-> <<>>, done |-> FALSE]
       \/ MayFail("sync") /\ Refuse("HW_ERROR") /\ UNCHANGED <<line, rxc, reply, lens>>
    /\ UNCHANGED <<desc, rx, s2mm, mm2s, wait, expired, tx, txd, core, gate>>

CpuRx(p) == IF rxc[p] = NoLine THEN rx[p] ELSE rxc[p]

\* stream_send and the body of encode_and_reply: one image after the other, from
\* its slot, through the processor's cache.  The client may be gone.
Send ==
    /\ pc = "send"
    /\ LET k    == Len(reply.body) + 1
           base == (k - 1) * Slot
           len  == lens[k]
       IN  \/ /\ reply' = [reply EXCEPT !.body = Append(@, [n \in 1 .. len |-> CpuRx(base + n - 1)]),
                                        !.done = (k = job.count)]
              /\ rxc' = [p \in 0 .. RxSize - 1 |->
                            IF p \in base .. base + len - 1 THEN CpuRx(p) ELSE rxc[p]]
              /\ IF k = job.count THEN Goto("idle") ELSE Goto("send")
           \/ MayFail("send") /\ Goto("idle") /\ UNCHANGED <<reply, rxc>>
    /\ UNCHANGED <<dmaVars, tx, txd, core, gate, lens>>

\* send_error: a status and nothing else.
SendError ==
    /\ pc = "error"
    /\ Goto("idle")
    /\ reply' = [id |-> job.id, kind |-> job.kind, count |-> job.count,
                 status |-> job.status, body |-> <<>>, done |-> TRUE]
    /\ UNCHANGED <<dmaVars, tx, txd, rxc, core, gate, lens>>

-----------------------------------------------------------------------------
(* The server dies at any moment, the hardware does not notice; a new       *)
(* server resets the DMA in axidma_open before it listens.                  *)

Crash ==
    /\ MayFail("crash") /\ pc # "down"
    /\ pc' = "down"
    /\ wait' = NotWaiting /\ expired' = FALSE
    /\ UNCHANGED <<desc, line, rx, s2mm, mm2s, job, tx, txd, rxc, core, gate, reply, lens>>

Restart ==
    /\ pc = "down"
    /\ ResetDma
    /\ pc' = "idle"
    /\ UNCHANGED <<desc, line, rx, wait, expired, job, tx, txd, rxc, core, gate, reply, lens>>

\* The board scripts start another server beside this one: its hw_open resets the
\* engine as well, before its bind fails and it exits.
SecondServer ==
    /\ MayFail("second") /\ pc # "down"
    /\ ResetDma
    /\ UNCHANGED <<desc, line, rx, wait, expired, serverVars, core, gate>>

\* A line of the descriptors may be evicted, once they have been written back.
EvictLine ==
    /\ pc \in {"wait", "collect"} /\ Evict
    /\ UNCHANGED <<serverVars, core, gate>>

\* The deadline passes, however slow the hardware is.
Timeout ==
    /\ MayFail("slow") /\ Expire
    /\ UNCHANGED <<serverVars, core, gate>>

Server ==
    \/ Configure \/ GateSet \/ TxSync \/ DmaReset \/ BuildRings \/ SyncRings
    \/ StartReceiving \/ StartSending \/ WaitStep \/ WaitEnd
    \/ RecoverDma \/ RecoverCore \/ Collect \/ Send \/ SendError

Init ==
    /\ desc = <<>> /\ line = <<>>
    /\ rx = [p \in 0 .. RxSize - 1 |-> NoBeat]
    /\ s2mm = HaltedS2mm /\ mm2s = HaltedMm2s
    /\ wait = NotWaiting /\ expired = FALSE
    /\ pc = "idle" /\ job = NoJob /\ lens = <<>>
    /\ tx = [p \in 0 .. TxSize - 1 |-> NoBeat] /\ txd = tx
    /\ rxc = [p \in 0 .. RxSize - 1 |-> NoLine]
    /\ core = ResetCore(1) /\ gate = NoBeat
    /\ reply = NoReply

Next == Receive \/ Server \/ Hardware \/ HwFault \/ Timeout \/ EvictLine
        \/ Crash \/ Restart \/ SecondServer

Spec == Init /\ [][Next]_vars

\* The server is scheduled and the clock advances.
ServerFairness == WF_vars(Server) /\ WF_vars(Timeout)
\* The hardware keeps moving while it can: nothing in the server makes it.
HardwareFairness == WF_vars(CorePull) /\ WF_vars(CorePush) /\ WF_vars(GatePass)

FairSpec == Spec /\ ServerFairness

-----------------------------------------------------------------------------
(* Properties.                                                             *)

ServerTypeOK ==
    /\ pc \in {"idle", "configure", "gate_set", "tx_sync", "dma_reset", "ring_build",
               "desc_sync", "start_s2mm", "start_mm2s", "wait", "recover_dma",
               "recover_core", "collect", "send", "error", "down"}
    /\ job \in Job /\ TxLen(job) <= TxSize
    /\ wait \in Waiting
    /\ expired \in BOOLEAN

BufferTypeOK ==
    /\ tx \in [0 .. TxSize - 1 -> Tag \cup {NoBeat}]
    /\ txd \in [0 .. TxSize - 1 -> Tag \cup {NoBeat}]
    /\ rx \in [0 .. RxSize - 1 -> Beat \cup {NoBeat}]
    /\ rxc \in [0 .. RxSize - 1 -> Beat \cup {NoBeat, NoLine}]

PipelineTypeOK ==
    /\ gate \in Beat \cup {NoBeat}
    /\ core \in Core
    /\ core.got <= core.size
    /\ mm2s \in Mm2sChannel /\ mm2s.pos <= mm2s.end /\ mm2s.end <= TxSize
    /\ s2mm \in S2mmChannel

RingTypeOK ==
    /\ desc \in Seq(Descriptor)
    /\ line \in Seq(Descriptor \cup {NoLine})

\* Every variable keeps its shape, and every pixel read lies in the transmit buffer.
TypeOK == ServerTypeOK /\ BufferTypeOK /\ PipelineTypeOK /\ RingTypeOK

\* One image as sent: its beats, all of them, in order, encoded from its own
\* pixels and no others.
IsWhole(body, tag) ==
    \A n \in 1 .. Len(body) :
        /\ body[n] # NoBeat
        /\ body[n].n = n
        /\ body[n].last = (n = Len(body))
        /\ body[n].own \subseteq {tag}
        /\ body[n].last => body[n].own = {tag}

\* Whatever was sent for an image of a request is that image, whole: not one of
\* an earlier request left in a cache, in the pipeline or in a buffer, nor one
\* cut short by a fault, a timeout or a crash (ojls_server.c:285-341, 409-456).
RepliesWhole ==
    \A k \in 1 .. Len(reply.body) : IsWhole(reply.body[k], <<reply.id, k>>)

\* A reply with status OK holds every image asked for.
OkComplete ==
    reply.done /\ reply.status = "OK" =>
        Len(reply.body) = reply.count /\ \A k \in 1 .. reply.count : reply.body[k] # <<>>

\* "A failed stream still reports the images that closed" (ojls_proto.h:15), and
\* no other, and none closes while they are being sent.
ClosedAreReported ==
    pc = "send" /\ job.kind = "stream" =>
        \A k \in 1 .. job.count : lens[k] > 0 <=> desc[k].eof

\* When S2MM is about to start, nothing is left of earlier requests: the encoder
\* is fresh from its reset with this request's size, the gate is empty and the
\* DMA is halted.  hw_configure, gate_set and axidma_reset come in that order
\* (lines 285-293), so this rests on MM2S being quiet when hw_configure resets
\* the encoder.
FreshPipeline ==
    pc = "start_s2mm" =>
        core = ResetCore(job.size) /\ gate = NoBeat /\ ~s2mm.run /\ ~mm2s.run

\* The transmit buffer does not change under a running MM2S: no payload is
\* received over pixels still to be encoded.
TxStable == [][Mm2sReady => tx' = tx /\ txd' = txd]_vars

\* The receive buffer does not change under a reply being sent, although S2MM is
\* left running with the ring of an image (lines 295-296).
RxStable == [][pc = "send" => rx' = rx]_vars

\* Every admitted request is answered or ends with its connection: whatever
\* fails and however slow the hardware, the server is back at the next header.
Answered == pc = "configure" ~> pc \in {"idle", "down"}
=============================================================================
