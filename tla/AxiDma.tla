------------------------------- MODULE AxiDma -------------------------------
(***************************************************************************)
(* The scatter-gather DMA engine as axidma.c sees it, and the driver's     *)
(* operations on it.  The engine (the actions S2mm..., Mm2s...) is vendor  *)
(* IP, modelled from the registers and descriptors the driver uses; the    *)
(* driver's operations are translated from axidma.c.                       *)
(*                                                                         *)
(* Descriptors live in cached memory.  `desc` is what DRAM holds, which is *)
(* what the engine reads and writes; `line` is the processor's copy of     *)
(* each descriptor, or NoLine when it has none and a read goes to DRAM.    *)
(* The scan of a wait is one action per descriptor read, because the       *)
(* engine completes descriptors between two reads.  Lengths count beats.   *)
(*                                                                         *)
(* A definition directly above another, which no action uses, is the same  *)
(* code with one plausible slip: the properties must tell the two apart.   *)
(***************************************************************************)
EXTENDS Integers, Sequences

CONSTANTS
    NoLine                \* no copy in the processor's cache

VARIABLES
    desc,                 \* S2MM descriptors in DRAM
    line,                 \* the processor's copies of them
    rx,                   \* DRAM contents of the receive buffer, by beat
    s2mm,                 \* the engine's stream-to-memory channel
    mm2s,                 \* its memory-to-stream channel
    wait,                 \* axidma_wait or axidma_wait_packets in progress
    expired               \* the deadline of that wait has passed

dmaVars == <<desc, line, rx, s2mm, mm2s, wait, expired>>

Descriptor == [base : Nat, len : Nat, used : Nat,
               cmplt : BOOLEAN, eof : BOOLEAN, err : BOOLEAN]

S2mmChannel == [run : BOOLEAN, err : BOOLEAN, cur : Nat \ {0}, off : Nat]
Mm2sChannel == [run : BOOLEAN, pos : Nat, end : Nat]
Waiting     == [at : {"none", "poll", "scan", "last", "done"}, i : Nat \ {0},
                eof : BOOLEAN, ret : {0, -1, -2}]

HaltedS2mm == [run |-> FALSE, err |-> FALSE, cur |-> 1, off |-> 0]
HaltedMm2s == [run |-> FALSE, pos |-> 0, end |-> 0]
NotWaiting == [at |-> "none", i |-> 1, eof |-> FALSE, ret |-> 0]

-----------------------------------------------------------------------------
(* The engine.                                                             *)

\* S2MM takes a beat: it goes to the current descriptor's buffer; the
\* descriptor closes on the packet's last beat or when its buffer is full, and
\* the status written then tells which.  Past the tail descriptor the channel
\* takes nothing.
S2mmReady == s2mm.run /\ ~s2mm.err /\ s2mm.cur <= Len(desc)

S2mmWrite(beat) ==
    LET d      == desc[s2mm.cur]
        used   == s2mm.off + 1
        closes == beat.last \/ used = d.len
    IN  /\ S2mmReady
        /\ rx'   = [rx EXCEPT ![d.base + s2mm.off] = beat]
        /\ desc' = IF closes
                   THEN [desc EXCEPT ![s2mm.cur].used = used, ![s2mm.cur].cmplt = TRUE,
                                     ![s2mm.cur].eof = beat.last]
                   ELSE desc
        /\ s2mm' = IF closes THEN [s2mm EXCEPT !.cur = @ + 1, !.off = 0]
                             ELSE [s2mm EXCEPT !.off = used]

\* A bus or internal error halts the channel, and shows in its status register
\* and in the current descriptor.
S2mmFault ==
    /\ S2mmReady
    /\ s2mm' = [s2mm EXCEPT !.run = FALSE, !.err = TRUE]
    /\ desc' = [desc EXCEPT ![s2mm.cur].err = TRUE]
    /\ UNCHANGED <<line, rx, mm2s, wait, expired>>

\* MM2S pushes the next beat of the transmit buffer.
Mm2sReady == mm2s.run /\ mm2s.pos < mm2s.end

Mm2sRead == Mm2sReady /\ mm2s' = [mm2s EXCEPT !.pos = @ + 1]

\* The same on MM2S.  Nothing in the server reads this channel's status.
Mm2sFault ==
    /\ Mm2sReady
    /\ mm2s' = [mm2s EXCEPT !.run = FALSE]
    /\ UNCHANGED <<desc, line, rx, s2mm, wait, expired>>

-----------------------------------------------------------------------------
(* The driver.                                                             *)

ResetMm2sOnly == mm2s' = HaltedMm2s /\ UNCHANGED s2mm

\* axidma_reset: either channel's reset bit resets both.  A reset that does not
\* complete in 100 ms is reported; the engine is held in it meanwhile.
ResetDma ==
    /\ s2mm' = HaltedS2mm
    /\ mm2s' = HaltedMm2s

\* axidma_ring_build over `total` beats from the start of the receive buffer.
Ring(total, chunk) ==
    [i \in 1 .. (total + chunk - 1) \div chunk |->
        LET base == (i - 1) * chunk
        IN  [base |-> base, len |-> IF total - base > chunk THEN chunk ELSE total - base,
             used |-> 0, cmplt |-> FALSE, eof |-> FALSE, err |-> FALSE]]

\* The descriptors are written through the cache: DRAM has them after the sync.
RingBuild(total, chunk) == line' = Ring(total, chunk)
RingSync                == desc' = line

\* axidma_sg_start: current and tail descriptor, run.  An error stays in the
\* status register until a reset.
StartS2mm == s2mm' = [s2mm EXCEPT !.run = TRUE, !.cur = 1, !.off = 0]

StartMm2sBeyond(len) == mm2s' = [run |-> TRUE, pos |-> 0, end |-> len + 1]
StartMm2s(len)       == mm2s' = [run |-> TRUE, pos |-> 0, end |-> len]

NoLines == [i \in 1 .. Len(desc) |-> NoLine]

\* What the processor reads of descriptor i.
View(i) == IF line[i] = NoLine THEN desc[i] ELSE line[i]

\* A clean line may leave the cache at any time.
Evict ==
    /\ \E i \in 1 .. Len(line) : line[i] # NoLine /\ line' = [line EXCEPT ![i] = NoLine]
    /\ UNCHANGED <<desc, rx, s2mm, mm2s, wait, expired>>

WaitStart ==
    /\ wait'    = [NotWaiting EXCEPT !.at = "poll"]
    /\ expired' = FALSE

Return(ret) == wait' = [NotWaiting EXCEPT !.at = "done", !.ret = ret]

\* One turn of the loop begins: status register, then the invalidation that
\* makes the descriptors readable, which the kernel may refuse.
WaitPoll ==
    /\ wait.at = "poll"
    /\ IF s2mm.err THEN Return(-1) /\ UNCHANGED line
                   ELSE wait' = [wait EXCEPT !.at = "scan"] /\ line' = NoLines
    /\ UNCHANGED <<desc, rx, s2mm, mm2s, expired>>

WaitSyncFails ==
    /\ wait.at = "poll" /\ ~s2mm.err
    /\ Return(-1)
    /\ UNCHANGED <<desc, line, rx, s2mm, mm2s, expired>>

\* The loop over the descriptors goes on, or ends with `eof` found or not.
ScanOn(eof) ==
    wait' = IF eof \/ wait.i = Len(line)
            THEN [wait EXCEPT !.at = "last", !.i = 1, !.eof = eof]
            ELSE [wait EXCEPT !.i = @ + 1]

Read(i) == line' = [line EXCEPT ![i] = View(i)]

\* axidma_wait: stop at the first descriptor that carries the end of the packet.
ScanImage ==
    /\ wait.at = "scan"
    /\ Read(wait.i)
    /\ IF View(wait.i).err THEN Return(-1) ELSE ScanOn(View(wait.i).eof)
    /\ UNCHANGED <<desc, rx, s2mm, mm2s, expired>>

\* axidma_wait_packets: every descriptor that is complete must carry an end of packet.
ScanPackets ==
    /\ wait.at = "scan"
    /\ Read(wait.i)
    /\ LET st == View(wait.i)
       IN  IF st.err \/ (st.cmplt /\ ~st.eof) THEN Return(-1) ELSE ScanOn(FALSE)
    /\ UNCHANGED <<desc, rx, s2mm, mm2s, expired>>

\* After the scan, the last descriptor tells whether the ring is used up; then
\* comes the deadline, and otherwise another turn.
NoDeadline == wait' = [NotWaiting EXCEPT !.at = "poll"]

Deadline ==
    IF expired THEN Return(-2) ELSE wait' = [NotWaiting EXCEPT !.at = "poll"]

LastImageNoTlast ==
    /\ wait.at = "last"
    /\ Read(Len(line))
    /\ IF wait.eof \/ View(Len(line)).cmplt THEN Return(0) ELSE Deadline
    /\ UNCHANGED <<desc, rx, s2mm, mm2s, expired>>

LastImage ==
    /\ wait.at = "last"
    /\ Read(Len(line))
    /\ IF wait.eof THEN Return(0)
       ELSE IF View(Len(line)).cmplt THEN Return(-1) ELSE Deadline
    /\ UNCHANGED <<desc, rx, s2mm, mm2s, expired>>

LastPackets ==
    /\ wait.at = "last"
    /\ Read(Len(line))
    /\ IF View(Len(line)).cmplt THEN Return(0) ELSE Deadline
    /\ UNCHANGED <<desc, rx, s2mm, mm2s, expired>>

\* Time passes.
Expire ==
    /\ wait.at \in {"poll", "scan", "last"} /\ ~expired
    /\ expired' = TRUE
    /\ UNCHANGED <<desc, line, rx, s2mm, mm2s, wait>>

\* axidma_ring_bytes: the sum of the lengths up to the first end of packet.
RingBytes ==
    LET sum[i \in 0 .. Len(line)] ==
            IF i = 0 THEN 0
            ELSE IF \E j \in 1 .. i - 1 : View(j).eof THEN sum[i - 1]
            ELSE sum[i - 1] + View(i).used
    IN  sum[Len(line)]
=============================================================================
