--------------------------- MODULE EncodePathProofs ---------------------------
(***************************************************************************)
(* Proofs about EncodePath, for every size of buffers and images, number   *)
(* of requests and choice of faults.                                       *)
(***************************************************************************)
EXTENDS EncodePath, TLAPS

-----------------------------------------------------------------------------
(* Arithmetic of slots and descriptors.                                    *)

LEMMA ProductMonotone ==
    ASSUME NEW a \in Int, NEW b \in Int, NEW s \in Nat, a <= b
    PROVE  a * s <= b * s
  OBVIOUS

LEMMA Quotient ==
    ASSUME NEW p \in Nat, NEW s \in Nat \ {0}
    PROVE  /\ p \div s \in Nat
           /\ (p \div s) * s <= p
           /\ p < (p \div s + 1) * s
  OBVIOUS

\* Pixel p of `c` images of `s` pixels lies in one of them.
LEMMA PixelInImage ==
    ASSUME NEW c \in Nat, NEW s \in Nat \ {0}, NEW p \in Nat, p < c * s
    PROVE  p \div s \in Nat /\ p \div s < c
<1>1. p \div s \in Nat /\ (p \div s) * s <= p
  BY Quotient
<1>2. ASSUME p \div s >= c PROVE FALSE
  <2>1. c * s <= (p \div s) * s
    BY <1>1, <1>2, ProductMonotone
  <2> QED
    BY <2>1, <1>1
<1> QED
  BY <1>1, <1>2

\* axidma_ring_build gives every descriptor a length, the last one the rest.
LEMMA RingTyped ==
    ASSUME NEW total \in Nat \ {0}, NEW chunk \in Nat \ {0}
    PROVE  Ring(total, chunk) \in Seq(Descriptor) /\ Len(Ring(total, chunk)) # 0
<1> DEFINE n == (total + chunk - 1) \div chunk
<1>1. n \in Nat /\ n * chunk <= total + chunk - 1 /\ total + chunk - 1 < (n + 1) * chunk
  BY Quotient
<1>4. n # 0
  BY <1>1
<1>2. ASSUME NEW i \in 1 .. n
      PROVE  /\ (i - 1) * chunk \in Nat
             /\ total - (i - 1) * chunk \in Nat
  <2>1. i * chunk <= n * chunk
    BY <1>1, ProductMonotone
  <2>2. (i - 1) * chunk = i * chunk - chunk
    OBVIOUS
  <2>3. 0 * chunk <= (i - 1) * chunk
    BY ProductMonotone
  <2> QED
    BY <1>1, <2>1, <2>2, <2>3
<1> HIDE DEF n
<1>3. ASSUME NEW i \in 1 .. n
      PROVE  [base |-> (i - 1) * chunk,
              len |-> IF total - (i - 1) * chunk > chunk THEN chunk ELSE total - (i - 1) * chunk,
              used |-> 0, cmplt |-> FALSE, eof |-> FALSE, err |-> FALSE] \in Descriptor
  BY <1>2 DEF Descriptor
<1> QED
  BY <1>1, <1>3, <1>4 DEF Ring, n

-----------------------------------------------------------------------------
(* The inductive invariant of the types.                                   *)

\* The ring just built is all in the cache; once synchronised, DRAM and cache hold
\* as many descriptors; and a scan reads one of them.
RingShape ==
    /\ pc = "desc_sync" => line \in Seq(Descriptor) /\ Len(line) # 0
    /\ pc \in {"start_s2mm", "start_mm2s", "wait"} => Len(line) = Len(desc) /\ Len(line) # 0
    /\ wait.at = "poll" => wait.i = 1
    /\ wait.at = "scan" => pc = "wait" /\ wait.i <= Len(line)

TypeInv == TypeOK /\ RingShape

(* Records that keep their shape.                                          *)

LEMMA HaltedTyped == HaltedS2mm \in S2mmChannel /\ HaltedMm2s \in Mm2sChannel
  BY DEF HaltedS2mm, HaltedMm2s, S2mmChannel, Mm2sChannel

LEMMA NotWaitingTyped == NotWaiting \in Waiting
  BY DEF NotWaiting, Waiting

\* A wait begins a turn at its first descriptor, and ends outside of any.
LEMMA TurnStarts ==
    /\ NotWaiting.at = "none"
    /\ [NotWaiting EXCEPT !.at = "poll"].at = "poll"
    /\ [NotWaiting EXCEPT !.at = "poll"].i = 1
    /\ \A ret : [NotWaiting EXCEPT !.at = "done", !.ret = ret].at = "done"
  BY DEF NotWaiting

LEMMA S2mmStartTyped ==
    ASSUME NEW s \in S2mmChannel
    PROVE  [s EXCEPT !.run = TRUE, !.cur = 1, !.off = 0] \in S2mmChannel
<1>1. 1 \in Nat \ {0} /\ 0 \in Nat
  OBVIOUS
<1> QED
  BY <1>1, Zenon DEF S2mmChannel

LEMMA S2mmFaultTyped ==
    ASSUME NEW s \in S2mmChannel
    PROVE  [s EXCEPT !.run = FALSE, !.err = TRUE] \in S2mmChannel
  BY Zenon DEF S2mmChannel

LEMMA S2mmMoveTyped ==
    ASSUME NEW s \in S2mmChannel
    PROVE  /\ [s EXCEPT !.cur = @ + 1, !.off = 0] \in S2mmChannel
           /\ [s EXCEPT !.off = s.off + 1] \in S2mmChannel
<1>1. s.cur \in Nat \ {0} /\ s.off \in Nat
  BY DEF S2mmChannel
<1>2. s.cur + 1 \in Nat \ {0} /\ s.off + 1 \in Nat /\ 0 \in Nat
  BY <1>1
<1> QED
  BY <1>2, Zenon DEF S2mmChannel

LEMMA Mm2sStopTyped ==
    ASSUME NEW m \in Mm2sChannel
    PROVE  /\ [m EXCEPT !.run = FALSE] \in Mm2sChannel
           /\ [m EXCEPT !.pos = @ + 1] \in Mm2sChannel
<1>1. m.pos + 1 \in Nat
  BY DEF Mm2sChannel
<1> QED
  BY <1>1, Zenon DEF Mm2sChannel

LEMMA WaitAtTyped ==
    ASSUME NEW w \in Waiting, NEW at \in {"none", "poll", "scan", "last", "done"},
           NEW eof \in BOOLEAN, NEW ret \in {0, -1, -2}
    PROVE  /\ [w EXCEPT !.at = at] \in Waiting
           /\ [w EXCEPT !.at = at, !.ret = ret] \in Waiting
           /\ [w EXCEPT !.at = at, !.i = 1, !.eof = eof] \in Waiting
           /\ [w EXCEPT !.i = @ + 1] \in Waiting
<1>1. 1 \in Nat \ {0}
  OBVIOUS
<1>2. [w EXCEPT !.at = at, !.i = 1, !.eof = eof] \in Waiting
  BY <1>1, Zenon DEF Waiting
<1>3. [w EXCEPT !.at = at, !.ret = ret] \in Waiting
  BY Zenon DEF Waiting
<1>4. [w EXCEPT !.at = at] \in Waiting
  BY Zenon DEF Waiting
<1>5. [w EXCEPT !.i = @ + 1] \in Waiting
  <2>1. w.i + 1 \in Nat \ {0}
    BY DEF Waiting
  <2> QED
    BY <2>1, Zenon DEF Waiting
<1> QED
  BY <1>2, <1>3, <1>4, <1>5

\* Reading a descriptor gives one, wherever the copy read is.
LEMMA ReadTyped ==
    ASSUME RingTypeOK, Len(line) = Len(desc), NEW i \in Nat, Read(i)
    PROVE  line' \in Seq(Descriptor \cup {NoLine}) /\ Len(line') = Len(line)
<1>1. CASE i \in 1 .. Len(line)
  BY <1>1 DEF RingTypeOK, Read, View
<1>2. CASE i \notin 1 .. Len(line)
  <2>1. line' = line
    BY <1>2 DEF RingTypeOK, Read
  <2> QED
    BY <2>1 DEF RingTypeOK
<1> QED
  BY <1>1, <1>2

LEMMA InitTypes == Init => TypeInv
<1> SUFFICES ASSUME Init PROVE TypeInv
  OBVIOUS
<1>1. ServerTypeOK
  <2>1. NoJob \in Job
    BY BoundAssumption DEF NoJob, Job, Image, Status
  <2>2. TxLen(NoJob) <= TxSize
    BY RoomAssumption DEF NoJob, TxLen
  <2> QED
    BY <2>1, <2>2, NotWaitingTyped DEF Init, ServerTypeOK
<1>2. BufferTypeOK
  BY DEF Init, BufferTypeOK
<1>3. PipelineTypeOK
  BY HaltedTyped, RoomAssumption, BoundAssumption
  DEF Init, PipelineTypeOK, Core, ResetCore, HaltedMm2s
<1>4. RingTypeOK /\ RingShape
  BY DEF Init, RingTypeOK, RingShape, NotWaiting
<1> QED
  BY <1>1, <1>2, <1>3, <1>4 DEF TypeInv, TypeOK

-----------------------------------------------------------------------------
(* The server's steps.                                                     *)

LEMMA ReceiveTypes == TypeInv /\ Receive => TypeInv'
<1> SUFFICES ASSUME TypeInv, Receive PROVE TypeInv'
  OBVIOUS
<1>1. PICK kind \in Kinds, size \in Sizes, count \in 1 .. MaxCount :
         LET j == [NoJob EXCEPT !.id = job.id + 1, !.kind = kind, !.count = count, !.size = size]
         IN  TxLen(j) <= TxSize /\ job' = j /\ tx' = Stored(tx, j)
  BY DEF Receive
<1>2. /\ job' = [id |-> job.id + 1, kind |-> kind, count |-> count, size |-> size, status |-> "OK"]
      /\ job' \in Job
  <2>1. job' = [id |-> job.id + 1, kind |-> kind, count |-> count, size |-> size, status |-> "OK"]
    BY <1>1 DEF NoJob
  <2>2. job.id + 1 \in 0 .. MaxReq
    BY BoundAssumption DEF Receive, TypeInv, TypeOK, ServerTypeOK, Job
  <2>3. kind \in {"image", "stream"} /\ count \in Image /\ size \in Nat \ {0}
    BY SizeAssumption, KindAssumption DEF Image
  <2> QED
    BY <2>1, <2>2, <2>3 DEF Job, Status
<1>3. ASSUME NEW p \in 0 .. TxSize - 1, p < count * size
      PROVE  <<job.id + 1, p \div size + 1>> \in Tag
  <2>1. p \div size \in Nat /\ p \div size < count
    BY <1>3, PixelInImage, SizeAssumption
  <2>2. job.id + 1 \in Request
    BY <1>2 DEF Receive, TypeInv, TypeOK, ServerTypeOK, Job, Request
  <2>3. p \div size + 1 \in Image
    BY <2>1, BoundAssumption DEF Image
  <2> QED
    BY <2>2, <2>3 DEF Tag
<1>4. tx' \in [0 .. TxSize - 1 -> Tag \cup {NoBeat}]
  <2>1. tx' = [p \in 0 .. TxSize - 1 |-> IF p < count * size THEN <<job.id + 1, p \div size + 1>>
                                                              ELSE tx[p]]
    BY <1>1, <1>2 DEF Stored, TxLen
  <2> QED
    BY <2>1, <1>3 DEF TypeInv, TypeOK, BufferTypeOK
<1>5. TxLen(job') <= TxSize
  BY <1>1
<1> QED
  BY <1>2, <1>4, <1>5
  DEF Receive, TypeInv, TypeOK, ServerTypeOK, BufferTypeOK, PipelineTypeOK, RingTypeOK, RingShape,
      dmaVars, TxLen

\* A step to `next`, or to an error reply, leaves a request.
LEMMA GotoTypes ==
    ASSUME ServerTypeOK, NEW status \in Status, NEW next, Goto(next) \/ Refuse(status)
    PROVE  job' \in Job /\ TxLen(job') <= TxSize /\ pc' \in {next, "error"}
  BY DEF ServerTypeOK, Goto, Refuse, Job, TxLen

LEMMA ConfiguredTypes ==
    ASSUME TypeInv, core' \in {core, ResetCore(job.size)}
    PROVE  core' \in Core /\ core'.got <= core'.size
  BY BoundAssumption
  DEF TypeInv, TypeOK, ServerTypeOK, PipelineTypeOK, Job, ResetCore, Core

LEMMA ConfigureTypes == TypeInv /\ (Configure \/ RecoverCore) => TypeInv'
<1> SUFFICES ASSUME TypeInv, Configure \/ RecoverCore PROVE TypeInv'
  OBVIOUS
<1>1. core' \in {core, ResetCore(job.size)}
  BY DEF Configure, RecoverCore, Configured
<1>2. job' \in Job /\ TxLen(job') <= TxSize /\ pc' \in {"gate_set", "error", "collect"}
  BY DEF Configure, RecoverCore, Configured, Goto, Refuse, TypeInv, TypeOK, ServerTypeOK, Job,
         TxLen, Status
<1> QED
  BY <1>1, <1>2, ConfiguredTypes
  DEF Configure, RecoverCore, TypeInv, TypeOK, ServerTypeOK, BufferTypeOK, PipelineTypeOK,
      RingTypeOK, RingShape, dmaVars, TxLen

LEMMA GateSetTypes == TypeInv /\ GateSet => TypeInv'
<1> SUFFICES ASSUME TypeInv, GateSet PROVE TypeInv'
  OBVIOUS
<1>1. job' \in Job /\ TxLen(job') <= TxSize /\ pc' \in {"tx_sync", "error"}
  BY DEF GateSet, Goto, Refuse, TypeInv, TypeOK, ServerTypeOK, Job, TxLen, Status
<1> QED
  BY <1>1 DEF GateSet, TypeInv, TypeOK, ServerTypeOK, BufferTypeOK, PipelineTypeOK, RingTypeOK,
              RingShape, dmaVars, TxLen

LEMMA TxSyncTypes == TypeInv /\ TxSync => TypeInv'
<1> SUFFICES ASSUME TypeInv, TxSync PROVE TypeInv'
  OBVIOUS
<1>1. job' \in Job /\ TxLen(job') <= TxSize /\ pc' \in {"dma_reset", "error"}
  BY DEF TxSync, Goto, Refuse, TypeInv, TypeOK, ServerTypeOK, Job, TxLen, Status
<1>2. txd' \in [0 .. TxSize - 1 -> Tag \cup {NoBeat}]
  BY DEF TxSync, TypeInv, TypeOK, BufferTypeOK
<1> QED
  BY <1>1, <1>2
  DEF TxSync, TypeInv, TypeOK, ServerTypeOK, BufferTypeOK, PipelineTypeOK, RingTypeOK, RingShape,
      dmaVars, TxLen

\* A reset of the engine, in a request, after a failure or by a new server.
LEMMA ResetTypes == TypeInv /\ (DmaReset \/ RecoverDma \/ Restart) => TypeInv'
<1> SUFFICES ASSUME TypeInv, DmaReset \/ RecoverDma \/ Restart PROVE TypeInv'
  OBVIOUS
<1>1. s2mm' = HaltedS2mm /\ mm2s' = HaltedMm2s
  BY DEF DmaReset, RecoverDma, Restart, ResetDma
<1>2. PipelineTypeOK'
  BY <1>1, HaltedTyped, RoomAssumption
  DEF DmaReset, RecoverDma, Restart, TypeInv, TypeOK, PipelineTypeOK, HaltedMm2s
<1>3. /\ job' \in Job /\ TxLen(job') <= TxSize
      /\ pc' \in {"ring_build", "recover_core", "error", "idle"}
  BY DEF DmaReset, RecoverDma, Restart, Goto, Refuse, TypeInv, TypeOK, ServerTypeOK, Job, TxLen,
         Status
<1> QED
  BY <1>2, <1>3
  DEF DmaReset, RecoverDma, Restart, TypeInv, TypeOK, ServerTypeOK, BufferTypeOK, RingTypeOK,
      RingShape, TxLen

LEMMA SecondServerTypes == TypeInv /\ SecondServer => TypeInv'
<1> SUFFICES ASSUME TypeInv, SecondServer PROVE TypeInv'
  OBVIOUS
<1>1. s2mm' = HaltedS2mm /\ mm2s' = HaltedMm2s
  BY DEF SecondServer, ResetDma
<1>2. PipelineTypeOK'
  BY <1>1, HaltedTyped, RoomAssumption
  DEF SecondServer, serverVars, TypeInv, TypeOK, PipelineTypeOK, HaltedMm2s
<1> QED
  BY <1>2
  DEF SecondServer, serverVars, TypeInv, TypeOK, ServerTypeOK, BufferTypeOK, RingTypeOK,
      RingShape, TxLen

LEMMA BuildRingsTypes == TypeInv /\ BuildRings => TypeInv'
<1> SUFFICES ASSUME TypeInv, BuildRings PROVE TypeInv'
  OBVIOUS
<1>1. line' \in Seq(Descriptor) /\ Len(line') # 0
  <2>1. Slot \in Nat \ {0} /\ job.count \in Nat \ {0}
    BY RoomAssumption DEF TypeInv, TypeOK, ServerTypeOK, Job, Image
  <2>2. Slot * job.count \in Nat \ {0}
    <3>1. 1 * Slot <= job.count * Slot
      BY <2>1, ProductMonotone
    <3> QED
      BY <2>1, <3>1
  <2> QED
    BY <2>1, <2>2, RoomAssumption, RingTyped DEF BuildRings, RingsBuilt, RingBuild
<1>2. line' \in Seq(Descriptor \cup {NoLine})
  BY <1>1
<1> QED
  BY <1>1, <1>2 DEF BuildRings, Goto, TypeInv, TypeOK, ServerTypeOK, BufferTypeOK,
      PipelineTypeOK, RingTypeOK, RingShape, TxLen

LEMMA SyncRingsTypes == TypeInv /\ SyncRings => TypeInv'
<1> SUFFICES ASSUME TypeInv, SyncRings PROVE TypeInv'
  OBVIOUS
<1>1. job' \in Job /\ TxLen(job') <= TxSize /\ pc' \in {"start_s2mm", "error"}
  BY DEF SyncRings, Goto, Refuse, TypeInv, TypeOK, ServerTypeOK, Job, TxLen, Status
<1>2. /\ desc' \in Seq(Descriptor)
      /\ pc' = "start_s2mm" => desc' = line
  BY DEF SyncRings, RingSync, Refuse, TypeInv, TypeOK, RingTypeOK, RingShape
<1> QED
  BY <1>1, <1>2
  DEF SyncRings, TypeInv, TypeOK, ServerTypeOK, BufferTypeOK, PipelineTypeOK, RingTypeOK,
      RingShape, TxLen

LEMMA StartReceivingTypes == TypeInv /\ StartReceiving => TypeInv'
<1> SUFFICES ASSUME TypeInv, StartReceiving PROVE TypeInv'
  OBVIOUS
<1>1. s2mm' \in S2mmChannel
  BY S2mmStartTyped DEF StartReceiving, StartS2mm, TypeInv, TypeOK, PipelineTypeOK
<1> QED
  BY <1>1 DEF StartReceiving, Goto, TypeInv, TypeOK, ServerTypeOK, BufferTypeOK,
      PipelineTypeOK, RingTypeOK, RingShape, TxLen

LEMMA StartSendingTypes == TypeInv /\ StartSending => TypeInv'
<1> SUFFICES ASSUME TypeInv, StartSending PROVE TypeInv'
  OBVIOUS
<1>1. TxLen(job) \in 0 .. TxSize
  <2>1. job.count \in Nat /\ job.size \in Nat /\ TxLen(job) <= TxSize
    BY DEF TypeInv, TypeOK, ServerTypeOK, Job, Image
  <2>2. job.count * job.size \in Nat
    BY <2>1
  <2> QED
    BY <2>1, <2>2, RoomAssumption DEF TxLen
<1>2. mm2s' \in Mm2sChannel /\ mm2s'.pos <= mm2s'.end /\ mm2s'.end <= TxSize
  BY <1>1 DEF StartSending, StartMm2s, Mm2sChannel
<1>3. wait' \in Waiting /\ expired' \in BOOLEAN
  BY NotWaitingTyped, WaitAtTyped DEF StartSending, WaitStart
<1>4. wait'.at = "poll" /\ wait'.i = 1
  BY TurnStarts DEF StartSending, WaitStart
<1> QED
  BY <1>2, <1>3, <1>4 DEF StartSending, Goto, TypeInv, TypeOK, ServerTypeOK, BufferTypeOK,
      PipelineTypeOK, RingTypeOK, RingShape, TxLen

\* A turn of a wait, whichever it is: the wait keeps its shape and the copies read
\* are descriptors.
LEMMA ReturnTyped ==
    ASSUME NEW ret \in {0, -1, -2}, Return(ret) PROVE wait' \in Waiting
  BY NotWaitingTyped, WaitAtTyped DEF Return

LEMMA ScanOnTyped ==
    ASSUME wait \in Waiting, NEW eof \in BOOLEAN, ScanOn(eof) PROVE wait' \in Waiting
  BY WaitAtTyped DEF ScanOn

LEMMA DeadlineTyped ==
    ASSUME Deadline PROVE wait' \in Waiting
<1>1. CASE Return(-2)
  BY <1>1, ReturnTyped
<1>2. CASE wait' = [NotWaiting EXCEPT !.at = "poll"]
  BY <1>2, NotWaitingTyped, WaitAtTyped
<1> QED
  BY <1>1, <1>2 DEF Deadline

LEMMA WaitTurnTypes ==
    ASSUME TypeInv, pc = "wait",
           WaitPoll \/ WaitSyncFails \/ ScanImage \/ LastImage \/ ScanPackets \/ LastPackets
    PROVE  /\ RingTypeOK' /\ Len(line') = Len(desc') /\ Len(line') # 0
           /\ wait' \in Waiting
           /\ wait'.at = "poll" => wait'.i = 1
           /\ wait'.at = "scan" => wait'.i <= Len(line')
<1>1. /\ wait \in Waiting /\ RingTypeOK /\ Len(line) = Len(desc) /\ Len(line) # 0
      /\ desc \in Seq(Descriptor) /\ Len(line) \in Nat /\ wait.i \in Nat
      /\ wait.at = "poll" => wait.i = 1
      /\ wait.at = "scan" => wait.i \in 1 .. Len(line)
  BY DEF TypeInv, TypeOK, ServerTypeOK, RingShape, Waiting, RingTypeOK
<1>2. desc' = desc
  BY DEF WaitPoll, WaitSyncFails, ScanImage, LastImage, ScanPackets, LastPackets
<1>3. line' \in Seq(Descriptor \cup {NoLine}) /\ Len(line') = Len(line)
  <2>1. NoLines \in Seq(Descriptor \cup {NoLine}) /\ Len(NoLines) = Len(desc)
    BY <1>1 DEF NoLines
  <2>2. line' = line \/ line' = NoLines \/ Read(wait.i) \/ Read(Len(line))
    BY DEF WaitPoll, WaitSyncFails, ScanImage, LastImage, ScanPackets, LastPackets
  <2>3. CASE Read(wait.i)
    BY <1>1, <2>3, ReadTyped
  <2>4. CASE Read(Len(line))
    BY <1>1, <2>4, ReadTyped
  <2> QED
    BY <1>1, <2>1, <2>2, <2>3, <2>4 DEF RingTypeOK
<1>4. /\ wait' \in Waiting
      /\ wait'.at = "poll" => wait'.i = 1
      /\ wait'.at = "scan" => wait'.i <= Len(line)
  <2>1. CASE Return(-1) \/ Return(0)
    BY <2>1, ReturnTyped, TurnStarts DEF Return
  <2>2. CASE Deadline
    BY <2>2, DeadlineTyped, TurnStarts DEF Deadline, Return
  <2>3. CASE wait.at = "poll" /\ wait' = [wait EXCEPT !.at = "scan"]
    <3>1. wait' \in Waiting
      BY <1>1, <2>3, WaitAtTyped
    <3>2. wait'.at = "scan" /\ wait'.i = wait.i
      BY <1>1, <2>3 DEF Waiting
    <3> QED
      BY <1>1, <2>3, <3>1, <3>2
  <2>4. ASSUME NEW eof \in BOOLEAN, wait.at = "scan", ScanOn(eof)
        PROVE  /\ wait' \in Waiting
               /\ wait'.at = "poll" => wait'.i = 1
               /\ wait'.at = "scan" => wait'.i <= Len(line)
    <3>1. wait' \in Waiting
      BY <1>1, <2>4, ScanOnTyped
    <3>2. CASE eof \/ wait.i = Len(line)
      <4>1. wait' = [wait EXCEPT !.at = "last", !.i = 1, !.eof = eof]
        BY <2>4, <3>2 DEF ScanOn
      <4>2. wait'.at = "last"
        BY <1>1, <4>1, Zenon DEF Waiting
      <4> QED
        BY <3>1, <4>2
    <3>3. CASE ~eof /\ wait.i # Len(line)
      <4>1. wait'.i = wait.i + 1 /\ wait'.at = "scan"
        BY <1>1, <2>4, <3>3 DEF ScanOn, Waiting
      <4> QED
        BY <1>1, <2>4, <3>1, <3>3, <4>1
    <3> QED
      BY <3>1, <3>2, <3>3
  <2>5. wait.at = "scan" => View(wait.i).eof \in BOOLEAN
    <3>1. wait.at = "scan" => View(wait.i) \in Descriptor
      BY <1>1 DEF View, RingTypeOK
    <3> QED
      BY <3>1, Zenon DEF Descriptor
  <2>6. \/ Return(-1) \/ Return(0) \/ Deadline
        \/ wait.at = "poll" /\ wait' = [wait EXCEPT !.at = "scan"]
        \/ wait.at = "scan" /\ (ScanOn(FALSE) \/ ScanOn(View(wait.i).eof))
    BY DEF WaitPoll, WaitSyncFails, ScanImage, LastImage, ScanPackets, LastPackets
  <2> QED
    BY <2>1, <2>2, <2>3, <2>4, <2>5, <2>6
<1> QED
  BY <1>1, <1>2, <1>3, <1>4 DEF RingTypeOK

LEMMA WaitStepTypes == TypeInv /\ WaitStep => TypeInv'
<1> SUFFICES ASSUME TypeInv, WaitStep PROVE TypeInv'
  OBVIOUS
<1>1. /\ RingTypeOK' /\ Len(line') = Len(desc') /\ Len(line') # 0
      /\ wait' \in Waiting
      /\ wait'.at = "poll" => wait'.i = 1
      /\ wait'.at = "scan" => wait'.i <= Len(line')
  BY WaitTurnTypes DEF WaitStep
<1>2. UNCHANGED <<rx, s2mm, mm2s, expired, serverVars, core, gate>> /\ pc = "wait"
  BY DEF WaitStep, WaitPoll, WaitSyncFails, ScanImage, LastImage, ScanPackets, LastPackets
<1> QED
  BY <1>1, <1>2 DEF TypeInv, TypeOK, ServerTypeOK, BufferTypeOK, PipelineTypeOK, RingShape,
      serverVars, TxLen

LEMMA WaitEndTypes == TypeInv /\ WaitEnd => TypeInv'
<1> SUFFICES ASSUME TypeInv, WaitEnd PROVE TypeInv'
  OBVIOUS
<1>1. job' \in Job /\ TxLen(job') <= TxSize
  <2>1. StatusOf(wait.ret) \in Status
    BY DEF StatusOf, Status
  <2> QED
    BY <2>1 DEF WaitEnd, TypeInv, TypeOK, ServerTypeOK, Job, TxLen
<1> QED
  BY <1>1, NotWaitingTyped, TurnStarts
  DEF WaitEnd, TypeInv, TypeOK, ServerTypeOK, BufferTypeOK, PipelineTypeOK, RingTypeOK,
      RingShape, TxLen

LEMMA CollectTypes == TypeInv /\ Collect => TypeInv'
<1> SUFFICES ASSUME TypeInv, Collect PROVE TypeInv'
  OBVIOUS
<1>1. job' \in Job /\ TxLen(job') <= TxSize /\ pc' \in {"send", "error"}
  BY DEF Collect, Refuse, TypeInv, TypeOK, ServerTypeOK, Job, TxLen, Status
<1>2. line' \in Seq(Descriptor \cup {NoLine})
  BY DEF Collect, NoLines, TypeInv, TypeOK, RingTypeOK
<1>3. rxc' \in [0 .. RxSize - 1 -> Beat \cup {NoBeat, NoLine}]
  BY DEF Collect, RxSync, TypeInv, TypeOK, BufferTypeOK
<1> QED
  BY <1>1, <1>2, <1>3
  DEF Collect, TypeInv, TypeOK, ServerTypeOK, BufferTypeOK, PipelineTypeOK, RingTypeOK,
      RingShape, TxLen

LEMMA SendTypes == TypeInv /\ (Send \/ SendError) => TypeInv'
<1> SUFFICES ASSUME TypeInv, Send \/ SendError PROVE TypeInv'
  OBVIOUS
<1>1. rxc' \in [0 .. RxSize - 1 -> Beat \cup {NoBeat, NoLine}]
  BY DEF Send, SendError, CpuRx, TypeInv, TypeOK, BufferTypeOK
<1>2. /\ job' = job /\ pc' \in {"idle", "send"} /\ pc # "wait"
      /\ UNCHANGED <<dmaVars, tx, txd, core, gate>>
  BY DEF Send, SendError, Goto
<1> QED
  BY <1>1, <1>2
  DEF TypeInv, TypeOK, ServerTypeOK, BufferTypeOK, PipelineTypeOK, RingTypeOK, RingShape,
      dmaVars, TxLen

-----------------------------------------------------------------------------
(* The hardware's steps, the cache, the clock and a crash.                 *)

LEMMA CorePullTypes == TypeInv /\ CorePull => TypeInv'
<1> SUFFICES ASSUME TypeInv, CorePull PROVE TypeInv'
  OBVIOUS
<1>1. /\ mm2s' = [mm2s EXCEPT !.pos = @ + 1] /\ mm2s.pos < mm2s.end
      /\ mm2s \in Mm2sChannel /\ mm2s.pos <= mm2s.end /\ mm2s.end <= TxSize
  BY DEF CorePull, Mm2sRead, Mm2sReady, TypeInv, TypeOK, PipelineTypeOK
<1>2. mm2s' \in Mm2sChannel /\ mm2s'.pos <= mm2s'.end /\ mm2s'.end <= TxSize
  <2>1. mm2s' \in Mm2sChannel
    BY <1>1, Mm2sStopTyped
  <2>2. mm2s'.pos = mm2s.pos + 1 /\ mm2s'.end = mm2s.end
    BY <1>1 DEF Mm2sChannel
  <2> QED
    BY <1>1, <2>1, <2>2 DEF Mm2sChannel
<1>3. mm2s.pos \in 0 .. TxSize - 1
  BY <1>1, RoomAssumption DEF Mm2sChannel
<1>4. {txd[mm2s.pos]} \ {NoBeat} \subseteq Tag
  BY <1>3 DEF TypeInv, TypeOK, BufferTypeOK
<1>5. core' \in Core /\ core'.got <= core'.size
  <2>1. /\ core \in Core /\ core.got < core.size
        /\ core' = [core EXCEPT !.got = @ + 1, !.own = @ \cup ({txd[mm2s.pos]} \ {NoBeat})]
    BY DEF CorePull, TypeInv, TypeOK, PipelineTypeOK
  <2>2. core.own \cup ({txd[mm2s.pos]} \ {NoBeat}) \in SUBSET Tag
    BY <1>4, <2>1 DEF Core
  <2>3. core.got + 1 \in Nat
    BY <2>1 DEF Core
  <2>4. core' \in Core
    BY <2>1, <2>2, <2>3, Zenon DEF Core
  <2>5. core'.got = core.got + 1 /\ core'.size = core.size
    BY <2>1 DEF Core
  <2> QED
    BY <2>1, <2>4, <2>5 DEF Core
<1> QED
  BY <1>2, <1>5
  DEF CorePull, TypeInv, TypeOK, ServerTypeOK, BufferTypeOK, PipelineTypeOK, RingTypeOK,
      RingShape, serverVars, TxLen

LEMMA CorePushTypes == TypeInv /\ CorePush => TypeInv'
<1> SUFFICES ASSUME TypeInv, CorePush PROVE TypeInv'
  OBVIOUS
<1>1. core \in Core /\ core.got <= core.size /\ core.out < MaxBeats
  BY DEF CorePush, TypeInv, TypeOK, PipelineTypeOK
<1>2. PICK last \in BOOLEAN :
         /\ gate' = [own |-> core.own, n |-> core.out + 1, last |-> last]
         /\ core' = IF last THEN ResetCore(core.size) ELSE [core EXCEPT !.out = @ + 1]
  BY DEF CorePush
<1>3. core.out + 1 \in 1 .. MaxBeats /\ core.out + 1 \in 0 .. MaxBeats
  BY <1>1, BoundAssumption DEF Core
<1>4. gate' \in Beat
  BY <1>1, <1>2, <1>3, Zenon DEF Core, Beat
<1>5. core' \in Core /\ core'.got <= core'.size
  <2>1. CASE last
    BY <1>1, <1>2, <2>1, BoundAssumption DEF Core, ResetCore
  <2>2. CASE ~last
    BY <1>1, <1>2, <1>3, <2>2 DEF Core
  <2> QED
    BY <2>1, <2>2
<1> QED
  BY <1>4, <1>5
  DEF CorePush, TypeInv, TypeOK, ServerTypeOK, BufferTypeOK, PipelineTypeOK, RingTypeOK,
      RingShape, serverVars, dmaVars, TxLen

\* A descriptor whose status is written is a descriptor.
LEMMA ClosedTyped ==
    ASSUME NEW d \in Descriptor, NEW used \in Nat, NEW eof \in BOOLEAN
    PROVE  /\ [d EXCEPT !.used = used, !.cmplt = TRUE, !.eof = eof] \in Descriptor
           /\ [d EXCEPT !.err = TRUE] \in Descriptor
  BY Zenon DEF Descriptor

LEMMA GatePassTypes == TypeInv /\ GatePass => TypeInv'
<1> SUFFICES ASSUME TypeInv, GatePass PROVE TypeInv'
  OBVIOUS
<1>1. /\ gate \in Beat /\ s2mm \in S2mmChannel /\ desc \in Seq(Descriptor)
      /\ rx \in [0 .. RxSize - 1 -> Beat \cup {NoBeat}]
  BY DEF GatePass, TypeInv, TypeOK, PipelineTypeOK, BufferTypeOK, RingTypeOK
<1>2. s2mm.cur \in 1 .. Len(desc) /\ s2mm.off + 1 \in Nat /\ gate.last \in BOOLEAN
  BY <1>1 DEF GatePass, S2mmWrite, S2mmReady, S2mmChannel, Beat
<1>3. rx' \in [0 .. RxSize - 1 -> Beat \cup {NoBeat}]
  BY <1>1 DEF GatePass, S2mmWrite
<1>4. desc' \in Seq(Descriptor) /\ Len(desc') = Len(desc)
  <2> DEFINE d == [desc[s2mm.cur] EXCEPT !.used = s2mm.off + 1, !.cmplt = TRUE, !.eof = gate.last]
  <2>1. d \in Descriptor
    <3>1. desc[s2mm.cur] \in Descriptor
      BY <1>1, <1>2
    <3> QED
      BY <1>2, <3>1, ClosedTyped
  <2>2. desc' = desc \/ desc' = [desc EXCEPT ![s2mm.cur] = d]
    BY Zenon DEF GatePass, S2mmWrite
  <2> HIDE DEF d
  <2> QED
    BY <1>1, <1>2, <2>1, <2>2
<1>5. s2mm' \in S2mmChannel
  BY <1>1, S2mmMoveTyped DEF GatePass, S2mmWrite
<1> QED
  BY <1>3, <1>4, <1>5
  DEF GatePass, TypeInv, TypeOK, ServerTypeOK, BufferTypeOK, PipelineTypeOK, RingTypeOK,
      RingShape, serverVars, TxLen

LEMMA HwFaultTypes == TypeInv /\ HwFault => TypeInv'
<1> SUFFICES ASSUME TypeInv, HwFault PROVE TypeInv'
  OBVIOUS
<1>1. CASE S2mmFault
  <2>1. /\ s2mm \in S2mmChannel /\ desc \in Seq(Descriptor)
        /\ s2mm.cur \in 1 .. Len(desc)
    BY <1>1 DEF S2mmFault, S2mmReady, S2mmChannel, TypeInv, TypeOK, PipelineTypeOK, RingTypeOK
  <2>2. desc' \in Seq(Descriptor) /\ Len(desc') = Len(desc)
    <3> DEFINE d == [desc[s2mm.cur] EXCEPT !.err = TRUE]
    <3>1. d \in Descriptor
      <4>1. desc[s2mm.cur] \in Descriptor
        BY <2>1
      <4>2. 0 \in Nat
        OBVIOUS
      <4> QED
        BY <4>1, <4>2, ClosedTyped
    <3>2. desc' = [desc EXCEPT ![s2mm.cur] = d]
      BY <1>1, Zenon DEF S2mmFault
    <3> HIDE DEF d
    <3> QED
      BY <2>1, <3>1, <3>2
  <2>3. s2mm' \in S2mmChannel
    BY <1>1, <2>1, S2mmFaultTyped DEF S2mmFault
  <2> QED
    BY <1>1, <2>2, <2>3
    DEF S2mmFault, HwFault, TypeInv, TypeOK, ServerTypeOK, BufferTypeOK, PipelineTypeOK,
        RingTypeOK, RingShape, serverVars, TxLen
<1>2. CASE Mm2sFault
  <2>1. mm2s \in Mm2sChannel /\ mm2s' = [mm2s EXCEPT !.run = FALSE]
    BY <1>2 DEF Mm2sFault, TypeInv, TypeOK, PipelineTypeOK
  <2>2. mm2s' \in Mm2sChannel
    BY <2>1, Mm2sStopTyped
  <2>3. mm2s'.pos = mm2s.pos /\ mm2s'.end = mm2s.end
    BY <2>1 DEF Mm2sChannel
  <2> QED
    BY <1>2, <2>2, <2>3
    DEF Mm2sFault, HwFault, TypeInv, TypeOK, ServerTypeOK, BufferTypeOK, PipelineTypeOK,
        RingTypeOK, RingShape, serverVars, TxLen
<1> QED
  BY <1>1, <1>2 DEF HwFault

LEMMA QuietTypes == TypeInv /\ (EvictLine \/ Timeout \/ Crash \/ UNCHANGED vars) => TypeInv'
<1> SUFFICES ASSUME TypeInv, EvictLine \/ Timeout \/ Crash \/ UNCHANGED vars PROVE TypeInv'
  OBVIOUS
<1>1. CASE EvictLine
  <2>1. line' \in Seq(Descriptor \cup {NoLine}) /\ Len(line') = Len(line)
    BY <1>1 DEF EvictLine, Evict, TypeInv, TypeOK, RingTypeOK
  <2> QED
    BY <1>1, <2>1
    DEF EvictLine, Evict, TypeInv, TypeOK, ServerTypeOK, BufferTypeOK, PipelineTypeOK,
        RingTypeOK, RingShape, serverVars, TxLen
<1>2. CASE Timeout
  BY <1>2
  DEF Timeout, Expire, TypeInv, TypeOK, ServerTypeOK, BufferTypeOK, PipelineTypeOK, RingTypeOK,
      RingShape, serverVars, TxLen
<1>3. CASE Crash
  BY <1>3, NotWaitingTyped, TurnStarts
  DEF Crash, TypeInv, TypeOK, ServerTypeOK, BufferTypeOK, PipelineTypeOK, RingTypeOK, RingShape,
      TxLen
<1>4. CASE UNCHANGED vars
  BY <1>4
  DEF vars, dmaVars, serverVars, TypeInv, TypeOK, ServerTypeOK, BufferTypeOK, PipelineTypeOK,
      RingTypeOK, RingShape, TxLen
<1> QED
  BY <1>1, <1>2, <1>3, <1>4

-----------------------------------------------------------------------------
(* The theorem.                                                            *)

LEMMA NextTypes == TypeInv /\ [Next]_vars => TypeInv'
<1> SUFFICES ASSUME TypeInv, [Next]_vars PROVE TypeInv'
  OBVIOUS
<1>1. CASE Receive
  BY <1>1, ReceiveTypes
<1>2. CASE Server
  BY <1>2, ConfigureTypes, GateSetTypes, TxSyncTypes, ResetTypes, BuildRingsTypes,
     SyncRingsTypes, StartReceivingTypes, StartSendingTypes, WaitStepTypes, WaitEndTypes,
     CollectTypes, SendTypes
  DEF Server
<1>3. CASE Hardware
  BY <1>3, CorePullTypes, CorePushTypes, GatePassTypes DEF Hardware
<1>4. CASE HwFault
  BY <1>4, HwFaultTypes
<1>5. CASE Timeout \/ EvictLine \/ Crash \/ UNCHANGED vars
  BY <1>5, QuietTypes
<1>6. CASE Restart
  BY <1>6, ResetTypes
<1>7. CASE SecondServer
  BY <1>7, SecondServerTypes
<1> QED
  BY <1>1, <1>2, <1>3, <1>4, <1>5, <1>6, <1>7 DEF Next

\* Every variable of the encode path keeps its shape whatever fails and whenever,
\* every pixel MM2S reads lies in the transmit buffer, and the encoder never
\* takes more pixels than its image has (ojls_server.c:274-467, axidma.c).
THEOREM TypeCorrect == Spec => []TypeOK
<1>1. TypeInv => TypeOK
  BY DEF TypeInv
<1> QED
  BY InitTypes, NextTypes, <1>1, PTL DEF Spec

\* A wait scans descriptors of the ring it built and no other: the index is
\* within the ring, of which the processor's copy and the engine's have one
\* length (axidma_wait, axidma.c:183-194).
THEOREM ScansItsRing == Spec => [](wait.at = "scan" => wait.i \in 1 .. Len(desc))
<1>1. TypeInv => (wait.at = "scan" => wait.i \in 1 .. Len(desc))
  BY DEF TypeInv, TypeOK, ServerTypeOK, RingTypeOK, RingShape, Waiting
<1> QED
  BY InitTypes, NextTypes, <1>1, PTL DEF Spec
===============================================================================
