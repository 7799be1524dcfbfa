---------------------------- MODULE HostRunProofs ----------------------------
(***************************************************************************)
(* What the sweep's results are worth, proved from end to end: over the    *)
(* request path with all its faults, for every size of buffers, pictures   *)
(* and requests, a pass is of an image the board encoded for that request. *)
(***************************************************************************)
EXTENDS HostRun, EncodeRepliesProofs

-----------------------------------------------------------------------------
(* The inductive invariant.                                                *)

Output == Seq(Beat) \cup {NoFile}
Result == {"none", "pass", "mismatch", "error"}

HostTypeOK ==
    /\ files \in [{"image", "stream"} -> [Image -> Output]]
    /\ host \in [at : {"idle", "waiting", "compare"}, rc : {0, 1}, rows : [Image -> Result]]

\* The last reply is to this request or to an earlier one, and says which.
ReplyOfJob ==
    /\ reply.id <= job.id
    /\ reply.id = job.id => reply.kind = job.kind /\ reply.count = job.count

\* What looks like a golden file is of this request.
Ours(k) ==
    LET out == files[job.kind][k]
    IN  out # NoFile /\ IsGolden(out, k) => IsWhole(out, <<job.id, k>>)

Outputs ==
    /\ host.at = "waiting" => files[job.kind] = NoFiles
    /\ host.at \in {"waiting", "compare"} => host.rows = NoRows
    /\ host.at = "compare" => \A k \in Image : Ours(k)
    /\ PassIsReal /\ ExitZeroIsWhole

HostInv == HostTypeOK /\ ReplyOfJob /\ Outputs

-----------------------------------------------------------------------------
(* The request path underneath.                                            *)

LEMMA StepIsEncodePath == [HostNext]_runVars => [Next]_vars
<1> SUFFICES ASSUME [HostNext]_runVars PROVE [Next]_vars
  OBVIOUS
<1>1. CASE HostSend
  BY <1>1 DEF HostSend, Next
<1>2. CASE ClientLost \/ ClientWrites \/ ClientWriteFails \/ SweepCompares \/ SweepGivesUp
  BY <1>2 DEF ClientLost, ClientWrites, ClientWriteFails, SweepCompares, SweepGivesUp
<1>3. CASE Board
  BY <1>3 DEF Board, Next
<1>4. CASE UNCHANGED runVars
  BY <1>4 DEF runVars
<1> QED
  BY <1>1, <1>2, <1>3, <1>4 DEF HostNext

\* The scripts and the client only use the server: their runs are runs of the
\* request path (run_hil_sweep.py, ojls_client.c).
LEMMA RunsEncodePath == HostSpec => Spec
<1>1. HostInit => Init
  BY DEF HostInit
<1> QED
  BY <1>1, StepIsEncodePath, PTL DEF HostSpec, Spec

-----------------------------------------------------------------------------
(* What the board may do under a client.                                   *)

LEMMA BoardJob ==
    ASSUME TypeInv, IInv, Board
    PROVE  /\ SameJob
           /\ \/ reply'.id = reply.id /\ reply'.kind = reply.kind /\ reply'.count = reply.count
              \/ reply'.id = job.id /\ reply'.kind = job.kind /\ reply'.count = job.count
<1>1. job \in Job /\ reply \in Reply
  BY DEF TypeInv, TypeOK, ServerTypeOK, IInv, ReplyInv
<1>2. CASE Configure \/ GateSet \/ TxSync \/ DmaReset \/ BuildRings \/ SyncRings
           \/ StartReceiving \/ StartSending \/ RecoverDma \/ RecoverCore
  <2>1. \E next, status : Goto(next) \/ Refuse(status)
    BY <1>2 DEF Configure, Configured, GateSet, TxSync, DmaReset, BuildRings, SyncRings,
                StartReceiving, StartSending, RecoverDma, RecoverCore
  <2>2. reply' = reply
    BY <1>2 DEF Configure, GateSet, TxSync, DmaReset, BuildRings, SyncRings,
                StartReceiving, StartSending, RecoverDma, RecoverCore
  <2> QED
    BY <2>1, <2>2, JobStays
<1>3. CASE WaitEnd
  BY <1>1, <1>3 DEF WaitEnd, Job, SameJob
<1>4. CASE Collect
  <2>1. SameJob
    <3>1. CASE UNCHANGED job
      BY <3>1 DEF SameJob
    <3>2. CASE Refuse("HW_ERROR")
      BY <3>2, JobStays
    <3> QED
      BY <1>4, <3>1, <3>2 DEF Collect
  <2> QED
    BY <1>4, <2>1 DEF Collect
<1>5. CASE Send
  <2>1. SameJob
    BY <1>5 DEF Send, Goto, SameJob
  <2>2. reply'.id = reply.id /\ reply'.kind = reply.kind /\ reply'.count = reply.count
    BY <1>1, <1>5 DEF Send, Reply
  <2> QED
    BY <2>1, <2>2
<1>6. CASE SendError
  BY <1>6 DEF SendError, Goto, SameJob
<1>7. CASE WaitStep \/ Hardware \/ HwFault \/ Timeout \/ EvictLine \/ Crash \/ Restart \/ SecondServer
  <2>1. UNCHANGED <<job, reply>>
    BY <1>7 DEF WaitStep, Hardware, CorePull, CorePush, GatePass, HwFault, Timeout, EvictLine,
                Crash, Restart, SecondServer, serverVars
  <2> QED
    BY <2>1 DEF SameJob
<1> QED
  BY <1>2, <1>3, <1>4, <1>5, <1>6, <1>7 DEF Board, Server

\* What is judged of the files is about the request, its kind and its count only.
LEMMA FilesStay ==
    ASSUME SameJob, UNCHANGED files
    PROVE  \A k : (Ours(k)' <=> Ours(k)) /\ (Delivered(k)' <=> Delivered(k))
  BY DEF SameJob, Ours, Delivered, IsGolden, IsWhole

LEMMA BoardKeeps == ASSUME TypeInv, IInv, HostInv, Board, UNCHANGED hostVars PROVE HostInv'
<1>1. SameJob /\ UNCHANGED <<files, host>>
  BY BoardJob DEF hostVars
<1>2. HostTypeOK'
  BY <1>1 DEF HostInv, HostTypeOK
<1>3. ReplyOfJob'
  <2>1. reply.id \in Int /\ job.id \in Int
    BY BoundAssumption DEF IInv, ReplyInv, Reply, TypeInv, TypeOK, ServerTypeOK, Job
  <2> QED
    BY <1>1, <2>1, BoardJob DEF HostInv, ReplyOfJob, SameJob
<1>4. Outputs'
  <2>1. PassIsReal'
    BY <1>1, FilesStay DEF HostInv, Outputs, PassIsReal
  <2>2. ExitZeroIsWhole'
    BY <1>1, FilesStay DEF HostInv, Outputs, ExitZeroIsWhole, SameJob
  <2> QED
    BY <1>1, <2>1, <2>2, FilesStay DEF HostInv, Outputs, SameJob
<1> QED
  BY <1>2, <1>3, <1>4 DEF HostInv

-----------------------------------------------------------------------------
(* The client and the sweep.                                               *)

\* A request begins with nothing on disk that its comparison would see.
LEMMA HostSendKeeps == ASSUME TypeInv, IInv, HostInv, HostSend PROVE HostInv'
<1>1. /\ Receive /\ host' = [at |-> "waiting", rc |-> 1, rows |-> NoRows]
      /\ files' = [files EXCEPT ![job'.kind] = NoFiles]
  BY DEF HostSend, Clear
<1>2. job' \in Job
  BY <1>1, ReceiveTypes DEF TypeInv, TypeOK, ServerTypeOK
<1>3. HostTypeOK' /\ files'[job'.kind] = NoFiles
  <2>1. NoFiles \in [Image -> Output] /\ NoRows \in [Image -> Result]
    BY DEF NoFiles, NoRows, Output, Result
  <2> QED
    BY <1>1, <1>2, <2>1 DEF HostInv, HostTypeOK, Job
<1>4. ReplyOfJob'
  <2>1. reply.id \in Int /\ job.id \in Int
    BY BoundAssumption DEF IInv, ReplyInv, Reply, TypeInv, TypeOK, ServerTypeOK, Job
  <2>2. job'.id = job.id + 1 /\ reply' = reply
    BY <1>1 DEF Receive, NoJob
  <2> QED
    BY <2>1, <2>2 DEF HostInv, ReplyOfJob
<1>5. Outputs'
  BY <1>1, <1>3 DEF Outputs, PassIsReal, ExitZeroIsWhole, NoRows
<1> QED
  BY <1>3, <1>4, <1>5 DEF HostInv

\* A client that stops, or a sweep that gives up on it, leaves the files alone.
LEMMA LeaveKeeps == ASSUME TypeInv, HostInv, ClientLost \/ SweepGivesUp PROVE HostInv'
<1>1. /\ host.at = "waiting" /\ UNCHANGED <<vars, files>>
      /\ host'.at \in {"compare", "idle"} /\ (host'.at = "compare" => host'.rc = 1)
      /\ host'.rows = host.rows /\ HostTypeOK'
  BY DEF ClientLost, SweepGivesUp, Exit, HostInv, HostTypeOK
<1>2. UNCHANGED <<job, reply>>
  BY <1>1 DEF vars, serverVars
<1>3. files[job.kind] = NoFiles /\ host.rows = NoRows
  BY <1>1 DEF HostInv, Outputs
<1>4. ASSUME NEW k \in Image PROVE Ours(k)'
  BY <1>1, <1>2, <1>3 DEF Ours, NoFiles
<1>5. Outputs'
  BY <1>1, <1>3, <1>4 DEF Outputs, PassIsReal, ExitZeroIsWhole, NoRows
<1>6. ReplyOfJob'
  BY <1>2 DEF HostInv, ReplyOfJob
<1> QED
  BY <1>1, <1>5, <1>6 DEF HostInv

LEMMA CompareKeeps == ASSUME TypeInv, HostInv, SweepCompares PROVE HostInv'
<1>1. /\ host.at = "compare" /\ UNCHANGED <<vars, files>>
      /\ host' = [host EXCEPT !.at = "idle",
                     !.rows = [k \in Image |-> IF k <= job.count THEN Row(k) ELSE "none"]]
  BY DEF SweepCompares
<1>2. SameJob /\ UNCHANGED <<job, reply>>
  BY <1>1 DEF vars, serverVars, SameJob
<1>3. ASSUME NEW k \in Image
      PROVE  /\ Row(k) \in Result
             /\ Row(k) = "pass" => files[job.kind][k] # NoFile /\ IsGolden(files[job.kind][k], k)
  BY DEF Row, Result
<1>4. ASSUME NEW k \in Image, Row(k) = "pass" PROVE Delivered(k)'
  <2>1. Ours(k)
    BY <1>1 DEF HostInv, Outputs
  <2> QED
    BY <1>2, <1>1, <1>3, <1>4, <2>1, FilesStay DEF Ours, Delivered, IsGolden
<1>5. /\ HostTypeOK' /\ host'.at = "idle"
      /\ \A k \in Image : host'.rows[k] = "pass" => Row(k) = "pass"
  <2>1. PICK rows \in [Image -> Result] :
            /\ rows = [k \in Image |-> IF k <= job.count THEN Row(k) ELSE "none"]
    BY <1>3 DEF Result
  <2>2. host' = [host EXCEPT !.at = "idle", !.rows = rows]
    BY <1>1, <2>1
  <2>3. HostTypeOK' /\ host'.at = "idle" /\ host'.rows = rows
    BY <1>1, <2>2 DEF HostInv, HostTypeOK
  <2> QED
    BY <2>1, <2>3
<1>6. Outputs'
  BY <1>4, <1>5 DEF Outputs, PassIsReal, ExitZeroIsWhole
<1>7. ReplyOfJob'
  BY <1>2 DEF HostInv, ReplyOfJob
<1> QED
  BY <1>5, <1>6, <1>7 DEF HostInv

\* The reply that a client has is to its request, and of whole images.
LEMMA WholeReply ==
    ASSUME TypeInv, IInv, HostInv, Replied, NEW k \in Closed
    PROVE  /\ reply.body[k] \in Seq(Beat) /\ reply.body[k] # <<>> /\ reply.body[k] # NoFile
           /\ IsWhole(reply.body[k], <<job.id, k>>)
<1>1. reply \in Reply /\ RepliesWhole /\ reply.id = job.id
  BY DEF IInv, ReplyInv, Replied
<1>2. k \in 1 .. Len(reply.body) /\ reply.body[k] # <<>> /\ reply.body \in Seq(Seq(Beat))
  BY <1>1 DEF Closed, Reply
<1>3. reply.body[k] \in Seq(Beat)
  BY <1>2
<1> QED
  BY <1>1, <1>2, <1>3, NoFileAssumption DEF RepliesWhole

\* The last beat of a golden file is marked, that of a file cut short is not.
LEMMA TornIsNotGolden ==
    ASSUME NEW body \in Seq(Beat), NEW tag, IsWhole(body, tag), NEW n \in 0 .. Len(body) - 1, NEW k
    PROVE  SubSeq(body, 1, n) \in Seq(Beat) /\ ~IsGolden(SubSeq(body, 1, n), k)
<1>1. PICK out : out = SubSeq(body, 1, n)
  OBVIOUS
<1>2. PICK len \in Nat : len = Len(body) /\ n < len
  OBVIOUS
<1>3. /\ out \in Seq(Beat) /\ Len(out) = n
      /\ \A i \in 1 .. n : out[i] = body[i]
  BY <1>1, <1>2
<1>4. ASSUME IsGolden(out, k) PROVE FALSE
  <2>1. PICK r \in Request : out # <<>> /\ IsWhole(out, <<r, k>>)
    BY <1>4 DEF IsGolden
  <2>2. n \in 1 .. n /\ n \in 1 .. len
    BY <1>2, <1>3, <2>1
  <2>3. out[n].last = TRUE
    BY <1>3, <2>1, <2>2 DEF IsWhole
  <2>4. body[n].last = FALSE
    <3>1. n \in 1 .. Len(body) /\ n # Len(body)
      BY <1>2, <2>2
    <3>2. body[n].last = (n = Len(body))
      BY <3>1 DEF IsWhole
    <3> QED
      BY <3>1, <3>2
  <2> QED
    BY <1>3, <2>2, <2>3, <2>4
<1> QED
  BY <1>1, <1>3, <1>4

\* What a client leaves on disk: images of its reply, and no other that is golden.
LEMMA WriteLeaves ==
    ASSUME TypeInv, IInv, HostInv, Replied, host.at = "waiting",
           NEW failed \in Nat, NEW left, Write(failed, left),
           failed \in Image => left \in Output /\ (left = NoFile \/ ~IsGolden(left, failed))
    PROVE  /\ files' \in [{"image", "stream"} -> [Image -> Output]]
           /\ \A k \in Image :
                 LET out == files'[job.kind][k]
                 IN  /\ out # NoFile /\ IsGolden(out, k) => IsWhole(out, <<job.id, k>>)
                     /\ failed = 0 /\ k \in Closed => out = reply.body[k]
<1>1. job.kind \in {"image", "stream"} /\ files \in [{"image", "stream"} -> [Image -> Output]]
  BY DEF TypeInv, TypeOK, ServerTypeOK, Job, HostInv, HostTypeOK
<1>2. files[job.kind] = NoFiles
  BY DEF HostInv, Outputs
<1>3. PICK outs :
          /\ outs = [k \in Image |-> IF k \in Closed /\ (failed = 0 \/ k < failed) THEN reply.body[k]
                                     ELSE IF k = failed THEN left ELSE files[job.kind][k]]
          /\ files' = [files EXCEPT ![job.kind] = outs]
  BY DEF Write
<1>4. ASSUME NEW k \in Image
      PROVE  /\ outs[k] \in Output
             /\ outs[k] # NoFile /\ IsGolden(outs[k], k) => IsWhole(outs[k], <<job.id, k>>)
             /\ failed = 0 /\ k \in Closed => outs[k] = reply.body[k]
  <2>1. k # 0
    BY DEF Image
  <2>2. CASE k \in Closed /\ (failed = 0 \/ k < failed)
    <3>1. outs[k] = reply.body[k]
      BY <1>3, <2>2
    <3> QED
      BY <2>2, <3>1, WholeReply DEF Output
  <2>3. CASE ~(k \in Closed /\ (failed = 0 \/ k < failed)) /\ k = failed
    <3>1. outs[k] = left
      BY <1>3, <2>3
    <3> QED
      BY <2>1, <2>3, <3>1
  <2>4. CASE ~(k \in Closed /\ (failed = 0 \/ k < failed)) /\ k # failed
    <3>1. outs[k] = NoFile
      BY <1>2, <1>3, <2>4 DEF NoFiles
    <3> QED
      BY <2>4, <3>1 DEF Output
  <2> QED
    BY <2>2, <2>3, <2>4
<1>5. outs \in [Image -> Output]
  BY <1>3, <1>4
<1>6. files' \in [{"image", "stream"} -> [Image -> Output]] /\ files'[job.kind] = outs
  BY <1>1, <1>3, <1>5
<1> QED
  BY <1>4, <1>6

\* A client that has written what it could exits, and is compared.
LEMMA ExitKeeps ==
    ASSUME TypeInv, IInv, HostInv, host.at = "waiting", UNCHANGED vars, NEW rc \in {0, 1}, Exit(rc),
           files' \in [{"image", "stream"} -> [Image -> Output]],
           \A k \in Image : LET out == files'[job.kind][k]
                            IN  out # NoFile /\ IsGolden(out, k) => IsWhole(out, <<job.id, k>>),
           rc = 0 /\ job.kind = "stream" => \A k \in 1 .. job.count : Delivered(k)'
    PROVE  HostInv'
<1>1. UNCHANGED <<job, reply>>
  BY DEF vars, serverVars
<1>2. HostTypeOK' /\ host'.at = "compare" /\ host'.rc = rc /\ host'.rows = NoRows
  BY DEF HostInv, HostTypeOK, Outputs, Exit
<1>3. \A k \in Image : Ours(k)'
  BY <1>1 DEF Ours, IsGolden, IsWhole
<1>4. Outputs'
  BY <1>1, <1>2, <1>3 DEF Outputs, PassIsReal, ExitZeroIsWhole, NoRows
<1>5. ReplyOfJob'
  BY <1>1 DEF HostInv, ReplyOfJob
<1> QED
  BY <1>2, <1>4, <1>5 DEF HostInv

LEMMA ClientWritesKeeps == ASSUME TypeInv, IInv, HostInv, ClientWrites PROVE HostInv'
<1>1. /\ host.at = "waiting" /\ Replied /\ Write(0, NoFile) /\ UNCHANGED vars
      /\ Exit(IF reply.status = "OK" THEN 0 ELSE 1)
  BY DEF ClientWrites, ExitOnStatus
<1>2. /\ files' \in [{"image", "stream"} -> [Image -> Output]]
      /\ \A k \in Image :
            LET out == files'[job.kind][k]
            IN  /\ out # NoFile /\ IsGolden(out, k) => IsWhole(out, <<job.id, k>>)
                /\ k \in Closed => out = reply.body[k]
  <2>1. 0 \in Nat /\ 0 \notin Image
    BY DEF Image
  <2> QED
    BY <1>1, <2>1, WriteLeaves
<1>3. ASSUME reply.status = "OK", NEW k \in 1 .. job.count PROVE Delivered(k)'
  <2>1. reply.id = job.id /\ reply.done
    BY <1>1 DEF Replied
  <2>2. Len(reply.body) = job.count /\ reply.body[k] # <<>>
    BY <1>3, <2>1 DEF IInv, ReplyInv, OkComplete, HostInv, ReplyOfJob
  <2>3. k \in Closed
    BY <2>2 DEF Closed
  <2>4. k \in Image
    BY BoundAssumption DEF TypeInv, TypeOK, ServerTypeOK, Job, Image
  <2>5. files'[job.kind][k] = reply.body[k] /\ UNCHANGED job
    BY <1>1, <1>2, <2>3, <2>4 DEF vars, serverVars
  <2>6. reply.body[k] # <<>> /\ reply.body[k] # NoFile /\ IsWhole(reply.body[k], <<job.id, k>>)
    BY <1>1, <2>3, WholeReply
  <2> QED
    BY <2>5, <2>6 DEF Delivered, IsWhole
<1>4. PICK rc \in {0, 1} : rc = IF reply.status = "OK" THEN 0 ELSE 1
  OBVIOUS
<1> QED
  BY <1>1, <1>2, <1>3, <1>4, ExitKeeps

\* A write that fails leaves at most a file cut short, and the images before it.
LEMMA CutShortKeeps ==
    ASSUME TypeInv, IInv, HostInv, Replied, host.at = "waiting", UNCHANGED vars,
           NEW k \in Closed, NEW left, NEW rc \in {0, 1}, Write(k, left), Exit(rc),
           rc = 0 => job.kind = "image",
           k \in Image => left \in Output /\ (left = NoFile \/ ~IsGolden(left, k))
    PROVE  HostInv'
<1>1. k \in Nat
  BY DEF Closed
<1>2. /\ files' \in [{"image", "stream"} -> [Image -> Output]]
      /\ \A i \in Image : LET out == files'[job.kind][i]
                          IN  out # NoFile /\ IsGolden(out, i) => IsWhole(out, <<job.id, i>>)
  BY <1>1, WriteLeaves
<1> QED
  BY <1>2, ExitKeeps

LEMMA ClientWriteFailsKeeps == ASSUME TypeInv, IInv, HostInv, ClientWriteFails PROVE HostInv'
<1>1. host.at = "waiting" /\ Replied /\ UNCHANGED vars
  BY DEF ClientWriteFails
<1>2. PICK k \in Closed :
          \/ Write(k, files[job.kind][k]) /\ Exit(1)
          \/ \E left \in Torn(k) : /\ Write(k, left)
                                   /\ Exit(1) \/ (job.kind = "image" /\ Exit(0))
  BY DEF ClientWriteFails
<1>3. CASE Write(k, files[job.kind][k]) /\ Exit(1)
  <2>1. k \in Image => files[job.kind][k] = NoFile
    BY <1>1 DEF HostInv, Outputs, NoFiles
  <2> QED
    BY <1>1, <1>3, <2>1, CutShortKeeps DEF Output
<1>4. CASE \E left \in Torn(k) : /\ Write(k, left)
                                 /\ Exit(1) \/ (job.kind = "image" /\ Exit(0))
  <2>1. PICK left \in Torn(k) : /\ Write(k, left)
                                /\ Exit(1) \/ (job.kind = "image" /\ Exit(0))
    BY <1>4
  <2>2. PICK n \in 0 .. Len(reply.body[k]) - 1 : left = SubSeq(reply.body[k], 1, n)
    BY <2>1 DEF Torn
  <2>3. reply.body[k] \in Seq(Beat) /\ IsWhole(reply.body[k], <<job.id, k>>)
    BY <1>1, WholeReply
  <2>4. left \in Output /\ ~IsGolden(left, k)
    BY <2>2, <2>3, TornIsNotGolden DEF Output
  <2>5. CASE Exit(1)
    BY <1>1, <2>1, <2>4, <2>5, CutShortKeeps
  <2>6. CASE job.kind = "image" /\ Exit(0)
    BY <1>1, <2>1, <2>4, <2>6, CutShortKeeps
  <2> QED
    BY <2>1, <2>5, <2>6
<1> QED
  BY <1>2, <1>3, <1>4

-----------------------------------------------------------------------------
(* The results.                                                            *)

LEMMA HostInitKeeps == HostInit => HostInv
<1> SUFFICES ASSUME HostInit PROVE HostInv
  OBVIOUS
<1>1. HostTypeOK /\ host.at = "idle" /\ host.rows = NoRows
  BY DEF HostInit, HostTypeOK, Output, Result, NoFiles, NoRows
<1>2. ReplyOfJob
  BY DEF HostInit, Init, NoReply, NoJob, ReplyOfJob
<1>3. Outputs
  BY <1>1 DEF Outputs, PassIsReal, ExitZeroIsWhole, NoRows
<1> QED
  BY <1>1, <1>2, <1>3 DEF HostInv

LEMMA HostNextKeeps == TypeInv /\ IInv /\ HostInv /\ [HostNext]_runVars => HostInv'
<1> SUFFICES ASSUME TypeInv, IInv, HostInv, [HostNext]_runVars PROVE HostInv'
  OBVIOUS
<1>1. CASE UNCHANGED runVars
  <2>1. SameJob /\ UNCHANGED <<files, host, job, reply>>
    BY <1>1 DEF runVars, hostVars, vars, serverVars, SameJob
  <2> QED
    BY <2>1, FilesStay
    DEF HostInv, HostTypeOK, ReplyOfJob, Outputs, PassIsReal, ExitZeroIsWhole
<1> QED
  BY <1>1, HostSendKeeps, LeaveKeeps, ClientWritesKeeps, ClientWriteFailsKeeps, CompareKeeps,
     BoardKeeps DEF HostNext

LEMMA HostInductive == ASSUME Fits PROVE HostSpec => []HostInv
<1>1. Spec => [](TypeInv /\ IInv)
  BY Inductive
<1> QED
  BY <1>1, RunsEncodePath, HostInitKeeps, HostNextKeeps, PTL DEF HostSpec

\* A result "pass" is of an image that the board encoded for this very request: not of
\* a file that an earlier run left, nor of one cut short, whatever fails on the board or
\* on the host (run_hil_sweep.py:441-495).
THEOREM PassMeansEncoded == ASSUME Fits PROVE HostSpec => []PassIsReal
<1>1. HostInv => PassIsReal
  BY DEF HostInv, Outputs
<1> QED
  BY <1>1, HostInductive, PTL

\* A client that exits 0 after a stream has every image of it on disk, whole
\* (ojls_client.c:329-348).
THEOREM ExitZeroMeansWritten == ASSUME Fits PROVE HostSpec => []ExitZeroIsWhole
<1>1. HostInv => ExitZeroIsWhole
  BY DEF HostInv, Outputs
<1> QED
  BY <1>1, HostInductive, PTL
=============================================================================
