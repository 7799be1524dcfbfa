-------------------------------- MODULE HostRun --------------------------------
(***************************************************************************)
(* A request from end to end: run_hil_sweep.py clears the outputs, runs    *)
(* ojls_client, and compares what the client left on disk with the golden  *)
(* files, over the request path of EncodePath with all its faults.  The    *)
(* sweep is run again and again over the same pictures and directories, so *)
(* every request encodes the same images 1 .. count.                       *)
(***************************************************************************)
EXTENDS EncodePath

CONSTANTS
    NoFile,               \* an output that does not exist
    HostFaults            \* what may fail on the host, during the requests in Faulty

ASSUME HostFaultAssumption == HostFaults \subseteq {"write", "patience"}
\* A file that does not exist is not one with contents, nor an empty one.
ASSUME NoFileAssumption == NoFile \notin Seq(Beat)

VARIABLES
    files,                \* the outputs on disk, by kind of request and image
    host                  \* what the sweep is at, the client's exit status, the results

hostVars == <<files, host>>
runVars  == <<vars, hostVars>>

NoFiles == [k \in Image |-> NoFile]
NoRows  == [k \in Image |-> "none"]

HostMayFail(kind) == kind \in HostFaults /\ job.id \in Faulty

-----------------------------------------------------------------------------
(* The client.                                                             *)

ClearNothing(kind) == UNCHANGED files

\* encode_one removes the picture's output, run_stream its set's whole directory.
Clear(kind) == files' = [files EXCEPT ![kind] = NoFiles]

\* The sweep starts a client, which connects and sends its request.
HostSend ==
    /\ host.at = "idle"
    /\ Receive
    /\ Clear(job'.kind)
    /\ host' = [at |-> "waiting", rc |-> 1, rows |-> NoRows]

\* A reply was received whole, and is not a mere status.
Replied == reply.id = job.id /\ reply.done /\ reply.body # <<>>

Closed == {k \in 1 .. Len(reply.body) : reply.body[k] # <<>>}

\* A file cut short, by a full disk for one.
Torn(k) == {SubSeq(reply.body[k], 1, n) : n \in 0 .. Len(reply.body[k]) - 1}

\* Images are written in order, up to the one that fails (0: none does).
Write(failed, left) ==
    files' = [files EXCEPT ![job.kind] =
                 [k \in Image |-> IF k \in Closed /\ (failed = 0 \/ k < failed) THEN reply.body[k]
                                  ELSE IF k = failed THEN left ELSE @[k]]]

Exit(rc) == host' = [host EXCEPT !.at = "compare", !.rc = rc]

ExitOnClosed == Exit(IF Closed # {} THEN 0 ELSE 1)
ExitOnStatus == Exit(IF reply.status = "OK" THEN 0 ELSE 1)

\* The request is over for the server, or the server is gone: the client reads to
\* the end of what it was sent, writes the images that closed, and exits.
ClientLost ==
    /\ host.at = "waiting" /\ pc \in {"idle", "down"} /\ ~Replied
    /\ Exit(1)
    /\ UNCHANGED <<vars, files>>

ClientWrites ==
    /\ host.at = "waiting" /\ pc \in {"idle", "down"} /\ Replied
    /\ Write(0, NoFile)
    /\ ExitOnStatus
    /\ UNCHANGED vars

\* A file cannot be opened, or not be written in full; that the close fails is
\* looked at in write_jls, but not for a single image.
ClientWriteFails ==
    /\ host.at = "waiting" /\ pc \in {"idle", "down"} /\ Replied
    /\ HostMayFail("write")
    /\ \E k \in Closed :
          \/ Write(k, files[job.kind][k]) /\ Exit(1)
          \/ \E left \in Torn(k) :
                /\ Write(k, left)
                /\ Exit(1) \/ (job.kind = "image" /\ Exit(0))
    /\ UNCHANGED vars

-----------------------------------------------------------------------------
(* The sweep.                                                              *)

\* The golden file of image k, whichever request it was encoded for.
IsGolden(body, k) == body # <<>> /\ \E r \in Request : IsWhole(body, <<r, k>>)

\* A failed client is an error of a single image; a stream is judged by its files.
Row(k) ==
    LET out == files[job.kind][k]
    IN  CASE job.kind = "image" /\ host.rc # 0 -> "error"
          [] out = NoFile                      -> "error"
          [] OTHER -> IF IsGolden(out, k) THEN "pass" ELSE "mismatch"

SweepCompares ==
    /\ host.at = "compare"
    /\ host' = [host EXCEPT !.at = "idle",
                            !.rows = [k \in Image |-> IF k <= job.count THEN Row(k) ELSE "none"]]
    /\ UNCHANGED <<vars, files>>

\* subprocess.run kills the client after its timeout, and the exception ends the
\* sweep; the server goes on with the request.
SweepGivesUp ==
    /\ host.at = "waiting" /\ HostMayFail("patience")
    /\ host' = [host EXCEPT !.at = "idle"]
    /\ UNCHANGED <<vars, files>>

-----------------------------------------------------------------------------
HostInit ==
    /\ Init
    /\ files = [kind \in {"image", "stream"} |-> NoFiles]
    /\ host = [at |-> "idle", rc |-> 1, rows |-> NoRows]

Board == Server \/ Hardware \/ HwFault \/ Timeout \/ EvictLine \/ Crash \/ Restart \/ SecondServer

HostNext ==
    \/ HostSend \/ ClientLost \/ ClientWrites \/ ClientWriteFails
    \/ SweepCompares \/ SweepGivesUp
    \/ Board /\ UNCHANGED hostVars

HostFairness ==
    WF_runVars(ClientLost) /\ WF_runVars(ClientWrites) /\ WF_runVars(SweepCompares)

HostSpec == HostInit /\ [][HostNext]_runVars /\ ServerFairness /\ HardwareFairness /\ HostFairness

-----------------------------------------------------------------------------
(* Properties.                                                             *)

\* Image k is on disk, whole, and went through the encoder in this very request.
Delivered(k) ==
    LET out == files[job.kind][k]
    IN  out # NoFile /\ out # <<>> /\ IsWhole(out, <<job.id, k>>)

\* A result "pass" is of an image the board encoded for this request: not of a file
\* an earlier run left, whatever fails on the board or on the host
\* (run_hil_sweep.py:441-495).
PassIsReal == \A k \in Image : host.rows[k] = "pass" => Delivered(k)

\* A client that exits 0 after a stream has written every image of it: the server
\* says OK only when all closed, and the client stops at the first write that fails
\* (ojls_client.c:329-348).
ExitZeroIsWhole ==
    host.at = "compare" /\ host.rc = 0 /\ job.kind = "stream" =>
        \A k \in 1 .. job.count : Delivered(k)

\* A request in which nothing fails passes, whatever befell those before it on the
\* board or the host, provided the hardware moves: faults, timeouts, a crash or a
\* second server leave nothing that outlives hw_recover and the resets of the next
\* request, nor files that its comparison would see.
Recovers ==
    \A r \in Request \ Faulty :
        (host.at = "waiting" /\ job.id = r) ~>
            (job.id = r /\ \A k \in 1 .. job.count : host.rows[k] = "pass")
=============================================================================
