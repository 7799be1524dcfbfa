# OpenJLS-Demos, EncodeOverEthernet: a TLA+ verification project

A host sends raw images over TCP to a PYNQ-Z2; a single-threaded C server hands
the pixels to an AXI DMA, the OpenJLS encoder in the fabric compresses them, and
the server sends the JPEG-LS bytes back.  This directory holds TLA+ models of
that path, the TLC configurations that check them on small instances, and
TLAPS proofs about them for every value of the constants.

Paths below are relative to `src/EncodeOverEthernet/`; `ojls_server.c`,
`axidma.c`, `udmabuf.c` and `uio.c` are in `Software/src/`, `ojls_proto.h` in
`Software/common/`, `ojls_client.c` in `Software/host/`, `axis_ready_gate.vhd`
in `Hardware/pynq-z2/rtl/`, the scripts in `Verification/`.

## 1. The system

| Component | State it keeps | Operations | Interacts with |
|---|---|---|---|
| Server, accept loop (`main`) | `g_stop`, the listening socket | test, accept, serve, close; SIGINT/SIGTERM | clients (TCP), board scripts (signals, log) |
| Server, session (`serve_connection`) | one connection, the request's header | read header, judge it, drain or receive the payload, answer | client, request path |
| Server, request path (`encode_and_reply`, `stream_and_reply`) | which step the request is at, table of lengths | configure core, set gate, sync, reset DMA, build and sync rings, start, wait, recover, collect, send | registers through UIO, DMA driver, buffers |
| DMA driver (`axidma.c`) | descriptor rings in cached memory | reset, build, start, two wait loops, byte count | DMA engine, through registers and descriptors |
| Buffer access (`udmabuf.c`) | cached mappings of TX, RX, descriptors | open, sync for device, sync for CPU | kernel, data cache |
| Register access (`uio.c`) | one mapping per device | open, read, write | device registers |
| Ready gate (`axis_ready_gate.vhd`) | THRESH, xorshift32 state, one beat, AXI-Lite flags | hand beats on, throttled; write and read THRESH | encoder, S2MM, server |
| Encoder, AXI DMA, u-dma-buf (external) | image in progress; channels; allocations | consume pixels, emit beats; move beats | each other; server |
| Host client (`ojls_client.c`) | one connection, image list | send a whole request, read a whole reply | server |
| HIL sweep (`run_hil_sweep.py`) | results, golden cache | reload, run clients under a timeout, compare | scripts, client |
| Board scripts (`board_reload.sh`, `board_setup.sh`) | loaded bitstream, log file | kill the server, load a bitstream, start a server, wait for its banner | server, FPGA manager |
| Build and boot | — | — | — |

They interact in four ways: TCP between client and server; register writes and
reads between server and fabric; memory shared by server and DMA, *through the
processor's cache on one side only*; and signals, a log file and a port between
scripts and server.

What is hard about it:

* **Concurrency with hardware.** The engine completes descriptors and writes
  beats while the server scans the ring; nothing locks either out, and the scan
  is not one read.
* **Cached copies.** Descriptors and replies are read through a cache which only
  explicit syncs keep in step with DRAM, and the first read of a line makes a
  copy that goes stale.
* **What outlives a request.** The encoder, the gate's beat, a running DMA channel
  and the contents of buffers survive an error, a timeout and the process
  itself; no single reset reaches them all (`ojls_server.c:263-271`).
* **Order of resets.** `hw_configure`, `gate_set`, `axidma_reset` come in that
  order, so the encoder is reset while a channel may still feed it.
* **Session framing.** Nothing on the wire marks a header, so one byte too many or
  too few drained makes pixels into headers; both sides block in bounded
  socket buffers.
* **Arithmetic at its limits.** `uint32_t` sizes, a 26-bit descriptor length, 17-bit
  full rate, rounding of slots, rings counted in one place and built in another.
* **Restarts.** A server is told to stop, and another started over live hardware
  and a new bitstream; the old one leaves when its client does, so the two may be
  alive at once.
* **Files left behind.** The sweep's verdict is a comparison of files in directories
  that earlier runs, and clients that failed half-way, have written to.

What makes each part correct:

| Part | It must |
|---|---|
| Ready gate | lose, repeat and reorder no beat; block none for ever; throttle reproducibly; confirm every write |
| DMA driver and request path | send for an image that image whole or nothing; start from a fresh pipeline; leave buffers alone while they are used; end every request; recover |
| Admission | let through only what the hardware, the buffers and the rings can hold |
| Session, accept loop | stay in step with the client; answer each request once, in order; serve who is connected to the end; stop when told |
| Host client, sweep | exit 0 and report a pass only for images that this run encoded and wrote whole; derive a header the server understands |
| Board scripts | leave one server at a time on the encoder, and a working one of the depth loaded when nothing fails; come to an end |

## 2. Modules

| Module | Models | Depends on |
|---|---|---|
| `StreamSlice` | abstract: a lossless in-order slice of at most `Depth` beats that may be flushed | — |
| `ReadyGate` | `axis_ready_gate.vhd` clock by clock, with the accesses of `gate_set` | implements `StreamSlice` |
| `ReadyGateProofs` | theorems about `ReadyGate` | `ReadyGate`, TLAPS |
| `AxiDma` | `axidma.c` and the engine it drives; descriptors in DRAM and in the cache | — |
| `EncodePath` | one request through the server, with encoder, gate and both channels beside it; crash and restart | EXTENDS `AxiDma` |
| `EncodePathProofs` | `EncodePath` keeps its types, and scans its own ring | `EncodePath`, TLAPS |
| `EncodeRepliesProofs` | what `EncodePath` replies, and over which buffers | `EncodePathProofs` |
| `Admission` | the header a client derives from a picture, the checks on a header; slots and rings in the code's integer widths | — |
| `AdmissionProofs` | theorems about `Admission` | `Admission`, TLAPS |
| `HostRun` | the sweep and the client around a request: outputs cleared, reply written, files compared, kills and write errors | EXTENDS `EncodePath` |
| `HostRunProofs` | theorems about `HostRun`, end to end | `HostRun`, `EncodeRepliesProofs` |
| `Service` | abstract: answers in order, each once, one client at a time | — |
| `Session` | accept loop, `serve_connection`, clients, bounded TCP queues, the stop signal | implements `Service` |
| `SessionProofs` | theorems about `Session`, and that it implements `Service` | `Session`, TLAPS |
| `Reload` | the board scripts, the sweep's reload and probe, servers as processes with their port, log and latched depth, other clients | — |
| `ReloadProofs` | theorems about `Reload` | `Reload`, TLAPS |
| `MC*` | instances for TLC | the module of the name |

### ReadyGate: state and actions

One variable per VHDL signal, by its name.  `Edge(mready, go)` is a rising clock
edge: the receiver's `tready` and the interconnect's readiness are its choice,
and every next value comes from the equation of the process at
lines 106-142, with the order of assignments kept (a write, assigned last, drops
the beat and the one accepted on the same edge).  The xorshift32 state is its
position in the sequence of draws after SEED, which is all that reseeding and
stepping can tell apart; `Draws` is that sequence.  `GateSet` and `cpu` are the
server's write and readback, of the THRESH that `Ready` and `Thresh` make of a request's
`ready_pct`.  `Reset` is a PL reload and may come at any time, also within a call, as the
scripts load a bitstream while an old server may still serve: THRESH goes back to full rate,
so that a readback after it tells, and an access under way may be cut off for good.
`Offer` is the encoder and keeps AXI-Stream's rule that a valid beat stays.

### AxiDma and EncodePath: state and actions

Memory counts beats.  `desc` is what DRAM holds of the S2MM ring, `line` the
processor's copies (`NoLine`: none, so that a read goes to DRAM and makes one),
`rx`/`rxc` the same for the receive buffer, `tx`/`txd` for the transmit buffer
before and after its sync.  A pixel beat is known by the request and image it belongs
to; an output beat by the set of those that went into it, its number and TLAST.
So a reply that mixes, truncates or repeats images looks different from one
that does not.

| Code | Actions |
|---|---|
| receive of the payload | `Receive` |
| `hw_configure`, `gate_set`, sync, `axidma_reset` | `Configure`, `GateSet`, `TxSync`, `DmaReset` |
| `axidma_ring_build`, sync, `axidma_sg_start` twice | `BuildRings`, `SyncRings`, `StartReceiving`, `StartSending` |
| `axidma_wait`, `axidma_wait_packets` | `WaitStep`, which is one of `WaitPoll`, `ScanImage`, `ScanPackets`, `LastImage`, `LastPackets`: one action per descriptor read; then `WaitEnd` |
| `hw_recover` | `RecoverDma`, `RecoverCore` |
| lengths, syncs | `Collect` |
| reply | `Send`, one image at a time; `SendError` |
| process killed; `hw_open` of the next | `Crash`, `Restart` |
| `axidma_open` of a second server, whose bind will fail | `SecondServer`, at any step of a request |
| encoder, gate, S2MM, MM2S | `CorePull`, `CorePush`, `GatePass`, `HwFault` |
| cache | `EvictLine`, besides the copies that reads make |
| clock | `Timeout`: the deadline may pass whenever a wait runs |

Every step of the server that can fail in the code may fail in the model, when
`Faults` names it and the request is in `Faulty`.  Throttling is that
`GatePass` happens when it likes; `ReadyGate` and its refinement justify treating
the gate as a one-beat slice.  Left out: the loopback mode, prefetch of
receive-buffer lines, the MM2S ring as descriptors (it stands for its length), and
an `axidma_reset` that times out and leaves the engine running (it is taken to hold
the engine in reset meanwhile, as the reset bit does).

### HostRun: state and actions

`files` is what is on disk for each picture, by kind of request; `host` is what the
sweep is at, the client's exit status and the result rows.  Every request encodes
the same pictures, as runs of the sweep do, so that a file an earlier run left is a
right image of the wrong run: only `Delivered` tells it from this run's.

| Code | Actions |
|---|---|
| `encode_one`, `run_stream` (sweep): remove outputs, start a client | `HostSend`, with `Clear` |
| client: no reply, a bare status, a reply cut short | `ClientLost` |
| client: images that closed are written in order; exit status from the reply's | `ClientWrites` |
| `fopen`, `fwrite` or `fclose` fails; the single image's `fclose` is not looked at | `ClientWriteFails` |
| exit status and `filecmp` give a row | `SweepCompares` |
| `subprocess.run` times out | `SweepGivesUp` |

The client reads its reply when the server is done with it or gone: a reply in
flight is bytes in order, and `Session` is about those.

### Admission: widths and the client's header

`WordMod` and `LenMod` stand for 2^32 and 2^26.  The instance scales the real
constants of the board, in MiB and units of 1024 pixels, so that each limit is met exactly,
exceeded by one and missed by one.

A header comes from anywhere (`Header`), or from `ojls_client` and a picture:
`AskImage` and `AskStream` derive the depth and the length as `pgm_load` does, with
the `-b` option, and `Bucket` is the depth the sweep loads the board for.  The length of a
stream is computed in 32 bits and may wrap; such a request is refused or is
another request, and `ClientUnderstood` promises nothing about it.

### Session: state and actions

A connection is two bounded queues of units: a header is one unit, a payload as
many as its length says.  The client writes a whole request, then reads a whole reply,
as `ojls_client.c` does; it may be killed at any step.  Requests are accepted ones,
refused ones, and headers of another protocol.  The server's steps are the
blocking points of the code: test of `g_stop`, accept (the step before it blocks
is separate, since a signal between is missed), read a header, take in the payload
or drain it, decide, write a header and a body.  What the request path does is an
outcome: OK with images, or a failure with the images of a stream that closed,
which `EncodePath` justifies.  Closing a connection that has unread data may
drop what the client has not yet read, as TCP does.

### Reload: state and actions

`sh` is the next step of the script, then of the sweep, in run `pos` of `Plan`;
each run may be of either script.  A server is a process: where it is in `main`, the
depth it latched, whether it has seen the signal, whom it serves.  `pl`, `mod` and
`log` are the bitstream loaded, u-dma-buf (`out`, `in`, or `short`: in, with a buffer
missing), and the banner in the log; `backlog` is
what the listening socket holds.

| Code | Actions |
|---|---|
| `pkill`, `sleep 0.3`, `rmmod`, clock, load and device tree, `insmod` and the check of the buffers, `setsid ... &`, the banner loop | `Kill`, `Settle`, `Unload`, `Clock`, `Load`, `Insert`, `Spawn`, `Up`, `GiveUp` |
| `wait_for_port`, the client of `encode_one`, its result | `ProbePort`, `NoPort`, `Encode`, `NoServerThere`, `Result` |
| redirection, `uio_open`, banner, gate and DMA, buffers, bind | `Shell`, `Open`, `Latch`, `Reset`, `Map`, `Bind` |
| the accept loop | `Test`, `Block`, `Accept`, `HangUp` |
| a request, which is held against the latched depth | `Judge`, `Encoded` |
| other clients | `GuestConnects`, `GuestAsks`, `GuestLeaves` |

The signal ends a process that has not installed its handler, interrupts an accept
that blocks, and is only noted elsewhere.  A load, or the DMA reset of another server,
spoils the image being encoded, which then may fail, or be past harm, or not yet begun.  Each
of the scripts' exits leaves the board as it is there: `board_setup.sh` sets the clock before
the load and `board_reload.sh` after it; a failed load leaves no bitstream or the old one; a
missing node of the device tree is found after the load; and a buffer that was not
allocated, after `insmod`, so that the module stays loaded and a later reload's server
prints its banner and then fails in `udmabuf_open`.  Of time, only this is assumed: in
the 0.3 s after the signal, a server that has nothing left to do but see it exits
(`Settle`).  A failed run does not end the model: `die` ends the sweep, and the next
one starts over the board it left.

## 3. Runs

| Run | Question | Instance |
|---|---|---|
| `ready_gate` | is the gate a slice, reproducible, live; does `gate_set` return with its readback right | three draws of four values, levels of 25, 75 and none given (full rate), three beats, two writes, one reset at any moment |
| `encode_path` | with every fault, timeouts and a crash at any step: whole images, complete OK replies, fresh pipeline, stable buffers | two requests of either kind, one or two pixel beats, up to two images, two beats each, both faulty: 6.9 million states |
| `host_run` | are results and exit statuses true, with stale files, write errors and kills on the host; does a request in which nothing fails pass, whatever befell the one before | three requests of one pixel beat, the second faulty on board and host, under fairness of the hardware: 870 000 states |
| `answered` | does every request end when the hardware may stop for good; is an image that outgrows its buffer never answered with the part that fitted | one request; three beats where the buffer holds two and a slot one |
| `session` | in step, in order, once; nobody waits for ever; the signal loses nobody who is being served | two clients, two requests each, payloads up to two, two units per direction: 1.1 million states |
| `admission` | rings fit, slots disjoint and inside, payload covered; what a client asks for is what the server takes it for | 11 widths and heights, 2 depths, 134 lengths, all request types; pictures on both sides of each bit length, six `-b` options, streams of up to 65 |
| `reload` | one server at a time; old ones leave; a clean run works; every run ends | three runs, depths 8, 12, 8, of either script, the second with every fault, one guest: 115 000 states |
| `short_read`, `foreign_pixels`, `long_slot`, `bad_magic`, `reload_mismatch` | a statement of the repository that the code does not meet (section 6) | smallest instance that shows it |

Why these bounds are enough to be of interest: a second request is what shows
leftovers of a first; two images are what lets a scan see one descriptor early
and another late; two descriptors per image (receive buffer 4, chunk 2) the
same for one image; two clients are what lets one wait on the other; a queue of
two units is smaller than a request with a payload of two, so writers do
block; the third request of `host_run` comes over files of the first and whatever
the second broke; the third run of `reload` comes over a log and a bitstream of the
first's depth, with two earlier servers to outlive it; probe, client and guest
overflow a backlog of two; three draws with three thresholds open the gate always, sometimes and
on one cycle.  They are small instances all the same: a hazard that needs three
requests or three descriptors is not seen by TLC.

`CHECK_DEADLOCK FALSE` stands in the configurations of `EncodePath`, `HostRun`,
`Session` and `Reload`: all stop when the bounded requests have been made, and a server that was
told to stop exits.  That no stop is premature is what `Answered`,
`Recovers`, `Served` and `SweepEnds` say.

### Fairness

* `ReadyGate`: `WF(Edge(TRUE, TRUE))`: the clock runs, and an edge with the DMA
  ready and the interconnect moving comes again and again.  Nothing is assumed of the
  draws except that they repeat, as a linear generator's do.
* `EncodePath`, `FairSpec`: `WF(Server)` and `WF(Timeout)`: the process is
  scheduled, and `CLOCK_MONOTONIC` reaches any deadline.  Nothing of the hardware.
* `HostRun`, `HostSpec`: also the client and the sweep are scheduled, and, for
  `Recovers`, the encoder, the gate and the channels move while they can.
* `Reload`: `WF` of the script or sweep, of each server and of a guest's leaving.
  Scripts, sweep and servers are processes that run; a guest that never closes
  would keep the old server for ever, which is the limit of `ojls_server.c:94`.
* `Session`: `WF(Server)` and `WF(ClientStep(c))`: clients do not stall with
  their connection open.  The code has no timeout on a read (`ojls_server.c:94`),
  so without this assumption one silent client stops everybody: a limit of
  the code, listed as a hazard.  Kills and signals are not fair.

### Properties

| Property | Says |
|---|---|
| `IsSlice` | the gate implements `StreamSlice` |
| `Reproducible` | openness depends only on THRESH and the cycles since its write |
| `NoStrayResponse`, `GateSetSucceeds`, `GateSetReturns` | the register port answers each access once, and, unless a reload cuts in, rightly and eventually |
| `EveryBeatPasses` | no beat is blocked for ever |
| `RepliesWhole` | what is sent for an image is that image, whole |
| `OkComplete` | OK means every image |
| `ClosedAreReported` | a failed stream reports the images that closed, and no other |
| `FreshPipeline` | nothing of earlier requests is left when S2MM starts |
| `TxStable`, `RxStable` | no buffer changes under its reader |
| `Answered` | requests end |
| `Recovers` | a request in which nothing fails passes the comparison: failures are forgotten on the board and on disk |
| `PassIsReal` | a row says pass only of an image this very request had encoded, whole |
| `ExitZeroIsWhole` | a stream's client that exits 0 has written every image |
| `RingsFit`, `SlotsDisjoint`, `PayloadCovered` | an admitted request has memory, its own, and all of it |
| `ClientUnderstood` | client and server agree on depth and size of a pixel, and the sweep on the board's |
| `InSync` | a header is read only where one was written |
| `LostUnserved`, `AtMostOneMore` | the stop signal cuts off nobody being served, and lets in at most one more |
| `IsService` | the session implements `Service` |
| `Served` | every client's connection ends |
| `OneServes` | one server at a time uses the encoder |
| `StaleGone` | once the port was probed, the servers of earlier runs come to their end, also one that missed its signal |
| `CleanReloadWorks` | a run without fault over idle servers gets its image, whichever step of an earlier run failed, if it is a setup or the buffers are there |
| `SweepEnds` | no script, probe or client waits for ever |

Each is killed by a mutant of the code's translation, listed in `PROJECT.json`;
the mutants stand above the definitions they vary, and no action uses them.

## 4. Proofs

`ReadyGateProofs` proves, for every full rate, draw sequence, set of thresholds
and bound, from the named assumptions of `ReadyGate`:

* `ThreshOpens`: every level asked for, and none, makes a THRESH from 1 to full rate;
* the invariant `Inv`: types; `SliceInv` (the beat held is the one due, and those
  accepted and due differ by what is held), without which a step could not be mapped
  to the slice; `DrawInv` (the position in the sequence is the number of edges
  since the write), without which `Reproducible` is not inductive; `AccessInv`
  (response flags against the access under way, and THRESH against the value asked
  for, or a reset within the call), without which the readback could be of an older
  write;
* from it `TypeCorrect`, `WriteReproduces`, `ResponsesMatch`, `ReadbackHolds`;
* `GateIsSlice`: the initial states and every step map to the slice's.

`EncodePathProofs` proves, for every buffer, chunk and slot size, number of
requests and images and choice of faults, from `BoundAssumption`,
`SizeAssumption`, `KindAssumption` and `RoomAssumption`:

* `TypeCorrect`: types, that MM2S reads within the transmit buffer, and
  that the encoder takes no more pixels than an image has;
* `ScansItsRing`: a scan's index lies in the ring just built.

The invariant adds `RingShape` to the types: the ring in the cache has no gap
when it is synchronised, and from then on cache and DRAM hold as many descriptors,
at least one; a turn of a wait begins at the first.  Reading a descriptor
gives one only with that.  Three lemmas carry the arithmetic: products are
monotone, a quotient is bounded by its product, and so pixel p of c images of s
pixels lies in image p div s + 1 of c.

`EncodeRepliesProofs` proves, for the same constants, with `BeatAssumption` (the
model's "no beat" is not a beat) besides, and under `Fits == MaxBeats <= Slot /\ MaxBeats <= Chunk`:

* `EveryReplyWhole`, `OkIsComplete`, `ReportsClosed`, `StartsFresh`, `PixelsStay`,
  `ReplyStaysPut`: the six safety properties of the run `encode_path`.

`Fits` is what the headroom of `stream_slot_bytes` and of the admission is for: an
encoded image fits its slot, and a single image the one descriptor of 32 MiB.  Beyond it the
properties are false: `short_read`, `foreign_pixels` and `long_slot` show how.  None of the
six is inductive, and they need each other, so there is one invariant `IInv`, which
relates the ends of the pipeline to what is between:

* `Flow`, while the hardware may be at work: there are e <= d such that the first e images
  are stored, each whole in its place, d have left the encoder, and the beats of the next
  are, in order, in the receive buffer, in the gate and in the encoder (`Recorded`,
  `CoreAt`, `GateAt`, `S2mmAt`); the last beat may be in the gate while the encoder has
  begun the image after it;
* `CopiesTrue`: the processor's copy of a descriptor may be old, but what it says of an end
  of packet is so; `WaitSaw`: a wait that returns 0 has seen the last image close, so
  by `Flow` MM2S has nothing left, which is what `hw_configure` of the next request
  rests on (`Quiet`, `Fresh`);
* `Still`: under a reply S2MM has no beat to store, though it may be running;
* `Loaded`, `JobKept`, `RingKept`, `ImagesKept`, `Replying`, `ReplyInv`: the payload, the
  request, the ring's layout, and the reply so far.

The arithmetic of places in the buffer is in lemmas (`PlacesApart`, `PlaceIn`, `PixelOf`).  The
first descriptor without an end of packet, and the number of bytes before it, come by
a least element (`LeastOf`) where one would count by induction.

`HostRunProofs` proves, also under `Fits`, from `HostFaultAssumption` and
`NoFileAssumption`, that runs of the sweep are runs of `EncodePath`, and from the invariant
above `PassMeansEncoded` and `ExitZeroMeansWritten`.  `HostInv` adds that the last reply
is to this request or an earlier one and says which (`ReplyOfJob`), and that whatever
looks like a golden file among the outputs is of this request (`Ours`): the files are
cleared before the client starts, a file it writes is an image of the reply, and one cut
short lacks the mark of a last beat (`TornIsNotGolden`).

`AdmissionProofs` proves, for every width of words, buffer and page size, picture and
header, from the assumptions of `Admission`:

* `NeverShortOfDescriptors`, `SlotsApart`, `PayloadSent`, `RequestsUnderstood`.

`ChunkAssumption` holds of the board's constants, and the sizes of its buffers;
`WrapAssumption`, that no image has 2^32 bytes exactly, holds as dimensions are below 2^16.
The invariant says what was admitted was laid out for the header judged (`LaidOut`) and
a header attributed to a client is one it makes (`AskKept`).  That a ring's lengths add
up to the payload is by the least number of descriptors for which they would not
(`RingCovers`); that `-b` and maxval agree on bytes per pixel, by cases on 17 powers of two.

`SessionProofs` proves, for every set of clients, number of requests, length of payload,
capacity of a socket and backlog, from the assumptions of `Session`:

* `QueuesBounded`, `StreamInSync`, `LostOnlyToStop`, `OneLateAccept`, and
* `SessionIsService`: initial states map to initial states, `Accept`, `Close`, `SendHeader`,
  `Decide`, `HearReply` to `Begin`, `End`, `Ask`, `Answer`, `Hear`, every other step to a stutter.

The invariant `SInv` says of each client where it is in the life of its connection (`Placed`),
that what is on its way to the server is what remains of one request (`Framed`: a header
and the units written, which with those to write are as many as it announces, or, once it
is read, as the server has left to take in) and that what is on its way back is what
remains of the reply to the last one (`Told`).  `InSync` alone is not inductive: that a unit is a
header depends on how many units were drained before.  A client whose header was of
another protocol is past all of this, as the code closes its connection (`alien`).

`ReloadProofs` proves, for every plan, set of guests, backlog and choice of faults,
from `PlanAssumption` and `FaultAssumption`:

* `TypeCorrect`, with `RunUnderWay`: between the last run and the end, no step can use
  the number of a run that is not there;
* `OneServer`: that one server serves is not inductive, as nothing but the port
  keeps a second one out; that one *listens* is (`OneListens`), as only `Bind` can
  make a server listen, and it does not when another does.

Every safety property that a passing run checks is a theorem as well.  Only model-checked:

* liveness (`EveryBeatPasses`, `GateSetReturns`, `Answered`, `Recovers`, `Served`,
  `StaleGone`, `CleanReloadWorks`, `SweepEnds`), which needs fairness and ENABLED, out of
  the prover's reach;
* `RepliesWhole` beyond `Fits`, for one image that outgrows its buffer (run `answered`).

The inductive invariants `IInv`, `HostInv`, `AInv` and `SInv` were checked by TLC as
invariants of the runs `encode_path`, `host_run`, `admission` and `session` before they were
proved.

## 5. Not modelled

* The mapping of devices beyond its success (`uio.c`, `udmabuf.c`), the characters of PGM
  files, byte packing of headers, printing.
* The interrupt.  A wait sleeps on it for 10 ms at most (`axidma.c:215`) and reads the
  descriptors again whether it came or not: a lost or a stale one costs time only.
* The loopback mode, which touches no hardware and shares the session's loop.
* What a bus does while a bitstream is loaded under a running server, beyond this: an image
  may fail (`Reload`), an access of `gate_set` may be lost or be made late (`ReadyGate`).  In
  `EncodePath` no bitstream is loaded.
* The checks of the scripts for the files they need, which come before anything is done.
* The encoder's function.  It is external, and only its boundary is modelled: a
  reset samples the size, pixels in, one packet out, the last beat only
  after the last pixel.
* Real time.  `--timeout` is a deadline that may pass whenever it likes.
  So `--timeout` covering a whole stream (`ojls_server.c:434`), where the help says
  "per-image" (`ojls_server.c:630`), is listed as a hazard and has no property.
* The sweep's probe of the board, choice of pictures, golden encoder and report; the
  build and the boot.

## 6. Findings

* `short_read`: `axidma_wait` can return 0 with a stale copy of an earlier
  descriptor in the cache, and `axidma_ring_bytes` then counts nothing for it
  (`axidma.c:183` against `axidma.h:118-119`).  Needs an image whose encoding spans
  two descriptors of 32 MiB.
* `foreign_pixels`: a stream image that outgrows its slot can be missed by
  `axidma_wait_packets`; MM2S is left running, and `hw_configure` of the next
  request resets the encoder before `axidma_reset` stops the channel, so pixels
  of the old request enter the new image (`axidma.c:250` against
  `ojls_server.c:562-563`).
* `long_slot`: a stream of images of about 51.2 MiB or more has slots whose length does not
  fit 26 bits (`axidma.c:114` against `axidma.h:100-102`).
* `bad_magic`: a header with another magic number is answered `OJLS_ST_BAD_MAGIC` and the
  connection dropped (`ojls_server.c:527-532`, as the comment there says), where
  `Software/README.md:93-98` lists that status among the errors after which "the connection
  stays open".  Every other error does keep it: `LostUnserved`, which leaves out only the
  clients that sent such a header.

* `reload_mismatch`: a server that serves a client outlives the signal of
  `board_reload.sh:26` and the load of another bitstream; it holds requests against the
  depth it latched at its start (`ojls_server.c:176`, `:556`), so an image of the old depth
  is encoded on the new core, where `Software/README.md:66-69` says that a mismatch is
  refused.  Meanwhile the new server has printed its banner, which the scripts take for
  "server up" and "server listening" (`board_reload.sh:58-59`, `board_setup.sh:120-122`), and
  exits as the port is taken.  `OneServes` and `StaleGone` bound the damage: one
  server at a time, and the old one leaves with its client.

No run shows, but `Admission` has it: `width*height*bytes` wraps in `uint32_t` before it is
compared (`ojls_server.c:545`), so that 46341 x 46341 pixels of two bytes are let through with
a payload of 9266, where `ojls_proto.h:46` has SIZE_MISMATCH for "payload_len !=
width*height*bytes/pixel".  The instance of `admission` contains such headers (45 x 46 of its
units), and `RingsFit`, `SlotsDisjoint` and `PayloadCovered` hold of them: the encoder waits
for pixels that never come, until the deadline, and no memory is used beyond the buffers.

`encode_path` and `host_run` keep to `MaxBeats <= Slot` and `MaxBeats <= Chunk`, where
the first two cannot arise: there the properties hold.

## 7. Plan

1. Done: `StreamSlice`/`ReadyGate`, `AxiDma`/`EncodePath`/`HostRun`, `Admission`,
   `Service`/`Session`, `Reload`; every safety property of the passing runs proved, and
   the two refinements.
2. `EncodePath`, proofs: `RepliesWhole` for a single image without `MaxBeats <= Slot`, as
   the run `answered` has it: an image that outgrows the receive buffer is never answered
   with the part that fitted.
3. `Reload`, proofs: what makes `StaleGone` and `CleanReloadWorks` true short of fairness:
   the latched depth is that of the bitstream loaded when the server started, and a row
   says "ok" only of an image that a server encoded for that run.
4. The safety half of liveness: that whenever a request, a client or the sweep is not at its
   end, some step of it or of the one it waits for is enabled.
5. Time: one `--timeout` for a whole stream against "per-image", with a rate per image.
