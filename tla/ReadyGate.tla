------------------------------ MODULE ReadyGate ------------------------------
(***************************************************************************)
(* axis_ready_gate.vhd, clock by clock: a one-beat register slice between  *)
(* the encoder's output and the DMA's S2MM channel that accepts a beat     *)
(* only on the cycles a pseudo-random draw is below THRESH, and the        *)
(* AXI-Lite port through which gate_set (ojls_server.c) writes THRESH and  *)
(* reads it back.                                                          *)
(*                                                                         *)
(* Signals keep their VHDL names.  Beats are numbered in the order the     *)
(* encoder offers them; payload, keep and last travel with the number.     *)
(* The xorshift32 state is its position in the sequence of draws that      *)
(* follows SEED.                                                           *)
(***************************************************************************)
EXTENDS Integers

CONSTANTS
    Full,                 \* FULL_RATE: one more than the largest draw
    Period,               \* length of the draw sequence
    Draws,                \* Draws[i] = top half of the i-th xorshift32 state after SEED
    Percents,             \* the ready_pct of requests, 0 for none given
    MaxBeats,             \* bound: beats the encoder offers
    MaxSets,              \* bound: calls of gate_set
    MaxResets             \* bound: cycles with aresetn low

ASSUME FullAssumption       == Full \in Nat \ {0}
ASSUME PeriodAssumption     == Period \in Nat \ {0}
ASSUME DrawsAssumption      == Draws \in [0 .. Period - 1 -> 0 .. Full - 1]
\* A percent of full rate is a draw at least, as 1% of 65536 is.
ASSUME PercentsAssumption   == /\ Percents \subseteq 0 .. 100
                               /\ \A pct \in Percents : pct = 0 \/ pct * Full >= 100
ASSUME BoundsAssumption     == MaxBeats \in Nat /\ MaxSets \in Nat /\ MaxResets \in Nat

VARIABLES
    sThresh, sRandom, sOpen, sValid, sBvalid, sRvalid,   \* the architecture's registers
    held,                 \* number of the beat in the slice (m_axis_tdata/tkeep/tlast)
    offered,              \* s_axis_tvalid: the encoder is offering beat `accepted`
    cpu,                  \* gate_set: the access under way, the value asked for, calls made,
                          \* whether a reset fell within the call
    accepted,             \* history: beats taken from the encoder
    due,                  \* history: number of the beat the DMA must see next
    age,                  \* history: 0 on the edge after a write, then counts round the period
    result,               \* history: what the last gate_set returned
    resets                \* history: cycles spent in reset

signals == <<sThresh, sRandom, sOpen, sValid, sBvalid, sRvalid, held>>
vars    == <<signals, offered, cpu, accepted, due, age, result, resets>>

-----------------------------------------------------------------------------
(* Combinational logic and next values of single registers.  Each is       *)
(* preceded by variants that a slip in the VHDL would give, which no       *)
(* action uses: the properties below tell them apart from the real one.    *)

sReadyGated(mready)    == sOpen /\ mready

\* lines 101-104: a beat is taken when the gate is open and the slice is empty
\* or being emptied.
sReady(mready) == sOpen /\ (mready \/ ~sValid)

NextValidAcceptLast(write, pass, mready) == pass \/ (sValid /\ ~mready /\ ~write)

\* lines 117-125 and 134: the handshakes move the slice's beat, and a write,
\* assigned last, drops it together with one accepted on the same edge.
NextValid(write, pass, mready) == ~write /\ (pass \/ (sValid /\ ~mready))

NextRandomUnseeded(write) == IF sRandom = Period - 1 THEN 0 ELSE sRandom + 1

\* lines 110 and 133: one draw per clock; a write goes back to SEED.
NextRandom(write) ==
    IF write \/ sRandom = Period - 1 THEN 0 ELSE sRandom + 1

Word16(wdata) == wdata % Full

\* line 132: THRESH keeps 17 bits of the word written.
Word(wdata) == wdata % (2 * Full)

NextBvalidSticky(write, bready) == sBvalid \/ write

\* lines 127-131
NextBvalid(write, bready) == write \/ (sBvalid /\ ~bready)

\* lines 137-142
NextRvalid(sArready, rready) == sArready \/ (sRvalid /\ ~rready)

-----------------------------------------------------------------------------
(* The processor's side: gate_set.                                         *)

ReadyAsGiven(pct) == pct

\* A request that gives no level runs at full rate.
Ready(pct) == IF pct = 0 THEN 100 ELSE pct

Thresh(pct) == (pct * Full) \div 100

\* A call of gate_set; after one that was cut off, by the next server.
GateSet ==
    /\ cpu.at \in {"idle", "cut"} /\ cpu.sets < MaxSets
    /\ \E pct \in Percents :
          cpu' = [at |-> "write", thresh |-> Thresh(Ready(pct)), sets |-> cpu.sets + 1,
                  hit |-> FALSE]
    /\ result' = "none"
    /\ UNCHANGED <<signals, offered, accepted, due, age, resets>>

\* What an edge does to the access under way, when the interconnect moves it
\* (`go`): write address and data, write response, read address, read data.
Access(go, sWrite, sArready) ==
    LET next == CASE sWrite                                -> "bresp"
                  [] cpu.at = "bresp" /\ go /\ sBvalid     -> "read"
                  [] sArready                              -> "rdata"
                  [] cpu.at = "rdata" /\ go /\ sRvalid     -> "idle"
                  [] OTHER                                 -> cpu.at
    IN  /\ cpu'    = [cpu EXCEPT !.at = next]
        /\ result' = IF cpu.at = "rdata" /\ next = "idle"
                     THEN IF sThresh = cpu.thresh THEN "ok" ELSE "mismatch"
                     ELSE result

-----------------------------------------------------------------------------
(* The stream and the clock.                                               *)

\* The encoder raises tvalid, and keeps it until the handshake.
Offer ==
    /\ ~offered /\ accepted < MaxBeats
    /\ offered' = TRUE
    /\ UNCHANGED <<signals, cpu, accepted, due, age, result, resets>>

\* rising_edge(aclk) with aresetn high.
Edge(mready, go) ==
    LET sWrite   == cpu.at = "write" /\ go /\ ~sBvalid
        sArready == cpu.at = "read" /\ go /\ ~sRvalid
        pass     == sReady(mready) /\ offered
        take     == sValid /\ mready
    IN  /\ sRandom'  = NextRandom(sWrite)
        /\ sOpen'    = (Draws[sRandom] < sThresh)
        /\ sValid'   = NextValid(sWrite, pass, mready)
        /\ held'     = IF pass THEN accepted ELSE held
        /\ sThresh'  = IF sWrite THEN Word(cpu.thresh) ELSE sThresh
        /\ sBvalid'  = NextBvalid(sWrite, cpu.at = "bresp" /\ go)
        /\ sRvalid'  = NextRvalid(sArready, cpu.at = "rdata" /\ go)
        /\ offered'  = (offered /\ ~pass)
        /\ accepted' = IF pass THEN accepted + 1 ELSE accepted
        /\ due'      = IF sWrite THEN accepted' ELSE IF take THEN held + 1 ELSE due
        /\ age'      = IF sWrite THEN 0 ELSE IF age = Period THEN 1 ELSE age + 1
        /\ Access(go, sWrite, sArready)
        /\ UNCHANGED resets

\* rising_edge(aclk) with aresetn low: a PL reload, which may come at any time, as the
\* scripts do not wait for a server that serves a client.  An access that has been
\* taken is not answered any more; one that has not waits, or is cut off as well.
Reset ==
    /\ resets < MaxResets
    /\ resets'  = resets + 1
    /\ \E at \in CASE cpu.at \in {"write", "read"}  -> {cpu.at, "cut"}
                  [] cpu.at \in {"bresp", "rdata"} -> {"cut"}
                  [] OTHER                         -> {cpu.at} :
          cpu' = [cpu EXCEPT !.at = at, !.hit = TRUE]
    /\ sThresh' = Full
    /\ sRandom' = 0
    /\ sOpen'   = TRUE
    /\ sValid'  = FALSE
    /\ sBvalid' = FALSE
    /\ sRvalid' = FALSE
    /\ offered' = FALSE
    /\ due'     = accepted
    /\ age'     = 0
    /\ UNCHANGED <<held, accepted, result>>

Init ==
    /\ sThresh = Full /\ sRandom = 0 /\ sOpen = TRUE
    /\ sValid = FALSE /\ sBvalid = FALSE /\ sRvalid = FALSE
    /\ held = 0
    /\ offered = FALSE
    /\ cpu = [at |-> "idle", thresh |-> Full, sets |-> 0, hit |-> FALSE]
    /\ accepted = 0 /\ due = 0 /\ age = 0
    /\ result = "none" /\ resets = 0

Next == GateSet \/ Offer \/ Reset \/ \E mready, go \in BOOLEAN : Edge(mready, go)

Spec == Init /\ [][Next]_vars

\* The clock runs, the DMA is ready and the interconnect moves again and again;
\* the encoder owes nothing and the draws are what they are.
FairSpec == Spec /\ WF_vars(Edge(TRUE, TRUE))

-----------------------------------------------------------------------------
(* Properties.                                                             *)

\* Every register stays within its width, every counter is a number, and no call asks
\* for a gate that is closed for good.
TypeOK ==
    /\ sThresh \in 0 .. Full
    /\ sRandom \in 0 .. Period - 1
    /\ sOpen \in BOOLEAN /\ sValid \in BOOLEAN
    /\ sBvalid \in BOOLEAN /\ sRvalid \in BOOLEAN
    /\ held \in Nat /\ accepted \in Nat /\ due \in Nat
    /\ offered \in BOOLEAN
    /\ cpu \in [at : {"idle", "write", "bresp", "read", "rdata", "cut"},
                thresh : 1 .. Full, sets : Nat, hit : BOOLEAN]
    /\ age \in 0 .. Period
    /\ result \in {"none", "ok", "mismatch"}
    /\ resets \in Nat

\* The gate is a register slice one beat deep (lines 101-125): throttling it,
\* at any moment and whatever the receiver does, loses, repeats and reorders no
\* beat, and only a write of THRESH or a reset discards one (lines 9-10).
Slice == INSTANCE StreamSlice WITH
    Depth <- 1, q <- IF sValid THEN <<held>> ELSE <<>>
IsSlice == Slice!Spec

\* "Writing it reseeds, so a run is reproducible" (line 10): from the second edge
\* after a write, whether the gate is open is a function of THRESH and of the
\* number of edges since the write, whatever happened before.
Reproducible == age >= 1 => sOpen = (Draws[age - 1] < sThresh)

\* No response outlives its access (lines 88-90 and 127-142): a left-over one would
\* acknowledge the next write before it happened, and gate_set would then read
\* back the old THRESH.
NoStrayResponse ==
    /\ sBvalid => cpu.at = "bresp"
    /\ sRvalid => cpu.at = "rdata"

\* gate_set never reports a mismatch for the values the server asks for, full rate
\* included (ojls_server.c:257-260), unless a reload took THRESH back meanwhile.
GateSetSucceeds == result = "mismatch" => cpu.hit

\* A reset stops the encoder too, which withdraws what it was offering.
Withdrawn(k) == accepted = k /\ ~offered

\* Throttled is not blocked: a beat the encoder offers reaches the DMA or is
\* discarded by a write or reset, with no coincidence of the gate being open and
\* the receiver ready needed (line 101).
EveryBeatPasses ==
    \A k \in 0 .. MaxBeats - 1 : (offered /\ accepted = k) ~> (due > k \/ Withdrawn(k))

\* gate_set returns: neither response channel can be left waiting, but by a reload
\* that cuts the access off.
GateSetReturns == cpu.at = "write" ~> cpu.at \in {"idle", "cut"}
=============================================================================
