--------------------------- MODULE ReadyGateProofs ---------------------------
(***************************************************************************)
(* Proofs about ReadyGate, for every length and content of the draw        *)
(* sequence, every full rate, every set of ready levels and every bound:   *)
(* the gate is a register slice, a write restarts it, and gate_set reads   *)
(* back what it wrote.                                                     *)
(***************************************************************************)
EXTENDS ReadyGate, Sequences, TLAPS

-----------------------------------------------------------------------------
(* The inductive invariant, by the property each part carries.             *)

\* The slice holds the one beat accepted and not yet due beyond, or none.
SliceInv ==
    /\ sValid => held = due /\ accepted = due + 1
    /\ ~sValid => accepted = due

\* The generator's position is the age of the last write.
DrawInv ==
    /\ sRandom = IF age = Period THEN 0 ELSE age
    /\ Reproducible

\* Between the write and the readback THRESH holds what was asked for, unless a reset
\* took it back.
AccessInv ==
    /\ NoStrayResponse
    /\ cpu.at \in {"bresp", "read", "rdata"} => sThresh = cpu.thresh \/ cpu.hit
    /\ GateSetSucceeds

Inv == TypeOK /\ SliceInv /\ DrawInv /\ AccessInv

-----------------------------------------------------------------------------
\* THRESH is wide enough: 17 bits hold every value the server writes.
LEMMA WordHolds ==
    ASSUME NEW w \in 1 .. Full
    PROVE  Word(w) = w
  BY FullAssumption, SMT DEF Word

\* Every level asked for, and none, opens the gate on some draw.
LEMMA ThreshOpens ==
    ASSUME NEW pct \in Percents
    PROVE  Thresh(Ready(pct)) \in 1 .. Full
<1>1. pct \in 0 .. 100 /\ (pct = 0 \/ pct * Full >= 100) /\ Full \in Nat
  BY PercentsAssumption, FullAssumption
<1>2. PICK p \in 0 .. 100 : p = Ready(pct)
  BY <1>1 DEF Ready
<1>3. PICK product \in Int : product = p * Full
  BY <1>1
<1>4. product >= 100
  <2>1. CASE pct = 0
    BY <1>2, <1>3, <2>1, FullAssumption DEF Ready
  <2>2. CASE pct # 0
    BY <1>1, <1>2, <1>3, <2>2 DEF Ready
  <2> QED
    BY <2>1, <2>2
<1>5. product <= 100 * Full
  BY <1>1, <1>2, <1>3
<1>6. product \div 100 \in 1 .. Full
  BY <1>1, <1>4, <1>5
<1> QED
  BY <1>2, <1>3, <1>6 DEF Thresh

\* Reset leaves the signals as Init sets them.
LEMMA InitInv == Init => Inv
<1> SUFFICES ASSUME Init PROVE Inv
  OBVIOUS
<1>1. /\ sOpen \in BOOLEAN /\ sValid \in BOOLEAN /\ sBvalid \in BOOLEAN
      /\ sRvalid \in BOOLEAN /\ offered \in BOOLEAN
      /\ ~sValid /\ ~sBvalid /\ ~sRvalid
  BY Zenon DEF Init
<1>2. TypeOK
  BY <1>1, FullAssumption, PeriodAssumption DEF Init, TypeOK
<1>3. SliceInv /\ DrawInv /\ AccessInv
  BY <1>1, PeriodAssumption
  DEF Init, SliceInv, DrawInv, AccessInv, Reproducible, NoStrayResponse, GateSetSucceeds
<1> QED
  BY <1>2, <1>3 DEF Inv

LEMMA GateSetInv == Inv /\ GateSet => Inv'
<1> SUFFICES ASSUME Inv, GateSet PROVE Inv'
  OBVIOUS
<1>1. PICK pct \in Percents :
          cpu' = [at |-> "write", thresh |-> Thresh(Ready(pct)), sets |-> cpu.sets + 1,
                  hit |-> FALSE]
  BY DEF GateSet
<1>2. PICK thresh \in 1 .. Full :
          cpu' = [at |-> "write", thresh |-> thresh, sets |-> cpu.sets + 1, hit |-> FALSE]
  BY <1>1, ThreshOpens
<1> QED
  BY <1>2 DEF Inv, GateSet, signals, TypeOK, SliceInv, DrawInv, AccessInv, Reproducible,
              NoStrayResponse, GateSetSucceeds

LEMMA OfferInv == Inv /\ Offer => Inv'
  BY DEF Inv, Offer, signals, TypeOK, SliceInv, DrawInv, AccessInv, Reproducible,
         NoStrayResponse, GateSetSucceeds

LEMMA ResetInv == Inv /\ Reset => Inv'
<1> SUFFICES ASSUME Inv, Reset PROVE Inv'
  OBVIOUS
<1>1. /\ sOpen' \in BOOLEAN /\ sValid' \in BOOLEAN /\ sBvalid' \in BOOLEAN
      /\ sRvalid' \in BOOLEAN /\ offered' \in BOOLEAN
      /\ ~sValid' /\ ~sBvalid' /\ ~sRvalid'
  BY Zenon DEF Reset
<1>2. PICK at \in {"idle", "write", "read", "cut"} : cpu' = [cpu EXCEPT !.at = at, !.hit = TRUE]
  BY DEF Inv, TypeOK, Reset
<1>3. /\ cpu' \in [at : {"idle", "write", "bresp", "read", "rdata", "cut"},
                     thresh : 1 .. Full, sets : Nat, hit : BOOLEAN]
      /\ cpu'.hit /\ cpu'.at \notin {"bresp", "rdata"}
  BY <1>2 DEF Inv, TypeOK
<1>4. TypeOK'
  BY <1>1, <1>3, FullAssumption, PeriodAssumption DEF Inv, Reset, TypeOK
<1>5. SliceInv' /\ DrawInv' /\ AccessInv'
  BY <1>1, <1>3, PeriodAssumption
  DEF Inv, Reset, TypeOK, SliceInv, DrawInv, AccessInv, Reproducible, NoStrayResponse,
      GateSetSucceeds
<1> QED
  BY <1>4, <1>5 DEF Inv

\* A clock edge, part by part.
LEMMA EdgeInv ==
    ASSUME Inv, NEW mready \in BOOLEAN, NEW go \in BOOLEAN, Edge(mready, go)
    PROVE  Inv'
<1> DEFINE sWrite == cpu.at = "write" /\ go /\ ~sBvalid
           sArready == cpu.at = "read" /\ go /\ ~sRvalid
<1>1. Word(cpu.thresh) = cpu.thresh
  BY WordHolds DEF Inv, TypeOK
<1>2. TypeOK'
  <2>1. sThresh' \in 0 .. Full /\ sRandom' \in 0 .. Period - 1 /\ age' \in 0 .. Period
    BY <1>1, FullAssumption, PeriodAssumption DEF Inv, TypeOK, Edge, NextRandom
  <2>2. held' \in Nat /\ accepted' \in Nat /\ due' \in Nat /\ resets' \in Nat
    BY DEF Inv, TypeOK, Edge
  <2>3. sOpen' \in BOOLEAN /\ sValid' \in BOOLEAN /\ sBvalid' \in BOOLEAN
        /\ sRvalid' \in BOOLEAN /\ offered' \in BOOLEAN
    <3>1. sOpen' \in BOOLEAN
      BY SMT DEF Edge
    <3>2. sValid' \in BOOLEAN /\ sBvalid' \in BOOLEAN /\ sRvalid' \in BOOLEAN
      BY SMT DEF Edge, NextValid, NextBvalid, NextRvalid
    <3>3. offered' \in BOOLEAN
      BY SMT DEF Edge
    <3> QED
      BY <3>1, <3>2, <3>3
  <2>4. cpu' \in [at : {"idle", "write", "bresp", "read", "rdata", "cut"}, thresh : 1 .. Full,
               sets : Nat, hit : BOOLEAN]
        /\ result' \in {"none", "ok", "mismatch"}
    BY DEF Inv, TypeOK, Edge, Access
  <2> QED
    BY <2>1, <2>2, <2>3, <2>4 DEF TypeOK
<1>3. SliceInv'
  BY DEF Inv, TypeOK, SliceInv, Edge, NextValid, sReady
<1>4. DrawInv'
  BY PeriodAssumption DEF Inv, TypeOK, DrawInv, Reproducible, Edge, NextRandom
<1>5. AccessInv'
  BY <1>1 DEF Inv, TypeOK, AccessInv, NoStrayResponse, GateSetSucceeds, Edge, Access,
              NextBvalid, NextRvalid
<1> QED
  BY <1>2, <1>3, <1>4, <1>5 DEF Inv

LEMMA StutterInv == Inv /\ UNCHANGED vars => Inv'
  BY DEF Inv, vars, signals, TypeOK, SliceInv, DrawInv, AccessInv, Reproducible,
         NoStrayResponse, GateSetSucceeds

THEOREM Invariance == Spec => []Inv
<1>1. Inv /\ [Next]_vars => Inv'
  BY GateSetInv, OfferInv, ResetInv, EdgeInv, StutterInv DEF Next
<1> QED
  BY InitInv, <1>1, PTL DEF Spec

-----------------------------------------------------------------------------
\* Every register keeps its width (lines 62-74).
THEOREM TypeCorrect == Spec => []TypeOK
  BY Invariance, PTL DEF Inv

\* A write makes the gate's openness reproducible, whatever the draws (lines 9-10).
THEOREM WriteReproduces == Spec => []Reproducible
  BY Invariance, PTL DEF Inv, DrawInv

\* No AXI-Lite response outlives its access (lines 88-90, 127-142).
THEOREM ResponsesMatch == Spec => []NoStrayResponse
  BY Invariance, PTL DEF Inv, AccessInv

\* gate_set's readback never differs from what it wrote, unless the gate was reset
\* within the call (ojls_server.c:255-261).
THEOREM ReadbackHolds == Spec => []GateSetSucceeds
  BY Invariance, PTL DEF Inv, AccessInv

-----------------------------------------------------------------------------
(* The refinement: what the slice holds is a queue of at most one beat.    *)

\* An edge with a write or a reset flushes the slice.
LEMMA FlushStep ==
    ASSUME ~sValid', due' = accepted', accepted' \in {accepted, accepted + 1}
    PROVE  Slice!Flush
  BY DEF Slice!Flush

\* Any other edge is a transfer, in, out, both or neither.
LEMMA TransferStep ==
    ASSUME Inv, NEW mready \in BOOLEAN, NEW go \in BOOLEAN, Edge(mready, go),
           ~(cpu.at = "write" /\ go /\ ~sBvalid)
    PROVE  \E take, put \in BOOLEAN : Slice!Transfer(take, put)
<1> DEFINE pass == sReady(mready) /\ offered
           take == sValid /\ mready
<1>1. /\ pass \in BOOLEAN /\ take \in BOOLEAN
      /\ sValid \in BOOLEAN
      /\ sValid => held = due /\ accepted = due + 1
      /\ pass => ~sValid \/ take
      /\ take => sValid
      /\ held \in Nat /\ due \in Nat /\ accepted \in Nat
  BY DEF Inv, TypeOK, SliceInv, sReady
<1>2. /\ sValid' = (pass \/ (sValid /\ ~take))
      /\ held' = IF pass THEN accepted ELSE held
      /\ accepted' = IF pass THEN accepted + 1 ELSE accepted
      /\ due' = IF take THEN held + 1 ELSE due
  BY <1>1 DEF Edge, NextValid
<1>3. Slice!Transfer(take, pass)
  <2> HIDE DEF pass, take
  <2> DEFINE q    == IF sValid THEN <<held>> ELSE <<>>
             rest == IF take THEN Tail(q) ELSE q
  <2>1. take => q # <<>> /\ Head(q) = due
    BY <1>1
  <2>2. pass => rest = <<>>
    BY <1>1
  <2>3. (IF sValid' THEN <<held'>> ELSE <<>>) = IF pass THEN Append(rest, accepted) ELSE rest
    <3>1. CASE pass
      <4>1. sValid' /\ held' = accepted /\ rest = <<>>
        BY <1>2, <2>2, <3>1
      <4>2. Append(<<>>, accepted) = <<accepted>>
        OBVIOUS
      <4> HIDE DEF rest
      <4> QED
        BY <3>1, <4>1, <4>2
    <3>2. CASE ~pass /\ take
      BY <1>1, <1>2, <3>2
    <3>3. CASE ~pass /\ ~take
      BY <1>1, <1>2, <3>3
    <3> QED
      BY <1>1, <3>1, <3>2, <3>3
  <2>4. due' = IF take THEN due + 1 ELSE due
    BY <1>1, <1>2
  <2> QED
    BY <1>2, <2>1, <2>2, <2>3, <2>4 DEF Slice!Transfer
<1> QED
  BY <1>1, <1>3

LEMMA SliceStep == Inv /\ [Next]_vars => [Slice!Next]_(Slice!sliceVars)
<1> SUFFICES ASSUME Inv, [Next]_vars
             PROVE  Slice!Next \/ UNCHANGED <<sValid, held, accepted, due>>
  BY DEF Slice!sliceVars
<1>1. CASE GateSet \/ Offer \/ UNCHANGED vars
  BY <1>1 DEF GateSet, Offer, vars, signals
<1>2. CASE Reset
  BY <1>2, FlushStep DEF Reset, Slice!Next
<1>3. CASE \E mready, go \in BOOLEAN : Edge(mready, go)
  <2>1. PICK mready \in BOOLEAN, go \in BOOLEAN : Edge(mready, go)
    BY <1>3
  <2>2. CASE cpu.at = "write" /\ go /\ ~sBvalid
    <3>1. ~sValid' /\ due' = accepted' /\ accepted' \in {accepted, accepted + 1}
      BY <2>1, <2>2 DEF Edge, NextValid
    <3> QED
      BY <3>1, FlushStep DEF Slice!Next
  <2>3. CASE ~(cpu.at = "write" /\ go /\ ~sBvalid)
    BY <2>1, <2>3, TransferStep DEF Slice!Next
  <2> QED
    BY <2>2, <2>3
<1> QED
  BY <1>1, <1>2, <1>3 DEF Next

\* The gate implements the one-beat slice (axis_ready_gate.vhd:101-125): no beat is
\* lost, repeated or overtaken but by a write of THRESH or a reset.
THEOREM GateIsSlice == Spec => IsSlice
<1>1. Init => Slice!Init
  BY DEF Init, Slice!Init
<1> QED
  BY <1>1, SliceStep, Invariance, PTL DEF Spec, IsSlice, Slice!Spec
=============================================================================
