----------------------------- MODULE ReloadProofs -----------------------------
(***************************************************************************)
(* Proofs about Reload, for every plan, set of guests, backlog and choice  *)
(* of faults.                                                              *)
(***************************************************************************)
EXTENDS Reload, TLAPS

\* At most one server has the listening socket: what keeps OneServes, as a server
\* listens while it serves.
OneListens == \A s, t \in Run : Listens(s) /\ Listens(t) => s = t

\* Between two runs there is no run whose number a later step could use.
RunUnderWay == pos \notin Run => sh = "kill"

Inv == TypeOK /\ RunUnderWay

LEMMA Runs ==
    /\ Len(Plan) \in Nat /\ Run = 1 .. Len(Plan)
    /\ \A p \in Run : Plan[p] \in Depth
    /\ 1 \in Run
  BY PlanAssumption DEF Run, Depth, Range

-----------------------------------------------------------------------------
(* Types.                                                                  *)

LEMMA InitTypes == Init => Inv
<1> SUFFICES ASSUME Init PROVE Inv
  OBVIOUS
<1>1. sv \in [Run -> Server] /\ conn \in [Client -> Conn] /\ row \in [Run -> {"none", "down"} \cup Answer]
  BY DEF Init, NoServer, Server, At, Conn, Answer
<1>2. backlog \in Seq(Client) /\ Len(backlog) <= Backlog
  BY FaultAssumption DEF Init
<1> QED
  BY <1>1, <1>2, Runs DEF Init, Inv, TypeOK, RunUnderWay

\* A step of the script or of the sweep within a run, and the end of a run.
LEMMA StepTypes ==
    ASSUME Inv, NEW from, NEW to \in {"settle", "unload", "clock", "load", "insert", "spawn",
                                      "poll", "probe", "connect", "wait"},
           Step(from, to), from # "kill"
    PROVE  /\ pos \in Run /\ pos' = pos /\ sh' = to /\ script' = script
           /\ row' \in [Run -> {"none", "down"} \cup Answer]
  BY DEF Inv, TypeOK, RunUnderWay, Step

LEMMA FinishTypes ==
    ASSUME Inv, sh # "kill", NEW result \in {"down"} \cup Answer, Finish(result)
    PROVE  /\ pos' \in Run \cup {Len(Plan) + 1} /\ sh' = "kill" /\ script' = script
           /\ row' \in [Run -> {"none", "down"} \cup Answer]
  BY Runs DEF Inv, TypeOK, RunUnderWay, Finish

LEMMA ScriptTypes == Inv /\ Script => Inv'
<1> SUFFICES ASSUME Inv, Script PROVE Inv'
  OBVIOUS
<1> USE DEF Inv, TypeOK, RunUnderWay, boardVars
<1>1. CASE Kill
  <2>1. PICK installed \in BOOLEAN : sv' = [s \in Run |-> Signalled(s, installed)]
    BY <1>1 DEF Kill
  <2>2. ASSUME NEW s \in Run PROVE Signalled(s, installed) \in Server
    BY DEF Signalled, Server, At
  <2>3. sv' \in [Run -> Server]
    BY <2>1, <2>2
  <2> QED
    BY <1>1, <2>3 DEF Kill, Working
<1>2. CASE Settle
  BY <1>2, StepTypes DEF Settle
<1>3. CASE Unload
  BY <1>3, StepTypes DEF Unload
<1>4. CASE Load
  <2>1. sv' \in [Run -> Server]
    BY <1>4 DEF Load, Spoilt, Server
  <2>2. pos \in Run
    BY <1>4 DEF Load
  <2>3. CASE Step("load", IF script = "setup" THEN "insert" ELSE "clock") /\ pl' = Plan[pos]
    BY <1>4, <2>1, <2>2, <2>3, Runs, StepTypes DEF Load
  <2>4. CASE Finish("down") /\ pl' \in {NoDepth, pl, Plan[pos]}
    BY <1>4, <2>1, <2>2, <2>4, Runs, FinishTypes DEF Load
  <2> QED
    BY <1>4, <2>3, <2>4 DEF Load
<1>5. CASE Insert
  BY <1>5, StepTypes, FinishTypes DEF Insert
<1>6. CASE Spawn
  BY <1>6, StepTypes DEF Spawn, Server, At
<1>7. CASE Up
  BY <1>7, StepTypes DEF Up
<1>8. CASE GiveUp
  BY <1>8, FinishTypes DEF GiveUp
<1>9. CASE Clock
  BY <1>9, StepTypes, FinishTypes DEF Clock
<1> QED
  BY <1>1, <1>2, <1>3, <1>4, <1>5, <1>6, <1>7, <1>8, <1>9 DEF Script

LEMMA ConnectTypes ==
    ASSUME Inv, NEW c \in Client, CanConnect, backlog' = Append(backlog, c)
    PROVE  backlog' \in Seq(Client) /\ Len(backlog') <= Backlog
  BY FaultAssumption DEF Inv, TypeOK, CanConnect

LEMMA SweepTypes == Inv /\ Sweep => Inv'
<1> SUFFICES ASSUME Inv, Sweep PROVE Inv'
  OBVIOUS
<1> USE DEF Inv, TypeOK, RunUnderWay, boardVars
<1>1. CASE ProbePort
  BY <1>1, StepTypes, ConnectTypes DEF ProbePort, Client
<1>2. CASE NoPort
  BY <1>2, FinishTypes DEF NoPort
<1>3. CASE Encode
  <2>1. pos \in Run /\ pos \in Client
    BY <1>3 DEF Encode, Step, Client
  <2>2. conn' \in [Client -> Conn]
    BY <1>3, <2>1, Runs DEF Encode, Conn
  <2> QED
    BY <1>3, <2>1, <2>2, StepTypes, ConnectTypes DEF Encode
<1>4. CASE NoServerThere
  BY <1>4, FinishTypes DEF NoServerThere, Answer
<1>5. CASE Result
  <2>1. conn' \in [Client -> Conn]
    BY <1>5 DEF Result, Conn
  <2>2. \E result \in {"down"} \cup Answer : Finish(result)
    BY <1>5 DEF Result
  <2> QED
    BY <1>5, <2>1, <2>2, FinishTypes DEF Result
<1> QED
  BY <1>1, <1>2, <1>3, <1>4, <1>5 DEF Sweep

LEMMA GuestTypes ==
    ASSUME Inv, NEW g \in Guests, GuestConnects(g) \/ GuestAsks(g) \/ GuestLeaves(g)
    PROVE  Inv'
<1> USE DEF Inv, TypeOK, RunUnderWay, boardVars, Conn
<1>1. CASE GuestConnects(g)
  BY <1>1, ConnectTypes DEF GuestConnects, Client
<1>2. CASE GuestAsks(g)
  BY <1>2 DEF GuestAsks, Client
<1>3. CASE GuestLeaves(g)
  BY <1>3 DEF GuestLeaves
<1> QED
  BY <1>1, <1>2, <1>3

LEMMA ToldTypes ==
    ASSUME Inv, NEW c, NEW answer \in Answer
    PROVE  Told(c, answer) \in [Client -> Conn]
  BY DEF Inv, TypeOK, Told, Conn

LEMMA MoveTypes ==
    ASSUME Inv, NEW s \in Run, NEW at \in At, NEW peer \in Client \cup {NoDepth}
    PROVE  [sv EXCEPT ![s].at = at, ![s].peer = peer] \in [Run -> Server]
<1>1. sv[s] \in Server
  BY DEF Inv, TypeOK
<1>2. [sv[s] EXCEPT !.at = at, !.peer = peer] \in Server
  BY <1>1 DEF Server
<1>3. [sv EXCEPT ![s] = [sv[s] EXCEPT !.at = at, !.peer = peer]] \in [Run -> Server]
  BY <1>2 DEF Inv, TypeOK
<1>4. [sv EXCEPT ![s].at = at, ![s].peer = peer] = [sv EXCEPT ![s] = [sv[s] EXCEPT !.at = at, !.peer = peer]]
  BY <1>1 DEF Inv, TypeOK, Server
<1> QED
  BY <1>3, <1>4

LEMMA GotoTypes ==
    ASSUME Inv, NEW s \in Run, NEW at \in At, Goto(s, at)
    PROVE  sv' \in [Run -> Server]
<1>1. sv[s] \in Server
  BY DEF Inv, TypeOK
<1>2. [sv[s] EXCEPT !.at = at] \in Server
  BY <1>1 DEF Server
<1> QED
  BY <1>2 DEF Goto, Inv, TypeOK

LEMMA ServeTypes ==
    ASSUME Inv, NEW s \in Run, Serve(s)
    PROVE  Inv'
<1> USE DEF Inv, TypeOK, RunUnderWay, boardVars, sweepVars
<1>1. CASE Shell(s)
  <2>1. sv' \in [Run -> Server]
    BY <1>1, GotoTypes DEF Shell, At
  <2> QED
    BY <1>1, <2>1 DEF Shell
<1>2. CASE Open(s)
  <2>1. sv' \in [Run -> Server]
    BY <1>2, GotoTypes DEF Open, At
  <2> QED
    BY <1>2, <2>1 DEF Open
<1>12. CASE Latch(s)
  <2>1. CASE /\ pl # NoDepth /\ log' = pl
             /\ sv' = [sv EXCEPT ![s].at = "reset", ![s].latch = pl]
    <3>1. sv' \in [Run -> Server]
      BY <2>1 DEF Server, At
    <3> QED
      BY <1>12, <2>1, <3>1 DEF Latch
  <2>2. CASE Goto(s, "gone") /\ UNCHANGED log
    BY <1>12, <2>2 DEF Latch, Goto, Server, At
  <2> QED
    BY <1>12, <2>1, <2>2 DEF Latch
<1>3. CASE Reset(s)
  <2>1. Spoilt \in [Run -> Server]
    BY DEF Spoilt, Server
  <2>2. ASSUME NEW at \in {"map", "gone"}
        PROVE  /\ [Spoilt EXCEPT ![s].at = at] \in [Run -> Server]
               /\ [sv EXCEPT ![s].at = at] \in [Run -> Server]
    BY <2>1 DEF Server, At
  <2> QED
    BY <1>3, <2>2 DEF Reset, Goto
<1>4. CASE Map(s)
  <2>1. sv' \in [Run -> Server]
    BY <1>4, GotoTypes DEF Map, At
  <2> QED
    BY <1>4, <2>1 DEF Map
<1>5. CASE Bind(s)
  <2>1. sv' \in [Run -> Server]
    BY <1>5, GotoTypes DEF Bind, At
  <2> QED
    BY <1>5, <2>1 DEF Bind
<1>6. CASE Test(s)
  <2>1. sv' \in [Run -> Server]
    BY <1>6, GotoTypes DEF Test, At
  <2>2. conn' \in [Client -> Conn]
    BY <1>6 DEF Test, Conn, Answer
  <2>3. backlog' \in Seq(Client) /\ Len(backlog') <= Backlog
    <3>1. CASE backlog' = <<>>
      BY <3>1, FaultAssumption
    <3>2. CASE UNCHANGED backlog
      BY <3>2
    <3> QED
      BY <1>6, <3>1, <3>2 DEF Test
  <2> QED
    BY <1>6, <2>1, <2>2, <2>3 DEF Test
<1>7. CASE Block(s)
  <2>1. sv' \in [Run -> Server]
    BY <1>7, GotoTypes DEF Block, At
  <2> QED
    BY <1>7, <2>1 DEF Block
<1>8. CASE Accept(s)
  <2>1. Head(backlog) \in Client /\ Tail(backlog) \in Seq(Client) /\ Len(Tail(backlog)) <= Backlog
    BY <1>8, FaultAssumption DEF Accept
  <2>2. [sv EXCEPT ![s].at = "serve", ![s].peer = Head(backlog)] \in [Run -> Server]
    BY <2>1, MoveTypes DEF At
  <2> QED
    BY <1>8, <2>1, <2>2 DEF Accept
<1>9. CASE HangUp(s)
  <2>1. [sv EXCEPT ![s].at = "test", ![s].peer = NoDepth] \in [Run -> Server]
    BY MoveTypes DEF At
  <2> QED
    BY <1>9, <2>1 DEF HangUp
<1>10. CASE Judge(s)
  <2>1. conn' \in [Client -> Conn]
    BY <1>10, ToldTypes DEF Judge, Answer
  <2>2. sv' \in [Run -> Server]
    BY <1>10 DEF Judge, Server, At
  <2> QED
    BY <1>10, <2>1, <2>2 DEF Judge
<1>11. CASE Encoded(s)
  <2>1. conn' \in [Client -> Conn]
    BY <1>11, ToldTypes DEF Encoded, Answer
  <2>2. sv' \in [Run -> Server]
    BY <1>11 DEF Encoded, Server, At
  <2> QED
    BY <1>11, <2>1, <2>2 DEF Encoded
<1> QED
  BY <1>1, <1>2, <1>3, <1>4, <1>5, <1>6, <1>7, <1>8, <1>9, <1>10, <1>11, <1>12 DEF Serve

LEMMA NextTypes == Inv /\ [Next]_vars => Inv'
<1> SUFFICES ASSUME Inv, [Next]_vars PROVE Inv'
  OBVIOUS
<1>1. CASE UNCHANGED vars
  BY <1>1 DEF Inv, TypeOK, RunUnderWay, vars, boardVars
<1> QED
  BY <1>1, ScriptTypes, SweepTypes, GuestTypes, ServeTypes DEF Next

\* The board under the scripts keeps its shape, and the sockets their backlog, for
\* every plan and every choice of faults (board_reload.sh, ojls_server.c:635-730).
THEOREM TypeCorrect == Spec => []TypeOK
<1>1. Inv => TypeOK
  BY DEF Inv
<1> QED
  BY InitTypes, NextTypes, <1>1, PTL DEF Spec

-----------------------------------------------------------------------------
(* One server serves.                                                      *)

\* Only a step that makes a server listen can make a second one listen.
LEMMA NoNewListener ==
    ASSUME OneListens, \A s \in Run : Listens(s)' => Listens(s)
    PROVE  OneListens'
  BY DEF OneListens, Listens

LEMMA ScriptListens ==
    ASSUME Inv, Script, NEW s \in Run, Listens(s)'
    PROVE  Listens(s)
<1> USE DEF Inv, TypeOK
<1>1. CASE Kill
  <2>1. PICK installed \in BOOLEAN : sv' = [r \in Run |-> Signalled(r, installed)]
    BY <1>1 DEF Kill
  <2>2. sv'[s] = Signalled(s, installed) /\ sv[s] \in Server
    BY <2>1
  <2> QED
    BY <2>2 DEF Signalled, Listens, Live, Server
<1>2. CASE UNCHANGED sv
  BY <1>2 DEF Listens
<1>3. CASE Load
  BY <1>3 DEF Load, Spoilt, Listens, Server
<1>4. CASE Spawn
  BY <1>4 DEF Spawn, Listens, Server
<1> QED
  BY <1>1, <1>2, <1>3, <1>4 DEF Script, Settle, Unload, Clock, Insert, Up, GiveUp

LEMMA ServeListens ==
    ASSUME Inv, NEW t \in Run, Serve(t), ~Bind(t), NEW s \in Run, Listens(s)'
    PROVE  Listens(s)
<1> USE DEF Inv, TypeOK
<1>1. CASE Reset(t)
  <2>1. CASE Goto(t, "gone")
    BY <2>1 DEF Goto, Listens, Server
  <2>2. ASSUME NEW at \in {"map", "gone"}, sv' = [Spoilt EXCEPT ![t].at = at]
        PROVE  Listens(s)
    <3>1. sv' = [r \in Run |-> IF r = t THEN [Spoilt[r] EXCEPT !.at = at] ELSE Spoilt[r]]
      BY <2>2 DEF Spoilt
    <3>2. Spoilt[s].at = sv[s].at /\ [Spoilt[s] EXCEPT !.at = at].at = at
      BY DEF Spoilt, Server
    <3> QED
      BY <3>1, <3>2 DEF Listens
  <2> QED
    BY <1>1, <2>1, <2>2 DEF Reset
<1>2. CASE Listens(t)
  <2>1. s # t => sv'[s] = sv[s]
    BY <1>2 DEF Serve, Listens, Shell, Open, Latch, Reset, Map, Bind, Test, Block, Accept, HangUp, Judge,
               Encoded, Goto
  <2> QED
    BY <1>2, <2>1 DEF Listens
<1>3. CASE Shell(t) \/ Open(t) \/ Map(t)
  BY <1>3 DEF Shell, Open, Map, Goto, Listens, Server
<1>4. CASE Latch(t)
  <2>1. \/ sv' = [sv EXCEPT ![t].at = "reset", ![t].latch = pl]
        \/ sv' = [sv EXCEPT ![t].at = "gone"]
    BY <1>4 DEF Latch, Goto
  <2>2. sv'[t].at \in {"reset", "gone"} /\ (s # t => sv'[s] = sv[s])
    BY <2>1 DEF Server
  <2> QED
    BY <2>2 DEF Listens
<1> QED
  BY <1>1, <1>2, <1>3, <1>4 DEF Serve, Listens, Test, Block, Accept, HangUp, Judge, Encoded

LEMMA NextListens == Inv /\ OneListens /\ [Next]_vars => OneListens'
<1> SUFFICES ASSUME Inv, OneListens, [Next]_vars PROVE OneListens'
  OBVIOUS
<1>1. CASE Script
  BY <1>1, ScriptListens, NoNewListener
<1>2. CASE UNCHANGED sv
  BY <1>2 DEF OneListens, Listens
<1>3. ASSUME NEW t \in Run, Bind(t) PROVE OneListens'
  <2>1. CASE \E s \in Run : Listens(s)
    <3>1. sv' = [sv EXCEPT ![t].at = "gone"]
      BY <1>3, <2>1 DEF Bind, Goto
    <3>2. \A s \in Run : Listens(s)' => Listens(s)
      BY <3>1 DEF Listens, Inv, TypeOK, Server
    <3> QED
      BY <3>2, NoNewListener
  <2>2. CASE ~\E s \in Run : Listens(s)
    <3>1. sv' = [sv EXCEPT ![t].at = "test"]
      BY <1>3, <2>2 DEF Bind, Goto
    <3>2. \A s \in Run : s # t => ~Listens(s)'
      BY <3>1, <2>2 DEF Listens, Inv, TypeOK
    <3> QED
      BY <3>2 DEF OneListens, Listens
  <2> QED
    BY <2>1, <2>2
<1>4. ASSUME NEW t \in Run, Serve(t), ~Bind(t) PROVE OneListens'
  BY <1>4, ServeListens, NoNewListener
<1> QED
  BY <1>1, <1>2, <1>3, <1>4 DEF Next, vars, Sweep, ProbePort, NoPort, Encode, NoServerThere, Result,
                            GuestConnects, GuestAsks, GuestLeaves

\* However many servers the scripts leave behind, and whatever fails, the encoder is
\* used by one of them at a time (ojls_server.c:696-725).
THEOREM OneServer == Spec => []OneServes
<1>1. Init => OneListens
  BY DEF Init, NoServer, OneListens, Listens
<1>2. OneListens => OneServes
  BY DEF OneListens, OneServes, Listens
<1> QED
  BY InitTypes, NextTypes, NextListens, <1>1, <1>2, PTL DEF Spec
=============================================================================
