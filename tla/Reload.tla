-------------------------------- MODULE Reload --------------------------------
(***************************************************************************)
(* The board under board_setup.sh and board_reload.sh: each run stops the  *)
(* server there is, loads a bitstream and starts a new server; then the    *)
(* sweep encodes an image of that depth.  Servers are processes that start *)
(* and exit on their own time: one that serves a client outlives the       *)
(* signal, and meets the bitstream, the port and the log of its successor. *)
(* Other clients (guests) come and go beside the sweep.                    *)
(***************************************************************************)
EXTENDS Integers, Sequences, SequencesExt

CONSTANTS
    Plan,                 \* the depths loaded, one per run of a script
    Guests,               \* clients besides the sweep's
    NoDepth,              \* no bitstream loaded, or no banner in the log
    Probe,                \* wait_for_port's connection
    Backlog,              \* connections that wait for accept: listen(fd, 1) lets 2
    Faults,               \* what may fail
    Faulty                \* bound: the runs during which it may

FaultKinds == {"clock", "load", "tree", "insert", "open", "reset", "late", "encode", "patience"}

ASSUME PlanAssumption  == Plan \in Seq(Range(Plan)) /\ Plan # <<>> /\ NoDepth \notin Range(Plan)
ASSUME PeerAssumption  == Probe \notin Guests /\ Guests \cap Nat = {} /\ Probe \notin Nat
ASSUME FaultAssumption == Faults \subseteq FaultKinds /\ Faulty \subseteq Nat /\ Backlog \in Nat \ {0}

Run    == DOMAIN Plan                 \* a run of a script, and the server it starts
Depth  == Range(Plan)
Client == Guests \cup Run \cup {Probe} \* the sweep has one client per run

VARIABLES
    pos,                  \* the run under way
    sh,                   \* the next step of the script, then of the sweep
    script,               \* which of the two scripts it is
    pl,                   \* the depth of the bitstream loaded
    mod,                  \* u-dma-buf: out, in, or in with a buffer short
    log,                  \* the depth in /tmp/ojls_server.log's banner
    sv,                   \* the servers
    backlog,              \* connections the listening socket holds
    conn,                 \* the clients' ends of their connections
    row                   \* the sweep's result of each run

boardVars == <<pl, mod, log>>
vars      == <<pos, sh, script, boardVars, sv, backlog, conn, row>>

At     == {"none", "shell", "open", "latch", "reset", "map", "bind", "test", "accept", "blocked",
           "serve", "encode", "gone"}
Server == [at : At, latch : Depth \cup {NoDepth}, stop : BOOLEAN,
           peer : Client \cup {NoDepth}, hurt : BOOLEAN]
Answer == {"ok", "refused", "failed", "lost"}
Conn   == [at : {"out", "idle", "asked", "killed", "closed"} \cup Answer, depth : Depth \cup {NoDepth}]

NoServer == [at |-> "none", latch |-> NoDepth, stop |-> FALSE, peer |-> NoDepth, hurt |-> FALSE]

Live(s)    == sv[s].at \notin {"none", "gone"}
Listens(s) == sv[s].at \in {"test", "accept", "blocked", "serve", "encode"}
Holds(s)   == Listens(s) \/ sv[s].at = "bind"     \* it has the DMA buffers mapped

MayFail(kind) == kind \in Faults /\ pos \in Faulty

\* The servers when whatever is being encoded is spoilt, by a reset or a new bitstream.
Spoilt == [s \in Run |-> [sv[s] EXCEPT !.hurt = @ \/ sv[s].at = "encode"]]

-----------------------------------------------------------------------------
(* The scripts.                                                            *)

Step(from, to)  == sh = from /\ sh' = to /\ UNCHANGED <<pos, script, row>>
Finish(result)  == pos' = pos + 1 /\ sh' = "kill" /\ row' = [row EXCEPT ![pos] = result]
                   /\ UNCHANGED script
Working         == pos \in Run

\* SIGTERM: before the handler is installed it ends the process; it interrupts an
\* accept that blocks; elsewhere it is only noted.
Signalled(s, installed) ==
    CASE ~Live(s)             -> sv[s]
      [] sv[s].at = "shell" \/ (sv[s].at = "open" /\ ~installed)
                              -> [sv[s] EXCEPT !.at = "gone"]
      [] sv[s].at = "blocked" -> [sv[s] EXCEPT !.at = "test", !.stop = TRUE]
      [] OTHER                -> [sv[s] EXCEPT !.stop = TRUE]

\* pkill -f '[o]jls_server'
Kill ==
    /\ Working /\ sh = "kill" /\ sh' = "settle"
    /\ script' \in {"setup", "reload"}
    /\ \E installed \in BOOLEAN : sv' = [s \in Run |-> Signalled(s, installed)]
    /\ UNCHANGED <<pos, row, boardVars, backlog, conn>>

SettleAtOnce ==
    /\ Step("settle", IF script = "setup" THEN "unload" ELSE "load")
    /\ UNCHANGED <<boardVars, sv, backlog, conn>>

\* sleep 0.3: time for a server that has seen the signal to exit.
Settle ==
    /\ ~\E s \in Run : sv[s].at = "test" /\ sv[s].stop
    /\ Step("settle", IF script = "setup" THEN "unload" ELSE "load")
    /\ UNCHANGED <<boardVars, sv, backlog, conn>>

\* rmmod u-dma-buf || true: refused, silently, while a server holds a buffer.
Unload ==
    /\ Step("unload", "clock")
    /\ mod' = IF \E s \in Run : Holds(s) THEN mod ELSE "out"
    /\ UNCHANGED <<pl, log, sv, backlog, conn>>

\* The clock register is written and read back: by one script before the load, by the
\* other after it.
Clock ==
    /\ \/ Step("clock", IF script = "setup" THEN "load" ELSE "spawn")
       \/ sh = "clock" /\ MayFail("clock") /\ Finish("down")
    /\ UNCHANGED <<boardVars, sv, backlog, conn>>

\* The bitstream; a load that fails leaves none, or the one there was.  Setup then
\* wants the nodes of the boot-time overlay in the device tree.
Load ==
    /\ sh = "load"
    /\ sv' = Spoilt
    /\ \/ pl' = Plan[pos] /\ Step("load", IF script = "setup" THEN "insert" ELSE "clock")
       \/ MayFail("load") /\ pl' \in {NoDepth, pl} /\ Finish("down")
       \/ MayFail("tree") /\ script = "setup" /\ pl' = Plan[pos] /\ Finish("down")
    /\ UNCHANGED <<mod, log, backlog, conn>>

\* insmod fails if the module is still there, and so does the script; and so it does
\* when a buffer was not allocated, which leaves the module in.
Insert ==
    /\ sh = "insert"
    /\ \/ mod # "out" /\ UNCHANGED mod /\ Finish("down")
       \/ mod = "out" /\ mod' = "in" /\ Step("insert", "spawn")
       \/ mod = "out" /\ MayFail("insert") /\ mod' \in {"out", "short"} /\ Finish("down")
    /\ UNCHANGED <<pl, log, sv, backlog, conn>>

Spawn ==
    /\ Step("spawn", "poll")
    /\ sv' = [sv EXCEPT ![pos].at = "shell"]
    /\ UNCHANGED <<boardVars, backlog, conn>>

\* The script looks for the banner for five seconds, and takes it for a server.
Up ==
    /\ Step("poll", "probe") /\ log = Plan[pos]
    /\ UNCHANGED <<boardVars, sv, backlog, conn>>

WaitOn == sh = "poll" /\ log # Plan[pos] /\ UNCHANGED vars

GiveUp ==
    /\ sh = "poll" /\ log # Plan[pos]
    /\ sv[pos].at = "gone" \/ MayFail("late")
    /\ Finish("down")
    /\ UNCHANGED <<boardVars, sv, backlog, conn>>

-----------------------------------------------------------------------------
(* The sweep.                                                              *)

OneMore == (\E s \in Run : Listens(s)) /\ Len(backlog) <= Backlog

CanConnect == (\E s \in Run : Listens(s)) /\ Len(backlog) < Backlog

\* wait_for_port: a connection made and closed.
ProbePort ==
    /\ CanConnect /\ Step("probe", "connect")
    /\ backlog' = Append(backlog, Probe)
    /\ UNCHANGED <<boardVars, sv, conn>>

NoPort ==
    /\ sh = "probe"
    /\ (\A s \in Run : ~Live(s)) \/ MayFail("late")
    /\ Finish("down")
    /\ UNCHANGED <<boardVars, sv, backlog, conn>>

\* The client of encode_one sends its request as soon as it is connected.
Encode ==
    /\ CanConnect /\ Step("connect", "wait")
    /\ backlog' = Append(backlog, pos)
    /\ conn' = [conn EXCEPT ![pos] = [at |-> "asked", depth |-> Plan[pos]]]
    /\ UNCHANGED <<boardVars, sv>>

NoServerThere ==
    /\ sh = "connect" /\ \A s \in Run : ~Listens(s)
    /\ Finish("lost")
    /\ UNCHANGED <<boardVars, sv, backlog, conn>>

\* The answer, or the client killed after its timeout.
Result ==
    /\ sh = "wait"
    /\ \/ /\ conn[pos].at \in Answer /\ Finish(conn[pos].at)
          /\ conn' = [conn EXCEPT ![pos].at = "closed"]
       \/ /\ conn[pos].at = "asked" /\ MayFail("patience") /\ Finish("down")
          /\ conn' = [conn EXCEPT ![pos].at = "killed"]
    /\ UNCHANGED <<boardVars, sv, backlog>>

Script == Kill \/ Settle \/ Unload \/ Clock \/ Load \/ Insert \/ Spawn \/ Up \/ GiveUp
Sweep  == ProbePort \/ NoPort \/ Encode \/ NoServerThere \/ Result

-----------------------------------------------------------------------------
(* Guests: they connect, may ask for an image of any depth, and leave.     *)

GuestConnects(g) ==
    /\ conn[g].at = "out" /\ CanConnect
    /\ conn' = [conn EXCEPT ![g].at = "idle"]
    /\ backlog' = Append(backlog, g)
    /\ UNCHANGED <<pos, sh, script, row, boardVars, sv>>

GuestAsks(g) ==
    /\ conn[g].at = "idle"
    /\ \E d \in Depth : conn' = [conn EXCEPT ![g] = [at |-> "asked", depth |-> d]]
    /\ UNCHANGED <<pos, sh, script, row, boardVars, sv, backlog>>

GuestLeaves(g) ==
    /\ conn[g].at \in {"idle"} \cup Answer
    /\ conn' = [conn EXCEPT ![g].at = "closed"]
    /\ UNCHANGED <<pos, sh, script, row, boardVars, sv, backlog>>

-----------------------------------------------------------------------------
(* A server.                                                               *)

Goto(s, at) == sv' = [sv EXCEPT ![s].at = at]

sweepVars == <<pos, sh, script, row>>

\* Its shell empties the log, before it runs the server.
Shell(s) ==
    /\ sv[s].at = "shell" /\ Goto(s, "open")
    /\ log' = NoDepth
    /\ UNCHANGED <<sweepVars, pl, mod, backlog, conn>>

\* hw_open looks the register bank up among the UIO devices, and maps it.
Open(s) ==
    /\ sv[s].at = "open"
    /\ Goto(s, "latch") \/ (MayFail("open") /\ Goto(s, "gone"))
    /\ UNCHANGED <<sweepVars, boardVars, backlog, conn>>

\* The ID register tells whether a core is there; its depth is read once and for
\* all, and printed.
Latch(s) ==
    /\ sv[s].at = "latch"
    /\ IF pl = NoDepth
       THEN Goto(s, "gone") /\ UNCHANGED log
       ELSE sv' = [sv EXCEPT ![s].at = "reset", ![s].latch = pl] /\ log' = pl
    /\ UNCHANGED <<sweepVars, pl, mod, backlog, conn>>

\* The gate and the DMA are looked up in the same way, and axidma_open resets the
\* engine under whoever is using it; the reset may not complete.
Reset(s) ==
    /\ sv[s].at = "reset"
    /\ \/ MayFail("open") /\ Goto(s, "gone")
       \/ sv' = [Spoilt EXCEPT ![s].at = "map"]
       \/ MayFail("reset") /\ sv' = [Spoilt EXCEPT ![s].at = "gone"]
    /\ UNCHANGED <<sweepVars, boardVars, backlog, conn>>

\* udmabuf_open of the three buffers.
Map(s) ==
    /\ sv[s].at = "map" /\ Goto(s, IF mod = "in" THEN "bind" ELSE "gone")
    /\ UNCHANGED <<sweepVars, boardVars, backlog, conn>>

BindShared(s) ==
    /\ sv[s].at = "bind" /\ Goto(s, "test")
    /\ UNCHANGED <<sweepVars, boardVars, backlog, conn>>

Bind(s) ==
    /\ sv[s].at = "bind"
    /\ Goto(s, IF \E t \in Run : Listens(t) THEN "gone" ELSE "test")
    /\ UNCHANGED <<sweepVars, boardVars, backlog, conn>>

TestNever(s) ==
    /\ sv[s].at = "test" /\ Goto(s, "accept")
    /\ UNCHANGED <<sweepVars, boardVars, backlog, conn>>

\* while (!g_stop); the exit closes the socket, on those that wait for accept too.
Test(s) ==
    /\ sv[s].at = "test"
    /\ IF sv[s].stop
       THEN /\ Goto(s, "gone")
            /\ backlog' = <<>>
            /\ conn' = [c \in Client |-> IF c \in Range(backlog) /\ conn[c].at \in {"idle", "asked"}
                                         THEN [conn[c] EXCEPT !.at = "lost"] ELSE conn[c]]
       ELSE Goto(s, "accept") /\ UNCHANGED <<backlog, conn>>
    /\ UNCHANGED <<sweepVars, boardVars>>

Block(s) ==
    /\ sv[s].at = "accept" /\ backlog = <<>> /\ Goto(s, "blocked")
    /\ UNCHANGED <<sweepVars, boardVars, backlog, conn>>

Accept(s) ==
    /\ sv[s].at \in {"accept", "blocked"} /\ backlog # <<>>
    /\ sv' = [sv EXCEPT ![s].at = "serve", ![s].peer = Head(backlog)]
    /\ backlog' = Tail(backlog)
    /\ UNCHANGED <<sweepVars, boardVars, conn>>

\* The client has closed, or was killed in the middle of its request.
HangUp(s) ==
    /\ sv[s].at = "serve" /\ conn[sv[s].peer].at \in {"closed", "killed"}
    /\ sv' = [sv EXCEPT ![s].at = "test", ![s].peer = NoDepth]
    /\ UNCHANGED <<sweepVars, boardVars, backlog, conn>>

\* An answer, which a client that was killed does not hear.
Told(c, answer) == [conn EXCEPT ![c].at = IF @ = "killed" THEN "closed" ELSE answer]

\* serve_connection holds a request's depth against the one latched.
Judge(s) ==
    LET c == sv[s].peer
    IN  /\ sv[s].at = "serve" /\ conn[c].at \in {"asked", "killed"}
        /\ IF conn[c].depth = sv[s].latch
           THEN sv' = [sv EXCEPT ![s].at = "encode", ![s].hurt = FALSE] /\ UNCHANGED conn
           ELSE conn' = Told(c, "refused") /\ UNCHANGED sv
        /\ UNCHANGED <<sweepVars, boardVars, backlog>>

\* An image spoilt on its way may fail, or be done already, its reply being sent, or not
\* begun: the engine is reset once more before it starts.
Encoded(s) ==
    LET c == sv[s].peer
    IN  /\ sv[s].at = "encode"
        /\ sv' = [sv EXCEPT ![s].at = "serve", ![s].hurt = FALSE]
        /\ \E answer \in {"ok", "failed"} :
              /\ answer = "failed" => sv[s].hurt \/ MayFail("encode")
              /\ conn' = Told(c, answer)
        /\ UNCHANGED <<sweepVars, boardVars, backlog>>

Serve(s) ==
    \/ Shell(s) \/ Open(s) \/ Latch(s) \/ Reset(s) \/ Map(s) \/ Bind(s) \/ Test(s) \/ Block(s)
    \/ Accept(s) \/ HangUp(s) \/ Judge(s) \/ Encoded(s)

-----------------------------------------------------------------------------
\* After a power cycle.
Init ==
    /\ pos = 1 /\ sh = "kill" /\ script = "setup"
    /\ pl = NoDepth /\ mod = "out" /\ log = NoDepth
    /\ sv = [s \in Run |-> NoServer]
    /\ backlog = <<>>
    /\ conn = [c \in Client |-> [at |-> IF c = Probe THEN "closed" ELSE "out", depth |-> NoDepth]]
    /\ row = [r \in Run |-> "none"]

Next ==
    \/ Script \/ Sweep
    \/ \E g \in Guests : GuestConnects(g) \/ GuestAsks(g) \/ GuestLeaves(g)
    \/ \E s \in Run : Serve(s)

Spec == Init /\ [][Next]_vars

\* Processes are scheduled, and no guest keeps its connection for ever.
Fairness ==
    /\ WF_vars(Script \/ Sweep)
    /\ \A s \in Run : WF_vars(Serve(s))
    /\ \A g \in Guests : WF_vars(GuestLeaves(g))

FairSpec == Spec /\ Fairness

-----------------------------------------------------------------------------
(* Properties.                                                             *)

TypeOK ==
    /\ pos \in Run \cup {Len(Plan) + 1}
    /\ sh \in {"kill", "settle", "unload", "clock", "load", "insert", "spawn", "poll", "probe",
               "connect", "wait"}
    /\ script \in {"setup", "reload"}
    /\ pl \in Depth \cup {NoDepth} /\ log \in Depth \cup {NoDepth} /\ mod \in {"out", "in", "short"}
    /\ sv \in [Run -> Server]
    /\ backlog \in Seq(Client) /\ Len(backlog) <= Backlog
    /\ conn \in [Client -> Conn]
    /\ row \in [Run -> {"none", "down"} \cup Answer]

\* The encoder is used by one server at a time: the listening socket, held from
\* before the first accept to after the last client, is all that keeps a new server
\* out while the old one still serves (ojls_server.c:696-725).
OneServes ==
    \A s, t \in Run : sv[s].at \in {"serve", "encode"} /\ sv[t].at \in {"serve", "encode"} => s = t

\* Once the sweep has found the port open, no server of an earlier run stays: not one
\* that was signalled just before it blocked in accept, as the probe itself wakes it
\* (ojls_server.c:703-711, run_hil_sweep.py:142-150).
StaleGone ==
    \A p \in Run : (pos = p /\ sh = "connect") ~> (\A s \in Run : s < p => ~Live(s))

\* A run with no fault that finds the servers idle gets its image, if it sets the board up
\* or the buffers are there: whatever failed before it, and at whichever step, setup mends
\* it, and a reload does unless what failed was setup's loading of u-dma-buf
\* (board_setup.sh:8-11).
CleanReloadWorks ==
    \A p \in Run \ Faulty :
        (/\ pos = p /\ sh = "settle" /\ (mod = "in" \/ script = "setup")
         /\ \A s \in Run : Live(s) => sv[s].stop /\ sv[s].at = "test") ~> (row[p] = "ok")

\* The sweep always comes to an end: no script, probe or client waits for a server
\* that will never come (board_reload.sh:54-64, run_hil_sweep.py:430-431).
SweepEnds == <>(pos > Len(Plan))

\* Software/README.md:66-69: the bitness of an image "must match the bitstream loaded on
\* the board", and "a mismatch is refused cleanly with OJLS_ST_BAD_BITNESS rather than
\* silently producing garbage": no core is given an image of another depth.
MismatchRefused ==
    \A s \in Run : sv[s].at = "encode" /\ ~sv[s].hurt => conn[sv[s].peer].depth = pl
=============================================================================
