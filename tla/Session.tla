------------------------------- MODULE Session -------------------------------
(***************************************************************************)
(* The server's accept loop and serve_connection (ojls_server.c), its      *)
(* clients (ojls_client.c), the TCP connections between them and the       *)
(* signal that stops the server.  What a request does to the hardware is   *)
(* its outcome here; EncodePath tells how it comes about.                  *)
(*                                                                         *)
(* A connection is two bounded queues of units, as socket buffers are: a   *)
(* header is one unit, a payload is `len` of them.  Nothing on the wire    *)
(* marks where a header begins, and the server reads units by count alone. *)
(*                                                                         *)
(* A definition directly above another, which no action uses, is the same  *)
(* code with one plausible slip: the properties must tell the two apart.   *)
(***************************************************************************)
EXTENDS Integers, Sequences, SequencesExt

CONSTANTS
    Client,               \* host processes, one connection each
    Nobody,               \* no client
    MaxReq,               \* bound: requests on one connection
    MaxLen,               \* bound: units of a payload
    Cap,                  \* units that a direction of a connection holds
    Backlog               \* connections that wait to be accepted, beside one more

ASSUME NobodyAssumption == Nobody \notin Client
ASSUME BoundAssumption  == MaxReq \in Nat \ {0} /\ MaxLen \in Nat \ {0}
ASSUME RoomAssumption   == Cap \in Nat \ {0} /\ Backlog \in Nat

VARIABLES
    cl,                   \* each client: its next step, requests made, units left to
                          \* send or read, whether it ever sent a header not ours
    up, down,             \* units on their way to the server, and to the client
    backlog,              \* connections made and not yet accepted
    sv,                   \* the server: next step, client, verdict and units left of a request
    stop,                 \* g_stop
    answers,              \* history: statuses decided for each client's requests
    heard,                \* history: statuses each client was told
    late                  \* history: connections accepted after the signal

vars == <<cl, up, down, backlog, sv, stop, answers, heard, late>>

Status  == {"OK", "HW", "REFUSED", "BAD_MAGIC"}
Verdict == {"OK", "REFUSED", "BAD_MAGIC"}
\* A header the server takes on, refuses, or finds to be of another protocol.
Header  == [len : 0 .. MaxLen, kind : {"ok", "refused", "foreign"}]
Pixels  == [len |-> 0, kind |-> "pixels"]
Data    == [status |-> "DATA", len |-> 0]

Idle(at) == [at |-> at, client |-> Nobody, verdict |-> "OK", left |-> 0, status |-> "OK"]

-----------------------------------------------------------------------------
(* The connection.                                                         *)

Room(q) == Len(q) < Cap

\* The client has closed its end, or was killed.
Gone(c) == cl[c].at \in {"done", "lost", "killed"}

\* The server has closed its end: it has neither accepted c nor will.
Cut(c) == sv.client # c /\ ~Contains(backlog, c)

-----------------------------------------------------------------------------
(* The client: a whole request is written before any of the reply is read.  *)

Client_(c, at, left) == cl' = [cl EXCEPT ![c].at = at, ![c].left = left]

Connect(c) ==
    /\ cl[c].at = "start" /\ sv.at # "exit" /\ Len(backlog) <= Backlog
    /\ backlog' = Append(backlog, c)
    /\ Client_(c, "header", 0)
    /\ UNCHANGED <<up, down, sv, stop, answers, heard, late>>

\* The request may be one the server refuses, an empty one too, or no request of
\* this protocol at all.
SendHeader(c) ==
    /\ cl[c].at = "header" /\ ~Cut(c) /\ cl[c].n < MaxReq /\ Room(up[c])
    /\ \E h \in Header :
          /\ h.kind = "ok" => h.len > 0
          /\ up' = [up EXCEPT ![c] = Append(@, h)]
          /\ cl' = [cl EXCEPT ![c] = [at |-> IF h.len = 0 THEN "await" ELSE "pixels",
                                      n |-> @.n + 1, left |-> h.len,
                                      alien |-> @.alien \/ h.kind = "foreign"]]
    /\ UNCHANGED <<down, backlog, sv, stop, answers, heard, late>>

SendPixels(c) ==
    /\ cl[c].at = "pixels" /\ ~Cut(c) /\ Room(up[c])
    /\ up' = [up EXCEPT ![c] = Append(@, Pixels)]
    /\ Client_(c, IF cl[c].left = 1 THEN "await" ELSE "pixels", cl[c].left - 1)
    /\ UNCHANGED <<down, backlog, sv, stop, answers, heard, late>>

\* After a reply the client goes on (-n COUNT), or closes; ojls_client closes after
\* a refusal, other clients of the protocol need not.
HearReply(c) ==
    /\ cl[c].at = "await" /\ down[c] # <<>>
    /\ heard' = [heard EXCEPT ![c] = Append(@, Head(down[c]).status)]
    /\ LET len == Head(down[c]).len
       IN  \E at \in IF len > 0 THEN {"body"} ELSE {"header", "done"} : Client_(c, at, len)
    /\ down' = [down EXCEPT ![c] = Tail(@)]
    /\ UNCHANGED <<up, backlog, sv, stop, answers, late>>

HearBody(c) ==
    /\ cl[c].at = "body" /\ down[c] # <<>>
    /\ \E at \in IF cl[c].left > 1 THEN {"body"} ELSE {"header", "done"} :
          Client_(c, at, cl[c].left - 1)
    /\ down' = [down EXCEPT ![c] = Tail(@)]
    /\ UNCHANGED <<up, backlog, sv, stop, answers, heard, late>>

\* The client has made its requests, or finds the connection cut, or no server.
Quit(c) ==
    /\ \/ cl[c].at = "header" /\ cl[c].n = MaxReq /\ Client_(c, "done", 0)
       \/ cl[c].at \in {"header", "pixels"} /\ Cut(c) /\ Client_(c, "lost", 0)
       \/ cl[c].at \in {"await", "body"} /\ Cut(c) /\ down[c] = <<>> /\ Client_(c, "lost", 0)
       \/ cl[c].at = "start" /\ sv.at = "exit" /\ Client_(c, "lost", 0)
    /\ UNCHANGED <<up, down, backlog, sv, stop, answers, heard, late>>

\* The client is killed, by the sweep's subprocess timeout or by hand.
Kill(c) ==
    /\ ~Gone(c) /\ Client_(c, "killed", 0)
    /\ UNCHANGED <<up, down, backlog, sv, stop, answers, heard, late>>

ClientStep(c) ==
    \/ Connect(c) \/ SendHeader(c) \/ SendPixels(c) \/ HearReply(c) \/ HearBody(c) \/ Quit(c)

-----------------------------------------------------------------------------
(* The accept loop.                                                        *)

TestNever == sv.at = "test" /\ sv' = [sv EXCEPT !.at = "accept"]
             /\ UNCHANGED <<cl, up, down, backlog, stop, answers, heard, late>>

\* while (!g_stop): past this test and before the wait in accept, a signal is not
\* seen.  A server that ends takes the connections that wait with it.
Test ==
    /\ sv.at = "test"
    /\ sv' = [sv EXCEPT !.at = IF stop THEN "exit" ELSE "accept"]
    /\ backlog' = IF stop THEN <<>> ELSE backlog
    /\ UNCHANGED <<cl, up, down, stop, answers, heard, late>>

Block ==
    /\ sv.at = "accept" /\ sv' = [sv EXCEPT !.at = "blocked"]
    /\ UNCHANGED <<cl, up, down, backlog, stop, answers, heard, late>>

Accept ==
    /\ sv.at = "blocked" /\ backlog # <<>>
    /\ sv' = [Idle("header") EXCEPT !.client = Head(backlog)]
    /\ backlog' = Tail(backlog)
    /\ late' = IF stop THEN late + 1 ELSE late
    /\ UNCHANGED <<cl, up, down, stop, answers, heard>>

\* SIGINT or SIGTERM: accept ends with EINTR, reads and writes are resumed.
Signal ==
    /\ ~stop /\ sv.at # "exit"
    /\ stop' = TRUE
    /\ sv' = IF sv.at = "blocked" THEN Idle("test") ELSE sv
    /\ UNCHANGED <<cl, up, down, backlog, answers, heard, late>>

-----------------------------------------------------------------------------
(* serve_connection.                                                       *)

Ours(h) == h.kind \in {"ok", "refused"}

PayloadNoDrain(h) == IF h.kind = "ok" THEN h.len ELSE 0
PayloadRounded(h) == IF Ours(h) THEN h.len + 1 ELSE 0

\* Units to take in before an answer: a refused payload is drained, all of it.
Payload(h) == IF Ours(h) THEN h.len ELSE 0

VerdictOn(h) == IF ~Ours(h) THEN "BAD_MAGIC" ELSE IF h.kind = "ok" THEN "OK" ELSE "REFUSED"

ReadHeader ==
    LET c == sv.client IN
    /\ sv.at = "header" /\ up[c] # <<>>
    /\ LET h == Head(up[c])
       IN  sv' = [sv EXCEPT !.at = "payload", !.left = Payload(h), !.verdict = VerdictOn(h)]
    /\ up' = [up EXCEPT ![c] = Tail(@)]
    /\ UNCHANGED <<cl, down, backlog, stop, answers, heard, late>>

\* recv_full into the transmit buffer, or drain: it takes what comes.
ReadPixels ==
    LET c == sv.client IN
    /\ sv.at = "payload" /\ sv.left > 0 /\ up[c] # <<>>
    /\ sv' = [sv EXCEPT !.left = @ - 1]
    /\ up' = [up EXCEPT ![c] = Tail(@)]
    /\ UNCHANGED <<cl, down, backlog, stop, answers, heard, late>>

\* The outcome of a request that is not refused: its images, none, or those of a
\* stream that closed.
Outcome ==
    ({"OK"} \X (1 .. MaxLen)) \cup ({"HW"} \X (0 .. MaxLen))

Decide ==
    LET c == sv.client IN
    /\ sv.at = "payload" /\ sv.left = 0
    /\ \E o \in IF sv.verdict = "OK" THEN Outcome ELSE {<<sv.verdict, 0>>} :
          /\ answers' = [answers EXCEPT ![c] = Append(@, o[1])]
          /\ sv' = [sv EXCEPT !.at = "reply", !.status = o[1], !.left = o[2]]
    /\ UNCHANGED <<cl, up, down, backlog, stop, heard, late>>

\* What is written to a client that is gone goes nowhere.
Written(c, unit) ==
    \/ Gone(c) /\ UNCHANGED down
    \/ ~Gone(c) /\ Room(down[c]) /\ down' = [down EXCEPT ![c] = Append(@, unit)]

\* The connection ends; data not read makes TCP drop what the client has not read.
Closed(c) ==
    /\ sv' = Idle("test")
    /\ up' = [up EXCEPT ![c] = <<>>]
    /\ down' \in {down} \cup (IF up[c] # <<>> THEN {[down EXCEPT ![c] = <<>>]} ELSE {})

SendReply ==
    LET c == sv.client IN
    /\ sv.at = "reply"
    /\ Written(c, [status |-> sv.status, len |-> sv.left])
    /\ sv' = [sv EXCEPT !.at = IF sv.left > 0 THEN "body"
                               ELSE IF sv.status = "BAD_MAGIC" THEN "close" ELSE "header"]
    /\ UNCHANGED <<cl, up, backlog, stop, answers, heard, late>>

SendBodyThenError ==
    LET c == sv.client IN
    /\ sv.at = "body"
    /\ Written(c, Data)
    /\ sv' = [sv EXCEPT !.at = IF sv.left > 1 THEN "body"
                               ELSE IF sv.status = "HW" THEN "reply" ELSE "header",
                       !.left = @ - 1]
    /\ UNCHANGED <<cl, up, backlog, stop, answers, heard, late>>

SendBodyOneMore ==
    LET c == sv.client IN
    /\ sv.at = "body"
    /\ Written(c, Data)
    /\ sv' = [sv EXCEPT !.at = IF sv.left = 0 THEN "header" ELSE "body", !.left = @ - 1]
    /\ UNCHANGED <<cl, up, backlog, stop, answers, heard, late>>

\* The payload; a stream whose images were sent is not answered once more.
SendBody ==
    LET c == sv.client IN
    /\ sv.at = "body"
    /\ Written(c, Data)
    /\ sv' = [sv EXCEPT !.at = IF sv.left = 1 THEN "header" ELSE "body", !.left = @ - 1]
    /\ UNCHANGED <<cl, up, backlog, stop, answers, heard, late>>

\* The end of the connection is read, or a read or write on it fails; a magic
\* number that is not ours ends it from this side, once it was answered.
CloseOnSignal ==
    /\ sv.at \in {"header", "payload", "reply", "body"} /\ (Gone(sv.client) \/ stop)
    /\ Closed(sv.client)
    /\ UNCHANGED <<cl, backlog, stop, answers, heard, late>>

Close ==
    /\ \/ sv.at \in {"header", "payload", "reply", "body"} /\ Gone(sv.client)
       \/ sv.at = "close"
    /\ Closed(sv.client)
    /\ UNCHANGED <<cl, backlog, stop, answers, heard, late>>

Server ==
    \/ Test \/ Block \/ Accept
    \/ ReadHeader \/ ReadPixels \/ Decide \/ SendReply \/ SendBody \/ Close

Init ==
    /\ cl = [c \in Client |-> [at |-> "start", n |-> 0, left |-> 0, alien |-> FALSE]]
    /\ up = [c \in Client |-> <<>>] /\ down = [c \in Client |-> <<>>]
    /\ backlog = <<>>
    /\ sv = Idle("test") /\ stop = FALSE
    /\ answers = [c \in Client |-> <<>>] /\ heard = [c \in Client |-> <<>>]
    /\ late = 0

Next == Server \/ Signal \/ \E c \in Client : ClientStep(c) \/ Kill(c)

Spec == Init /\ [][Next]_vars

\* Every process runs; a client neither stalls with its connection open nor is
\* owed a kill.
FairSpec == Spec /\ WF_vars(Server) /\ \A c \in Client : WF_vars(ClientStep(c))

-----------------------------------------------------------------------------
(* Properties.                                                             *)

\* Queues keep to their capacity and the counts to what they count.
TypeOK ==
    /\ cl \in [Client -> [at : {"start", "header", "pixels", "await", "body",
                                "done", "lost", "killed"},
                          n : 0 .. MaxReq, left : 0 .. MaxLen, alien : BOOLEAN]]
    /\ up \in [Client -> Seq(Header \cup {Pixels})]
    /\ down \in [Client -> Seq([status : Status \cup {"DATA"}, len : 0 .. MaxLen])]
    /\ \A c \in Client : Len(up[c]) <= Cap /\ Len(down[c]) <= Cap
    /\ backlog \in Seq(Client) /\ Len(backlog) <= Backlog + 1
    /\ sv \in [at : {"test", "accept", "blocked", "header", "payload", "reply", "body",
                     "close", "exit"},
               client : Client \cup {Nobody}, verdict : Verdict, left : 0 .. MaxLen,
               status : Status]
    /\ stop \in BOOLEAN /\ late \in Nat
    /\ answers \in [Client -> Seq(Status)] /\ heard \in [Client -> Seq(Status \cup {"DATA"})]

\* Each client is told what was decided for each of its requests, in order, once,
\* and one client at a time is served (ojls_server.c:504-617, 703-721): no reply
\* or payload of one request is ever taken for another's.
Promise == INSTANCE Service WITH served <- sv.client, asked <- [c \in Client |-> cl[c].n]
IsService == Promise!Spec

\* "Discard len payload bytes so the request stream stays in sync after a rejected
\* header" (ojls_server.c:126-127): the server reads a header only where the
\* client wrote one.
InSync == sv.at = "header" /\ up[sv.client] # <<>> => Head(up[sv.client]) # Pixels

\* A client that speaks the protocol loses its connection only to a server told to
\* stop before it accepted it: one being served is served to its end, signal or
\* not, and whatever was refused or failed before.  One that sent a header of another
\* protocol is cut off, as ErrorKeepsConnection shows.
LostUnserved ==
    \A c \in Client :
        cl[c].at = "lost" => (stop /\ answers[c] = <<>>) \/ cl[c].alien

\* Software/README.md:93-98: errors "come back as a header" with a status, of which
\* OJLS_ST_BAD_MAGIC is the first, and "the connection stays open": a client that was
\* answered does not find its connection cut.
ErrorKeepsConnection ==
    \A c \in Client : answers[c] # <<>> => cl[c].at # "lost"

\* After the signal at most one more connection is accepted: the one that was not
\* seen between the test of g_stop and the wait.
AtMostOneMore == late <= 1

\* No client waits for ever: not behind another, nor the server on it while it
\* waits for the server, however small the socket buffers.
Served == \A c \in Client : cl[c].at = "header" ~> Gone(c)
=============================================================================
