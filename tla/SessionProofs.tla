---------------------------- MODULE SessionProofs ----------------------------
(***************************************************************************)
(* The server's session with its clients, proved for every number of       *)
(* clients and requests, length of a payload, capacity of the sockets and  *)
(* backlog: the byte stream stays in step with its framing, replies go     *)
(* where they belong, and what a signal does to a session.                 *)
(***************************************************************************)
EXTENDS Session, TLAPS

(* Sequences.                                                              *)

LEMMA AppendSeq ==
    ASSUME NEW S, NEW s \in Seq(S), NEW x \in S
    PROVE  /\ Append(s, x) \in Seq(S) /\ Len(s) \in Nat /\ Len(Append(s, x)) = Len(s) + 1
           /\ Append(s, x) # <<>> /\ Append(s, x)[Len(s) + 1] = x
           /\ \A i \in 1 .. Len(s) : Append(s, x)[i] = s[i]
  OBVIOUS

LEMMA TailSeq ==
    ASSUME NEW S, NEW s \in Seq(S), s # <<>>
    PROVE  /\ Len(s) \in Nat \ {0} /\ Head(s) = s[1] /\ Head(s) \in S
           /\ Tail(s) \in Seq(S) /\ Len(Tail(s)) = Len(s) - 1
           /\ \A i \in 1 .. Len(s) - 1 : Tail(s)[i] = s[i + 1]
  OBVIOUS

LEMMA EmptySeq ==
    /\ Len(<<>>) = 0
    /\ \A S : <<>> \in Seq(S) /\ \A s \in Seq(S) : Len(s) \in Nat /\ (s = <<>> <=> Len(s) = 0)
  OBVIOUS

-----------------------------------------------------------------------------
(* The inductive invariant.                                                *)

Asked(c)    == cl[c].n
Answered(c) == Len(answers[c])

\* Pixels that a request written so far still lacks, and data that a reply does.
Sending(c) == IF cl[c].at = "pixels" THEN cl[c].left ELSE 0
Pending(c) == IF sv.client = c /\ sv.at = "body" THEN sv.left ELSE 0

\* c is where its next unit is read as a header, now or once it is accepted.
Waits(c) == Contains(backlog, c) \/ (sv.client = c /\ sv.at = "header")

ServerKept ==
    /\ sv.client # Nobody <=> sv.at \in {"header", "payload", "reply", "body", "close"}
    /\ sv.at = "exit" => stop
    /\ sv.at = "body" => sv.left > 0
    /\ sv.at = "close" => sv.verdict = "BAD_MAGIC"
    /\ sv.verdict = "BAD_MAGIC" => /\ sv.at \in {"payload", "reply", "close"}
                                   /\ sv.at # "close" => sv.left = 0
    /\ sv.at = "reply" => (sv.status = "BAD_MAGIC" <=> sv.verdict = "BAD_MAGIC")
    /\ \A i, j \in 1 .. Len(backlog) : backlog[i] = backlog[j] => i = j

\* After the signal the loop's test lets no further connection through.
LateKept ==
    /\ late \in {0, 1}
    /\ late = 1 => stop /\ sv.at \notin {"accept", "blocked"}

\* Where a client is in the life of its one connection.
Placed(c) ==
    /\ cl[c].at \in {"pixels", "body"} => cl[c].left > 0
    /\ cl[c].at = "start" => /\ Cut(c) /\ up[c] = <<>> /\ down[c] = <<>>
                             /\ cl[c].n = 0 /\ answers[c] = <<>> /\ heard[c] = <<>>
    /\ Contains(backlog, c) => /\ sv.client # c /\ down[c] = <<>>
                               /\ answers[c] = <<>> /\ heard[c] = <<>>
    /\ cl[c].at = "lost" => Cut(c)
    /\ cl[c].at \notin {"start", "done", "killed"} /\ Cut(c) =>
          (stop /\ answers[c] = <<>>) \/ cl[c].alien

\* What is on its way to the server is what remains of one request.
Request(c) ==
    /\ \A i \in 1 .. Len(up[c]) : up[c][i] = Pixels <=> i # 1
    /\ up[c] # <<>> => /\ Answered(c) < Asked(c)
                       /\ Len(up[c]) - 1 <= up[c][1].len
                       /\ up[c][1].kind = "foreign" => cl[c].alien
    /\ ~Gone(c) => IF up[c] = <<>> THEN cl[c].at # "pixels"
                   ELSE /\ cl[c].at \in {"pixels", "await"}
                        /\ Len(up[c]) - 1 + Sending(c) = up[c][1].len

Payloads(c) ==
    /\ \A i \in 1 .. Len(up[c]) : up[c][i] = Pixels
    /\ Len(up[c]) <= sv.left
    /\ ~Gone(c) => Len(up[c]) + Sending(c) = sv.left

Framed(c) ==
    /\ Waits(c) => Request(c)
    /\ sv.client = c /\ sv.verdict = "BAD_MAGIC" => cl[c].alien
    /\ sv.client = c /\ sv.at = "payload" =>
          /\ Answered(c) < Asked(c)
          /\ ~Gone(c) => cl[c].at \in {"pixels", "await"}
          /\ sv.verdict # "BAD_MAGIC" => Payloads(c)
    /\ sv.client = c /\ sv.at \in {"reply", "body"} /\ sv.verdict # "BAD_MAGIC" =>
          up[c] = <<>> /\ cl[c].at # "pixels"

\* What is on its way to a client is what remains of the reply to its last request.
AllData(c, from) == \A i \in from .. Len(down[c]) : down[c][i] = Data

InReply(c) == sv.client = c /\ sv.at \in {"header", "body"}

Told(c) ==
    /\ cl[c].at = "header" =>
          Len(heard[c]) = Asked(c) /\ Answered(c) = Asked(c) /\ down[c] = <<>>
    /\ cl[c].at \in {"pixels", "await"} =>
          /\ Asked(c) = Len(heard[c]) + 1
          /\ Answered(c) \in {Len(heard[c]), Asked(c)}
          /\ down[c] # <<>> => /\ Answered(c) = Asked(c)
                               /\ down[c][1].status = answers[c][Asked(c)]
                               /\ AllData(c, 2)
                               /\ down[c][1].len = Len(down[c]) - 1 + Pending(c)
                               /\ down[c][1].len > 0 => InReply(c)
    /\ cl[c].at = "body" =>
          /\ Len(heard[c]) = Asked(c) /\ Answered(c) = Asked(c)
          /\ AllData(c, 1)
          /\ cl[c].left = Len(down[c]) + Pending(c)
          /\ InReply(c)
    /\ ~Gone(c) /\ sv.client = c /\ sv.at = "reply" =>
          /\ cl[c].at \in {"pixels", "await"}
          /\ down[c] = <<>>
          /\ Answered(c) = Asked(c) /\ sv.status = answers[c][Asked(c)]
    /\ ~Gone(c) /\ sv.client = c /\ sv.at = "body" =>
          /\ cl[c].at \in {"await", "body"}
          /\ cl[c].at = "await" => down[c] # <<>>

Kept(c) == Placed(c) /\ Framed(c) /\ Told(c)

SInv == TypeOK /\ ServerKept /\ LateKept /\ \A c \in Client : Kept(c)

-----------------------------------------------------------------------------
(* Types.                                                                  *)

At == {"start", "header", "pixels", "await", "body", "done", "lost", "killed"}

Unit  == Header \cup {Pixels}
Reply == [status : Status \cup {"DATA"}, len : 0 .. MaxLen]
Host  == [at : At, n : 0 .. MaxReq, left : 0 .. MaxLen, alien : BOOLEAN]

LEMMA Bounds == MaxReq \in Nat /\ MaxLen \in Nat /\ Cap \in Nat /\ Backlog \in Nat
                /\ MaxReq # 0 /\ MaxLen # 0 /\ Cap # 0
  BY BoundAssumption, RoomAssumption

LEMMA Typed ==
    ASSUME TypeOK, NEW c \in Client
    PROVE  /\ cl \in [Client -> Host] /\ up \in [Client -> Seq(Unit)] /\ down \in [Client -> Seq(Reply)]
           /\ cl[c] \in Host /\ up[c] \in Seq(Unit) /\ down[c] \in Seq(Reply)
           /\ answers[c] \in Seq(Status) /\ heard[c] \in Seq(Status \cup {"DATA"})
           /\ Len(up[c]) \in Nat /\ Len(down[c]) \in Nat /\ Len(answers[c]) \in Nat /\ Len(heard[c]) \in Nat
           /\ Len(up[c]) <= Cap /\ Len(down[c]) <= Cap
           /\ cl[c].at \in At /\ cl[c].n \in 0 .. MaxReq /\ cl[c].left \in 0 .. MaxLen
           /\ cl[c].alien \in BOOLEAN
<1>1. cl \in [Client -> Host] /\ up \in [Client -> Seq(Unit)] /\ down \in [Client -> Seq(Reply)]
  BY DEF TypeOK, Host, At, Unit, Reply
<1>2. answers \in [Client -> Seq(Status)] /\ heard \in [Client -> Seq(Status \cup {"DATA"})]
  BY DEF TypeOK
<1>3. cl[c] \in Host /\ up[c] \in Seq(Unit) /\ down[c] \in Seq(Reply)
      /\ answers[c] \in Seq(Status) /\ heard[c] \in Seq(Status \cup {"DATA"})
  BY <1>1, <1>2
<1>4. Len(up[c]) <= Cap /\ Len(down[c]) <= Cap
  BY DEF TypeOK
<1>5. /\ cl[c].at \in At /\ cl[c].n \in 0 .. MaxReq /\ cl[c].left \in 0 .. MaxLen
      /\ cl[c].alien \in BOOLEAN
  BY <1>3 DEF Host
<1> QED
  BY <1>1, <1>3, <1>4, <1>5, EmptySeq

LEMMA ServerTyped ==
    ASSUME TypeOK
    PROVE  /\ sv.client \in Client \cup {Nobody} /\ sv.verdict \in Verdict /\ sv.left \in 0 .. MaxLen
           /\ sv.status \in Status /\ stop \in BOOLEAN /\ late \in Nat
           /\ backlog \in Seq(Client) /\ Len(backlog) \in Nat /\ Len(backlog) <= Backlog + 1
           /\ sv.at \in {"test", "accept", "blocked", "header", "payload", "reply", "body",
                         "close", "exit"}
           /\ sv = [at |-> sv.at, client |-> sv.client, verdict |-> sv.verdict, left |-> sv.left,
                    status |-> sv.status]
  BY EmptySeq DEF TypeOK

\* A client moves on, and nothing else about it changes.
LEMMA Moves ==
    ASSUME TypeOK, NEW c \in Client, NEW at \in At, NEW left \in 0 .. MaxLen, Client_(c, at, left)
    PROVE  /\ cl' \in [Client -> Host]
           /\ cl'[c].at = at /\ cl'[c].left = left /\ cl'[c].n = cl[c].n /\ cl'[c].alien = cl[c].alien
           /\ \A d \in Client : d # c => cl'[d] = cl[d]
<1>1. cl \in [Client -> Host] /\ cl[c] \in Host
  BY Typed
<1>2. cl' = [cl EXCEPT ![c] = [cl[c] EXCEPT !.at = at, !.left = left]]
  <2>1. [cl EXCEPT ![c].at = at, ![c].left = left] = [cl EXCEPT ![c] = [cl[c] EXCEPT !.at = at, !.left = left]]
    BY <1>1
  <2> QED
    BY <2>1 DEF Client_
<1>3. /\ [cl[c] EXCEPT !.at = at, !.left = left] \in Host
      /\ [cl[c] EXCEPT !.at = at, !.left = left].at = at
      /\ [cl[c] EXCEPT !.at = at, !.left = left].left = left
      /\ [cl[c] EXCEPT !.at = at, !.left = left].n = cl[c].n
      /\ [cl[c] EXCEPT !.at = at, !.left = left].alien = cl[c].alien
  BY <1>1 DEF Host
<1> QED
  BY <1>1, <1>2, <1>3

LEMMA Updated ==
    ASSUME NEW S, NEW f \in [Client -> S], NEW c \in Client, NEW v \in S
    PROVE  /\ [f EXCEPT ![c] = v] \in [Client -> S] /\ [f EXCEPT ![c] = v][c] = v
           /\ \A d \in Client : d # c => [f EXCEPT ![c] = v][d] = f[d]
  OBVIOUS

-----------------------------------------------------------------------------
(* A step touches one connection.                                          *)

OthersKeep(c) ==
    \A d \in Client \ {c} : /\ cl'[d] = cl[d] /\ up'[d] = up[d] /\ down'[d] = down[d]
                            /\ answers'[d] = answers[d] /\ heard'[d] = heard[d]

LEMMA Elsewhere ==
    ASSUME NEW d \in Client, Kept(d),
           cl'[d] = cl[d], up'[d] = up[d], down'[d] = down[d],
           answers'[d] = answers[d], heard'[d] = heard[d],
           Contains(backlog', d) <=> Contains(backlog, d),
           sv' = sv \/ (sv.client # d /\ sv'.client # d),
           stop => stop'
    PROVE  Kept(d)'
<1>1. (Cut(d)' <=> Cut(d)) /\ (Gone(d)' <=> Gone(d)) /\ (Waits(d)' <=> Waits(d))
  BY DEF Cut, Gone, Waits
<1>2. Pending(d)' = Pending(d) /\ Sending(d)' = Sending(d) /\ (InReply(d)' <=> InReply(d))
      /\ Asked(d)' = Asked(d) /\ Answered(d)' = Answered(d)
  BY DEF Pending, Sending, InReply, Asked, Answered
<1>3. Placed(d)'
  BY <1>1 DEF Kept, Placed
<1>4. Request(d)' <=> Request(d)
  BY <1>1, <1>2 DEF Request
<1>5. Framed(d)'
  <2>1. CASE sv' = sv
    <3>1. Payloads(d)' <=> Payloads(d)
      BY <1>1, <1>2, <2>1 DEF Payloads
    <3> QED
      BY <1>1, <1>2, <1>4, <2>1, <3>1 DEF Kept, Framed
  <2>2. CASE sv.client # d /\ sv'.client # d
    BY <1>1, <1>2, <1>4, <2>2 DEF Kept, Framed
  <2> QED
    BY <2>1, <2>2
<1>6. Told(d)'
  <2>1. (AllData(d, 1)' <=> AllData(d, 1)) /\ (AllData(d, 2)' <=> AllData(d, 2))
    BY DEF AllData
  <2>2. CASE sv' = sv
    BY <1>1, <1>2, <2>1, <2>2 DEF Kept, Told
  <2>3. CASE sv.client # d /\ sv'.client # d
    BY <1>1, <1>2, <2>1, <2>3 DEF Kept, Told
  <2> QED
    BY <2>2, <2>3
<1> QED
  BY <1>3, <1>5, <1>6 DEF Kept

\* The step of a client, or of the server for its client, that leaves the backlog alone.
LEMMA OneConnection ==
    ASSUME SInv, NEW c \in Client, OthersKeep(c), backlog' = backlog, stop => stop',
           sv' = sv \/ (sv.client \in {c, Nobody} /\ sv'.client \in {c, Nobody}), Kept(c)'
    PROVE  \A d \in Client : Kept(d)'
<1> SUFFICES ASSUME NEW d \in Client \ {c} PROVE Kept(d)'
  OBVIOUS
<1>1. Kept(d) /\ d # Nobody /\ d # c
  BY NobodyAssumption DEF SInv
<1> QED
  BY <1>1, Elsewhere DEF OthersKeep

-----------------------------------------------------------------------------
(* The steps of a client.                                                  *)

LEMMA ClientFrame ==
    ASSUME SInv, NEW c \in Client, OthersKeep(c), UNCHANGED <<backlog, sv, stop, late>>,
           TypeOK', Kept(c)'
    PROVE  SInv'
<1>1. \A d \in Client : Kept(d)'
  BY OneConnection
<1>2. ServerKept' /\ LateKept'
  BY DEF SInv, ServerKept, LateKept
<1> QED
  BY <1>1, <1>2 DEF SInv

\* A client that moves, at most, keeps the types.
LEMMA MoveTyped ==
    ASSUME TypeOK, cl' \in [Client -> Host], UNCHANGED <<up, down, backlog, sv, stop, answers, heard, late>>
    PROVE  TypeOK'
  BY DEF TypeOK, Host, At

LEMMA KillKeeps == ASSUME SInv, NEW c \in Client, Kill(c) PROVE SInv'
<1>1. /\ cl' \in [Client -> Host] /\ cl'[c].at = "killed"
      /\ cl'[c].n = cl[c].n /\ cl'[c].alien = cl[c].alien
      /\ \A d \in Client : d # c => cl'[d] = cl[d]
      /\ UNCHANGED <<up, down, backlog, sv, stop, answers, heard, late>>
  BY Moves, Bounds DEF Kill, SInv, At
<1>2. TypeOK'
  BY <1>1, MoveTyped DEF SInv
<1>3. Kept(c) /\ ~Gone(c) /\ Gone(c)'
  BY <1>1 DEF SInv, Kill, Gone
<1>4. /\ Contains(backlog, c)' <=> Contains(backlog, c)
      /\ (Waits(c)' <=> Waits(c)) /\ Asked(c)' = Asked(c) /\ Answered(c)' = Answered(c)
  BY <1>1 DEF Waits, Asked, Answered
<1>5. Placed(c)'
  BY <1>1, <1>3, <1>4 DEF Kept, Placed
<1>6. Framed(c)'
  BY <1>1, <1>3, <1>4 DEF Kept, Framed, Request, Payloads
<1>7. Told(c)'
  BY <1>1, <1>3, <1>4 DEF Kept, Told
<1> QED
  BY <1>1, <1>2, <1>5, <1>6, <1>7, ClientFrame DEF OthersKeep, Kept

\* A client that has made its requests, or whose connection is cut, ends.
LEMMA QuitKeeps == ASSUME SInv, NEW c \in Client, Quit(c) PROVE SInv'
<1>1. PICK at \in {"done", "lost"} :
          /\ Client_(c, at, 0)
          /\ at = "lost" => Cut(c) /\ ((stop /\ answers[c] = <<>>) \/ cl[c].alien)
          /\ cl[c].at \in {"start", "header", "pixels", "await", "body"}
  <2>1. Kept(c) /\ ServerKept
    BY DEF SInv
  <2>2. CASE cl[c].at = "start" /\ sv.at = "exit" /\ Client_(c, "lost", 0)
    BY <2>1, <2>2 DEF Kept, Placed, ServerKept
  <2>3. CASE cl[c].at \in {"header", "pixels", "await", "body"} /\ Cut(c) /\ Client_(c, "lost", 0)
    BY <2>1, <2>3 DEF Kept, Placed
  <2>4. CASE cl[c].at = "header" /\ Client_(c, "done", 0)
    BY <2>4
  <2> QED
    BY <2>2, <2>3, <2>4 DEF Quit
<1>2. /\ cl' \in [Client -> Host] /\ cl'[c].at = at
      /\ cl'[c].n = cl[c].n /\ cl'[c].alien = cl[c].alien
      /\ \A d \in Client : d # c => cl'[d] = cl[d]
      /\ UNCHANGED <<up, down, backlog, sv, stop, answers, heard, late>>
  BY <1>1, Moves, Bounds DEF Quit, SInv, At
<1>3. TypeOK'
  BY <1>2, MoveTyped DEF SInv
<1>4. Kept(c) /\ ~Gone(c) /\ Gone(c)'
  BY <1>1, <1>2 DEF SInv, Gone
<1>5. /\ Contains(backlog, c)' <=> Contains(backlog, c)
      /\ (Waits(c)' <=> Waits(c)) /\ Asked(c)' = Asked(c) /\ Answered(c)' = Answered(c)
      /\ (Cut(c)' <=> Cut(c))
  BY <1>2 DEF Waits, Asked, Answered, Cut
<1>6. Placed(c)'
  BY <1>1, <1>2, <1>4, <1>5 DEF Kept, Placed
<1>7. Framed(c)'
  BY <1>2, <1>4, <1>5 DEF Kept, Framed, Request, Payloads
<1>8. Told(c)'
  BY <1>1, <1>2, <1>4, <1>5 DEF Kept, Told
<1> QED
  BY <1>2, <1>3, <1>6, <1>7, <1>8, ClientFrame DEF OthersKeep, Kept

\* A connection is made once, while none waits or is served for the client.
LEMMA ConnectKeeps == ASSUME SInv, NEW c \in Client, Connect(c) PROVE SInv'
<1>1. /\ cl' \in [Client -> Host] /\ cl'[c].at = "header"
      /\ cl'[c].n = cl[c].n /\ cl'[c].alien = cl[c].alien
      /\ \A d \in Client : d # c => cl'[d] = cl[d]
      /\ UNCHANGED <<up, down, sv, stop, answers, heard, late>>
  BY Moves, Bounds DEF Connect, SInv, At
<1>2. /\ backlog \in Seq(Client) /\ Len(backlog) \in Nat
      /\ backlog' \in Seq(Client) /\ Len(backlog') = Len(backlog) + 1
      /\ backlog'[Len(backlog) + 1] = c /\ \A i \in 1 .. Len(backlog) : backlog'[i] = backlog[i]
  BY AppendSeq, ServerTyped DEF SInv, Connect
<1>3. TypeOK'
  <2>1. Len(backlog') <= Backlog + 1
    BY <1>2, Bounds DEF Connect
  <2> QED
    BY <1>1, <1>2, <2>1 DEF SInv, TypeOK, Host, At
<1>4. /\ Kept(c) /\ cl[c].at = "start" /\ Cut(c) /\ up[c] = <<>> /\ down[c] = <<>>
      /\ cl[c].n = 0 /\ answers[c] = <<>> /\ heard[c] = <<>>
  BY DEF SInv, Connect, Kept, Placed
<1>5. sv.client # c /\ ~Contains(backlog, c)
  BY <1>4 DEF Cut
<1>6. ASSUME NEW d \in Client PROVE Contains(backlog, d)' <=> Contains(backlog, d) \/ d = c
  BY <1>2 DEF Contains
<1>7. Kept(c)'
  <2>1. ~Gone(c)' /\ ~Cut(c)' /\ Waits(c)' /\ Asked(c)' = 0 /\ Answered(c)' = 0 /\ Len(heard'[c]) = 0
        /\ Len(up'[c]) = 0
    BY <1>1, <1>4, <1>5, <1>6, EmptySeq DEF Gone, Cut, Waits, Asked, Answered
  <2>2. Placed(c)'
    BY <1>1, <1>4, <1>5, <1>6, <2>1 DEF Placed
  <2>3. Request(c)'
    BY <1>1, <1>4, <2>1 DEF Request
  <2>4. Framed(c)'
    BY <1>1, <1>5, <2>1, <2>3 DEF Framed
  <2>5. Told(c)'
    BY <1>1, <1>4, <1>5, <2>1 DEF Told
  <2> QED
    BY <2>2, <2>4, <2>5 DEF Kept
<1>8. ASSUME NEW d \in Client, d # c PROVE Kept(d)'
  BY <1>1, <1>6, <1>8, Elsewhere DEF SInv
<1>9. ServerKept'
  <2>1. ASSUME NEW i \in 1 .. Len(backlog'), NEW j \in 1 .. Len(backlog'), backlog'[i] = backlog'[j]
        PROVE  i = j
    <3>1. \A k \in 1 .. Len(backlog) : backlog[k] # c
      BY <1>5 DEF Contains
    <3>2. \A k, l \in 1 .. Len(backlog) : backlog[k] = backlog[l] => k = l
      BY DEF SInv, ServerKept
    <3>3. CASE i = Len(backlog) + 1 \/ j = Len(backlog) + 1
      BY <1>2, <2>1, <3>1, <3>3
    <3>4. CASE i \in 1 .. Len(backlog) /\ j \in 1 .. Len(backlog)
      BY <1>2, <2>1, <3>2, <3>4
    <3> QED
      BY <1>2, <3>3, <3>4
  <2> QED
    BY <1>1, <2>1 DEF SInv, ServerKept
<1>10. LateKept'
  BY <1>1 DEF SInv, LateKept
<1> QED
  BY <1>3, <1>7, <1>8, <1>9, <1>10 DEF SInv

\* A connected client that writes is waited for, or is past a header of another
\* protocol.
LEMMA SendHeaderKeeps == ASSUME SInv, NEW c \in Client, SendHeader(c) PROVE SInv'
<1>1. PICK h \in Header :
          /\ h.kind = "ok" => h.len > 0
          /\ up' = [up EXCEPT ![c] = Append(@, h)]
          /\ cl' = [cl EXCEPT ![c] = [at |-> IF h.len = 0 THEN "await" ELSE "pixels",
                                      n |-> @.n + 1, left |-> h.len,
                                      alien |-> @.alien \/ h.kind = "foreign"]]
  BY DEF SendHeader
<1>2. /\ TypeOK /\ Kept(c) /\ ServerKept /\ cl[c].at = "header" /\ ~Cut(c) /\ Len(up[c]) < Cap /\ cl[c].n < MaxReq
      /\ UNCHANGED <<down, backlog, sv, stop, answers, heard, late>>
  BY DEF SInv, SendHeader, Room
<1>3. /\ Len(heard[c]) = Asked(c) /\ Answered(c) = Asked(c) /\ down[c] = <<>> /\ ~Gone(c)
  BY <1>2 DEF Kept, Told, Gone
<1>4. h.len \in 0 .. MaxLen /\ h \in Unit /\ h # Pixels /\ h.kind \in {"ok", "refused", "foreign"}
  BY <1>1 DEF Header, Unit, Pixels
<1>5. /\ cl' \in [Client -> Host] /\ cl'[c].at = IF h.len = 0 THEN "await" ELSE "pixels"
      /\ cl'[c].n = cl[c].n + 1 /\ cl'[c].left = h.len
      /\ cl'[c].alien = (cl[c].alien \/ h.kind = "foreign")
      /\ \A d \in Client : d # c => cl'[d] = cl[d]
  <2> DEFINE next == [at |-> IF h.len = 0 THEN "await" ELSE "pixels", n |-> cl[c].n + 1,
                      left |-> h.len, alien |-> cl[c].alien \/ h.kind = "foreign"]
  <2>1. next \in Host
    <3>1. cl[c].alien \in BOOLEAN /\ cl[c].n \in 0 .. MaxReq
      BY <1>2, Typed
    <3>2. cl[c].n + 1 \in 0 .. MaxReq /\ (cl[c].alien \/ h.kind = "foreign") \in BOOLEAN
      BY <1>2, <3>1, Bounds
    <3> QED
      BY <1>4, <3>2 DEF Host, At
  <2>2. cl' = [cl EXCEPT ![c] = next]
    BY <1>1
  <2>3. /\ next.at = IF h.len = 0 THEN "await" ELSE "pixels"
        /\ next.n = cl[c].n + 1 /\ next.left = h.len
        /\ next.alien = (cl[c].alien \/ h.kind = "foreign")
    BY Zenon
  <2> HIDE DEF next
  <2> QED
    BY <1>2, <2>1, <2>2, <2>3, Typed, Updated
<1>6. /\ up' \in [Client -> Seq(Unit)] /\ up'[c] = Append(up[c], h)
      /\ \A d \in Client : d # c => up'[d] = up[d]
  <2>1. Append(up[c], h) \in Seq(Unit)
    BY <1>2, <1>4, Typed, AppendSeq
  <2> QED
    BY <1>1, <1>2, <2>1, Typed, Updated
<1>7. Len(up'[c]) = Len(up[c]) + 1
  BY <1>2, <1>4, <1>6, Typed, AppendSeq
<1>8. TypeOK'
  <2>1. ASSUME NEW d \in Client PROVE Len(up'[d]) <= Cap /\ Len(down'[d]) <= Cap
    <3>1. Len(up[d]) <= Cap /\ Len(down[d]) <= Cap /\ Len(up[c]) \in Nat
      BY <1>2, Typed
    <3> QED
      BY <1>2, <1>6, <1>7, <3>1, Bounds
  <2> QED
    BY <1>2, <1>5, <1>6, <2>1 DEF TypeOK, Host, At, Unit
<1>9. ~Gone(c)' /\ (Cut(c)' <=> Cut(c)) /\ (Waits(c)' <=> Waits(c)) /\ Contains(backlog', c) = Contains(backlog, c)
      /\ Asked(c)' = Asked(c) + 1 /\ Answered(c)' = Answered(c)
  BY <1>2, <1>5 DEF Gone, Cut, Waits, Asked, Answered
<1>10. sv.client = c => sv.at \in {"header", "close"}
  <2>1. sv.client = c => sv.at \in {"header", "payload", "reply", "body", "close"}
    BY <1>2, NobodyAssumption DEF ServerKept
  <2> QED
    BY <1>2, <1>3, <2>1 DEF Kept, Framed, Told
<1>11. Placed(c)'
  BY <1>2, <1>3, <1>4, <1>5, <1>9 DEF Kept, Placed
<1>12. Framed(c)'
  <2>1. ASSUME Waits(c) PROVE Request(c)'
    <3>1. up[c] = <<>>
      BY <1>2, <1>3, <2>1 DEF Kept, Framed, Request
    <3>2. Len(up'[c]) = 1 /\ up'[c][1] = h /\ up'[c] # <<>>
      BY <1>2, <1>4, <1>6, <1>7, <3>1, Typed, AppendSeq, EmptySeq
    <3>3. Sending(c)' = h.len /\ Asked(c) \in Nat
      BY <1>2, <1>4, <1>5, Typed DEF Sending, Asked
    <3>4. \A i \in 1 .. Len(up'[c]) : up'[c][i] = Pixels <=> i # 1
      BY <1>4, <3>2
    <3>5. Answered(c)' < Asked(c)'
      BY <1>3, <1>9, <3>3
    <3>6. Len(up'[c]) - 1 <= h.len /\ Len(up'[c]) - 1 + Sending(c)' = h.len
      BY <1>4, <3>2, <3>3
    <3>7. (h.kind = "foreign" => cl'[c].alien) /\ cl'[c].at \in {"pixels", "await"}
      BY <1>5
    <3> QED
      BY <3>2, <3>4, <3>5, <3>6, <3>7 DEF Request
  <2> QED
    BY <1>2, <1>5, <1>9, <1>10, <2>1 DEF Kept, Framed
<1>13. Told(c)'
  <2>1. Asked(c) \in Nat
    BY <1>2, Typed DEF Asked
  <2> QED
    BY <1>2, <1>3, <1>5, <1>9, <1>10, <2>1 DEF Told
<1>14. OthersKeep(c)
  BY <1>2, <1>5, <1>6 DEF OthersKeep
<1> QED
  BY <1>2, <1>8, <1>11, <1>12, <1>13, <1>14, ClientFrame DEF Kept

LEMMA SendPixelsKeeps == ASSUME SInv, NEW c \in Client, SendPixels(c) PROVE SInv'
<1>1. /\ TypeOK /\ Kept(c) /\ ServerKept /\ cl[c].at = "pixels" /\ ~Cut(c) /\ Len(up[c]) < Cap
      /\ up' = [up EXCEPT ![c] = Append(@, Pixels)]
      /\ Client_(c, IF cl[c].left = 1 THEN "await" ELSE "pixels", cl[c].left - 1)
      /\ UNCHANGED <<down, backlog, sv, stop, answers, heard, late>>
  BY DEF SInv, SendPixels, Room
<1>2. PICK left \in 1 .. MaxLen : left = cl[c].left
  BY <1>1, Typed, Bounds DEF Kept, Placed
<1>3. PICK at \in {"await", "pixels"} : at = IF left = 1 THEN "await" ELSE "pixels"
  OBVIOUS
<1>4. /\ cl' \in [Client -> Host] /\ cl'[c].at = at /\ cl'[c].left = left - 1
      /\ cl'[c].n = cl[c].n /\ cl'[c].alien = cl[c].alien
      /\ \A d \in Client : d # c => cl'[d] = cl[d]
  <2>1. at \in At /\ left - 1 \in 0 .. MaxLen /\ Client_(c, at, left - 1)
    BY <1>1, <1>2, <1>3, Bounds DEF At
  <2> QED
    BY <1>1, <2>1, Moves
<1>5. /\ up' \in [Client -> Seq(Unit)] /\ up'[c] \in Seq(Unit) /\ Len(up'[c]) = Len(up[c]) + 1
      /\ up'[c][Len(up[c]) + 1] = Pixels /\ \A i \in 1 .. Len(up[c]) : up'[c][i] = up[c][i]
      /\ \A d \in Client : d # c => up'[d] = up[d]
      /\ Len(up[c]) \in Nat
  <2>1. Pixels \in Unit /\ up[c] \in Seq(Unit)
    BY <1>1, Typed DEF Unit
  <2>2. PICK q : q = Append(up[c], Pixels)
    OBVIOUS
  <2>3. /\ q \in Seq(Unit) /\ Len(q) = Len(up[c]) + 1 /\ q[Len(up[c]) + 1] = Pixels
        /\ \A i \in 1 .. Len(up[c]) : q[i] = up[c][i]
    BY <2>1, <2>2, AppendSeq
  <2>4. up' = [up EXCEPT ![c] = q]
    BY <1>1, <2>2
  <2> QED
    BY <1>1, <2>3, <2>4, Typed, Updated
<1>6. TypeOK'
  <2>1. ASSUME NEW d \in Client PROVE Len(up'[d]) <= Cap /\ Len(down'[d]) <= Cap
    <3>1. Len(up[d]) <= Cap /\ Len(down[d]) <= Cap /\ Len(up[c]) \in Nat
      BY <1>1, Typed
    <3> QED
      BY <1>1, <1>5, <3>1, Bounds
  <2> QED
    BY <1>1, <1>4, <1>5, <2>1 DEF TypeOK, Host, At, Unit
<1>7. /\ ~Gone(c) /\ ~Gone(c)' /\ (Cut(c)' <=> Cut(c)) /\ (Waits(c)' <=> Waits(c))
      /\ Contains(backlog, c)' = Contains(backlog, c)
      /\ Asked(c)' = Asked(c) /\ Answered(c)' = Answered(c)
      /\ Sending(c) = left /\ Sending(c)' = left - 1 /\ Pending(c)' = Pending(c)
      /\ (InReply(c)' <=> InReply(c))
  BY <1>1, <1>2, <1>3, <1>4 DEF Gone, Cut, Waits, Asked, Answered, Sending, Pending, InReply
<1>8. up'[c] # <<>>
  BY <1>5, EmptySeq
<1>9. Placed(c)'
  <2>1. cl'[c].at = "pixels" => cl'[c].left > 0
    BY <1>2, <1>3, <1>4
  <2> QED
    BY <1>1, <1>3, <1>4, <1>7, <2>1 DEF Kept, Placed
<1>10. Framed(c)'
  <2>1. ASSUME Waits(c) PROVE Request(c)'
    <3>1. /\ up[c] # <<>> /\ Len(up[c]) - 1 + left = up[c][1].len /\ Answered(c) < Asked(c)
          /\ up[c][1].kind = "foreign" => cl[c].alien
          /\ \A i \in 1 .. Len(up[c]) : up[c][i] = Pixels <=> i # 1
      BY <1>1, <1>7, <2>1 DEF Kept, Framed, Request
    <3>2. Len(up[c]) > 0 /\ up'[c][1] = up[c][1]
      BY <1>1, <1>5, <3>1, EmptySeq, Typed
    <3>3. \A i \in 1 .. Len(up'[c]) : up'[c][i] = Pixels <=> i # 1
      BY <1>5, <3>1, <3>2
    <3>4. Len(up'[c]) - 1 + (left - 1) = up[c][1].len /\ Len(up'[c]) - 1 <= up[c][1].len
      <4>1. PICK n \in Nat : n = Len(up[c])
        BY <1>5
      <4>2. PICK l \in Int : l = up[c][1].len /\ l = n - 1 + left
        BY <3>1, <4>1
      <4>3. Len(up'[c]) = n + 1
        BY <1>5, <4>1
      <4> QED
        BY <4>2, <4>3
    <3> QED
      BY <1>3, <1>4, <1>7, <1>8, <3>1, <3>2, <3>3, <3>4 DEF Request
  <2>2. ASSUME sv.client = c, sv.at = "payload", sv.verdict # "BAD_MAGIC" PROVE Payloads(c)'
    <3>1. /\ \A i \in 1 .. Len(up[c]) : up[c][i] = Pixels
          /\ Len(up[c]) + left = sv.left
      BY <1>1, <1>7, <2>2 DEF Kept, Framed, Payloads
    <3>2. \A i \in 1 .. Len(up'[c]) : up'[c][i] = Pixels
      BY <1>5, <3>1
    <3>3. Len(up'[c]) <= sv'.left /\ Len(up'[c]) + (left - 1) = sv'.left
      <4>1. PICK n \in Nat : n = Len(up[c])
        BY <1>5
      <4>2. PICK l \in Int : l = sv.left /\ l = n + left
        BY <3>1, <4>1
      <4>3. Len(up'[c]) = n + 1 /\ sv'.left = l
        BY <1>1, <1>5, <4>1, <4>2
      <4> QED
        BY <4>2, <4>3
    <3> QED
      BY <1>7, <3>2, <3>3 DEF Payloads
  <2> QED
    BY <1>1, <1>3, <1>4, <1>7, <2>1, <2>2 DEF Kept, Framed
<1>11. Told(c)'
  <2>1. ~(sv.client = c /\ sv.at = "body")
    BY <1>1, <1>7 DEF Kept, Told
  <2>2. AllData(c, 2)' <=> AllData(c, 2)
    BY <1>1 DEF AllData
  <2> QED
    BY <1>1, <1>3, <1>4, <1>7, <2>1, <2>2 DEF Kept, Told
<1>12. OthersKeep(c)
  BY <1>1, <1>4, <1>5 DEF OthersKeep
<1> QED
  BY <1>1, <1>6, <1>9, <1>10, <1>11, <1>12, ClientFrame DEF Kept

\* What is read from a connection is its head.
LEMMA Heard ==
    ASSUME TypeOK, NEW c \in Client, down[c] # <<>>, down' = [down EXCEPT ![c] = Tail(@)]
    PROVE  /\ down' \in [Client -> Seq(Reply)] /\ Len(down[c]) \in Nat \ {0}
           /\ Head(down[c]) = down[c][1] /\ down[c][1] \in Reply
           /\ Len(down'[c]) = Len(down[c]) - 1
           /\ \A i \in 1 .. Len(down'[c]) : down'[c][i] = down[c][i + 1]
           /\ \A d \in Client : d # c => down'[d] = down[d]
           /\ \A d \in Client : Len(down'[d]) <= Cap
<1>1. PICK q : q = Tail(down[c])
  OBVIOUS
<1>2. /\ down[c] \in Seq(Reply) /\ down \in [Client -> Seq(Reply)]
  BY Typed
<1>3. /\ q \in Seq(Reply) /\ Len(q) = Len(down[c]) - 1 /\ Len(down[c]) \in Nat \ {0}
      /\ Head(down[c]) = down[c][1] /\ Head(down[c]) \in Reply
      /\ \A i \in 1 .. Len(down[c]) - 1 : q[i] = down[c][i + 1]
  BY <1>1, <1>2, TailSeq
<1>4. down' = [down EXCEPT ![c] = q]
  BY <1>1
<1>5. /\ down' \in [Client -> Seq(Reply)] /\ down'[c] = q
      /\ \A d \in Client : d # c => down'[d] = down[d]
  BY <1>2, <1>3, <1>4, Updated
<1>6. ASSUME NEW d \in Client PROVE Len(down'[d]) <= Cap
  <2>1. Len(down[d]) <= Cap
    BY Typed
  <2> QED
    BY <1>3, <1>5, <2>1, Bounds
<1> QED
  BY <1>3, <1>5, <1>6

\* A reply's header is heard only when the server has answered the request that the
\* client made last, and read all of it.
LEMMA HearReplyKeeps == ASSUME SInv, NEW c \in Client, HearReply(c) PROVE SInv'
<1>1. /\ TypeOK /\ Kept(c) /\ ServerKept /\ cl[c].at = "await" /\ down[c] # <<>>
      /\ heard' = [heard EXCEPT ![c] = Append(@, Head(down[c]).status)]
      /\ down' = [down EXCEPT ![c] = Tail(@)]
      /\ UNCHANGED <<up, backlog, sv, stop, answers, late>>
  BY DEF SInv, HearReply
<1>2. /\ down' \in [Client -> Seq(Reply)] /\ Len(down[c]) \in Nat \ {0}
      /\ Head(down[c]) = down[c][1] /\ down[c][1] \in Reply
      /\ Len(down'[c]) = Len(down[c]) - 1
      /\ \A i \in 1 .. Len(down'[c]) : down'[c][i] = down[c][i + 1]
      /\ \A d \in Client : d # c => down'[d] = down[d]
      /\ \A d \in Client : Len(down'[d]) <= Cap
  BY <1>1, Heard
<1>3. PICK len \in 0 .. MaxLen : len = down[c][1].len
  BY <1>2 DEF Reply
<1>4. PICK at \in {"body", "header", "done"} :
          Client_(c, at, len) /\ (at = "body" <=> len > 0)
  <2>1. \E at \in IF len > 0 THEN {"body"} ELSE {"header", "done"} : Client_(c, at, len)
    BY <1>2, <1>3 DEF HearReply
  <2> QED
    BY <2>1
<1>5. /\ cl' \in [Client -> Host] /\ cl'[c].at = at /\ cl'[c].left = len
      /\ cl'[c].n = cl[c].n /\ cl'[c].alien = cl[c].alien
      /\ \A d \in Client : d # c => cl'[d] = cl[d]
  BY <1>1, <1>4, Moves DEF At
<1>6. /\ heard' \in [Client -> Seq(Status \cup {"DATA"})] /\ Len(heard'[c]) = Len(heard[c]) + 1
      /\ \A d \in Client : d # c => heard'[d] = heard[d]
      /\ Len(heard[c]) \in Nat
  <2>1. down[c][1].status \in Status \cup {"DATA"}
    BY <1>2 DEF Reply
  <2>2. PICK q : q = Append(heard[c], down[c][1].status)
    OBVIOUS
  <2>3. q \in Seq(Status \cup {"DATA"}) /\ Len(q) = Len(heard[c]) + 1 /\ Len(heard[c]) \in Nat
    BY <1>1, <2>1, <2>2, AppendSeq, Typed
  <2>4. heard \in [Client -> Seq(Status \cup {"DATA"})] /\ heard' = [heard EXCEPT ![c] = q]
    BY <1>1, <1>2, <2>2 DEF TypeOK
  <2> QED
    BY <2>3, <2>4, Updated
<1>7. TypeOK'
  BY <1>1, <1>2, <1>5, <1>6 DEF TypeOK, Host, At, Reply
<1>8. /\ ~Gone(c) /\ (Cut(c)' <=> Cut(c)) /\ (Waits(c)' <=> Waits(c))
      /\ Contains(backlog, c)' = Contains(backlog, c)
      /\ Asked(c)' = Asked(c) /\ Answered(c)' = Answered(c)
      /\ Pending(c)' = Pending(c) /\ (InReply(c)' <=> InReply(c))
  BY <1>1, <1>5 DEF Gone, Cut, Waits, Asked, Answered, Pending, InReply
<1>9. /\ Asked(c) = Len(heard[c]) + 1 /\ Answered(c) = Asked(c)
      /\ AllData(c, 2) /\ len = Len(down[c]) - 1 + Pending(c) /\ (len > 0 => InReply(c))
      /\ Pending(c) \in Nat
  <2>1. Pending(c) \in Nat
    BY <1>1, ServerTyped, Bounds DEF Pending
  <2> QED
    BY <1>1, <1>3, <2>1 DEF Kept, Told
<1>10. AllData(c, 1)'
  <2>1. ASSUME NEW i \in 1 .. Len(down'[c]) PROVE down'[c][i] = Data
    <3>1. down'[c][i] = down[c][i + 1] /\ i + 1 \in 2 .. Len(down[c])
      <4>1. PICK n \in Nat : n = Len(down[c]) /\ i \in 1 .. n - 1
        BY <1>2
      <4> QED
        BY <1>2, <4>1
    <3> QED
      BY <1>9, <3>1 DEF AllData
  <2> QED
    BY <2>1 DEF AllData
<1>11. Asked(c) \in Nat
  BY <1>1, Typed DEF Asked
<1>12. /\ ~(sv.client = c /\ sv.at \in {"payload", "reply"})
       /\ (Waits(c) => up[c] = <<>>) /\ ~Contains(backlog, c)
       /\ sv.client = c /\ sv.at = "body" => len > 0
  <2>1. ~(sv.client = c /\ sv.at = "payload")
    BY <1>1, <1>9, <1>11 DEF Kept, Framed
  <2>2. ~(sv.client = c /\ sv.at = "reply")
    BY <1>1, <1>8 DEF Kept, Told
  <2>3. Waits(c) => up[c] = <<>>
    BY <1>1, <1>9, <1>11 DEF Kept, Framed, Request
  <2>4. ~Contains(backlog, c)
    BY <1>1 DEF Kept, Placed
  <2>5. sv.client = c /\ sv.at = "body" => Pending(c) > 0
    BY <1>1 DEF ServerKept, Pending
  <2>6. Pending(c) > 0 => len > 0
    <3>1. PICK n \in Nat \ {0}, rest \in Nat : n = Len(down[c]) /\ rest = Pending(c)
      BY <1>2, <1>9
    <3>2. len = n - 1 + rest
      BY <1>9, <3>1
    <3> QED
      BY <3>1, <3>2
  <2> QED
    BY <2>1, <2>2, <2>3, <2>4, <2>5, <2>6
<1>13. Placed(c)'
  BY <1>1, <1>4, <1>5, <1>8, <1>12 DEF Kept, Placed
<1>14. Framed(c)'
  <2>1. Waits(c) => Request(c)'
    <3>1. Len(<<>>) = 0
      BY EmptySeq
    <3> QED
      BY <1>1, <1>4, <1>5, <1>12, <3>1 DEF Request
  <2> QED
    BY <1>1, <1>4, <1>5, <1>8, <1>12, <2>1 DEF Kept, Framed
<1>15. Told(c)'
  <2>1. at = "body" => cl'[c].left = Len(down'[c]) + Pending(c)'
    BY <1>2, <1>5, <1>8, <1>9
  <2>2. at = "header" => down'[c] = <<>>
    <3>1. at = "header" => Len(down'[c]) = 0
      <4>1. PICK n \in Nat \ {0}, rest \in Nat : n = Len(down[c]) /\ rest = Pending(c)
        BY <1>2, <1>9
      <4>2. len = n - 1 + rest /\ Len(down'[c]) = n - 1
        BY <1>2, <1>9, <4>1
      <4> QED
        BY <1>4, <4>2
    <3>2. down'[c] \in Seq(Reply)
      BY <1>2
    <3> QED
      BY <3>1, <3>2, EmptySeq
  <2> QED
    BY <1>1, <1>4, <1>5, <1>6, <1>8, <1>9, <1>10, <1>12, <2>1, <2>2 DEF Told, Gone
<1>16. OthersKeep(c)
  BY <1>1, <1>2, <1>5, <1>6 DEF OthersKeep
<1> QED
  BY <1>1, <1>7, <1>13, <1>14, <1>15, <1>16, ClientFrame DEF Kept

LEMMA HearBodyKeeps == ASSUME SInv, NEW c \in Client, HearBody(c) PROVE SInv'
<1>1. /\ TypeOK /\ Kept(c) /\ ServerKept /\ cl[c].at = "body" /\ down[c] # <<>>
      /\ down' = [down EXCEPT ![c] = Tail(@)]
      /\ UNCHANGED <<up, backlog, sv, stop, answers, heard, late>>
  BY DEF SInv, HearBody
<1>2. /\ down' \in [Client -> Seq(Reply)] /\ Len(down[c]) \in Nat \ {0}
      /\ Len(down'[c]) = Len(down[c]) - 1
      /\ \A i \in 1 .. Len(down'[c]) : down'[c][i] = down[c][i + 1]
      /\ \A d \in Client : d # c => down'[d] = down[d]
      /\ \A d \in Client : Len(down'[d]) <= Cap
  BY <1>1, Heard
<1>3. PICK left \in 1 .. MaxLen : left = cl[c].left
  BY <1>1, Typed, Bounds DEF Kept, Placed
<1>4. PICK at \in {"body", "header", "done"} :
          Client_(c, at, left - 1) /\ (at = "body" <=> left > 1)
  <2>1. \E at \in IF left > 1 THEN {"body"} ELSE {"header", "done"} : Client_(c, at, left - 1)
    BY <1>3 DEF HearBody
  <2> QED
    BY <2>1
<1>5. /\ cl' \in [Client -> Host] /\ cl'[c].at = at /\ cl'[c].left = left - 1
      /\ cl'[c].n = cl[c].n /\ cl'[c].alien = cl[c].alien
      /\ \A d \in Client : d # c => cl'[d] = cl[d]
  <2>1. at \in At /\ left - 1 \in 0 .. MaxLen
    BY Bounds DEF At
  <2> QED
    BY <1>1, <1>4, <2>1, Moves
<1>6. TypeOK'
  BY <1>1, <1>2, <1>5 DEF TypeOK, Host, At, Reply
<1>7. /\ ~Gone(c) /\ (Cut(c)' <=> Cut(c)) /\ (Waits(c)' <=> Waits(c))
      /\ Contains(backlog, c)' = Contains(backlog, c)
      /\ Asked(c)' = Asked(c) /\ Answered(c)' = Answered(c)
      /\ Pending(c)' = Pending(c) /\ (InReply(c)' <=> InReply(c))
  BY <1>1, <1>5 DEF Gone, Cut, Waits, Asked, Answered, Pending, InReply
<1>8. /\ Len(heard[c]) = Asked(c) /\ Answered(c) = Asked(c) /\ Asked(c) \in Nat
      /\ AllData(c, 1) /\ left = Len(down[c]) + Pending(c) /\ InReply(c)
      /\ Pending(c) \in Nat
  <2>1. Pending(c) \in Nat /\ Asked(c) \in Nat
    BY <1>1, ServerTyped, Typed, Bounds DEF Pending, Asked
  <2> QED
    BY <1>1, <1>3, <2>1 DEF Kept, Told
<1>9. AllData(c, 1)'
  <2>1. ASSUME NEW i \in 1 .. Len(down'[c]) PROVE down'[c][i] = Data
    <3>1. down'[c][i] = down[c][i + 1] /\ i + 1 \in 1 .. Len(down[c])
      <4>1. PICK n \in Nat : n = Len(down[c]) /\ i \in 1 .. n - 1
        BY <1>2
      <4> QED
        BY <1>2, <4>1
    <3> QED
      BY <1>8, <3>1 DEF AllData
  <2> QED
    BY <2>1 DEF AllData
<1>10. /\ sv.client = c /\ sv.at \in {"header", "body"} /\ ~Contains(backlog, c)
       /\ (Waits(c) => up[c] = <<>>)
       /\ sv.at = "body" => left > 1
  <2>1. sv.client = c /\ sv.at \in {"header", "body"}
    BY <1>8 DEF InReply
  <2>2. ~Contains(backlog, c)
    BY <1>1, <2>1 DEF Kept, Placed
  <2>3. Waits(c) => up[c] = <<>>
    BY <1>1, <1>8 DEF Kept, Framed, Request
  <2>4. sv.at = "body" => Pending(c) > 0
    BY <1>1, <2>1 DEF ServerKept, Pending
  <2>5. Pending(c) > 0 => left > 1
    BY <1>2, <1>8
  <2> QED
    BY <2>1, <2>2, <2>3, <2>4, <2>5
<1>11. Placed(c)'
  <2>1. at = "body" => left - 1 > 0
    BY <1>4
  <2> QED
    BY <1>1, <1>4, <1>5, <1>7, <1>10, <2>1 DEF Kept, Placed
<1>12. Framed(c)'
  <2>1. Waits(c) => Request(c)'
    <3>1. Len(<<>>) = 0
      BY EmptySeq
    <3> QED
      BY <1>1, <1>4, <1>5, <1>10, <3>1 DEF Request
  <2> QED
    BY <1>1, <1>4, <1>5, <1>7, <1>10, <2>1 DEF Kept, Framed
<1>13. Told(c)'
  <2>1. left - 1 = Len(down'[c]) + Pending(c)'
    BY <1>2, <1>7, <1>8
  <2>2. at = "header" => down'[c] = <<>>
    <3>1. at = "header" => Len(down'[c]) = 0
      <4>1. PICK n \in Nat \ {0}, rest \in Nat : n = Len(down[c]) /\ rest = Pending(c)
        BY <1>2, <1>8
      <4>2. left = n + rest /\ Len(down'[c]) = n - 1
        BY <1>2, <1>8, <4>1
      <4> QED
        BY <1>4, <4>2
    <3>2. down'[c] \in Seq(Reply)
      BY <1>2
    <3> QED
      BY <3>1, <3>2, EmptySeq
  <2> QED
    BY <1>1, <1>4, <1>5, <1>7, <1>8, <1>9, <1>10, <2>1, <2>2 DEF Told, Gone
<1>14. OthersKeep(c)
  BY <1>1, <1>2, <1>5 DEF OthersKeep
<1> QED
  BY <1>1, <1>6, <1>11, <1>12, <1>13, <1>14, ClientFrame DEF Kept

LEMMA ClientKeeps == ASSUME SInv, NEW c \in Client, ClientStep(c) \/ Kill(c) PROVE SInv'
  BY ConnectKeeps, SendHeaderKeeps, SendPixelsKeeps, HearReplyKeeps, HearBodyKeeps, QuitKeeps,
     KillKeeps DEF ClientStep

-----------------------------------------------------------------------------
(* The steps of the accept loop.                                           *)

LEMMA IdleIs ==
    ASSUME NEW at
    PROVE  Idle(at).at = at /\ Idle(at).client = Nobody /\ Idle(at).verdict = "OK" /\ Idle(at).left = 0
           /\ Idle(at).status = "OK"
  BY DEF Idle

LEMMA IdleTyped ==
    ASSUME NEW at \in {"test", "accept", "blocked", "header", "exit"}, NEW c \in Client \cup {Nobody}
    PROVE  [Idle(at) EXCEPT !.client = c] \in
             [at : {"test", "accept", "blocked", "header", "payload", "reply", "body", "close", "exit"},
              client : Client \cup {Nobody}, verdict : Verdict, left : 0 .. MaxLen, status : Status]
  BY Bounds DEF Idle, Verdict, Status

LEMMA SignalKeeps == ASSUME SInv, Signal PROVE SInv'
<1>1. /\ stop' = TRUE /\ UNCHANGED <<cl, up, down, backlog, answers, heard, late>>
      /\ sv' = IF sv.at = "blocked" THEN Idle("test") ELSE sv
  BY DEF Signal
<1>2. sv' = sv \/ (sv.client = Nobody /\ sv'.client = Nobody)
  BY <1>1, IdleIs DEF SInv, ServerKept
<1>3. \A d \in Client : Kept(d)'
  BY <1>1, <1>2, Elsewhere, NobodyAssumption DEF SInv
<1>4. TypeOK'
  <2>1. Idle("test") \in
          [at : {"test", "accept", "blocked", "header", "payload", "reply", "body", "close", "exit"},
           client : Client \cup {Nobody}, verdict : Verdict, left : 0 .. MaxLen, status : Status]
    BY Bounds DEF Idle, Verdict, Status
  <2> QED
    BY <1>1, <2>1 DEF SInv, TypeOK
<1>5. ServerKept'
  <2>1. CASE sv.at = "blocked"
    BY <1>1, <2>1, IdleIs DEF SInv, ServerKept
  <2>2. CASE sv.at # "blocked"
    BY <1>1, <2>2 DEF SInv, ServerKept
  <2> QED
    BY <2>1, <2>2
<1>6. LateKept'
  BY <1>1, IdleIs DEF SInv, LateKept
<1> QED
  BY <1>3, <1>4, <1>5, <1>6 DEF SInv

LEMMA BlockKeeps == ASSUME SInv, Block PROVE SInv'
<1>1. /\ sv.at = "accept" /\ sv' = [sv EXCEPT !.at = "blocked"]
      /\ UNCHANGED <<cl, up, down, backlog, stop, answers, heard, late>>
  BY DEF Block
<1>2. /\ sv'.at = "blocked" /\ sv'.client = sv.client /\ sv'.verdict = sv.verdict
      /\ TypeOK'
  BY <1>1 DEF SInv, TypeOK
<1>3. sv.client = Nobody
  BY <1>1 DEF SInv, ServerKept
<1>4. \A d \in Client : Kept(d)'
  BY <1>1, <1>2, <1>3, Elsewhere, NobodyAssumption DEF SInv
<1>5. ServerKept'
  BY <1>1, <1>2, <1>3 DEF SInv, ServerKept
<1>6. LateKept'
  BY <1>1, <1>2 DEF SInv, LateKept
<1> QED
  BY <1>2, <1>4, <1>5, <1>6 DEF SInv

\* A server that ends takes with it only connections it never served.
LEMMA TestKeeps == ASSUME SInv, Test PROVE SInv'
<1>1. /\ sv.at = "test" /\ sv' = [sv EXCEPT !.at = IF stop THEN "exit" ELSE "accept"]
      /\ backlog' = IF stop THEN <<>> ELSE backlog
      /\ UNCHANGED <<cl, up, down, stop, answers, heard, late>>
  BY DEF Test
<1>2. /\ sv'.at = IF stop THEN "exit" ELSE "accept"
      /\ sv'.client = sv.client /\ sv'.verdict = sv.verdict
  BY <1>1, ServerTyped DEF SInv
<1>3. TypeOK'
  <2>1. sv' \in
          [at : {"test", "accept", "blocked", "header", "payload", "reply", "body", "close", "exit"},
           client : Client \cup {Nobody}, verdict : Verdict, left : 0 .. MaxLen, status : Status]
    BY <1>1 DEF SInv, TypeOK
  <2>2. backlog' \in Seq(Client) /\ Len(backlog') <= Backlog + 1
    <3>1. backlog \in Seq(Client) /\ Len(backlog) <= Backlog + 1
      BY ServerTyped DEF SInv
    <3>2. <<>> \in Seq(Client) /\ Len(<<>>) <= Backlog + 1
      BY EmptySeq, Bounds
    <3> QED
      BY <1>1, <3>1, <3>2
  <2> QED
    BY <1>1, <2>1, <2>2 DEF SInv, TypeOK
<1>4. sv.client = Nobody
  BY <1>1 DEF SInv, ServerKept
<1>5. CASE ~stop
  <2>1. \A d \in Client : Kept(d)'
    BY <1>1, <1>2, <1>4, <1>5, Elsewhere, NobodyAssumption DEF SInv
  <2> QED
    BY <1>1, <1>2, <1>3, <1>4, <1>5, <2>1 DEF SInv, ServerKept, LateKept
<1>6. CASE stop
  <2>1. Len(backlog') = 0 /\ \A d \in Client : ~Contains(backlog', d)
    BY <1>1, <1>6, EmptySeq DEF Contains
  <2>2. ASSUME NEW d \in Client PROVE Kept(d)'
    <3>1. /\ sv.client # d /\ sv'.client # d /\ Cut(d)' /\ ~Waits(d)' /\ (Gone(d)' <=> Gone(d))
      BY <1>1, <1>2, <1>4, <2>1, NobodyAssumption DEF Cut, Waits, Gone
    <3>2. Asked(d)' = Asked(d) /\ Answered(d)' = Answered(d)
          /\ Pending(d)' = 0 /\ Pending(d) = 0 /\ ~InReply(d) /\ ~InReply(d)'
      BY <1>1, <3>1 DEF Asked, Answered, Pending, InReply
    <3>3. Placed(d)'
      <4>1. CASE Cut(d)
        BY <1>1, <1>6, <2>1, <3>1, <4>1 DEF SInv, Kept, Placed
      <4>2. CASE ~Cut(d)
        <5>1. Contains(backlog, d)
          BY <3>1, <4>2 DEF Cut
        <5> QED
          BY <1>1, <1>6, <2>1, <3>1, <4>2, <5>1 DEF SInv, Kept, Placed
      <4> QED
        BY <4>1, <4>2
    <3>4. Framed(d)'
      BY <3>1 DEF Framed
    <3>5. Told(d)'
      <4>1. AllData(d, 2)' <=> AllData(d, 2)
        BY <1>1 DEF AllData
      <4> QED
        BY <1>1, <3>1, <3>2, <4>1 DEF SInv, Kept, Told
    <3> QED
      BY <3>3, <3>4, <3>5 DEF Kept
  <2>3. ServerKept'
    BY <1>1, <1>2, <1>4, <1>6, <2>1 DEF SInv, ServerKept
  <2>4. LateKept'
    BY <1>1, <1>2, <1>6 DEF SInv, LateKept
  <2> QED
    BY <1>3, <2>2, <2>3, <2>4 DEF SInv
<1> QED
  BY <1>5, <1>6

LEMMA AcceptKeeps == ASSUME SInv, Accept PROVE SInv'
<1>1. /\ sv.at = "blocked" /\ backlog # <<>> /\ backlog' = Tail(backlog)
      /\ sv' = [Idle("header") EXCEPT !.client = Head(backlog)]
      /\ late' = IF stop THEN late + 1 ELSE late
      /\ UNCHANGED <<cl, up, down, stop, answers, heard>>
  BY DEF Accept
<1>2. /\ backlog \in Seq(Client) /\ Len(backlog) \in Nat \ {0} /\ Head(backlog) = backlog[1]
      /\ backlog[1] \in Client /\ backlog' \in Seq(Client) /\ Len(backlog') = Len(backlog) - 1
      /\ \A i \in 1 .. Len(backlog') : backlog'[i] = backlog[i + 1]
      /\ Len(backlog) <= Backlog + 1
  BY <1>1, ServerTyped, TailSeq DEF SInv
<1>3. PICK c \in Client : c = Head(backlog) /\ c = backlog[1]
  BY <1>2
<1>4. /\ sv'.at = "header" /\ sv'.client = c /\ sv'.verdict = "OK"
      /\ sv.client = Nobody /\ c # Nobody
  BY <1>1, <1>3, NobodyAssumption DEF Idle, SInv, ServerKept
<1>5. TypeOK'
  <2>1. sv' \in
          [at : {"test", "accept", "blocked", "header", "payload", "reply", "body", "close", "exit"},
           client : Client \cup {Nobody}, verdict : Verdict, left : 0 .. MaxLen, status : Status]
    BY <1>1, <1>3, IdleTyped
  <2>2. late' \in Nat /\ Len(backlog') <= Backlog + 1
    BY <1>1, <1>2, ServerTyped, Bounds DEF SInv
  <2> QED
    BY <1>1, <1>2, <2>1, <2>2 DEF SInv, TypeOK
<1>6. PICK n \in Nat \ {0} : n = Len(backlog)
  BY <1>2
<1>7. \A i, j \in 1 .. n : backlog[i] = backlog[j] => i = j
  BY <1>6 DEF SInv, ServerKept
<1>8. Contains(backlog, c) /\ ~Contains(backlog', c)
  <2>1. Contains(backlog, c)
    BY <1>3, <1>6 DEF Contains
  <2>2. ASSUME NEW i \in 1 .. Len(backlog'), backlog'[i] = c PROVE FALSE
    <3>1. i + 1 \in 1 .. n /\ 1 \in 1 .. n /\ i + 1 # 1 /\ backlog[i + 1] = backlog[1]
      BY <1>2, <1>3, <1>6, <2>2
    <3> QED
      BY <1>7, <3>1
  <2> QED
    BY <2>1, <2>2 DEF Contains
<1>9. ASSUME NEW d \in Client, d # c PROVE Contains(backlog', d) <=> Contains(backlog, d)
  <2>1. ASSUME NEW i \in 1 .. Len(backlog'), backlog'[i] = d PROVE Contains(backlog, d)
    <3>1. i + 1 \in 1 .. n /\ backlog[i + 1] = d
      BY <1>2, <1>6, <2>1
    <3> QED
      BY <1>6, <3>1 DEF Contains
  <2>2. ASSUME NEW i \in 1 .. Len(backlog), backlog[i] = d PROVE Contains(backlog', d)
    <3>1. i # 1
      BY <1>3, <1>9, <2>2
    <3>2. i - 1 \in 1 .. Len(backlog') /\ (i - 1) + 1 = i
      BY <1>2, <1>6, <3>1
    <3>3. backlog'[i - 1] = d
      BY <1>2, <2>2, <3>2
    <3> QED
      BY <3>2, <3>3 DEF Contains
  <2> QED
    BY <2>1, <2>2 DEF Contains
<1>10. ASSUME NEW d \in Client, d # c PROVE Kept(d)'
  <2>1. Kept(d) /\ sv.client # d /\ sv'.client # d
    BY <1>4, <1>10, NobodyAssumption DEF SInv
  <2> QED
    BY <1>1, <1>9, <1>10, <2>1, Elsewhere
<1>11. Kept(c)'
  <2>1. /\ Kept(c) /\ ~Cut(c) /\ ~Cut(c)' /\ Waits(c) /\ Waits(c)' /\ (Gone(c)' <=> Gone(c))
        /\ Asked(c)' = Asked(c) /\ Answered(c)' = Answered(c) /\ Sending(c)' = Sending(c)
        /\ Pending(c) = 0 /\ Pending(c)' = 0 /\ ~InReply(c)
    BY <1>1, <1>4, <1>8 DEF SInv, Cut, Waits, Gone, Asked, Answered, Sending, Pending, InReply
  <2>2. down[c] = <<>> /\ cl[c].at # "body"
    BY <1>8, <2>1 DEF Kept, Placed, Told
  <2>3. Placed(c)'
    BY <1>1, <1>8, <2>1 DEF Kept, Placed
  <2>4. Framed(c)'
    BY <1>1, <1>4, <2>1 DEF Kept, Framed, Request
  <2>5. Told(c)'
    BY <1>1, <1>4, <2>1, <2>2 DEF Kept, Told
  <2> QED
    BY <2>3, <2>4, <2>5 DEF Kept
<1>12. ServerKept'
  <2>1. ASSUME NEW i \in 1 .. Len(backlog'), NEW j \in 1 .. Len(backlog'), backlog'[i] = backlog'[j]
        PROVE  i = j
    <3>1. i + 1 \in 1 .. n /\ j + 1 \in 1 .. n /\ backlog[i + 1] = backlog[j + 1]
      BY <1>2, <1>6, <2>1
    <3>2. i + 1 = j + 1
      BY <1>7, <3>1
    <3> QED
      BY <3>2
  <2> QED
    BY <1>4, <2>1 DEF ServerKept
<1>13. LateKept'
  BY <1>1, <1>4 DEF SInv, LateKept
<1> QED
  BY <1>5, <1>10, <1>11, <1>12, <1>13 DEF SInv

-----------------------------------------------------------------------------
(* The steps of serve_connection.                                          *)

Serv == [at : {"test", "accept", "blocked", "header", "payload", "reply", "body", "close", "exit"},
         client : Client \cup {Nobody}, verdict : Verdict, left : 0 .. MaxLen, status : Status]

Serves(c) == sv.client = c /\ sv.at \in {"header", "payload", "reply", "body", "close"}

LEMMA Attended ==
    ASSUME SInv, sv.at \in {"header", "payload", "reply", "body", "close"}
    PROVE  /\ sv.client \in Client /\ Serves(sv.client) /\ Kept(sv.client)
           /\ ~Contains(backlog, sv.client) /\ ~Cut(sv.client)
           /\ sv \in Serv /\ TypeOK /\ ServerKept
<1>1. sv.client \in Client /\ sv \in Serv
  BY ServerTyped DEF SInv, ServerKept, TypeOK, Serv
<1> QED
  BY <1>1 DEF SInv, Kept, Placed, Cut, Serves

\* The server goes on with its client, or ends with it.
LEMMA ServerFrame ==
    ASSUME SInv, NEW c \in Client, Serves(c), OthersKeep(c), UNCHANGED <<backlog, stop, late>>,
           TypeOK', Kept(c)',
           \/ Serves(c)' /\ (sv'.at = "body" => sv'.left > 0) /\ (sv'.at = "close" => sv'.verdict = "BAD_MAGIC")
              /\ (sv'.verdict = "BAD_MAGIC" => /\ sv'.at \in {"payload", "reply", "close"}
                                               /\ sv'.at # "close" => sv'.left = 0)
              /\ (sv'.at = "reply" => (sv'.status = "BAD_MAGIC" <=> sv'.verdict = "BAD_MAGIC"))
           \/ sv' = Idle("test")
    PROVE  SInv'
<1>1. c # Nobody
  BY NobodyAssumption
<1>2. sv'.client \in {c, Nobody}
  BY IdleIs DEF Serves
<1>3. \A d \in Client : Kept(d)'
  BY <1>2, OneConnection DEF Serves
<1>4. ServerKept'
  <2>1. \A i, j \in 1 .. Len(backlog') : backlog'[i] = backlog'[j] => i = j
    BY DEF SInv, ServerKept
  <2>2. CASE sv' = Idle("test")
    BY <2>1, <2>2, IdleIs DEF ServerKept
  <2>3. CASE sv' # Idle("test")
    BY <1>1, <2>1, <2>3 DEF ServerKept, Serves
  <2> QED
    BY <2>2, <2>3
<1>5. LateKept'
  BY IdleIs DEF SInv, LateKept, Serves
<1> QED
  BY <1>3, <1>4, <1>5 DEF SInv

\* What is read from a connection is its head.
LEMMA Read ==
    ASSUME TypeOK, NEW c \in Client, up[c] # <<>>, up' = [up EXCEPT ![c] = Tail(@)]
    PROVE  /\ up' \in [Client -> Seq(Unit)] /\ Len(up[c]) \in Nat \ {0}
           /\ Head(up[c]) = up[c][1] /\ up[c][1] \in Unit
           /\ Len(up'[c]) = Len(up[c]) - 1
           /\ \A i \in 1 .. Len(up'[c]) : up'[c][i] = up[c][i + 1]
           /\ \A d \in Client : d # c => up'[d] = up[d]
           /\ \A d \in Client : Len(up'[d]) <= Cap
<1>1. PICK q : q = Tail(up[c])
  OBVIOUS
<1>2. /\ up[c] \in Seq(Unit) /\ up \in [Client -> Seq(Unit)]
  BY Typed
<1>3. /\ q \in Seq(Unit) /\ Len(q) = Len(up[c]) - 1 /\ Len(up[c]) \in Nat \ {0}
      /\ Head(up[c]) = up[c][1] /\ Head(up[c]) \in Unit
      /\ \A i \in 1 .. Len(up[c]) - 1 : q[i] = up[c][i + 1]
  BY <1>1, <1>2, TailSeq
<1>4. up' = [up EXCEPT ![c] = q]
  BY <1>1
<1>5. /\ up' \in [Client -> Seq(Unit)] /\ up'[c] = q
      /\ \A d \in Client : d # c => up'[d] = up[d]
  BY <1>2, <1>3, <1>4, Updated
<1>6. ASSUME NEW d \in Client PROVE Len(up'[d]) <= Cap
  <2>1. Len(up[d]) <= Cap
    BY Typed
  <2> QED
    BY <1>3, <1>5, <2>1, Bounds
<1> QED
  BY <1>3, <1>5, <1>6

LEMMA ReadHeaderKeeps == ASSUME SInv, ReadHeader PROVE SInv'
<1>0. PICK c \in Client : c = sv.client /\ up[c] # <<>>
  BY Attended DEF ReadHeader
<1>1. /\ c = sv.client /\ sv.at = "header" /\ Serves(c) /\ Kept(c) /\ ~Contains(backlog, c)
      /\ ~Cut(c) /\ sv \in Serv /\ TypeOK /\ ServerKept
      /\ up[c] # <<>> /\ up' = [up EXCEPT ![c] = Tail(@)]
      /\ UNCHANGED <<cl, down, backlog, stop, answers, heard, late>>
  BY <1>0, Attended DEF ReadHeader
<1>2. PICK h :
      /\ up' \in [Client -> Seq(Unit)] /\ Len(up[c]) \in Nat \ {0}
      /\ Head(up[c]) = h /\ h = up[c][1] /\ h \in Unit /\ Len(up'[c]) = Len(up[c]) - 1
      /\ \A i \in 1 .. Len(up'[c]) : up'[c][i] = up[c][i + 1]
      /\ \A d \in Client : d # c => up'[d] = up[d]
      /\ \A d \in Client : Len(up'[d]) <= Cap
  BY <1>0, <1>1, Read
<1>3. Request(c)
  BY <1>1 DEF Kept, Framed, Waits
<1>4. h \in Header /\ h.len \in 0 .. MaxLen /\ h.kind \in {"ok", "refused", "foreign"}
  BY <1>2, <1>3 DEF Request, Unit, Header
<1>5. /\ Payload(h) \in 0 .. MaxLen /\ VerdictOn(h) \in Verdict
      /\ IF VerdictOn(h) = "BAD_MAGIC" THEN h.kind = "foreign" /\ Payload(h) = 0 ELSE Payload(h) = h.len
  BY <1>4, Bounds DEF Payload, VerdictOn, Verdict, Ours
<1>6. /\ sv' \in Serv /\ sv'.at = "payload" /\ sv'.client = c /\ sv'.left = Payload(h)
      /\ sv'.verdict = VerdictOn(h)
  <2>1. sv' = [sv EXCEPT !.at = "payload", !.left = Payload(h), !.verdict = VerdictOn(h)]
    BY <1>0, <1>2 DEF ReadHeader
  <2> QED
    BY <1>1, <1>5, <2>1 DEF Serv
<1>7. TypeOK'
  BY <1>1, <1>2, <1>6 DEF TypeOK, Serv, Unit
<1>8. /\ Answered(c) < Asked(c) /\ Len(up[c]) - 1 <= h.len
      /\ h.kind = "foreign" => cl[c].alien
      /\ ~Gone(c) => cl[c].at \in {"pixels", "await"} /\ Len(up[c]) - 1 + Sending(c) = h.len
      /\ \A i \in 2 .. Len(up[c]) : up[c][i] = Pixels
  BY <1>0, <1>1, <1>2, <1>3 DEF Request
<1>9. /\ (Gone(c)' <=> Gone(c)) /\ ~Cut(c)' /\ ~Waits(c)' /\ ~Contains(backlog, c)'
      /\ Asked(c)' = Asked(c) /\ Answered(c)' = Answered(c) /\ Sending(c)' = Sending(c)
      /\ Pending(c) = 0 /\ Pending(c)' = 0
  BY <1>1, <1>6 DEF Gone, Cut, Waits, Asked, Answered, Sending, Pending
<1>10. Placed(c)'
  BY <1>1, <1>9 DEF Kept, Placed
<1>11. Framed(c)'
  <2>1. ASSUME VerdictOn(h) # "BAD_MAGIC" PROVE Payloads(c)'
    <3>1. \A i \in 1 .. Len(up'[c]) : up'[c][i] = Pixels
      <4>1. ASSUME NEW i \in 1 .. Len(up'[c]) PROVE up'[c][i] = Pixels
        <5>1. i + 1 \in 2 .. Len(up[c]) /\ up'[c][i] = up[c][i + 1]
          <6>1. PICK n \in Nat : n = Len(up[c]) /\ i \in 1 .. n - 1
            BY <1>2
          <6> QED
            BY <1>2, <6>1
        <5> QED
          BY <1>8, <5>1
      <4> QED
        BY <4>1
    <3> QED
      BY <1>2, <1>5, <1>6, <1>8, <1>9, <2>1, <3>1 DEF Payloads
  <2> QED
    BY <1>1, <1>5, <1>6, <1>8, <1>9, <2>1 DEF Framed
<1>12. Told(c)'
  <2>1. Asked(c) \in Nat /\ Answered(c) \in Nat
    BY <1>1, Typed DEF Asked, Answered
  <2>2. cl[c].at \notin {"header", "body"}
    BY <1>8 DEF Gone
  <2> QED
    BY <1>1, <1>6, <1>8, <1>9, <2>1, <2>2 DEF Kept, Told
<1>13. OthersKeep(c)
  BY <1>1, <1>2 DEF OthersKeep
<1> QED
  BY <1>1, <1>5, <1>6, <1>7, <1>10, <1>11, <1>12, <1>13, ServerFrame DEF Kept, Serves

LEMMA ReadPixelsKeeps == ASSUME SInv, ReadPixels PROVE SInv'
<1>0. PICK c \in Client : c = sv.client
  BY Attended DEF ReadPixels
<1>1. /\ c = sv.client /\ sv.at = "payload" /\ Serves(c) /\ Kept(c) /\ ~Contains(backlog, c)
      /\ ~Cut(c) /\ sv \in Serv /\ TypeOK /\ ServerKept
      /\ up[c] # <<>> /\ up' = [up EXCEPT ![c] = Tail(@)] /\ sv.left > 0
      /\ sv' = [sv EXCEPT !.left = @ - 1]
      /\ UNCHANGED <<cl, down, backlog, stop, answers, heard, late>>
  BY <1>0, Attended DEF ReadPixels
<1>2. /\ up' \in [Client -> Seq(Unit)] /\ Len(up[c]) \in Nat \ {0}
      /\ Len(up'[c]) = Len(up[c]) - 1
      /\ \A i \in 1 .. Len(up'[c]) : up'[c][i] = up[c][i + 1]
      /\ \A d \in Client : d # c => up'[d] = up[d]
      /\ \A d \in Client : Len(up'[d]) <= Cap
  BY <1>1, Read
<1>3. PICK left \in 1 .. MaxLen : left = sv.left
  BY <1>1, Bounds DEF Serv
<1>4. /\ sv' \in Serv /\ sv'.at = "payload" /\ sv'.client = c /\ sv'.left = left - 1
      /\ sv'.verdict = sv.verdict
  <2>1. left - 1 \in 0 .. MaxLen /\ sv' = [sv EXCEPT !.left = left - 1]
    BY <1>1, <1>3, Bounds
  <2> QED
    BY <1>1, <2>1 DEF Serv
<1>5. TypeOK'
  BY <1>1, <1>2, <1>4 DEF TypeOK, Serv, Unit
<1>6. /\ Payloads(c) /\ sv.verdict # "BAD_MAGIC"
      /\ Answered(c) < Asked(c) /\ (~Gone(c) => cl[c].at \in {"pixels", "await"})
  BY <1>1 DEF Kept, Framed, ServerKept
<1>7. /\ (Gone(c)' <=> Gone(c)) /\ ~Cut(c)' /\ ~Waits(c)' /\ ~Contains(backlog, c)'
      /\ Asked(c)' = Asked(c) /\ Answered(c)' = Answered(c) /\ Sending(c)' = Sending(c)
      /\ Pending(c) = 0 /\ Pending(c)' = 0
  BY <1>1, <1>4 DEF Gone, Cut, Waits, Asked, Answered, Sending, Pending
<1>8. Placed(c)'
  BY <1>1, <1>7 DEF Kept, Placed
<1>9. Framed(c)'
  <2>1. Payloads(c)'
    <3>1. \A i \in 1 .. Len(up'[c]) : up'[c][i] = Pixels
      <4>1. ASSUME NEW i \in 1 .. Len(up'[c]) PROVE up'[c][i] = Pixels
        <5>1. i + 1 \in 1 .. Len(up[c]) /\ up'[c][i] = up[c][i + 1]
          <6>1. PICK n \in Nat : n = Len(up[c]) /\ i \in 1 .. n - 1
            BY <1>2
          <6> QED
            BY <1>2, <6>1
        <5> QED
          BY <1>6, <5>1 DEF Payloads
      <4> QED
        BY <4>1
    <3>2. PICK n \in Nat : n = Len(up[c]) /\ Len(up'[c]) = n - 1
      BY <1>2
    <3>3. n <= left /\ (~Gone(c) => n + Sending(c) = left)
      BY <1>3, <1>6, <3>2 DEF Payloads
    <3>4. Sending(c) \in Nat
      BY <1>1, Typed, Bounds DEF Sending
    <3> QED
      BY <1>4, <1>7, <3>1, <3>2, <3>3, <3>4 DEF Payloads
  <2> QED
    BY <1>1, <1>4, <1>6, <1>7, <2>1 DEF Framed
<1>10. Told(c)'
  <2>1. Asked(c) \in Nat /\ Answered(c) \in Nat
    BY <1>1, Typed DEF Asked, Answered
  <2>2. cl[c].at \notin {"header", "body"}
    BY <1>6 DEF Gone
  <2> QED
    BY <1>1, <1>4, <1>6, <1>7, <2>1, <2>2 DEF Kept, Told
<1>11. OthersKeep(c)
  BY <1>1, <1>2 DEF OthersKeep
<1> QED
  BY <1>1, <1>4, <1>5, <1>6, <1>8, <1>9, <1>10, <1>11, ServerFrame DEF Kept, Serves

\* A request is decided once its payload is read, or never will be.
LEMMA DecideKeeps == ASSUME SInv, Decide PROVE SInv'
<1>0. PICK c \in Client : c = sv.client
  BY Attended DEF Decide
<1>1. /\ c = sv.client /\ sv.at = "payload" /\ Serves(c) /\ Kept(c) /\ ~Contains(backlog, c)
      /\ ~Cut(c) /\ sv \in Serv /\ TypeOK /\ ServerKept /\ sv.left = 0
      /\ UNCHANGED <<cl, up, down, backlog, stop, heard, late>>
  BY <1>0, Attended DEF Decide
<1>2. PICK status \in Status, left \in 0 .. MaxLen :
          /\ answers' = [answers EXCEPT ![c] = Append(@, status)]
          /\ sv' = [sv EXCEPT !.at = "reply", !.status = status, !.left = left]
          /\ status = "BAD_MAGIC" <=> sv.verdict = "BAD_MAGIC"
          /\ sv.verdict = "BAD_MAGIC" => left = 0
  <2>1. PICK o \in IF sv.verdict = "OK" THEN Outcome ELSE {<<sv.verdict, 0>>} :
            /\ answers' = [answers EXCEPT ![c] = Append(@, o[1])]
            /\ sv' = [sv EXCEPT !.at = "reply", !.status = o[1], !.left = o[2]]
    BY <1>0 DEF Decide
  <2>2. sv.verdict \in {"OK", "REFUSED", "BAD_MAGIC"}
    BY <1>1 DEF Serv, Verdict
  <2>3. CASE sv.verdict = "OK"
    <3>1. o[1] \in {"OK", "HW"} /\ o[2] \in 0 .. MaxLen
      BY <2>1, <2>3, Bounds DEF Outcome
    <3> QED
      BY <2>1, <2>3, <3>1 DEF Status
  <2>4. CASE sv.verdict # "OK"
    <3>1. o[1] = sv.verdict /\ o[2] = 0
      BY <2>1, <2>4
    <3>2. o[1] \in Status /\ o[2] \in 0 .. MaxLen
      BY <2>2, <3>1, Bounds DEF Status
    <3>3. o[1] = "BAD_MAGIC" <=> sv.verdict = "BAD_MAGIC"
      BY <3>1
    <3> QED
      BY <2>1, <3>1, <3>2, <3>3
  <2> QED
    BY <2>3, <2>4
<1>3. /\ sv' \in Serv /\ sv'.at = "reply" /\ sv'.client = c /\ sv'.left = left
      /\ sv'.verdict = sv.verdict /\ sv'.status = status
  BY <1>1, <1>2 DEF Serv
<1>4. /\ answers' \in [Client -> Seq(Status)] /\ Len(answers'[c]) = Len(answers[c]) + 1
      /\ answers'[c][Len(answers[c]) + 1] = status
      /\ \A d \in Client : d # c => answers'[d] = answers[d]
      /\ Len(answers[c]) \in Nat
  <2>1. PICK q : q = Append(answers[c], status)
    OBVIOUS
  <2>2. /\ q \in Seq(Status) /\ Len(q) = Len(answers[c]) + 1 /\ q[Len(answers[c]) + 1] = status
        /\ Len(answers[c]) \in Nat
    BY <1>1, <2>1, AppendSeq, Typed
  <2>3. answers \in [Client -> Seq(Status)] /\ answers' = [answers EXCEPT ![c] = q]
    BY <1>1, <1>2, <2>1 DEF TypeOK
  <2> QED
    BY <2>2, <2>3, Updated
<1>5. TypeOK'
  BY <1>1, <1>3, <1>4 DEF TypeOK, Serv
<1>6. /\ (Gone(c)' <=> Gone(c)) /\ ~Cut(c)' /\ ~Waits(c)' /\ ~Contains(backlog, c)'
      /\ Asked(c)' = Asked(c) /\ Answered(c)' = Answered(c) + 1
      /\ Pending(c) = 0 /\ Pending(c)' = 0
      /\ Asked(c) \in Nat /\ Answered(c) \in Nat
  BY <1>1, <1>3, <1>4, Typed DEF Gone, Cut, Waits, Asked, Answered, Pending
<1>7. ASSUME ~Gone(c)
      PROVE  /\ cl[c].at \in {"pixels", "await"} /\ down[c] = <<>>
             /\ Asked(c) = Len(heard[c]) + 1 /\ Answered(c)' = Asked(c)
  <2>1. cl[c].at \in {"pixels", "await"} /\ Answered(c) < Asked(c)
    BY <1>1, <1>7 DEF Kept, Framed
  <2>2. /\ Asked(c) = Len(heard[c]) + 1 /\ Answered(c) \in {Len(heard[c]), Asked(c)}
        /\ down[c] # <<>> => Answered(c) = Asked(c)
    BY <1>1, <2>1 DEF Kept, Told
  <2> QED
    BY <1>6, <2>1, <2>2
<1>8. sv.verdict # "BAD_MAGIC" => up[c] = <<>> /\ cl[c].at # "pixels"
  <2>1. ASSUME sv.verdict # "BAD_MAGIC"
        PROVE  Len(up[c]) <= 0 /\ (~Gone(c) => Len(up[c]) + Sending(c) = 0)
    BY <1>1, <2>1 DEF Kept, Framed, Payloads
  <2>2. Len(up[c]) \in Nat /\ (up[c] = <<>> <=> Len(up[c]) = 0)
    BY <1>1, Typed, EmptySeq
  <2>3. cl[c].at = "pixels" => ~Gone(c) /\ Sending(c) > 0 /\ Sending(c) \in Nat
    BY <1>1, Typed, Bounds DEF Kept, Placed, Gone, Sending
  <2> QED
    BY <2>1, <2>2, <2>3
<1>9. Placed(c)'
  BY <1>1, <1>6 DEF Kept, Placed
<1>10. Framed(c)'
  BY <1>1, <1>3, <1>6, <1>8 DEF Kept, Framed
<1>11. Told(c)'
  <2>1. Gone(c) => cl[c].at \notin {"header", "pixels", "await", "body"}
    BY DEF Gone
  <2>2. ASSUME ~Gone(c) PROVE answers'[c][Asked(c)] = status
    BY <1>4, <1>6, <1>7, <2>2 DEF Answered
  <2> QED
    BY <1>1, <1>3, <1>6, <1>7, <2>1, <2>2 DEF Told
<1>12. OthersKeep(c)
  BY <1>1, <1>4 DEF OthersKeep
<1> QED
  BY <1>1, <1>2, <1>3, <1>5, <1>9, <1>10, <1>11, <1>12, ServerFrame DEF Kept, Serves

\* What is written reaches the end of what the client has yet to hear, or nobody.
LEMMA WriteIs ==
    ASSUME TypeOK, NEW c \in Client, NEW unit \in Reply, Written(c, unit)
    PROVE  /\ down' \in [Client -> Seq(Reply)] /\ Len(down[c]) \in Nat
           /\ Gone(c) => down' = down
           /\ ~Gone(c) => /\ Len(down'[c]) = Len(down[c]) + 1
                          /\ down'[c] # <<>> /\ down'[c][Len(down[c]) + 1] = unit
                          /\ \A i \in 1 .. Len(down[c]) : down'[c][i] = down[c][i]
           /\ \A d \in Client : d # c => down'[d] = down[d]
           /\ \A d \in Client : Len(down'[d]) <= Cap
<1>1. /\ down[c] \in Seq(Reply) /\ down \in [Client -> Seq(Reply)] /\ Len(down[c]) \in Nat
      /\ \A d \in Client : Len(down[d]) <= Cap
  BY Typed
<1>2. CASE Gone(c)
  BY <1>1, <1>2 DEF Written
<1>3. CASE ~Gone(c)
  <2>1. Len(down[c]) < Cap /\ down' = [down EXCEPT ![c] = Append(@, unit)]
    BY <1>3 DEF Written, Room
  <2>2. PICK q : q = Append(down[c], unit)
    OBVIOUS
  <2>3. /\ q \in Seq(Reply) /\ Len(q) = Len(down[c]) + 1 /\ q # <<>> /\ q[Len(down[c]) + 1] = unit
        /\ \A i \in 1 .. Len(down[c]) : q[i] = down[c][i]
    BY <1>1, <2>2, AppendSeq
  <2>4. down' = [down EXCEPT ![c] = q]
    BY <2>1, <2>2
  <2>5. /\ down' \in [Client -> Seq(Reply)] /\ down'[c] = q
        /\ \A d \in Client : d # c => down'[d] = down[d]
    BY <1>1, <2>3, <2>4, Updated
  <2>6. ASSUME NEW d \in Client PROVE Len(down'[d]) <= Cap
    BY <1>1, <2>1, <2>3, <2>5, Bounds
  <2> QED
    BY <1>1, <1>3, <2>3, <2>5, <2>6
<1> QED
  BY <1>2, <1>3

LEMMA SendReplyKeeps == ASSUME SInv, SendReply PROVE SInv'
<1>0. PICK c \in Client : c = sv.client
  BY Attended DEF SendReply
<1>1. /\ c = sv.client /\ sv.at = "reply" /\ Serves(c) /\ Kept(c) /\ ~Contains(backlog, c)
      /\ ~Cut(c) /\ sv \in Serv /\ TypeOK /\ ServerKept
      /\ Written(c, [status |-> sv.status, len |-> sv.left])
      /\ UNCHANGED <<cl, up, backlog, stop, answers, heard, late>>
  BY <1>0, Attended DEF SendReply
<1>2. PICK unit \in Reply : unit.status = sv.status /\ unit.len = sv.left /\ Written(c, unit)
  <2>1. sv.status \in Status /\ sv.left \in 0 .. MaxLen
    BY <1>1 DEF Serv
  <2>2. [status |-> sv.status, len |-> sv.left] \in Reply
    BY <2>1 DEF Reply
  <2> QED
    BY <1>1, <2>2
<1>3. /\ down' \in [Client -> Seq(Reply)] /\ Len(down[c]) \in Nat
      /\ Gone(c) => down' = down
      /\ ~Gone(c) => /\ Len(down'[c]) = Len(down[c]) + 1
                     /\ down'[c] # <<>> /\ down'[c][Len(down[c]) + 1] = unit
                     /\ \A i \in 1 .. Len(down[c]) : down'[c][i] = down[c][i]
      /\ \A d \in Client : d # c => down'[d] = down[d]
      /\ \A d \in Client : Len(down'[d]) <= Cap
  BY <1>1, <1>2, WriteIs
<1>4. PICK at \in {"body", "close", "header"} :
          /\ sv' = [sv EXCEPT !.at = at]
          /\ at = "body" <=> sv.left > 0
          /\ at = "close" <=> sv.left = 0 /\ sv.verdict = "BAD_MAGIC"
          /\ at = "body" => sv.verdict # "BAD_MAGIC"
  <2>1. sv' = [sv EXCEPT !.at = IF sv.left > 0 THEN "body"
                               ELSE IF sv.status = "BAD_MAGIC" THEN "close" ELSE "header"]
    BY DEF SendReply
  <2>2. (sv.status = "BAD_MAGIC" <=> sv.verdict = "BAD_MAGIC") /\ (sv.verdict = "BAD_MAGIC" => sv.left = 0)
        /\ sv.left \in Nat
    BY <1>1, Bounds DEF ServerKept, Serv
  <2> QED
    BY <2>1, <2>2
<1>5. /\ sv' \in Serv /\ sv'.at = at /\ sv'.client = c /\ sv'.left = sv.left
      /\ sv'.verdict = sv.verdict /\ sv'.status = sv.status
  BY <1>1, <1>4 DEF Serv
<1>6. TypeOK'
  BY <1>1, <1>3, <1>5 DEF TypeOK, Serv, Reply
<1>7. /\ (Gone(c)' <=> Gone(c)) /\ ~Cut(c)' /\ (Waits(c)' <=> at = "header") /\ ~Contains(backlog, c)'
      /\ Asked(c)' = Asked(c) /\ Answered(c)' = Answered(c)
      /\ Pending(c)' = sv.left /\ (InReply(c)' <=> at \in {"header", "body"})
      /\ sv.left \in Nat
  <2>1. sv.left \in Nat
    BY <1>1, Bounds DEF Serv
  <2> QED
    BY <1>1, <1>4, <1>5, <2>1 DEF Gone, Cut, Waits, Asked, Answered, Pending, InReply
<1>8. /\ (sv.verdict # "BAD_MAGIC" => up[c] = <<>> /\ cl[c].at # "pixels")
      /\ (sv.verdict = "BAD_MAGIC" => cl[c].alien)
  BY <1>1 DEF Kept, Framed
<1>9. ASSUME ~Gone(c)
      PROVE  /\ cl[c].at \in {"pixels", "await"} /\ down[c] = <<>>
             /\ Answered(c) = Asked(c) /\ sv.status = answers[c][Asked(c)]
             /\ Asked(c) = Len(heard[c]) + 1
  BY <1>1, <1>9 DEF Kept, Told
<1>10. ASSUME ~Gone(c) PROVE Len(down'[c]) = 1 /\ down'[c][1] = unit
  <2>1. Len(down[c]) = 0
    BY <1>9, <1>10, EmptySeq
  <2>2. Len(down'[c]) = Len(down[c]) + 1 /\ down'[c][Len(down[c]) + 1] = unit
    BY <1>3, <1>10
  <2> QED
    BY <2>1, <2>2
<1>11. Placed(c)'
  BY <1>1, <1>7 DEF Kept, Placed
<1>12. Framed(c)'
  <2>1. ASSUME at = "header" PROVE Request(c)'
    <3>1. up'[c] = <<>> /\ cl'[c].at # "pixels" /\ Len(<<>>) = 0
      BY <1>1, <1>4, <1>7, <1>8, <2>1, EmptySeq
    <3> QED
      BY <3>1 DEF Request
  <2> QED
    BY <1>1, <1>4, <1>5, <1>7, <1>8, <2>1 DEF Framed
<1>13. Told(c)'
  <2>1. Gone(c) => cl[c].at \notin {"header", "pixels", "await", "body"}
    BY DEF Gone
  <2>2. ASSUME ~Gone(c)
        PROVE  /\ AllData(c, 2)' /\ down'[c][1].status = sv.status
               /\ down'[c][1].len = Len(down'[c]) - 1 + Pending(c)'
               /\ down'[c][1].len > 0 => InReply(c)'
    <3>1. AllData(c, 2)'
      BY <1>10, <2>2 DEF AllData
    <3>2. Len(down'[c]) = 1 /\ down'[c][1] = unit
      BY <1>10, <2>2
    <3>3. sv.left = 1 - 1 + sv.left
      BY <1>7
    <3> QED
      BY <1>2, <1>4, <1>7, <3>1, <3>2, <3>3
  <2>3. ASSUME ~Gone(c), at = "body" PROVE cl[c].at = "await" /\ down'[c] # <<>>
    BY <1>3, <1>4, <1>8, <1>9, <2>3
  <2> QED
    BY <1>1, <1>5, <1>7, <1>9, <2>1, <2>2, <2>3 DEF Told
<1>14. OthersKeep(c)
  BY <1>1, <1>3 DEF OthersKeep
<1>15. /\ Serves(c)' /\ (at = "body" => sv'.left > 0) /\ (at = "close" => sv'.verdict = "BAD_MAGIC")
       /\ sv'.verdict = "BAD_MAGIC" => at = "close"
  <2>1. sv.verdict = "BAD_MAGIC" => sv.left = 0
    BY <1>1 DEF ServerKept
  <2> QED
    BY <1>4, <1>5, <2>1 DEF Serves
<1> QED
  BY <1>1, <1>5, <1>6, <1>11, <1>12, <1>13, <1>14, <1>15, ServerFrame DEF Kept

LEMMA SendBodyKeeps == ASSUME SInv, SendBody PROVE SInv'
<1>0. PICK c \in Client : c = sv.client
  BY Attended DEF SendBody
<1>1. /\ c = sv.client /\ sv.at = "body" /\ Serves(c) /\ Kept(c) /\ ~Contains(backlog, c)
      /\ ~Cut(c) /\ sv \in Serv /\ TypeOK /\ ServerKept
      /\ Written(c, Data)
      /\ UNCHANGED <<cl, up, backlog, stop, answers, heard, late>>
  BY <1>0, Attended DEF SendBody
<1>2. /\ down' \in [Client -> Seq(Reply)] /\ Len(down[c]) \in Nat
      /\ Gone(c) => down' = down
      /\ ~Gone(c) => /\ Len(down'[c]) = Len(down[c]) + 1
                     /\ down'[c] # <<>> /\ down'[c][Len(down[c]) + 1] = Data
                     /\ \A i \in 1 .. Len(down[c]) : down'[c][i] = down[c][i]
      /\ \A d \in Client : d # c => down'[d] = down[d]
      /\ \A d \in Client : Len(down'[d]) <= Cap
  <2>1. Data \in Reply
    BY Bounds DEF Data, Reply
  <2> HIDE DEF Data
  <2> QED
    BY <1>1, <2>1, WriteIs
<1>3. PICK left \in 1 .. MaxLen : left = sv.left
  BY <1>1, Bounds DEF ServerKept, Serv
<1>4. PICK at \in {"header", "body"} : at = IF left = 1 THEN "header" ELSE "body"
  OBVIOUS
<1>5. /\ sv' \in Serv /\ sv'.at = at /\ sv'.client = c /\ sv'.left = left - 1
      /\ sv'.verdict = sv.verdict
  <2>1. left - 1 \in 0 .. MaxLen /\ sv' = [sv EXCEPT !.at = at, !.left = left - 1]
    BY <1>3, <1>4, Bounds DEF SendBody
  <2> QED
    BY <1>1, <2>1 DEF Serv
<1>6. TypeOK'
  BY <1>1, <1>2, <1>5 DEF TypeOK, Serv, Reply
<1>7. /\ (Gone(c)' <=> Gone(c)) /\ ~Cut(c)' /\ (Waits(c)' <=> at = "header") /\ ~Contains(backlog, c)'
      /\ Asked(c)' = Asked(c) /\ Answered(c)' = Answered(c)
      /\ Pending(c) = left /\ Pending(c)' = left - 1 /\ InReply(c)'
  BY <1>1, <1>3, <1>4, <1>5 DEF Gone, Cut, Waits, Asked, Answered, Pending, InReply
<1>8. sv.verdict # "BAD_MAGIC" /\ up[c] = <<>> /\ cl[c].at # "pixels"
  BY <1>1 DEF Kept, Framed, ServerKept
<1>9. Placed(c)'
  BY <1>1, <1>7 DEF Kept, Placed
<1>10. Framed(c)'
  <2>1. ASSUME at = "header" PROVE Request(c)'
    <3>1. up'[c] = <<>> /\ cl'[c].at # "pixels" /\ Len(<<>>) = 0
      BY <1>1, <1>8, EmptySeq
    <3> QED
      BY <3>1 DEF Request
  <2> QED
    BY <1>1, <1>4, <1>5, <1>7, <1>8, <2>1 DEF Framed
<1>11. ASSUME ~Gone(c)
       PROVE  /\ cl[c].at \in {"await", "body"}
              /\ \A from \in {1, 2} : AllData(c, from) => AllData(c, from)'
              /\ down'[c] # <<>>
  <2>1. cl[c].at \in {"await", "body"}
    BY <1>1, <1>11 DEF Kept, Told
  <2>2. ASSUME NEW from \in {1, 2}, AllData(c, from) PROVE AllData(c, from)'
    BY <1>2, <1>11, <2>2 DEF AllData
  <2> QED
    BY <1>2, <1>11, <2>1, <2>2
<1>12. ASSUME cl[c].at = "await"
       PROVE  /\ Asked(c) = Len(heard[c]) + 1 /\ Answered(c) = Asked(c)
              /\ down'[c][1].status = answers[c][Asked(c)] /\ AllData(c, 2)'
              /\ down'[c][1].len = Len(down'[c]) - 1 + (left - 1)
  <2>1. ~Gone(c)
    BY <1>12 DEF Gone
  <2>2. down[c] # <<>>
    BY <1>1, <1>12, <2>1 DEF Kept, Told
  <2>3. /\ Asked(c) = Len(heard[c]) + 1 /\ Answered(c) = Asked(c)
        /\ down[c][1].status = answers[c][Asked(c)] /\ AllData(c, 2)
        /\ down[c][1].len = Len(down[c]) - 1 + left
    BY <1>1, <1>7, <1>12, <2>2 DEF Kept, Told
  <2>4. Len(down[c]) # 0
    BY <1>1, <2>2, Typed, EmptySeq
  <2>5. down'[c][1] = down[c][1] /\ Len(down'[c]) = Len(down[c]) + 1
    BY <1>2, <2>1, <2>4
  <2>6. Len(down[c]) - 1 + left = Len(down'[c]) - 1 + (left - 1)
    BY <1>2, <2>5
  <2> QED
    BY <1>11, <2>1, <2>3, <2>5, <2>6
<1>13. ASSUME cl[c].at = "body"
       PROVE  /\ Len(heard[c]) = Asked(c) /\ Answered(c) = Asked(c) /\ AllData(c, 1)'
              /\ cl[c].left = Len(down'[c]) + (left - 1)
  <2>1. ~Gone(c)
    BY <1>13 DEF Gone
  <2>2. /\ Len(heard[c]) = Asked(c) /\ Answered(c) = Asked(c) /\ AllData(c, 1)
        /\ cl[c].left = Len(down[c]) + left
    BY <1>1, <1>7, <1>13 DEF Kept, Told
  <2>3. Len(down[c]) + left = Len(down'[c]) + (left - 1)
    BY <1>2, <2>1
  <2> QED
    BY <1>11, <2>1, <2>2, <2>3
<1>14. Told(c)'
  <2>1. Gone(c) => cl[c].at \notin {"header", "pixels", "await", "body"}
    BY DEF Gone
  <2> QED
    BY <1>1, <1>5, <1>7, <1>11, <1>12, <1>13, <2>1 DEF Told
<1>15. OthersKeep(c)
  BY <1>1, <1>2 DEF OthersKeep
<1>16. Serves(c)' /\ (at = "body" => sv'.left > 0)
  BY <1>3, <1>4, <1>5 DEF Serves
<1> QED
  BY <1>1, <1>5, <1>6, <1>8, <1>9, <1>10, <1>14, <1>15, <1>16, ServerFrame DEF Kept

\* A connection ends with its client, or after a header of another protocol.
LEMMA CloseKeeps == ASSUME SInv, Close PROVE SInv'
<1>0. PICK c \in Client : c = sv.client
  BY Attended DEF Close
<1>1. /\ c = sv.client /\ sv.at \in {"header", "payload", "reply", "body", "close"}
      /\ (Gone(c) \/ sv.at = "close")
      /\ Serves(c) /\ Kept(c) /\ ~Contains(backlog, c)
      /\ ~Cut(c) /\ sv \in Serv /\ TypeOK /\ ServerKept
      /\ sv' = Idle("test") /\ up' = [up EXCEPT ![c] = <<>>]
      /\ down' \in {down, [down EXCEPT ![c] = <<>>]}
      /\ UNCHANGED <<cl, backlog, stop, answers, heard, late>>
  BY <1>0, Attended DEF Close, Closed
<1>2. /\ up' \in [Client -> Seq(Unit)] /\ up'[c] = <<>>
      /\ \A d \in Client : d # c => up'[d] = up[d]
  <2>1. up \in [Client -> Seq(Unit)] /\ <<>> \in Seq(Unit)
    BY <1>1, Typed, EmptySeq
  <2> QED
    BY <1>1, <2>1, Updated
<1>3. /\ down' \in [Client -> Seq(Reply)] /\ (down'[c] = <<>> \/ down'[c] = down[c])
      /\ \A d \in Client : d # c => down'[d] = down[d]
  <2>1. down \in [Client -> Seq(Reply)] /\ <<>> \in Seq(Reply)
    BY <1>1, Typed, EmptySeq
  <2>2. CASE down' = down
    BY <2>1, <2>2
  <2>3. CASE down' = [down EXCEPT ![c] = <<>>]
    BY <2>1, <2>3, Updated
  <2> QED
    BY <1>1, <2>2, <2>3
<1>4. TypeOK'
  <2>1. ASSUME NEW d \in Client PROVE Len(up'[d]) <= Cap /\ Len(down'[d]) <= Cap
    <3>1. Len(up[d]) <= Cap /\ Len(down[d]) <= Cap
      BY <1>1, Typed
    <3>2. Len(<<>>) <= Cap
      BY EmptySeq, Bounds
    <3> QED
      BY <1>2, <1>3, <3>1, <3>2
  <2>2. sv' \in Serv
    BY <1>1, Bounds DEF Idle, Serv, Verdict, Status
  <2> QED
    BY <1>1, <1>2, <1>3, <2>1, <2>2 DEF TypeOK, Serv, Unit, Reply
<1>5. /\ (Gone(c)' <=> Gone(c)) /\ Cut(c)' /\ ~Waits(c)' /\ ~Contains(backlog, c)'
      /\ Asked(c)' = Asked(c) /\ Answered(c)' = Answered(c)
      /\ Pending(c)' = 0 /\ sv'.client # c
  BY <1>1, IdleIs, NobodyAssumption DEF Gone, Cut, Waits, Asked, Answered, Pending
<1>6. ASSUME ~Gone(c) PROVE sv.at = "close" /\ cl[c].alien /\ cl[c].at # "body"
  <2>1. sv.at = "close" /\ sv.verdict = "BAD_MAGIC"
    BY <1>1, <1>6 DEF ServerKept
  <2> QED
    BY <1>1, <2>1 DEF Kept, Framed, Told, InReply
<1>7. Placed(c)'
  <2>1. cl[c].at \notin {"start", "lost"}
    BY <1>1 DEF Kept, Placed
  <2>2. cl[c].at \in {"header", "pixels", "await", "body"} => ~Gone(c)
    BY DEF Gone
  <2>3. cl[c].at \in At
    BY <1>1, Typed
  <2> QED
    BY <1>1, <1>5, <1>6, <2>1, <2>2, <2>3 DEF Kept, Placed, At
<1>8. Framed(c)'
  BY <1>5 DEF Framed
<1>9. Told(c)'
  <2>1. cl[c].at \in {"header", "pixels", "await", "body"} => ~Gone(c)
    BY DEF Gone
  <2>2. ASSUME ~Gone(c) PROVE ~InReply(c) /\ Pending(c) = 0
    BY <1>6, <2>2 DEF InReply, Pending
  <2>3. AllData(c, 2) => AllData(c, 2)'
    BY <1>3, EmptySeq DEF AllData
  <2> QED
    BY <1>1, <1>3, <1>5, <1>6, <2>1, <2>2, <2>3 DEF Kept, Told
<1>10. OthersKeep(c)
  BY <1>1, <1>2, <1>3 DEF OthersKeep
<1> QED
  BY <1>1, <1>4, <1>7, <1>8, <1>9, <1>10, ServerFrame DEF Kept

-----------------------------------------------------------------------------
(* The invariant holds throughout.                                         *)

LEMMA InitKeeps == Init => SInv
<1> SUFFICES ASSUME Init PROVE SInv
  OBVIOUS
<1>1. /\ sv.at = "test" /\ sv.client = Nobody /\ sv.verdict = "OK" /\ sv.left = 0
      /\ backlog = <<>> /\ Len(backlog) = 0 /\ stop = FALSE /\ late = 0
  BY IdleIs, EmptySeq DEF Init
<1>2. ASSUME NEW c \in Client
      PROVE  /\ cl[c].at = "start" /\ cl[c].n = 0 /\ up[c] = <<>> /\ down[c] = <<>>
             /\ answers[c] = <<>> /\ heard[c] = <<>>
  BY DEF Init
<1>3. TypeOK
  <2>1. sv \in Serv
    BY Bounds DEF Init, Idle, Serv, Verdict, Status
  <2>2. /\ up \in [Client -> Seq(Header \cup {Pixels})]
        /\ down \in [Client -> Seq([status : Status \cup {"DATA"}, len : 0 .. MaxLen])]
        /\ answers \in [Client -> Seq(Status)] /\ heard \in [Client -> Seq(Status \cup {"DATA"})]
        /\ backlog \in Seq(Client) /\ Len(backlog) <= Backlog + 1
    BY <1>1, EmptySeq, Bounds DEF Init
  <2>3. \A c \in Client : Len(up[c]) <= Cap /\ Len(down[c]) <= Cap
    BY <1>2, EmptySeq, Bounds
  <2>4. cl \in [Client -> Host]
    BY Bounds DEF Init, Host, At
  <2> QED
    BY <1>1, <2>1, <2>2, <2>3, <2>4 DEF TypeOK, Serv, Host, At
<1>4. ServerKept /\ LateKept
  BY <1>1 DEF ServerKept, LateKept
<1>5. ASSUME NEW c \in Client PROVE Kept(c)
  <2>1. ~Contains(backlog, c) /\ sv.client # c
    BY <1>1, NobodyAssumption DEF Contains
  <2>2. Cut(c) /\ ~Waits(c)
    BY <2>1 DEF Cut, Waits
  <2> QED
    BY <1>2, <2>1, <2>2 DEF Kept, Placed, Framed, Told, Gone
<1> QED
  BY <1>3, <1>4, <1>5 DEF SInv

LEMMA StutterKeeps == ASSUME SInv, UNCHANGED vars PROVE SInv'
<1>1. UNCHANGED <<cl, up, down, backlog, sv, stop, answers, heard, late>>
  BY DEF vars
<1>2. \A d \in Client : Kept(d)'
  BY <1>1, Elsewhere DEF SInv
<1>3. TypeOK' /\ ServerKept' /\ LateKept'
  BY <1>1 DEF SInv, TypeOK, ServerKept, LateKept
<1> QED
  BY <1>2, <1>3 DEF SInv

LEMMA NextKeeps == SInv /\ [Next]_vars => SInv'
<1> SUFFICES ASSUME SInv, [Next]_vars PROVE SInv'
  OBVIOUS
<1>1. CASE Server
  BY <1>1, TestKeeps, BlockKeeps, AcceptKeeps, ReadHeaderKeeps, ReadPixelsKeeps, DecideKeeps,
     SendReplyKeeps, SendBodyKeeps, CloseKeeps DEF Server
<1>2. CASE Signal
  BY <1>2, SignalKeeps
<1>3. ASSUME NEW c \in Client, ClientStep(c) \/ Kill(c) PROVE SInv'
  BY <1>3, ClientKeeps
<1>4. CASE UNCHANGED vars
  BY <1>4, StutterKeeps
<1> QED
  BY <1>1, <1>2, <1>3, <1>4 DEF Next

LEMMA AlwaysSInv == Spec => []SInv
  BY InitKeeps, NextKeeps, PTL DEF Spec

\* The types hold, and the socket queues and the backlog keep to their capacity
\* (ojls_server.c:651-721).
THEOREM QueuesBounded == Spec => []TypeOK
<1>1. SInv => TypeOK
  BY DEF SInv
<1> QED
  BY AlwaysSInv, <1>1, PTL

\* "Discard len payload bytes so the request stream stays in sync after a rejected
\* header" (ojls_server.c:126-127): whatever was refused, failed or decided before,
\* of whatever length, what the server reads as a header is one.
THEOREM StreamInSync == Spec => []InSync
<1>1. ASSUME SInv PROVE InSync
  <2> SUFFICES ASSUME sv.at = "header", up[sv.client] # <<>> PROVE Head(up[sv.client]) # Pixels
    BY DEF InSync
  <2>1. PICK c \in Client : c = sv.client
    BY <1>1, Attended
  <2>2. Request(c) /\ TypeOK
    BY <1>1, <2>1 DEF SInv, Kept, Framed, Waits
  <2>3. up[c] \in Seq(Unit) /\ up[c] # <<>>
    BY <2>1, <2>2, Typed
  <2>4. Head(up[c]) = up[c][1] /\ 1 \in 1 .. Len(up[c])
    BY <2>3, TailSeq
  <2> QED
    BY <2>1, <2>2, <2>4 DEF Request
<1>2. SInv => InSync
  BY <1>1
<1> QED
  BY AlwaysSInv, <1>2, PTL

\* serve_connection ends only with its client or with another protocol's header
\* (ojls_server.c:504-617), and the accept loop stops between connections.
THEOREM LostOnlyToStop == Spec => []LostUnserved
<1>1. SInv => LostUnserved
  BY DEF SInv, Kept, Placed, LostUnserved
<1> QED
  BY AlwaysSInv, <1>1, PTL

\* The loop tests g_stop before it waits and a signal ends the wait
\* (ojls_server.c:703-711).
THEOREM OneLateAccept == Spec => []AtMostOneMore
<1>1. SInv => AtMostOneMore
  BY DEF SInv, LateKept, AtMostOneMore
<1> QED
  BY AlwaysSInv, <1>1, PTL

-----------------------------------------------------------------------------
(* The session keeps the promise of Service.                               *)

\* What the abstract service sees of a session.
Asks == [c \in Client |-> cl[c].n]

Stutters == sv'.client = sv.client /\ Asks' = Asks /\ UNCHANGED <<answers, heard>>

LEMMA StutterRefines == ASSUME Stutters PROVE [Promise!Next]_(Promise!serviceVars)
  BY DEF Stutters, Asks, Promise!serviceVars

LEMMA MoveRefines ==
    ASSUME TypeOK, NEW c \in Client, NEW at, NEW left, Client_(c, at, left)
    PROVE  Asks' = Asks
<1>1. cl \in [Client -> Host] /\ cl[c] \in Host
  BY Typed
<1>2. cl' = [cl EXCEPT ![c] = [cl[c] EXCEPT !.at = at, !.left = left]]
  <2>1. [cl EXCEPT ![c].at = at, ![c].left = left] = [cl EXCEPT ![c] = [cl[c] EXCEPT !.at = at, !.left = left]]
    BY <1>1
  <2> QED
    BY <2>1 DEF Client_
<1>3. [cl[c] EXCEPT !.at = at, !.left = left].n = cl[c].n
  BY <1>1 DEF Host
<1> QED
  BY <1>1, <1>2, <1>3 DEF Asks

LEMMA SendHeaderRefines == ASSUME SInv, NEW c \in Client, SendHeader(c) PROVE Promise!Ask(c)
<1>1. /\ TypeOK /\ Len(heard[c]) = cl[c].n
      /\ UNCHANGED <<down, backlog, sv, stop, answers, heard, late>>
  BY DEF SInv, SendHeader, Kept, Told, Asked
<1>2. PICK h \in Header :
          cl' = [cl EXCEPT ![c] = [at |-> IF h.len = 0 THEN "await" ELSE "pixels",
                                   n |-> @.n + 1, left |-> h.len,
                                   alien |-> @.alien \/ h.kind = "foreign"]]
  BY DEF SendHeader
<1>3. cl \in [Client -> Host]
  BY <1>1, Typed
<1>4. cl'[c].n = cl[c].n + 1 /\ \A d \in Client : d # c => cl'[d] = cl[d]
  BY <1>2, <1>3
<1>5. Asks' = [Asks EXCEPT ![c] = @ + 1]
  BY <1>4 DEF Asks
<1> QED
  BY <1>1, <1>5 DEF Asks, Promise!Ask

LEMMA HearReplyRefines == ASSUME SInv, NEW c \in Client, HearReply(c) PROVE Promise!Hear(c)
<1>1. /\ TypeOK /\ Kept(c) /\ cl[c].at = "await" /\ down[c] # <<>>
      /\ heard' = [heard EXCEPT ![c] = Append(@, Head(down[c]).status)]
      /\ UNCHANGED <<up, backlog, sv, stop, answers, late>>
  BY DEF SInv, HearReply
<1>2. down[c] \in Seq(Reply) /\ Len(heard[c]) \in Nat
  BY <1>1, Typed
<1>3. Head(down[c]).status = answers[c][Len(heard[c]) + 1] /\ Len(heard[c]) < Len(answers[c])
  BY <1>1, <1>2, TailSeq DEF Kept, Told, Answered, Asked
<1>4. Asks' = Asks
  <2>1. PICK at \in At : Client_(c, at, Head(down[c]).len)
    BY DEF HearReply, At
  <2> QED
    BY <1>1, <2>1, MoveRefines
<1> QED
  BY <1>1, <1>3, <1>4 DEF Asks, Promise!Hear

LEMMA ClientRefines ==
    ASSUME SInv, NEW c \in Client, ClientStep(c) \/ Kill(c)
    PROVE  [Promise!Next]_(Promise!serviceVars)
<1>1. TypeOK
  BY DEF SInv
<1>2. CASE SendHeader(c)
  BY <1>2, SendHeaderRefines DEF Promise!Next
<1>3. CASE HearReply(c)
  BY <1>3, HearReplyRefines DEF Promise!Next
<1>4. CASE Connect(c) \/ SendPixels(c) \/ HearBody(c) \/ Quit(c) \/ Kill(c)
  <2>1. PICK at, left : Client_(c, at, left)
    BY <1>4 DEF Connect, SendPixels, HearBody, Quit, Kill
  <2>2. UNCHANGED <<sv, answers, heard>>
    BY <1>4 DEF Connect, SendPixels, HearBody, Quit, Kill
  <2> QED
    BY <1>1, <2>1, <2>2, MoveRefines, StutterRefines DEF Stutters
<1> QED
  BY <1>2, <1>3, <1>4 DEF ClientStep

LEMMA DecideRefines == ASSUME SInv, Decide PROVE [Promise!Next]_(Promise!serviceVars)
<1>1. PICK c \in Client : c = sv.client
  BY Attended DEF Decide
<1>2. Kept(c) /\ sv \in Serv /\ sv.at = "payload"
  BY <1>1, Attended DEF Decide
<1>3. Len(answers[c]) < cl[c].n
  BY <1>1, <1>2 DEF Kept, Framed, Answered, Asked
<1>4. PICK o \in IF sv.verdict = "OK" THEN Outcome ELSE {<<sv.verdict, 0>>} :
          /\ answers' = [answers EXCEPT ![c] = Append(@, o[1])]
          /\ sv' = [sv EXCEPT !.at = "reply", !.status = o[1], !.left = o[2]]
  BY <1>1 DEF Decide
<1>5. o[1] \in Status
  BY <1>2, <1>4 DEF Outcome, Status, Serv, Verdict
<1>6. sv'.client = sv.client /\ Asks' = Asks /\ heard' = heard
  BY <1>2, <1>4 DEF Decide, Serv, Asks
<1>7. Promise!Answer(c)
  BY <1>1, <1>3, <1>4, <1>5, <1>6 DEF Asks, Promise!Answer
<1> QED
  BY <1>7 DEF Promise!Next

LEMMA ServerRefines == ASSUME SInv, Server \/ Signal PROVE [Promise!Next]_(Promise!serviceVars)
<1>1. sv \in Serv /\ ServerKept /\ backlog \in Seq(Client)
  BY DEF SInv, TypeOK, Serv
<1>2. CASE Accept
  <2>1. sv.client = Nobody /\ Head(backlog) \in Client
    BY <1>1, <1>2, TailSeq DEF Accept, ServerKept
  <2>2. sv'.client = Head(backlog)
    BY <1>2 DEF Accept, Idle
  <2>3. Asks' = Asks /\ UNCHANGED <<answers, heard>>
    BY <1>2 DEF Accept, Asks
  <2>4. Promise!Begin(Head(backlog))
    BY <2>1, <2>2, <2>3 DEF Asks, Promise!Begin
  <2> QED
    BY <2>1, <2>4 DEF Promise!Next
<1>3. CASE Close
  <2>1. sv.client # Nobody /\ sv'.client = Nobody
    BY <1>1, <1>3, IdleIs DEF Close, Closed, ServerKept
  <2>2. Asks' = Asks /\ UNCHANGED <<answers, heard>>
    BY <1>3 DEF Close, Asks
  <2>3. Promise!End
    BY <2>1, <2>2 DEF Asks, Promise!End
  <2> QED
    BY <2>3 DEF Promise!Next
<1>4. CASE Decide
  BY <1>4, DecideRefines
<1>5. CASE Test \/ Block \/ ReadHeader \/ ReadPixels \/ SendReply \/ SendBody
  <2>1. sv'.client = sv.client
    BY <1>1, <1>5 DEF Test, Block, ReadHeader, ReadPixels, SendReply, SendBody, Serv
  <2>2. Asks' = Asks /\ UNCHANGED <<answers, heard>>
    BY <1>5 DEF Test, Block, ReadHeader, ReadPixels, SendReply, SendBody, Asks
  <2> QED
    BY <2>1, <2>2, StutterRefines DEF Stutters
<1>6. CASE Signal
  <2>1. sv'.client = sv.client
    BY <1>1, <1>6, IdleIs DEF Signal, ServerKept
  <2>2. Asks' = Asks /\ UNCHANGED <<answers, heard>>
    BY <1>6 DEF Signal, Asks
  <2> QED
    BY <2>1, <2>2, StutterRefines DEF Stutters
<1> QED
  BY <1>2, <1>3, <1>4, <1>5, <1>6 DEF Server

\* Each client is told what was decided for each of its requests, in order, once, and
\* one client at a time is served (ojls_server.c:504-617, 703-721): the accept loop,
\* serve_connection, its clients and their sockets implement Service.
THEOREM SessionIsService == Spec => IsService
<1>1. Init => Promise!Init
  BY IdleIs DEF Init, Promise!Init
<1>2. ASSUME SInv, [Next]_vars PROVE [Promise!Next]_(Promise!serviceVars)
  <2>1. CASE Server \/ Signal
    BY <1>2, <2>1, ServerRefines
  <2>2. ASSUME NEW c \in Client, ClientStep(c) \/ Kill(c) PROVE [Promise!Next]_(Promise!serviceVars)
    BY <1>2, <2>2, ClientRefines
  <2>3. CASE UNCHANGED vars
    BY <2>3, StutterRefines DEF vars, Stutters, Asks
  <2> QED
    BY <1>2, <2>1, <2>2, <2>3 DEF Next
<1>3. SInv /\ [Next]_vars => [Promise!Next]_(Promise!serviceVars)
  BY <1>2
<1> QED
  BY AlwaysSInv, <1>1, <1>3, PTL DEF Spec, IsService, Promise!Spec
===============================================================================
