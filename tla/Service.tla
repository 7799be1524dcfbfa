------------------------------- MODULE Service -------------------------------
(***************************************************************************)
(* What the server promises its clients, whatever the connections do: a    *)
(* client's requests are answered in the order it made them, each once and *)
(* by what was decided for it, and one client is served at a time.         *)
(***************************************************************************)
EXTENDS Naturals, Sequences

CONSTANTS
    Client,               \* those who connect
    Status,               \* what a request may be answered with
    Nobody                \* no client is being served

VARIABLES
    served,               \* the client being served, or Nobody
    asked,                \* requests each client has made
    answers,              \* statuses decided for each client's requests, in order
    heard                 \* statuses each client has been told, in order

serviceVars == <<served, asked, answers, heard>>

Init ==
    /\ served = Nobody
    /\ asked   = [c \in Client |-> 0]
    /\ answers = [c \in Client |-> <<>>]
    /\ heard   = [c \in Client |-> <<>>]

Begin(c) ==
    /\ served = Nobody /\ served' = c
    /\ UNCHANGED <<asked, answers, heard>>

End ==
    /\ served # Nobody /\ served' = Nobody
    /\ UNCHANGED <<asked, answers, heard>>

\* A client asks for one thing at a time, whether served yet or not.
Ask(c) ==
    /\ Len(heard[c]) = asked[c]
    /\ asked' = [asked EXCEPT ![c] = @ + 1]
    /\ UNCHANGED <<served, answers, heard>>

Answer(c) ==
    /\ served = c /\ Len(answers[c]) < asked[c]
    /\ \E s \in Status : answers' = [answers EXCEPT ![c] = Append(@, s)]
    /\ UNCHANGED <<served, asked, heard>>

Hear(c) ==
    /\ Len(heard[c]) < Len(answers[c])
    /\ heard' = [heard EXCEPT ![c] = Append(@, answers[c][Len(@) + 1])]
    /\ UNCHANGED <<served, asked, answers>>

Next == End \/ \E c \in Client : Begin(c) \/ Ask(c) \/ Answer(c) \/ Hear(c)

Spec == Init /\ [][Next]_serviceVars
=============================================================================
