----------------------------- MODULE StreamSlice -----------------------------
(***************************************************************************)
(* What an AXI4-Stream register slice promises: a lossless, in-order       *)
(* buffer of at most Depth beats, which its owner may flush.  Beats are    *)
(* numbered in the order the slice accepts them, so that "no beat is lost, *)
(* repeated or overtaken" is that the beats leaving it are consecutive.    *)
(* The ready gate between the encoder and the DMA (ReadyGate) implements   *)
(* this specification with Depth = 1.                                      *)
(***************************************************************************)
EXTENDS Naturals, Sequences

CONSTANT Depth            \* beats the slice can hold, at least one

VARIABLES
    q,                    \* the beats held, oldest first
    accepted,             \* number of beats accepted so far: the next one's number
    due                   \* number of the beat the receiver must see next

sliceVars == <<q, accepted, due>>

Init == q = <<>> /\ accepted = 0 /\ due = 0

\* One clock edge: the receiver may take the oldest beat, the sender may hand
\* one over, and both may happen on the same edge of a full slice.
Transfer(take, put) ==
    LET rest == IF take THEN Tail(q) ELSE q IN
    /\ take => q # <<>> /\ Head(q) = due
    /\ put  => Len(rest) < Depth
    /\ q'        = IF put THEN Append(rest, accepted) ELSE rest
    /\ accepted' = IF put THEN accepted + 1 ELSE accepted
    /\ due'      = IF take THEN due + 1 ELSE due

\* The owner empties the slice, and with it a beat handed over on that edge:
\* the receiver is next due a beat accepted after the flush.
Flush ==
    /\ accepted' \in {accepted, accepted + 1}
    /\ q'   = <<>>
    /\ due' = accepted'

Next == Flush \/ \E take, put \in BOOLEAN : Transfer(take, put)

Spec == Init /\ [][Next]_sliceVars
=============================================================================
