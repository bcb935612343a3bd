--------------------------- MODULE SigningSession ----------------------------
(***************************************************************************)
(* What signing a text in chunks promises.  Chunks open sessions and go on *)
(* with them, and never make a text longer than was announced; the text    *)
(* comes under review when it is complete and not before; no chunk touches *)
(* it there; and the signature released is over exactly that text and its  *)
(* announced length, once, by a decision on its review.                    *)
(***************************************************************************)
EXTENDS Naturals, Sequences

CONSTANTS Byte, Nothing

VARIABLES
    phase,       \* "idle", "open" or "review"
    announced,   \* the length of the text
    received,    \* what has come of it
    released     \* what the signature in the last answer is over, or Nothing

Init == phase = "idle" /\ announced = 0 /\ received = << >> /\ released = Nothing

(* A signature stays with the host until its next command.                 *)
NoneReleased == released' \in {released, Nothing}

Chunk ==
    /\ phase # "review"
    /\ announced' \in Nat /\ received' \in Seq(Byte)
    /\ Len(received') <= announced'
    /\ phase' = "open" \/ (phase' = "review" /\ Len(received') = announced')
    /\ NoneReleased

Close == phase' = "idle" /\ announced' = 0 /\ received' = << >>
Approve ==
    /\ phase = "review"
    /\ released' = [announced |-> announced, text |-> received]
    /\ Close

(* A rejection, a failure, a reset, or a command of another kind.          *)
Abandon == Close /\ NoneReleased

Next == Chunk \/ Approve \/ Abandon
Spec == Init /\ [][Next]_<<phase, announced, received, released>>
==============================================================================
