------------------------------ MODULE Exchange -------------------------------
(***************************************************************************)
(* What the application promises a host, whatever the command: a command   *)
(* is answered at most once, no answer comes without a command, and the    *)
(* device takes no other command before it has answered.  Only losing the  *)
(* link excuses an answer.  A reply of the device is never NoReply.        *)
(***************************************************************************)
CONSTANT NoReply

VARIABLES
    link,    \* "down", "listening" for a command, or "unanswered"
    answer   \* the answer to the last command, NoReply before it comes

Init == link = "down" /\ answer = NoReply

Connect ==
    /\ link = "down"
    /\ link' = "listening"
    /\ answer' = NoReply

Command ==
    /\ link = "listening"
    /\ link' = "unanswered"
    /\ answer' = NoReply

Answer ==
    /\ link = "unanswered"
    /\ link' = "listening"
    /\ answer' # NoReply

Lose ==
    /\ link # "down"
    /\ link' \in {"down", "listening"}
    /\ answer' = NoReply

Next == Connect \/ Command \/ Answer \/ Lose

Spec == Init /\ [][Next]_<<link, answer>>
==============================================================================
