---------------------------- MODULE MemberReader -----------------------------
(***************************************************************************)
(* What the reader of transactions promises, whatever the chunks.  A text  *)
(* that holds is one with all its signs, names of fields and values that   *)
(* fit; more may stand behind its last brace, and names may go on behind   *)
(* those of their fields.  Its members are taken one by one, each once and *)
(* in order, and it is accepted when all have been.  A text that breaks    *)
(* off or breaks a rule is refused, whatever was taken of it before.  And  *)
(* one in which a name only begins that of a field is left open: it is     *)
(* accepted with the member taken for that field, or refused.              *)
(***************************************************************************)
EXTENDS Naturals, Sequences

VARIABLES
    written,   \* what the host wrote: the members, and whether the text holds
    read,      \* the members taken so far
    outcome

Init ==
    /\ written.holds = "no"
    /\ read = << >>
    /\ outcome = "reading"

(* The host begins a text, with any members.                               *)
Begin ==
    /\ written'.holds \in {"yes", "no", "open"}
    /\ read' = << >>
    /\ outcome' = "reading"

Take ==
    /\ outcome = "reading"
    /\ Len(read) < Len(written.members)
    /\ read' = Append(read, written.members[Len(read) + 1])

Accept ==
    /\ outcome = "reading" /\ outcome' = "accepted"
    /\ written.holds # "no"
    /\ read' = written.members
    /\ UNCHANGED written

(* A member may be taken by the very step that ends the text.              *)
TakeMember == Take /\ UNCHANGED <<written, outcome>>
TakeLastMember == Take /\ Accept
End == UNCHANGED read /\ Accept

Refuse ==
    /\ outcome = "reading" /\ outcome' = "refused"
    /\ written.holds # "yes"
    /\ UNCHANGED <<written, read>>

Next == Begin \/ TakeMember \/ TakeLastMember \/ End \/ Refuse
Spec == Init /\ [][Next]_<<written, read, outcome>>
==============================================================================
