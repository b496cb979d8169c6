---------------------------- MODULE OwnerConsent -----------------------------
(***************************************************************************)
(* What the interrupts of the kernel promise the owner: a question gets at *)
(* most one answer, and an action that was held back is tried again at     *)
(* most once for each question the owner said yes to.                      *)
(***************************************************************************)
CONSTANT Question

VARIABLES
    answer,   \* what became of the question: not asked, asked, yes, no, lost
    used      \* the questions whose yes let an action through

consentVars == <<answer, used>>

ConsentInit ==
    /\ answer = [q \in Question |-> "unasked"]
    /\ used = {}

Ask(q) ==
    /\ answer[q] = "unasked"
    /\ answer' = [answer EXCEPT ![q] = "asked"]
    /\ UNCHANGED used

Settle(q) ==
    /\ answer[q] = "asked"
    /\ \E a \in {"yes", "no", "lost"} : answer' = [answer EXCEPT ![q] = a]
    /\ UNCHANGED used

Use(q) ==
    /\ answer[q] = "yes"
    /\ q \notin used
    /\ used' = used \cup {q}
    /\ UNCHANGED answer

ConsentNext == \E q \in Question : Ask(q) \/ Settle(q) \/ Use(q)

ConsentSpec == ConsentInit /\ [][ConsentNext]_consentVars
=============================================================================
