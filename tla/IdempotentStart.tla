-------------------------- MODULE IdempotentStart ---------------------------
(***************************************************************************)
(* What starting a background task promises its callers: an idempotency    *)
(* key is claimed by one task for ever, and whoever starts under that key  *)
(* is handed that task.  TaskSupervisor is shown to implement this.        *)
(***************************************************************************)
EXTENDS Naturals

CONSTANTS Task, Key, KeyOf, NoTask

VARIABLES
    claim,  \* the task an idempotency key stands for
    given   \* the task a start was answered with

claimVars == <<claim, given>>

Init ==
    /\ claim = [k \in Key |-> NoTask]
    /\ given = [t \in Task |-> NoTask]

Claim(t) ==
    /\ claim[KeyOf[t]] = NoTask
    /\ claim' = [claim EXCEPT ![KeyOf[t]] = t]
    /\ UNCHANGED given

Answer(t) ==
    /\ given[t] = NoTask
    /\ claim[KeyOf[t]] # NoTask
    /\ given' = [given EXCEPT ![t] = claim[KeyOf[t]]]
    /\ UNCHANGED claim

Next == \E t \in Task : Claim(t) \/ Answer(t)

Spec == Init /\ [][Next]_claimVars
=============================================================================
