---------------------------- MODULE CircuitBreaker ----------------------------
(***************************************************************************)
(* utils/circuit_breaker.py: the failures of each tool call signature and  *)
(* the cooldown they impose.  The list of failure times is kept as its     *)
(* length, up to the last cooldown, and the age of its last element.       *)
(***************************************************************************)
EXTENDS Integers, Sequences

CONSTANTS
    Signature,    \* a tool and its arguments
    Cooldowns     \* cooldown_sequence

ASSUME CooldownsAssumption ==
    /\ Cooldowns \in Seq(Nat \ {0})
    /\ Len(Cooldowns) >= 2
    /\ \A i \in 1..Len(Cooldowns) : Cooldowns[i] <= Cooldowns[Len(Cooldowns)]

VARIABLES
    failures,     \* number of failures since the last success
    since,        \* time since the last of them
    notified      \* _notified: the signatures on_open was called for

breakerVars == <<failures, since, notified>>

Longest == Cooldowns[Len(Cooldowns)]
Smaller(a, b) == IF a < b THEN a ELSE b

BreakerTypeOK ==
    /\ failures \in [Signature -> 0..Len(Cooldowns)]
    /\ since \in [Signature -> 0..Longest]
    /\ notified \subseteq Signature

BreakerInit ==
    /\ failures = [s \in Signature |-> 0]
    /\ since = [s \in Signature |-> Longest]
    /\ notified = {}

(* should_allow. *)
Allowed(s) == failures[s] = 0 \/ since[s] >= Cooldowns[failures[s]]

(* record_failure; on_open pushes an urgent item for the inner tick once a *)
(* signature has failed twice.                                             *)
RecordFailure(s) ==
    LET n == Smaller(failures[s] + 1, Len(Cooldowns)) IN
    /\ failures' = [failures EXCEPT ![s] = n]
    /\ since' = [since EXCEPT ![s] = 0]
    /\ notified' = IF n >= 2 THEN notified \union {s} ELSE notified

RecordSuccess(s) ==
    /\ failures' = [failures EXCEPT ![s] = 0]
    /\ notified' = notified \ {s}
    /\ UNCHANGED since

(* Time passes. *)
Elapse ==
    /\ \E s \in Signature : since[s] < Longest
    /\ since' = [s \in Signature |-> Smaller(since[s] + 1, Longest)]
    /\ UNCHANGED <<failures, notified>>
=============================================================================
