-------------------------- MODULE TaskSupervisorMC --------------------------
(* Small instances of TaskSupervisor for TLC. *)
EXTENDS TaskSupervisor

CONSTANTS t1, t2, t3, t4, k1, k2, k3, weather

MCClient == Runs \cup Starts \cup Cancels \cup Responds \cup Stops \cup {Boot}

(* t1 and t2 are two starts of the same intent, t3 and t4 are other ones. *)
SharedKey == [t \in Task |-> CASE t = t3 -> k2 [] t = t4 -> k3 [] OTHER -> k1]
OwnKey    == [t \in Task |-> CASE t = t1 -> k1 [] t = t2 -> k2 [] OTHER -> k3]

NoTopics   == [t \in Task |-> NoTopic]
OneTopic   == [t \in Task |-> weather]

SameValue  == [t \in Task |-> "same"]
NoneGiven  == [t \in Task |-> 0]
T2Gives    == [t \in Task |-> IF t = t2 THEN 2 ELSE 0]
NoReplaced == [t \in Task |-> NoTask]
T4Replaces == [t \in Task |-> IF t = t4 THEN t1 ELSE NoTask]

(* ConcurrencyPolicy with numbers that a few tasks can reach. *)
Limits(active, backlog) ==
    [global_max_tasks |-> active, per_owner_max_tasks |-> active,
     per_chat_max_tasks |-> active, per_spec_max_tasks |-> [s \in {"same"} |-> active],
     backlog_max_global |-> backlog, backlog_max_per_owner |-> backlog,
     backlog_max_per_chat |-> backlog]
OneAndOne  == Limits(1, 1)
Roomy      == Limits(3, 3)
=============================================================================
