------------------------- MODULE DurableSchedulerMC --------------------------
(* Small instances of DurableScheduler for TLC: the owner o, the plain     *)
(* reminder r1, repeated as r2, and the agent reminder r3 with its event a.*)
EXTENDS DurableScheduler

CONSTANTS o, a, r1, r2, r3

Kinds == [e \in Event |-> CASE e = o -> "owner" [] e = a -> "user"]
Chats == [e \in Event |-> IF e = o THEN "desk" ELSE "__scheduler__"]
Texts == [e \in Event |-> "ordinary"]

Due == [r \in Reminder |-> IF r = r2 THEN 2 ELSE 1]
Nexts == [r \in Reminder |-> IF r = r1 THEN r2 ELSE Nothing]
Asks == [r \in Reminder |-> IF r = r3 THEN a ELSE Nothing]
=============================================================================
