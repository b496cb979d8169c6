----------------------------- MODULE MainLoopMC -----------------------------
(* Small instances of MainLoop for TLC: the name of an event tells its     *)
(* kind; o1, o2 belong to one chat, u1, u2 to another; o2 asks whether the *)
(* program is still there.                                                 *)
EXTENDS MainLoop

CONSTANTS o1, o2, u1, u2, g, s, z

Kinds == [e \in Event |->
              CASE e \in {o1, o2} -> "owner"
                [] e \in {u1, u2} -> "user"
                [] e = g          -> "tick"
                [] e = s          -> "status"
                [] e = z          -> "shutdown"]
Chats == [e \in Event |-> IF e \in {o1, o2} THEN "desk" ELSE "group"]
Texts == [e \in Event |-> IF e = o2 THEN "probe" ELSE "ordinary"]
=============================================================================
