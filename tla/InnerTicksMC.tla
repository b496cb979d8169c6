----------------------------- MODULE InnerTicksMC ----------------------------
(* Small instances of InnerTicks for TLC: the owner's message o, which may *)
(* preempt the turn of u from another chat, and a tick.                    *)
EXTENDS InnerTicks

CONSTANTS o, u, t

Kinds == [e \in Event |-> CASE e = o -> "owner" [] e = u -> "user" [] OTHER -> "tick"]
Chats == [e \in Event |-> IF e = o THEN "desk" ELSE "group"]
Texts == [e \in Event |-> "ordinary"]
=============================================================================
