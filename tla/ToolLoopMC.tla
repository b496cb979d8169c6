----------------------------- MODULE ToolLoopMC ------------------------------
(* Two signatures, of which one delegates, served for a chat and for an    *)
(* inner tick with tighter budgets.                                        *)
EXTENDS ToolLoop

CONSTANTS s1, s2

Waits == <<1, 2>>
RoundsOf == [x \in Surface |-> IF x = "chat" THEN 3 ELSE 2]
BudgetOf == [x \in Surface |-> 2]
BurstOf == [x \in Surface |-> 2]
=============================================================================
