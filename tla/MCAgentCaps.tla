------------------------------ MODULE MCAgentCaps ------------------------------
(* Small instances of AgentCaps for TLC. *)
EXTENDS AgentCaps

CONSTANTS s1, s2, a1, a2

TwoOwners == [a \in Agents |-> IF a = a1 THEN s1 ELSE s2]
====
