----------------------------- MODULE MCLinkContext -----------------------------
(* Instances of LinkContext for TLC: two links of one host. *)
EXTENDS LinkContext

CONSTANTS host, chat

MCHostOf == [l \in Links |-> host]
MCBurst == [b \in Budgets |-> 1]
===============================================================================
