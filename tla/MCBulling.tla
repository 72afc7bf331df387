------------------------------- MODULE MCBulling -------------------------------
(* Instances of Bulling for TLC. *)
EXTENDS Bulling, TLC

Symmetric == Permutations(Messages) \cup Permutations(Chats) \cup Permutations(Users)
===============================================================================
