------------------------------- MODULE MCTagger -------------------------------
(* Instances of Tagger for TLC: the constants are model values. *)
EXTENDS Tagger, TLC

Symmetric == Permutations(Slots) \cup Permutations(Users \ Bots) \cup Permutations(Chats)
===============================================================================
