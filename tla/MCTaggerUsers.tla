----------------------------- MODULE MCTaggerUsers ----------------------------
(* Instances of TaggerUsers for TLC. *)
EXTENDS TaggerUsers
===============================================================================
