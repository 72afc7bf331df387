--------------------------- MODULE MCTaggerTelegram ---------------------------
(* Instances of TaggerTelegram for TLC: the constants are model values. *)
EXTENDS TaggerTelegram
===============================================================================
