---------------------------- MODULE MCChatHistory -----------------------------
(* Instances of ChatHistory for TLC: a table that is empty or was left by  *)
(* a version with a longer window.                                         *)
EXTENDS ChatHistory, TLC

CONSTANTS m1, m2

MCMessages == {m1, m2}
MCStored == {<<>>, <<[message |-> m1]>>, <<[message |-> m1], [message |-> m2], [message |-> m2], [message |-> m1]>>}
===============================================================================
