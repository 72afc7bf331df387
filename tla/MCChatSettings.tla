---------------------------- MODULE MCChatSettings ----------------------------
(* Instances of ChatSettings for TLC: a supergroup and two settings, a     *)
(* number and a chance.                                                    *)
EXTENDS ChatSettings, TLC

CONSTANTS count, chance, here

MCKeyType == count :> "number" @@ chance :> "chance"
OneChat == here :> "supergroup"
Symmetric == Permutations(Goroutines) \cup Permutations(Users)
===============================================================================
