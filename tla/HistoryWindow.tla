---------------------------- MODULE HistoryWindow -----------------------------
(***************************************************************************)
(* What the chat history promises when its store can be read: a window on  *)
(* the latest entries of each chat, to which entries are added in one      *)
(* piece, and a saved copy to which it falls back in a restart.  When the  *)
(* history is read in from the store cannot be seen from outside.          *)
(***************************************************************************)
EXTENDS Sequences, Naturals

CONSTANTS Chats, Entries, WindowSize

VARIABLES
  window,  \* what a reader of each chat gets
  saved    \* what a restart leaves of it

LastOf(s) == IF Len(s) > WindowSize THEN SubSeq(s, Len(s) - WindowSize + 1, Len(s)) ELSE s

(* The copy is replaced by the window, or stays as it was. *)
Record(c, piece) ==
  /\ window' = [window EXCEPT ![c] = LastOf(@ \o piece)]
  /\ saved' \in {saved, [saved EXCEPT ![c] = window'[c]]}

(* One entry, or one after the other. *)
Pieces == {<<e>> : e \in Entries} \cup {<<d, e>> : d, e \in Entries}

FallBack == window' = [c \in Chats |-> LastOf(saved[c])] /\ UNCHANGED saved

WindowInit ==
  /\ saved \in [Chats -> Seq(Entries)]
  /\ window = [c \in Chats |-> LastOf(saved[c])]

WindowNext == FallBack \/ \E c \in Chats, piece \in Pieces : Record(c, piece)

WindowSpec == WindowInit /\ [][WindowNext]_<<window, saved>>
===============================================================================
