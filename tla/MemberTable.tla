----------------------------- MODULE MemberTable ------------------------------
(***************************************************************************)
(* What the registry of tagger candidates promises those who ask it for a  *)
(* chat's members and their captions: one table, changed by one call at a  *)
(* time.  They see nothing of a call before its end and all of it after;   *)
(* a call that returns an error has no effect at all; and a process that   *)
(* dies in the middle of a call comes back with the call done or not done, *)
(* and with everything else as it was.                                     *)
(***************************************************************************)
CONSTANTS Chats, Users, Authors, NoAuthor

VARIABLES
  table,  \* caption of each member of each chat, or NoAuthor
  under   \* the call under way

None == [op |-> "none"]
Calls ==
  [op : {"add"}, chat : Chats, user : Users, author : Authors]
    \cup [op : {"remove"}, chat : Chats, user : Users]
    \cup [op : {"removeChat"}, chat : Chats]

Concerns(call, c, u) == call.chat = c /\ (call.op = "removeChat" \/ call.user = u)
Outcome(call) == IF call.op = "add" THEN call.author ELSE NoAuthor

After(call) ==
  [c \in Chats |-> [u \in Users |->
     IF Concerns(call, c, u) THEN Outcome(call) ELSE table[c][u]]]

TableInit ==
  /\ table = [c \in Chats |-> [u \in Users |-> NoAuthor]]
  /\ under = None

Begin(call) == under = None /\ under' = call /\ UNCHANGED table
End == under # None /\ table' = After(under) /\ under' = None
Crash == under # None /\ table' \in {table, After(under)} /\ under' = None

TableNext == (\E call \in Calls : Begin(call)) \/ End \/ Crash

TableSpec == TableInit /\ [][TableNext]_<<table, under>>
===============================================================================
