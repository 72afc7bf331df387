------------------------------ MODULE Membership ------------------------------
(***************************************************************************)
(* Whom the tagger, its registry and the registry's table speak of.        *)
(***************************************************************************)
CONSTANTS Chats,  \* chats the bot is in
          Users   \* Telegram accounts that write, join and leave
===============================================================================
