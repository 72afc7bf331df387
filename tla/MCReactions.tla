------------------------------ MODULE MCReactions ------------------------------
(* Two updates at the same time, of kinds whose handlers meet. *)
EXTENDS Reactions, TLC

MCUpdates == 1..3
MCChats == {"c", "d"}
MCArrivals ==
  {(1 :> "photo" @@ 2 :> "photo"), (1 :> "voice" @@ 2 :> "voice"),
   (1 :> "sticker" @@ 2 :> "left"), (2 :> "join" @@ 3 :> "text"),
   (1 :> "photo" @@ 3 :> "left")}
MCChatOf == <<"c", "c", "d">>
MCSenderOf == <<"somebody", "somebody", "igor">>
MCAlbumOf == <<"album", "album", "single">>
===============================================================================
