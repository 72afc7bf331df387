-------------------------------- MODULE Photos --------------------------------
(***************************************************************************)
(* The handler of photos (handlers/on_photo).  The photos of an album come *)
(* as updates of their own, at the same time: the first to claim the album *)
(* is answered.  A goroutine gives the claim up a minute later, whatever   *)
(* has become of the answer.  The description is refused at once when the  *)
(* slots or the budget that photos share with link previews are used up    *)
(* (see LinkContext); here that is one more error of the model.            *)
(***************************************************************************)
EXTENDS Dispatch, Statistics

CONSTANTS Albums, NoAlbum, AlbumOf

ASSUME AlbumAssumption == NoAlbum \notin Albums /\ AlbumOf \in [Updates -> Albums \cup {NoAlbum}]

VARIABLES
  claims,   \* processedGroups, each with the update that claimed it
  minutes   \* history: how often the claim of each album was given up

albums == <<claims, minutes>>

Unclaimed == 0

ASSUME ClaimsAssumption == Unclaimed \notin Updates

PhotosInit ==
  /\ claims = [a \in Albums |-> Unclaimed]
  /\ minutes = [a \in Albums |-> 0]
-------------------------------------------------------------------------------
(* Mutant: nobody claims the album that is being looked up. *)
PhotoArrivesUnclaimed(u) ==
  /\ At(u, "on_photo", "start")
  /\ LET a == AlbumOf[u] IN
     IF a # NoAlbum /\ claims[a] # Unclaimed
     THEN Ends(u, "on_photo")
     ELSE \E next \in {"settings", "download"} : GoesTo(u, "on_photo", next)
  /\ UNCHANGED <<flow, chat, albums, stats>>

(* tryClaimAlbum; an answer to the bot needs no dice.                      *)
PhotoArrives(u) ==
  /\ At(u, "on_photo", "start")
  /\ LET a == AlbumOf[u] IN
     IF a # NoAlbum /\ claims[a] # Unclaimed
     THEN Ends(u, "on_photo") /\ UNCHANGED claims
     ELSE /\ \E next \in {"settings", "download"} : GoesTo(u, "on_photo", next)
          /\ claims' = IF a = NoAlbum THEN claims ELSE [claims EXCEPT ![a] = u]
  /\ UNCHANGED <<flow, chat, minutes, stats>>

MinutePasses(a) ==
  /\ claims[a] # Unclaimed
  /\ claims' = [claims EXCEPT ![a] = Unclaimed]
  /\ minutes' = [minutes EXCEPT ![a] = @ + 1]

PhotoRolls(u) ==
  /\ \/ Asks(u, "on_photo", "settings", "store", "download", "failed")
     \/ At(u, "on_photo", "settings") /\ Ends(u, "on_photo") /\ UNCHANGED <<flow, chat>>
  /\ UNCHANGED <<albums, stats>>

(* Errors here are logged, and the photo is passed over.                   *)
PhotoIsDescribed(u) ==
  /\ \/ Asks(u, "on_photo", "download", "telegram", "read", "ended")
     \/ Asks(u, "on_photo", "read", "telegram", "describe", "ended")
     \/ Asks(u, "on_photo", "describe", "model", "generate", "ended")
  /\ UNCHANGED <<albums, stats>>

(* From the history without the bot's own replies, and the link, the       *)
(* generator makes a text, or takes one of its list.                       *)
PhotoIsAnswered(u) ==
  /\ At(u, "on_photo", "generate")
  /\ \E strategy \in IF "model" \in Faults THEN Strategies ELSE {"ai"} :
       Inc(Event(u, ChatOf[u], "on_photo", strategy))
  /\ GoesTo(u, "on_photo", "notify")
  /\ UNCHANGED <<flow, chat, albums>>

(* Mutant: the message is recorded before the reply is sent. *)
PhotoSendsRecording(u) ==
  /\ \/ /\ At(u, "on_photo", "notify")
        /\ GoesTo(u, "on_photo", "reply")
        /\ Add(u, <<Message(u)>>)
        /\ UNCHANGED <<flow, sent>>
     \/ Sends(u, "on_photo", "record")
  /\ UNCHANGED <<albums, stats>>

PhotoSends(u) ==
  /\ \/ Asks(u, "on_photo", "notify", "telegram", "reply", "failed")
     \/ Sends(u, "on_photo", "record")
  /\ UNCHANGED <<albums, stats>>

PhotoIsRecorded(u) ==
  /\ At(u, "on_photo", "record")
  /\ Add(u, <<Message(u), Reply(u, "on_photo")>>)
  /\ Ends(u, "on_photo")
  /\ UNCHANGED <<flow, sent, albums, stats>>

OnPhoto(u) ==
  \/ PhotoArrives(u) \/ PhotoRolls(u) \/ PhotoIsDescribed(u)
  \/ PhotoIsAnswered(u) \/ PhotoSends(u) \/ PhotoIsRecorded(u)
===============================================================================
