------------------------------- MODULE Reactions -------------------------------
(***************************************************************************)
(* The handlers of updates together: their goroutines (Dispatch), the      *)
(* pools they answer from and the goroutines that refresh these (Pools),   *)
(* photos and their albums (Photos), and the log of the bot's reactions    *)
(* (Statistics).                                                           *)
(***************************************************************************)
EXTENDS Pools, Photos

vars == <<flow, task, chat, pools, albums, stats>>

Init == DispatchInit /\ PoolsInit /\ PhotosInit /\ StatisticsInit

(* A step of one of the goroutines of an update. *)
UpdateStep(u) ==
  \/ Return(u) /\ UNCHANGED <<pools, albums, stats>>
  \/ \E h \in {"bulling", "tagger"} : HandledElsewhere(u, h) /\ UNCHANGED <<pools, albums, stats>>
  \/ \E h \in Persons : OnPersonal(u, h) /\ UNCHANGED albums
  \/ (OnVoice(u) \/ OnSticker(u) \/ OnUserJoin(u) \/ OnUserLeft(u)) /\ UNCHANGED albums
  \/ OnPhoto(u) /\ UNCHANGED pools

Clock ==
  /\ \/ \E p \in Pool : UpdaterStep(p) /\ UNCHANGED <<albums, stats>>
     \/ \E a \in Albums : MinutePasses(a) /\ UNCHANGED <<pools, stats>>
     \/ \E e \in incs : Insert(e) /\ UNCHANGED <<pools, albums>>
  /\ UNCHANGED <<flow, task, chat>>

Next ==
  /\ fate = "running"
  /\ \/ \E u \in Updates : UpdateStep(u) \/ (Start(u) /\ UNCHANGED <<pools, albums, stats>>)
     \/ Clock

Spec == Init /\ [][Next]_vars
-------------------------------------------------------------------------------
(* A goroutine that can run does run, requests end, and a writer gets the  *)
(* lock that its readers have left.  Nothing makes an update come or the    *)
(* dice fall.                                                              *)
Fairness ==
  /\ \A u \in Updates : WF_vars(fate = "running" /\ UpdateStep(u))
  /\ WF_vars(fate = "running" /\ \E p \in Pool :
              Replace(p) /\ UNCHANGED <<flow, task, chat, albums, stats>>)

FairSpec == Spec /\ Fairness
-------------------------------------------------------------------------------
IsIn(entry, u) == \E i \in DOMAIN history[ChatOf[u]] : history[ChatOf[u]][i] = entry

Recording == {"on_voice", "sticker_reactions", "on_photo"}

(* What the history of a chat says of the bot is what Telegram took from   *)
(* it, each reply once and after the message it answers; a photo is        *)
(* remembered only if it was answered, with the answer right behind it.    *)
(* (on_photo.go AddAll, on_voice.go and sticker_reactions.go Add, while    *)
(* handlers of other updates write to the same chat.)                      *)
HistoryTellsWhatWasSent ==
  /\ \A c \in Chats : \A i \in DOMAIN history[c] :
       LET e == history[c][i] IN
       /\ \A j \in DOMAIN history[c] : history[c][j] = e => i = j
       /\ kind[e.update] = "photo" => <<e.update, "on_photo">> \in sent
       /\ e.by # "user" =>
            /\ <<e.update, e.by>> \in sent
            /\ \E j \in 1..(i - 1) :
                 history[c][j] = Message(e.update) /\ (e.by = "on_photo" => j = i - 1)
  /\ \A r \in sent :
       r[2] \in Recording /\ Over(r[1], r[2]) => IsIn(Reply(r[1], r[2]), r[1])

Answering(a) ==
  {u \in DOMAIN kind : AlbumOf[u] = a /\ kind[u] = "photo" /\ <<u, "on_photo">> \in sent}

(* However the photos of an album interleave, the bot answers one of them, *)
(* and one more only after a claim was given up by the clock (on_photo.go  *)
(* tryClaimAlbum; the claim does not wait for the answer it was made for). *)
AlbumAnsweredOnce == \A a \in Albums : Cardinality(Answering(a)) <= 1 + minutes[a]

(* Nothing recovers a panic of a handler.  A list that became shorter      *)
(* while one of its items was being picked kills the process only through  *)
(* the greetings, which are read without their lock; the voices are picked *)
(* under theirs (greetings.go:58, on_voice.go:129).                        *)
OnlyGreetingsShrink ==
  fate = "index" =>
    \E u \in DOMAIN kind :
      /\ kind[u] = "join" /\ task[u]["greetings"].pc = "greet"
      /\ task[u]["greetings"].drawn.generation < pool["greetings"].generation
      /\ task[u]["greetings"].drawn.size > pool["greetings"].size

(* Whatever is being handled is handled to the end: no handler waits for a *)
(* lock that nobody gives back, not even when requests fail while the      *)
(* voices are being refreshed (on_voice.go, updater.go, handlers.go).      *)
EveryUpdateReturns ==
  []<>(fate # "running" \/ \A u \in Updates : phase[u] # "running")
===============================================================================
