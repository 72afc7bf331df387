--------------------------------- MODULE Pools ---------------------------------
(***************************************************************************)
(* The handlers that answer from a pool: voices, stickers, greetings, the  *)
(* personal phrases, and the fixed farewell (handlers/on_voice, on_sticker,*)
(* on_user_join, personal, on_user_left).  A pool is read from a sheet at  *)
(* the start and once more by its updater, whose timer is never set again. *)
(* The voices are read under an RWMutex that is held through the requests  *)
(* to Telegram; the stickers are copied under theirs; the greetings are    *)
(* read without it.                                                        *)
(***************************************************************************)
EXTENDS Dispatch, Statistics

CONSTANTS Lengths,  \* bound: how many items a sheet may hold
          PackStickers  \* stickers of the configured packs

Pool == {"voices", "stickers", "greetings"}

ASSUME LengthsAssumption == Lengths \subseteq Nat /\ PackStickers \in Nat

VARIABLES
  pool,     \* the number of items in each pool, and which reading they are of
  updater,  \* of each pool: timer, lock (with what was read), gone
  readers   \* updates that hold the read lock of the voices

pools == <<pool, updater, readers>>

Reading(n, generation) == [size |-> n, generation |-> generation]

(* Bound: only pools that some update needs vary. *)
Needed == [voice |-> "voices", sticker |-> "stickers", join |-> "greetings"]
InUse(p) == \E u \in DOMAIN kind : kind[u] \in DOMAIN Needed /\ Needed[kind[u]] = p

PoolsInit ==
  /\ pool \in {f \in [Pool -> {Reading(n, 1) : n \in Lengths}] :
                \A p \in Pool : ~InUse(p) => f[p].size = CHOOSE n \in Lengths : TRUE}
  /\ updater = [p \in Pool |-> [pc |-> "timer"]]
  /\ readers = {}
-------------------------------------------------------------------------------
(* The timer fires and the sheet is read; an error is logged.              *)
Refresh(p) ==
  /\ updater[p].pc = "timer" /\ InUse(p)
  /\ \/ \E n \in Lengths : updater' = [updater EXCEPT ![p] = [pc |-> "lock", read |-> Reading(n, 2)]]
     \/ "sheet" \in Faults /\ updater' = [updater EXCEPT ![p] = [pc |-> "gone"]]
  /\ UNCHANGED <<pool, readers>>

Replace(p) ==
  /\ updater[p].pc = "lock"
  /\ p = "voices" => readers = {}
  /\ pool' = [pool EXCEPT ![p] = updater[p].read]
  /\ updater' = [updater EXCEPT ![p] = [pc |-> "gone"]]
  /\ UNCHANGED readers

UpdaterStep(p) == Refresh(p) \/ Replace(p)
-------------------------------------------------------------------------------
Reacts(u, op) == Inc(Event(u, ChatOf[u], op, NoExtra))

(* Voices and stickers begin alike: the message is recorded, the settings  *)
(* are read, the dice are rolled.                                          *)
RecordsMessage(u, h) ==
  /\ At(u, h, "start")
  /\ Add(u, <<Message(u)>>)
  /\ GoesTo(u, h, "settings")
  /\ UNCHANGED <<flow, sent, pools, stats>>

Rolls(u, h) ==
  /\ Asks(u, h, "settings", "store", "pick", "failed") \/ (At(u, h, "settings") /\ Ends(u, h) /\ UNCHANGED <<flow, chat>>)
  /\ UNCHANGED <<pools, stats>>

RecordsReply(u, h) ==
  /\ At(u, h, "record")
  /\ Add(u, <<Reply(u, h)>>)
  /\ Ends(u, h)
  /\ UNCHANGED <<flow, sent, pools, stats>>

(* Mutant: the voices are read without the lock. *)
VoiceLocksNothing(u) ==
  /\ At(u, "on_voice", "pick")
  /\ GoesTo(u, "on_voice", "choose")
  /\ UNCHANGED <<flow, chat, pools, stats>>

(* A writer that waits for the lock goes before new readers.               *)
VoiceLocks(u) ==
  /\ At(u, "on_voice", "pick")
  /\ updater["voices"].pc # "lock"
  /\ readers' = readers \cup {u}
  /\ GoesTo(u, "on_voice", "choose")
  /\ UNCHANGED <<flow, chat, pool, updater, stats>>

VoiceDraws(u) ==
  /\ At(u, "on_voice", "choose")
  /\ Reacts(u, "on_voice")
  /\ IF pool["voices"].size = 0 THEN Panic("empty")
     ELSE /\ \E i \in 1..pool["voices"].size : Goes(u, "on_voice", [pc |-> "take", index |-> i])
          /\ UNCHANGED <<flow, chat>>
  /\ UNCHANGED pools

VoiceTakes(u) ==
  /\ At(u, "on_voice", "take")
  /\ IF task[u]["on_voice"].index > pool["voices"].size THEN Panic("index")
     ELSE GoesTo(u, "on_voice", "file") /\ UNCHANGED <<flow, chat>>
  /\ UNCHANGED <<pools, stats>>

VoiceRequests(u) ==
  \/ Asks(u, "on_voice", "file", "telegram", "notify", "failed")
  \/ Asks(u, "on_voice", "notify", "telegram", "reply", "failed")
  \/ Sends(u, "on_voice", "record")

(* Mutant: an error leaves the pool locked. *)
VoiceSendsKeepingLock(u) ==
  /\ VoiceRequests(u)
  /\ UNCHANGED <<pools, stats>>

(* The file, the status, and after a pause the reply: the lock is released *)
(* with the handler's return.                                              *)
VoiceSends(u) ==
  /\ VoiceRequests(u)
  /\ readers' = IF task'[u]["on_voice"].pc = "failed" THEN readers \ {u} ELSE readers
  /\ UNCHANGED <<pool, updater, stats>>

VoiceRecordsReply(u) ==
  /\ At(u, "on_voice", "record")
  /\ Add(u, <<Reply(u, "on_voice")>>)
  /\ Ends(u, "on_voice")
  /\ readers' = readers \ {u}
  /\ UNCHANGED <<flow, sent, pool, updater, stats>>

OnVoice(u) ==
  \/ RecordsMessage(u, "on_voice") \/ Rolls(u, "on_voice")
  \/ VoiceLocks(u) \/ VoiceDraws(u) \/ VoiceTakes(u)
  \/ VoiceSends(u) \/ VoiceRecordsReply(u)

StickerChooses(u) ==
  /\ At(u, "sticker_reactions", "pick")
  /\ IF pool["stickers"].size + PackStickers = 0 THEN Panic("empty") /\ UNCHANGED stats
     ELSE /\ GoesTo(u, "sticker_reactions", "reply")
          /\ UNCHANGED <<flow, chat>>
          /\ Reacts(u, "on_sticker")
  /\ UNCHANGED pools

OnSticker(u) ==
  \/ RecordsMessage(u, "sticker_reactions") \/ Rolls(u, "sticker_reactions")
  \/ StickerChooses(u)
  \/ Sends(u, "sticker_reactions", "record") /\ UNCHANGED <<pools, stats>>
  \/ RecordsReply(u, "sticker_reactions")

(* The length of the greetings is read, then one of them: nothing keeps    *)
(* the updater from replacing the list in between.                         *)
GreetingDraws(u) ==
  /\ At(u, "greetings", "start")
  /\ IF pool["greetings"].size = 0 THEN Panic("empty")
     ELSE /\ \E i \in 1..pool["greetings"].size :
               Goes(u, "greetings", [pc |-> "greet", index |-> i, drawn |-> pool["greetings"]])
          /\ UNCHANGED <<flow, chat>>
  /\ UNCHANGED <<pools, stats>>

Greets(u) ==
  /\ At(u, "greetings", "greet")
  /\ IF task[u]["greetings"].index > pool["greetings"].size
     THEN Panic("index") /\ UNCHANGED stats
     ELSE /\ GoesTo(u, "greetings", "reply")
          /\ Reacts(u, "on_user_join")
          /\ UNCHANGED <<flow, chat>>
  /\ UNCHANGED pools

OnUserJoin(u) ==
  \/ GreetingDraws(u) \/ Greets(u)
  \/ Sends(u, "greetings", "ended") /\ UNCHANGED <<pools, stats>>

OnUserLeft(u) ==
  \/ /\ At(u, "on_user_left", "start")
     /\ Reacts(u, "on_user_left")
     /\ GoesTo(u, "on_user_left", "reply")
     /\ UNCHANGED <<flow, chat, pools>>
  \/ Sends(u, "on_user_left", "ended") /\ UNCHANGED <<pools, stats>>
-------------------------------------------------------------------------------
(* The update is of somebody else, or the dice say no.                     *)
PersonalDeclines(u, h) ==
  /\ At(u, h, "start") \/ At(u, h, "phrases")
  /\ Ends(u, h)
  /\ UNCHANGED <<flow, chat, pools, stats>>

(* The phrases are read from the sheet for every reaction; of those drawn  *)
(* only the first is ever sent.                                            *)
PersonalReads(u, h) ==
  /\ SenderOf[u] = h
  /\ Asks(u, h, "start", "sheet", "phrases", "failed")
  /\ UNCHANGED <<pools, stats>>

PersonalChooses(u, h) ==
  /\ At(u, h, "phrases")
  /\ \/ /\ Reacts(u, "personal")
        /\ GoesTo(u, h, "reply")
        /\ UNCHANGED <<flow, chat>>
     \/ 0 \in Lengths /\ Panic("empty") /\ UNCHANGED stats
  /\ UNCHANGED pools

OnPersonal(u, h) ==
  \/ PersonalDeclines(u, h) \/ PersonalReads(u, h) \/ PersonalChooses(u, h)
  \/ Sends(u, h, "ended") /\ UNCHANGED <<pools, stats>>
===============================================================================
