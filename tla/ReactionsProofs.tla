----------------------------- MODULE ReactionsProofs -----------------------------
(***************************************************************************)
(* Proofs about the handlers of updates, for any updates of any kinds,     *)
(* chats, albums, persons, sheets and faults.                              *)
(***************************************************************************)
EXTENDS Reactions, SequenceTheorems, FunctionTheorems, FiniteSetTheorems, TLAPS

Handlers ==
  Persons \cup {"bulling", "tagger", "sticker_reactions", "on_voice", "on_photo", "greetings",
                "on_user_left"}

(* Which updates a handler is for. *)
LEMMA RoutesOf ==
  /\ \A k \in Kinds : Routes[k] \subseteq Handlers
  /\ \A k \in Kinds :
       /\ "on_voice" \in Routes[k] <=> k = "voice"
       /\ "sticker_reactions" \in Routes[k] <=> k = "sticker"
       /\ "on_photo" \in Routes[k] <=> k = "photo"
       /\ "greetings" \in Routes[k] <=> k = "join"
<1>1. Routes.text = Persons \cup {"bulling", "tagger"}
  BY DEF Routes
<1>2. Routes.sticker = Persons \cup {"sticker_reactions", "tagger"}
  BY DEF Routes
<1>3. Routes.voice = Persons \cup {"on_voice", "tagger"}
  BY DEF Routes
<1>4. Routes.photo = {"on_photo", "tagger"}
  BY DEF Routes
<1>5. Routes.join = {"greetings", "tagger"}
  BY DEF Routes
<1>6. Routes.left = {"on_user_left", "tagger"}
  BY DEF Routes
<1>7. Persons \cap {"bulling", "tagger", "sticker_reactions", "on_voice", "on_photo", "greetings",
                    "on_user_left"} = {}
  BY PersonsAssumption
<1>8. \A k \in Kinds : k \in {"text", "sticker", "voice", "photo", "join", "left"}
  BY DEF Kinds
<1> HIDE DEF Routes
<1> QED
  BY <1>1, <1>2, <1>3, <1>4, <1>5, <1>6, <1>7, <1>8 DEF Handlers
-------------------------------------------------------------------------------
Types ==
  /\ DOMAIN kind \subseteq Updates /\ \A u \in DOMAIN kind : kind[u] \in Kinds
  /\ phase \in [Updates -> {"new", "running", "returned"}]
  /\ DOMAIN task = Updates /\ DOMAIN result = Updates
  /\ \A u \in Updates : phase[u] # "new" => u \in DOMAIN kind /\ DOMAIN task[u] = Routes[kind[u]]

(* Handler h of update u has been started. *)
Started(u, h) == u \in Updates /\ phase[u] # "new" /\ h \in Routes[kind[u]]
Pc(u, h) == task[u][h].pc

(* One handler of one update goes on from p to s. *)
Step(u, h, p, s) == At(u, h, p) /\ Goes(u, h, s) /\ UNCHANGED flow

(* The process ends, with everything as it was. *)
Panics == UNCHANGED <<kind, phase, task, result, history, sent>>

LEMMA StepFrame ==
  ASSUME Types, NEW u \in Updates, NEW h, NEW p, NEW s, Step(u, h, p, s)
  PROVE  /\ UNCHANGED <<kind, phase, result, fate>>
         /\ Types' /\ Started(u, h) /\ phase[u] = "running"
         /\ Pc(u, h) = p /\ task'[u][h] = s /\ Pc(u, h)' = s.pc
         /\ \A v \in Updates : \A g : Started(v, g) /\ (v # u \/ g # h) => task'[v][g] = task[v][g]
<1>1. /\ UNCHANGED <<kind, phase, result, fate>>
      /\ phase[u] = "running" /\ h \in Routes[kind[u]] /\ task[u][h].pc = p
      /\ task' = [task EXCEPT ![u][h] = s]
  BY DEF Step, At, Goes, flow
<1>2. DOMAIN task[u] = Routes[kind[u]] /\ DOMAIN task = Updates
  BY <1>1 DEF Types
<1>3. task'[u][h] = s
  BY <1>1, <1>2
<1>4. \A v \in Updates : \A g : Started(v, g) /\ (v # u \/ g # h) => task'[v][g] = task[v][g]
  BY <1>1, <1>2 DEF Types, Started
<1>5. Types'
  BY <1>1, <1>2 DEF Types
<1> QED
  BY <1>1, <1>3, <1>4, <1>5 DEF Started, Pc

LEMMA StartFrame ==
  ASSUME Types, NEW u \in Updates, Start(u)
  PROVE  /\ UNCHANGED <<kind, result, fate, chat>>
         /\ Types' /\ phase[u] = "new" /\ phase'[u] = "running"
         /\ \A h \in Routes[kind[u]] : task'[u][h] = [pc |-> "start"]
         /\ \A v \in Updates \ {u} : phase'[v] = phase[v] /\ task'[v] = task[v]
<1>1. /\ UNCHANGED <<kind, result, fate, chat>> /\ u \in DOMAIN kind
      /\ phase[u] = "new" /\ phase' = [phase EXCEPT ![u] = "running"]
      /\ task' = [task EXCEPT ![u] = [h \in Routes[kind[u]] |-> [pc |-> "start"]]]
  BY DEF Start
<1>2. Types'
  BY <1>1 DEF Types
<1> QED
  BY <1>1, <1>2 DEF Types

LEMMA ReturnFrame ==
  ASSUME Types, NEW u \in Updates, Return(u)
  PROVE  /\ UNCHANGED <<kind, task, fate, chat>>
         /\ Types' /\ phase[u] = "running" /\ phase'[u] = "returned"
         /\ result'[u] = Failed(u)
         /\ \A v \in Updates \ {u} : phase'[v] = phase[v] /\ result'[v] = result[v]
<1>1. /\ UNCHANGED <<kind, task, fate, chat>> /\ phase[u] = "running"
      /\ phase' = [phase EXCEPT ![u] = "returned"]
      /\ result' = [result EXCEPT ![u] = Failed(u)]
  BY DEF Return
<1>2. Types'
  BY <1>1 DEF Types
<1> QED
  BY <1>1, <1>2 DEF Types
-------------------------------------------------------------------------------
(* What a step of a handler may do to the history and to what was sent: *)
(* nothing, *)
Quiet(u, h) ==
  /\ UNCHANGED chat
  /\ \E p, s :
       /\ Step(u, h, p, s)
       /\ p \notin {"record", "ended", "failed"} /\ s.pc \notin {"start", "record"}
       /\ p = "start" => h = "on_photo"

(* something that is not remembered, *)
Elsewhere(u, h) ==
  /\ h \notin Recording
  /\ \E p, s : Step(u, h, p, s)
  /\ history' = history /\ (sent' = sent \/ sent' = sent \cup {<<u, h>>})

(* a message before it is answered, *)
RecordsFirst(u, h) ==
  /\ h \in Recording \ {"on_photo"}
  /\ \E s : Step(u, h, "start", s) /\ s.pc = "settings"
  /\ Add(u, <<Message(u)>>) /\ sent' = sent

(* the reply to Telegram, *)
SendsReply(u, h) ==
  /\ h \in Recording
  /\ \E s : Step(u, h, "reply", s) /\ s.pc = "record"
  /\ history' = history /\ sent' = sent \cup {<<u, h>>}

(* the reply to the history, with the photo it is about. *)
RecordsLast(u, h) ==
  /\ h \in Recording
  /\ \E s : Step(u, h, "record", s) /\ s.pc = "ended"
  /\ Add(u, IF h = "on_photo" THEN <<Message(u), Reply(u, h)>> ELSE <<Reply(u, h)>>)
  /\ sent' = sent

Does(u, h) ==
  Quiet(u, h) \/ Elsewhere(u, h) \/ RecordsFirst(u, h) \/ SendsReply(u, h) \/ RecordsLast(u, h)

LEMMA AskingIsQuiet ==
  ASSUME NEW u \in Updates, NEW h, NEW p \in {"settings", "file", "notify", "download", "read", "describe"},
         NEW fault, NEW next \in {"pick", "notify", "reply", "download", "read", "describe", "generate"},
         NEW otherwise \in {"failed", "ended"},
         Asks(u, h, p, fault, next, otherwise)
  PROVE  Quiet(u, h)
<1>1. PICK s \in {[pc |-> next], [pc |-> otherwise]} : Goes(u, h, s)
  BY DEF Asks, GoesTo
<1>2. Step(u, h, p, s) /\ UNCHANGED chat
  BY <1>1 DEF Asks, Step, flow, chat
<1>3. s.pc \in {next, otherwise}
  BY <1>1
<1> QED
  BY <1>2, <1>3 DEF Quiet

LEMMA SendingIs ==
  ASSUME NEW u \in Updates, NEW h \in Recording, Sends(u, h, "record")
  PROVE  Quiet(u, h) \/ SendsReply(u, h)
<1>1. CASE /\ Goes(u, h, [pc |-> "record"]) /\ sent' = sent \cup {<<u, h>>}
  <2>1. Step(u, h, "reply", [pc |-> "record"]) /\ history' = history
    BY <1>1 DEF Sends, Step, flow
  <2> QED
    BY <1>1, <2>1 DEF SendsReply
<1>2. CASE /\ Goes(u, h, [pc |-> "failed"]) /\ sent' = sent
  <2>1. Step(u, h, "reply", [pc |-> "failed"]) /\ UNCHANGED chat
    BY <1>2 DEF Sends, Step, flow, chat
  <2> QED
    BY <2>1 DEF Quiet
<1> QED
  BY <1>1, <1>2 DEF Sends, Fails, GoesTo

LEMMA VoicesDo ==
  ASSUME NEW u \in Updates, OnVoice(u)
  PROVE  Panics \/ Does(u, "on_voice")
<1> DEFINE h == "on_voice"
<1>1. h \in Recording \ {"on_photo"}
  BY DEF Recording
<1>2. CASE RecordsMessage(u, h)
  <2>1. Step(u, h, "start", [pc |-> "settings"]) /\ Add(u, <<Message(u)>>) /\ sent' = sent
    BY <1>2 DEF RecordsMessage, Step, GoesTo
  <2> QED
    BY <1>1, <2>1 DEF RecordsFirst, Does
<1>3. CASE Rolls(u, h)
  <2>1. CASE Asks(u, h, "settings", "store", "pick", "failed")
    BY <2>1, AskingIsQuiet DEF Does
  <2>2. CASE At(u, h, "settings") /\ Ends(u, h) /\ UNCHANGED <<flow, chat>>
    BY <2>2 DEF Ends, GoesTo, Step, Quiet, Does
  <2> QED
    BY <1>3, <2>1, <2>2 DEF Rolls
<1>4. CASE VoiceLocks(u)
  BY <1>4 DEF VoiceLocks, GoesTo, Step, Quiet, Does
<1>5. CASE VoiceDraws(u)
  <2>1. CASE Panic("empty")
    BY <2>1 DEF Panic, Panics, chat
  <2>2. ASSUME NEW i, Goes(u, h, [pc |-> "take", index |-> i]), UNCHANGED <<flow, chat>>
        PROVE  Quiet(u, h)
    <3>1. Step(u, h, "choose", [pc |-> "take", index |-> i]) /\ UNCHANGED chat
      BY <1>5, <2>2 DEF VoiceDraws, Step, flow, chat
    <3> QED
      BY <3>1 DEF Quiet
  <2> QED
    BY <1>5, <2>1, <2>2 DEF VoiceDraws, Does, flow, chat
<1>6. CASE VoiceTakes(u)
  BY <1>6 DEF VoiceTakes, GoesTo, Step, Quiet, Does, Panic, Panics, chat
<1>7. CASE VoiceSends(u)
  BY <1>1, <1>7, AskingIsQuiet, SendingIs DEF VoiceSends, VoiceRequests, Does
<1>8. CASE VoiceRecordsReply(u)
  <2>1. Step(u, h, "record", [pc |-> "ended"]) /\ Add(u, <<Reply(u, h)>>) /\ sent' = sent
    BY <1>8 DEF VoiceRecordsReply, Step, Ends, GoesTo
  <2> QED
    BY <1>1, <2>1 DEF RecordsLast, Does
<1> QED
  BY <1>2, <1>3, <1>4, <1>5, <1>6, <1>7, <1>8 DEF OnVoice

LEMMA StickersDo ==
  ASSUME NEW u \in Updates, OnSticker(u)
  PROVE  Panics \/ Does(u, "sticker_reactions")
<1> DEFINE h == "sticker_reactions"
<1>1. h \in Recording \ {"on_photo"}
  BY DEF Recording
<1>2. CASE RecordsMessage(u, h)
  <2>1. Step(u, h, "start", [pc |-> "settings"]) /\ Add(u, <<Message(u)>>) /\ sent' = sent
    BY <1>2 DEF RecordsMessage, Step, GoesTo
  <2> QED
    BY <1>1, <2>1 DEF RecordsFirst, Does
<1>3. CASE Rolls(u, h)
  <2>1. CASE Asks(u, h, "settings", "store", "pick", "failed")
    BY <2>1, AskingIsQuiet DEF Does
  <2>2. CASE At(u, h, "settings") /\ Ends(u, h) /\ UNCHANGED <<flow, chat>>
    BY <2>2 DEF Ends, GoesTo, Step, Quiet, Does
  <2> QED
    BY <1>3, <2>1, <2>2 DEF Rolls
<1>4. CASE StickerChooses(u)
  BY <1>4 DEF StickerChooses, flow, GoesTo, Step, Quiet, Does, Panic, Panics, chat
<1>5. CASE Sends(u, h, "record")
  BY <1>1, <1>5, SendingIs DEF Does
<1>6. CASE RecordsReply(u, h)
  <2>1. Step(u, h, "record", [pc |-> "ended"]) /\ Add(u, <<Reply(u, h)>>) /\ sent' = sent
    BY <1>6 DEF RecordsReply, Step, Ends, GoesTo
  <2> QED
    BY <1>1, <2>1 DEF RecordsLast, Does
<1> QED
  BY <1>2, <1>3, <1>4, <1>5, <1>6 DEF OnSticker

LEMMA PhotosDo ==
  ASSUME NEW u \in Updates, OnPhoto(u)
  PROVE  Does(u, "on_photo")
<1> DEFINE h == "on_photo"
<1>1. h \in Recording
  BY DEF Recording
<1>2. CASE PhotoArrives(u)
  <2>1. \E s \in {[pc |-> "ended"], [pc |-> "settings"], [pc |-> "download"]} : Step(u, h, "start", s)
    BY <1>2 DEF PhotoArrives, Ends, GoesTo, Step
  <2>2. UNCHANGED chat
    BY <1>2 DEF PhotoArrives
  <2> QED
    BY <2>1, <2>2 DEF Quiet, Does
<1>3. CASE PhotoRolls(u)
  <2>1. CASE Asks(u, h, "settings", "store", "download", "failed")
    BY <2>1, AskingIsQuiet DEF Does
  <2>2. CASE At(u, h, "settings") /\ Ends(u, h) /\ UNCHANGED <<flow, chat>>
    BY <2>2 DEF Ends, GoesTo, Step, Quiet, Does
  <2> QED
    BY <1>3, <2>1, <2>2 DEF PhotoRolls
<1>4. CASE PhotoIsDescribed(u)
  BY <1>4, AskingIsQuiet DEF PhotoIsDescribed, Does
<1>5. CASE PhotoIsAnswered(u)
  BY <1>5 DEF PhotoIsAnswered, GoesTo, Step, Quiet, Does
<1>6. CASE PhotoSends(u)
  BY <1>1, <1>6, AskingIsQuiet, SendingIs DEF PhotoSends, Does
<1>7. CASE PhotoIsRecorded(u)
  <2>1. /\ Step(u, h, "record", [pc |-> "ended"])
        /\ Add(u, <<Message(u), Reply(u, h)>>) /\ sent' = sent
    BY <1>7 DEF PhotoIsRecorded, Step, Ends, GoesTo
  <2> QED
    BY <1>1, <2>1 DEF RecordsLast, Does
<1> QED
  BY <1>2, <1>3, <1>4, <1>5, <1>6, <1>7 DEF OnPhoto

LEMMA OthersDo ==
  ASSUME NEW u \in Updates
  PROVE  /\ OnUserJoin(u) => Panics \/ Elsewhere(u, "greetings")
         /\ OnUserLeft(u) => Elsewhere(u, "on_user_left")
         /\ \A h \in Persons : OnPersonal(u, h) => Panics \/ Elsewhere(u, h)
         /\ \A h \in {"bulling", "tagger"} : HandledElsewhere(u, h) => Elsewhere(u, h)
<1>1. ({"greetings", "on_user_left", "bulling", "tagger"} \cup Persons) \cap Recording = {}
  BY PersonsAssumption DEF Recording
<1>2. ASSUME NEW h, h \notin Recording, NEW next, Sends(u, h, next)
      PROVE  Elsewhere(u, h)
  BY <1>2 DEF Sends, GoesTo, Fails, Step, Elsewhere, flow
<1>3. ASSUME NEW h, h \notin Recording, NEW p, NEW s, At(u, h, p), Goes(u, h, s),
             UNCHANGED <<flow, chat>>
      PROVE  Elsewhere(u, h)
  BY <1>3 DEF Step, Elsewhere, chat
<1>4. OnUserJoin(u) => Panics \/ Elsewhere(u, "greetings")
  <2>1. CASE GreetingDraws(u)
    BY <1>1, <1>3, <2>1 DEF GreetingDraws, flow, Panic, Panics, chat
  <2>2. CASE Greets(u)
    BY <1>1, <1>3, <2>2 DEF Greets, flow, Panic, Panics, chat, GoesTo
  <2> QED
    BY <1>1, <1>2, <2>1, <2>2 DEF OnUserJoin
<1>5. OnUserLeft(u) => Elsewhere(u, "on_user_left")
  BY <1>1, <1>2, <1>3 DEF OnUserLeft, GoesTo
<1>6. ASSUME NEW h \in Persons, OnPersonal(u, h)
      PROVE  Panics \/ Elsewhere(u, h)
  <2>1. CASE PersonalDeclines(u, h)
    BY <1>1, <1>3, <2>1 DEF PersonalDeclines, Ends, GoesTo
  <2>2. CASE PersonalReads(u, h)
    BY <1>1, <1>3, <2>2 DEF PersonalReads, Asks, GoesTo
  <2>3. CASE PersonalChooses(u, h)
    BY <1>1, <1>3, <2>3 DEF PersonalChooses, flow, Panic, Panics, chat, GoesTo
  <2> QED
    BY <1>1, <1>2, <1>6, <2>1, <2>2, <2>3 DEF OnPersonal
<1>7. ASSUME NEW h \in {"bulling", "tagger"}, HandledElsewhere(u, h)
      PROVE  Elsewhere(u, h)
  BY <1>1, <1>3, <1>7 DEF HandledElsewhere, Ends, Fails, GoesTo
<1> QED
  BY <1>4, <1>5, <1>6, <1>7

LEMMA UpdateDoes ==
  ASSUME NEW u \in Updates, UpdateStep(u)
  PROVE  Return(u) \/ Panics \/ \E h : Does(u, h)
BY VoicesDo, StickersDo, PhotosDo, OthersDo DEF UpdateStep, Does

(* Any step, as far as the history and the returns are concerned. *)
LEMMA NextDoes ==
  ASSUME [Next]_vars
  PROVE  \/ \E u \in Updates : Start(u) \/ Return(u) \/ \E h : Does(u, h)
         \/ Panics
BY UpdateDoes DEF Next, Clock, Panics, vars, flow, chat

LEMMA TypesInit == Init => Types
<1> SUFFICES ASSUME Init PROVE Types
  OBVIOUS
<1>1. kind \in UNION {[us -> Kinds] : us \in SUBSET Updates}
  BY DispatchAssumption DEF Init, DispatchInit
<1>2. DOMAIN kind \subseteq Updates /\ \A u \in DOMAIN kind : kind[u] \in Kinds
  BY <1>1
<1> QED
  BY <1>2 DEF Init, DispatchInit, Types

LEMMA DoesFrame ==
  ASSUME Types, NEW u \in Updates, NEW h, Does(u, h)
  PROVE  /\ UNCHANGED <<kind, phase, result, fate>>
         /\ Types' /\ Started(u, h) /\ phase[u] = "running"
         /\ \A v \in Updates : \A g : Started(v, g) /\ (v # u \/ g # h) => task'[v][g] = task[v][g]
<1>1. PICK p, s : Step(u, h, p, s)
  BY DEF Does, Quiet, Elsewhere, RecordsFirst, SendsReply, RecordsLast
<1> QED
  BY <1>1, StepFrame

LEMMA TypesStep == Types /\ [Next]_vars => Types'
<1> SUFFICES ASSUME Types, [Next]_vars PROVE Types'
  OBVIOUS
<1>1. CASE Panics
  BY <1>1 DEF Panics, Types
<1> QED
  BY <1>1, NextDoes, StartFrame, ReturnFrame, DoesFrame
-------------------------------------------------------------------------------
LEMMA TypesAlways == Spec => []Types
BY TypesInit, TypesStep, PTL DEF Spec

-------------------------------------------------------------------------------
(* The history: each entry is there once, and tells of a handler that got  *)
(* this far.                                                               *)
Entries == [update : Updates, by : {"user"} \cup Recording]

SentByHandlers == \A r \in sent : r = <<r[1], r[2]>> /\ Started(r[1], r[2])

Answered(u, h) ==
  /\ <<u, h>> \in sent => Pc(u, h) \in {"record", "ended"}
  /\ Pc(u, h) = "record" => <<u, h>> \in sent
  /\ <<u, h>> \in sent /\ Pc(u, h) = "ended" => IsIn(Reply(u, h), u)
  /\ h # "on_photo" /\ Pc(u, h) # "start" => IsIn(Message(u), u)

Fits(c, i) ==
  LET e == history[c][i] IN
  /\ ChatOf[e.update] = c
  /\ e.by = "user" =>
       \E h \in Recording :
         /\ Started(e.update, h) /\ Pc(e.update, h) # "start"
         /\ h = "on_photo" => Pc(e.update, h) = "ended" /\ <<e.update, h>> \in sent
  /\ e.by # "user" =>
       /\ Started(e.update, e.by) /\ Pc(e.update, e.by) = "ended" /\ <<e.update, e.by>> \in sent
       /\ \E j \in 1..(i - 1) :
            history[c][j] = Message(e.update) /\ (e.by = "on_photo" => j = i - 1)

Once(c) == \A i, j \in DOMAIN history[c] : history[c][i] = history[c][j] => i = j

HistoryTypes == Types /\ history \in [Chats -> Seq(Entries)] /\ SentByHandlers

HistoryInv ==
  /\ HistoryTypes
  /\ \A u \in Updates : \A h \in Recording : Started(u, h) => Answered(u, h)
  /\ \A c \in Chats : \A i \in DOMAIN history[c] : Fits(c, i)
  /\ \A c \in Chats : Once(c)

(* Only one handler of an update records. *)
LEMMA OneRecorder ==
  ASSUME Types, NEW u, NEW h \in Recording, Started(u, h)
  PROVE  /\ u \in Updates
         /\ h = "on_photo" <=> kind[u] = "photo"
         /\ \A g \in Recording : Started(u, g) => g = h
<1>1. u \in Updates /\ kind[u] \in Kinds /\ h \in Routes[kind[u]]
  BY DEF Started, Types
<1> QED
  BY <1>1, RoutesOf DEF Started, Recording

LEMMA InvTells == HistoryInv => HistoryTellsWhatWasSent
<1> SUFFICES ASSUME HistoryInv PROVE HistoryTellsWhatWasSent
  OBVIOUS
<1>1. Types /\ SentByHandlers /\ history \in [Chats -> Seq(Entries)]
  BY DEF HistoryInv, HistoryTypes
<1>2. ASSUME NEW c \in Chats, NEW i \in DOMAIN history[c]
      PROVE  LET e == history[c][i] IN
             /\ \A j \in DOMAIN history[c] : history[c][j] = e => i = j
             /\ kind[e.update] = "photo" => <<e.update, "on_photo">> \in sent
             /\ e.by # "user" =>
                  /\ <<e.update, e.by>> \in sent
                  /\ \E j \in 1..(i - 1) :
                       history[c][j] = Message(e.update) /\ (e.by = "on_photo" => j = i - 1)
  <2> DEFINE e == history[c][i]
  <2>1. Once(c) /\ Fits(c, i)
    BY <1>2 DEF HistoryInv
  <2>2. e \in Entries
    BY <1>1, <1>2
  <2>3. kind[e.update] = "photo" => <<e.update, "on_photo">> \in sent
    <3>1. CASE e.by = "user"
      BY <1>1, <2>1, <3>1, OneRecorder DEF Fits
    <3>2. CASE e.by # "user"
      <4>1. e.by \in Recording
        BY <2>2, <3>2 DEF Entries
      <4> QED
        BY <1>1, <2>1, <3>2, <4>1, OneRecorder DEF Fits
    <3> QED
      BY <3>1, <3>2
  <2> QED
    BY <2>1, <2>3 DEF Once, Fits
<1>3. ASSUME NEW r \in sent, r[2] \in Recording, Over(r[1], r[2])
      PROVE  IsIn(Reply(r[1], r[2]), r[1])
  <2>1. r = <<r[1], r[2]>> /\ Started(r[1], r[2])
    BY <1>1 DEF SentByHandlers
  <2>2. Answered(r[1], r[2]) /\ <<r[1], r[2]>> \in sent
    BY <1>3, <2>1 DEF HistoryInv, Started
  <2> QED
    BY <1>3, <2>2 DEF Answered, Over, Pc
<1> QED
  BY <1>2, <1>3 DEF HistoryTellsWhatWasSent
-------------------------------------------------------------------------------
(* Entries are only added. *)
Extended ==
  \A c \in Chats : \A i \in DOMAIN history[c] :
    i \in DOMAIN history'[c] /\ history'[c][i] = history[c][i]

(* A handler never goes back, and what was sent stays sent. *)
Onward ==
  /\ sent \subseteq sent'
  /\ \A v \in Updates : \A g \in Recording :
       Started(v, g) =>
         /\ Started(v, g)'
         /\ Pc(v, g) = "ended" => Pc(v, g)' = "ended"
         /\ Pc(v, g) # "start" => Pc(v, g)' # "start"

LEMMA FitsStays ==
  ASSUME HistoryInv, Extended, Onward, NEW c \in Chats, NEW i \in DOMAIN history[c]
  PROVE  Fits(c, i)'
<1>1. Fits(c, i) /\ history \in [Chats -> Seq(Entries)]
  BY DEF HistoryInv, HistoryTypes
<1>2. PICK e \in Entries : history[c][i] = e
  BY <1>1
<1>3. history'[c][i] = e
  BY <1>2 DEF Extended
<1>4. \A j \in 1..(i - 1) : history'[c][j] = history[c][j]
  BY <1>1 DEF Extended
<1>5. e.update \in Updates /\ (e.by # "user" => e.by \in Recording)
  BY DEF Entries
<1>6. e.by = "user" =>
        \E h \in Recording :
          /\ Started(e.update, h)' /\ Pc(e.update, h)' # "start"
          /\ h = "on_photo" => Pc(e.update, h)' = "ended" /\ <<e.update, h>> \in sent'
  BY <1>1, <1>2, <1>5 DEF Fits, Onward
<1>7. e.by # "user" =>
        /\ Started(e.update, e.by)' /\ Pc(e.update, e.by)' = "ended"
        /\ <<e.update, e.by>> \in sent'
        /\ \E j \in 1..(i - 1) :
             history'[c][j] = Message(e.update) /\ (e.by = "on_photo" => j = i - 1)
  BY <1>1, <1>2, <1>4, <1>5 DEF Fits, Onward
<1>8. ChatOf[e.update] = c
  BY <1>1, <1>2 DEF Fits
<1> QED
  BY <1>3, <1>6, <1>7, <1>8 DEF Fits

LEMMA IsInStays ==
  ASSUME Extended, NEW e, NEW u \in Updates, IsIn(e, u)
  PROVE  IsIn(e, u)'
BY DispatchAssumption DEF IsIn, Extended

(* Nothing is added. *)
LEMMA SameHistoryFits ==
  ASSUME HistoryInv, Types', Onward, UNCHANGED history
  PROVE  /\ Extended /\ history' \in [Chats -> Seq(Entries)]
         /\ \A c \in Chats : Once(c)' /\ \A i \in DOMAIN history'[c] : Fits(c, i)'
<1>1. Extended
  BY DEF Extended
<1> QED
  BY <1>1, FitsStays DEF HistoryInv, HistoryTypes, Once

LEMMA AddExtends ==
  ASSUME history \in [Chats -> Seq(Entries)], NEW u \in Updates, NEW t \in Seq(Entries), Add(u, t)
  PROVE  LET c == ChatOf[u]
             n == Len(history[c])
         IN  /\ c \in Chats /\ n \in Nat /\ Extended
             /\ history' \in [Chats -> Seq(Entries)]
             /\ DOMAIN history[c] = 1..n /\ DOMAIN history'[c] = 1..(n + Len(t))
             /\ \A i \in 1..n : history'[c][i] = history[c][i]
             /\ \A k \in 1..Len(t) : history'[c][n + k] = t[k]
             /\ \A d \in Chats \ {c} : history'[d] = history[d]
<1> DEFINE c == ChatOf[u]
           s == history[c]
<1>1. c \in Chats
  BY DispatchAssumption
<1>2. s \in Seq(Entries)
  BY <1>1
<1>3. s \o t \in Seq(Entries) /\ Len(s) \in Nat /\ Len(t) \in Nat /\ Len(s \o t) = Len(s) + Len(t)
      /\ \A i \in 1..(Len(s) + Len(t)) :
           (s \o t)[i] = IF i <= Len(s) THEN s[i] ELSE t[i - Len(s)]
  BY <1>2, ConcatProperties
<1>4. history' = [history EXCEPT ![c] = s \o t]
  BY DEF Add
<1>5. history'[c] = s \o t /\ \A d \in Chats \ {c} : history'[d] = history[d]
  BY <1>1, <1>4
<1>6. history' \in [Chats -> Seq(Entries)]
  BY <1>3, <1>4
<1>7. DOMAIN s = 1..Len(s) /\ DOMAIN history'[c] = 1..(Len(s) + Len(t))
  BY <1>2, <1>3, <1>5
<1> HIDE DEF c, s
<1>8. \A i \in 1..Len(s) : history'[c][i] = s[i]
  BY <1>3, <1>5
<1>9. \A k \in 1..Len(t) : history'[c][Len(s) + k] = t[k]
  BY <1>3, <1>5
<1>10. Extended
  BY <1>3, <1>5, <1>7, <1>8 DEF Extended, s
<1> QED
  BY <1>1, <1>3, <1>5, <1>6, <1>7, <1>8, <1>9, <1>10 DEF c, s
-------------------------------------------------------------------------------
LEMMA DoesGoesOn ==
  ASSUME HistoryInv, NEW u \in Updates, NEW h, Does(u, h)
  PROVE  /\ Types' /\ Onward /\ SentByHandlers' /\ Started(u, h) /\ phase' = phase /\ kind' = kind
         /\ \A v \in Updates : \A g \in Recording : (v # u \/ g # h) /\ Started(v, g)' =>
              /\ Started(v, g) /\ Pc(v, g)' = Pc(v, g)
              /\ <<v, g>> \in sent' => <<v, g>> \in sent
<1>1. /\ UNCHANGED <<kind, phase, result, fate>> /\ Types' /\ Started(u, h)
      /\ \A v \in Updates : \A g : Started(v, g) /\ (v # u \/ g # h) => task'[v][g] = task[v][g]
  BY DoesFrame DEF HistoryInv, HistoryTypes
<1>2. sent' = sent \/ sent' = sent \cup {<<u, h>>}
  BY DEF Does, Quiet, Elsewhere, RecordsFirst, SendsReply, RecordsLast, chat
<1>3. SentByHandlers'
  BY <1>1, <1>2 DEF HistoryInv, HistoryTypes, SentByHandlers, Started
<1>4. \A v \in Updates : \A g \in Recording : (v # u \/ g # h) /\ Started(v, g)' =>
        /\ Started(v, g) /\ Pc(v, g)' = Pc(v, g)
        /\ <<v, g>> \in sent' => <<v, g>> \in sent
  BY <1>1, <1>2 DEF Started, Pc
<1>5. ASSUME h \in Recording
      PROVE  /\ Pc(u, h) = "ended" => Pc(u, h)' = "ended"
             /\ Pc(u, h) # "start" => Pc(u, h)' # "start"
  <2>1. \E p, s : Step(u, h, p, s) /\ p # "ended" /\ s.pc # "start"
    BY <1>5 DEF Does, Quiet, Elsewhere, RecordsFirst, SendsReply, RecordsLast
  <2> QED
    BY <2>1, StepFrame DEF HistoryInv, HistoryTypes
<1>6. Onward
  BY <1>1, <1>2, <1>4, <1>5 DEF Onward, Started
<1> QED
  BY <1>1, <1>3, <1>4, <1>6

LEMMA AnsweredStays ==
  ASSUME HistoryInv, Extended, NEW v \in Updates, NEW g \in Recording,
         Started(v, g), Pc(v, g)' = Pc(v, g), <<v, g>> \in sent' <=> <<v, g>> \in sent
  PROVE  Answered(v, g)'
<1>1. Answered(v, g)
  BY DEF HistoryInv
<1>2. IsIn(Reply(v, g), v) => IsIn(Reply(v, g), v)'
  BY IsInStays
<1>3. IsIn(Message(v), v) => IsIn(Message(v), v)'
  BY IsInStays
<1> QED
  BY <1>1, <1>2, <1>3 DEF Answered, Reply, Message

(* What is left to show for a step of a handler. *)
LEMMA DoesKeepsHistory ==
  ASSUME HistoryInv, NEW u \in Updates, NEW h, Does(u, h), Extended,
         history' \in [Chats -> Seq(Entries)],
         h \in Recording => Answered(u, h)',
         \A i \in DOMAIN history'[ChatOf[u]] :
           i \in DOMAIN history[ChatOf[u]] \/ Fits(ChatOf[u], i)',
         Once(ChatOf[u])',
         \A d \in Chats \ {ChatOf[u]} : history'[d] = history[d]
  PROVE  HistoryInv'
<1>1. /\ Types' /\ Onward /\ SentByHandlers'
      /\ \A v \in Updates : \A g \in Recording : (v # u \/ g # h) /\ Started(v, g)' =>
           /\ Started(v, g) /\ Pc(v, g)' = Pc(v, g)
           /\ <<v, g>> \in sent' => <<v, g>> \in sent
  BY DoesGoesOn
<1>2. ASSUME NEW v \in Updates, NEW g \in Recording, Started(v, g)'
      PROVE  Answered(v, g)'
  <2>1. CASE v = u /\ g = h
    BY <1>2, <2>1
  <2>2. CASE v # u \/ g # h
    BY <1>1, <1>2, <2>2, AnsweredStays DEF Onward
  <2> QED
    BY <2>1, <2>2
<1>3. ASSUME NEW c \in Chats
      PROVE  Once(c)' /\ \A i \in DOMAIN history'[c] : Fits(c, i)'
  <2>1. CASE c = ChatOf[u]
    BY <1>1, <2>1, FitsStays
  <2>2. CASE c # ChatOf[u]
    <3>1. history'[c] = history[c]
      BY <2>2
    <3> QED
      BY <1>1, <3>1, FitsStays DEF HistoryInv, Once
  <2> QED
    BY <2>1, <2>2
<1> QED
  BY <1>1, <1>2, <1>3 DEF HistoryInv, HistoryTypes

LEMMA UnrecordedKeepsHistory ==
  ASSUME HistoryInv, NEW u \in Updates, NEW h, Quiet(u, h) \/ Elsewhere(u, h) \/ SendsReply(u, h)
  PROVE  HistoryInv'
<1>1. Does(u, h) /\ history' = history
  BY DEF Does, Quiet, Elsewhere, SendsReply, chat
<1>2. Types' /\ Onward
  BY <1>1, DoesGoesOn
<1>3. /\ Extended /\ history' \in [Chats -> Seq(Entries)]
      /\ \A c \in Chats : Once(c)' /\ \A i \in DOMAIN history'[c] : Fits(c, i)'
  BY <1>1, <1>2, SameHistoryFits
<1>4. ASSUME h \in Recording
      PROVE  Answered(u, h)'
  <2>1. PICK p, s : /\ Step(u, h, p, s)
                    /\ \/ /\ p \notin {"record", "ended", "failed"} /\ s.pc \notin {"start", "record"}
                          /\ p = "start" => h = "on_photo"
                          /\ sent' = sent
                       \/ p = "reply" /\ s.pc = "record" /\ sent' = sent \cup {<<u, h>>}
    BY <1>4 DEF Quiet, Elsewhere, SendsReply, chat
  <2>2. Started(u, h) /\ Pc(u, h) = p /\ Pc(u, h)' = s.pc
    BY <2>1, StepFrame DEF HistoryInv, HistoryTypes
  <2>3. Answered(u, h)
    BY <1>4, <2>2 DEF HistoryInv
  <2>4. IsIn(Message(u), u) => IsIn(Message(u), u)'
    BY <1>3, IsInStays
  <2> QED
    BY <2>1, <2>2, <2>3, <2>4 DEF Answered, Message
<1>5. ChatOf[u] \in Chats
  BY DispatchAssumption
<1> QED
  BY <1>1, <1>3, <1>4, <1>5, DoesKeepsHistory

LEMMA RecordsFirstKeepsHistory ==
  ASSUME HistoryInv, NEW u \in Updates, NEW h, RecordsFirst(u, h)
  PROVE  HistoryInv'
<1>c. PICK c \in Chats : c = ChatOf[u]
  BY DispatchAssumption
<1>n. PICK n \in Nat : n = Len(history[c])
  BY DEF HistoryInv, HistoryTypes
<1>1. Does(u, h) /\ h \in Recording /\ h # "on_photo" /\ Add(u, <<Message(u)>>) /\ sent' = sent
  BY DEF Does, RecordsFirst
<1>2. PICK s : Step(u, h, "start", s) /\ s.pc = "settings"
  BY DEF RecordsFirst
<1>3. Started(u, h) /\ Pc(u, h) = "start" /\ Pc(u, h)' = "settings"
  BY <1>2, StepFrame DEF HistoryInv, HistoryTypes
<1>4. Message(u) \in Entries
  BY DEF Message, Entries
<1>5. history \in [Chats -> Seq(Entries)] /\ Types
  BY DEF HistoryInv, HistoryTypes
<1>6. /\ Extended
      /\ history' \in [Chats -> Seq(Entries)]
      /\ DOMAIN history[c] = 1..n /\ DOMAIN history'[c] = 1..(n + 1)
      /\ \A i \in 1..n : history'[c][i] = history[c][i]
      /\ history'[c][n + 1] = Message(u)
      /\ \A d \in Chats \ {c} : history'[d] = history[d]
  <2>1. PICK t : t = <<Message(u)>>
    OBVIOUS
  <2>2. t \in Seq(Entries) /\ Len(t) = 1 /\ t[1] = Message(u)
    BY <1>4, <2>1
  <2>3. Add(u, t)
    BY <1>1, <2>1
  <2>4. PICK m : m = Len(t)
    OBVIOUS
  <2>5. /\ Extended
        /\ history' \in [Chats -> Seq(Entries)]
        /\ DOMAIN history[c] = 1..n /\ DOMAIN history'[c] = 1..(n + m)
        /\ \A i \in 1..n : history'[c][i] = history[c][i]
        /\ \A k \in 1..m : history'[c][n + k] = t[k]
        /\ \A d \in Chats \ {c} : history'[d] = history[d]
    BY <1>c, <1>n, <1>5, <2>2, <2>3, <2>4, AddExtends
  <2> QED
    BY <2>2, <2>4, <2>5
<1>7. ASSUME NEW i \in 1..n
      PROVE  history[c][i] # Message(u)
  <2>1. SUFFICES ASSUME history[c][i] = Message(u) PROVE FALSE
    OBVIOUS
  <2>2. Fits(c, i) /\ history[c][i].update = u /\ history[c][i].by = "user"
    BY <1>6, <2>1 DEF HistoryInv, Message
  <2>3. \E g \in Recording : Started(u, g) /\ Pc(u, g) # "start"
    BY <2>2 DEF Fits
  <2> QED
    BY <1>1, <1>3, <1>5, <2>3, OneRecorder
<1>8. Once(c)'
  <2>1. Once(c)
    BY <1>6 DEF HistoryInv
  <2> QED
    BY <1>6, <1>7, <2>1 DEF Once
<1>9. Started(u, h)'
  BY <1>1, <1>3, DoesGoesOn DEF Started
<1>10. Fits(c, n + 1)'
  <2>1. history'[c][n + 1].update = u /\ history'[c][n + 1].by = "user"
    BY <1>6 DEF Message
  <2> QED
    BY <1>c, <1>1, <1>3, <1>9, <2>1 DEF Fits
<1>11. Answered(u, h)'
  <2>1. <<u, h>> \notin sent'
    BY <1>1, <1>3 DEF HistoryInv, Answered
  <2>2. IsIn(Message(u), u)'
    <3>1. n + 1 \in 1..(n + 1) /\ history'[c][n + 1] = Message(u)
      BY <1>6
    <3> QED
      BY <1>c, <1>6, <3>1 DEF IsIn, Message
  <2> QED
    BY <1>3, <2>1, <2>2 DEF Answered, Message
<1>12. \A i \in DOMAIN history'[c] : i \in DOMAIN history[c] \/ Fits(c, i)'
  BY <1>6, <1>10
<1> QED
  BY <1>c, <1>1, <1>6, <1>8, <1>11, <1>12, DoesKeepsHistory

LEMMA RecordsLastKeepsHistory ==
  ASSUME HistoryInv, NEW u \in Updates, NEW h, RecordsLast(u, h)
  PROVE  HistoryInv'
<1>c. PICK c \in Chats : c = ChatOf[u]
  BY DispatchAssumption
<1>n. PICK n \in Nat : n = Len(history[c])
  BY DEF HistoryInv, HistoryTypes
<1>t. PICK t : t = IF h = "on_photo" THEN <<Message(u), Reply(u, h)>> ELSE <<Reply(u, h)>>
  OBVIOUS
<1>m. PICK m : m = Len(t)
  OBVIOUS
<1>1. Does(u, h) /\ h \in Recording /\ Add(u, t) /\ sent' = sent
  BY <1>t DEF Does, RecordsLast
<1>2. PICK s : Step(u, h, "record", s) /\ s.pc = "ended"
  BY DEF RecordsLast
<1>3. Started(u, h) /\ Pc(u, h) = "record" /\ Pc(u, h)' = "ended"
  BY <1>2, StepFrame DEF HistoryInv, HistoryTypes
<1>4. history \in [Chats -> Seq(Entries)] /\ Types
  BY DEF HistoryInv, HistoryTypes
<1>5. /\ t \in Seq(Entries) /\ m \in {1, 2} /\ t[m] = Reply(u, h)
      /\ h = "on_photo" <=> m = 2
      /\ m = 2 => t[1] = Message(u)
  <2>1. Message(u) \in Entries /\ Reply(u, h) \in Entries
    BY <1>1 DEF Message, Reply, Entries
  <2> QED
    BY <1>t, <1>m, <2>1
<1>6. /\ Extended
      /\ history' \in [Chats -> Seq(Entries)]
      /\ DOMAIN history[c] = 1..n /\ DOMAIN history'[c] = 1..(n + m)
      /\ \A i \in 1..n : history'[c][i] = history[c][i]
      /\ \A k \in 1..m : history'[c][n + k] = t[k]
      /\ \A d \in Chats \ {c} : history'[d] = history[d]
  BY <1>c, <1>n, <1>m, <1>1, <1>4, <1>5, AddExtends
<1>7. Answered(u, h) /\ <<u, h>> \in sent
  BY <1>1, <1>3 DEF HistoryInv, Answered
<1>8. h # "user" /\ Started(u, h)'
  BY <1>1, <1>3, DoesGoesOn DEF Recording, Started
<1>9. ASSUME NEW i \in 1..n
      PROVE  /\ history[c][i] # Reply(u, h)
             /\ m = 2 => history[c][i] # Message(u)
  <2>1. Fits(c, i)
    BY <1>6 DEF HistoryInv
  <2>2. history[c][i] # Reply(u, h)
    BY <1>3, <1>8, <2>1 DEF Fits, Reply
  <2>3. ASSUME m = 2, history[c][i] = Message(u)
        PROVE  FALSE
    <3>2. history[c][i].update = u /\ history[c][i].by = "user"
      BY <2>3 DEF Message
    <3>1. \E g \in Recording : Started(u, g) /\ (g = "on_photo" => Pc(u, g) = "ended")
      BY <2>1, <3>2 DEF Fits
    <3> QED
      BY <1>1, <1>3, <1>4, <1>5, <2>3, <3>1, OneRecorder
  <2> QED
    BY <2>2, <2>3
<1>10. Once(c)'
  <2>1. Once(c)
    BY <1>6 DEF HistoryInv
  <2>2. Message(u) # Reply(u, h)
    BY <1>8 DEF Message, Reply
  <2>3. CASE m = 1
    BY <1>5, <1>6, <1>9, <2>1, <2>3 DEF Once
  <2>4. CASE m = 2
    <3>1. history'[c][n + 1] = Message(u) /\ history'[c][n + 2] = Reply(u, h)
      BY <1>5, <1>6, <2>4
    <3>2. DOMAIN history'[c] = 1..(n + 2)
      BY <1>6, <2>4
    <3>3. \A i \in 1..(n + 2) : i \in 1..n \/ i = n + 1 \/ i = n + 2
      OBVIOUS
    <3>4. \A i, j \in 1..n : history'[c][i] = history'[c][j] => i = j
      BY <1>6, <2>1 DEF Once
    <3>5. \A i \in 1..n : history'[c][i] # Reply(u, h) /\ history'[c][i] # Message(u)
      BY <1>6, <1>9, <2>4
    <3>6. \A i, j \in 1..(n + 2) : history'[c][i] = history'[c][j] => i = j
      BY <2>2, <3>1, <3>3, <3>4, <3>5
    <3> QED
      BY <3>2, <3>6 DEF Once
  <2> QED
    BY <1>5, <2>3, <2>4
<1>11. Fits(c, n + m)'
  <2>1. PICK k \in 1..(n + m) : k = n + m
    BY <1>5
  <2>2. \E j \in 1..(k - 1) :
          history'[c][j] = Message(u) /\ (h = "on_photo" => j = k - 1)
    <3>1. CASE m = 2
      <4>1. n + 1 \in 1..(k - 1) /\ history'[c][n + 1] = Message(u) /\ n + 1 = k - 1
        BY <1>5, <1>6, <2>1, <3>1
      <4> QED
        BY <4>1
    <3>2. CASE m = 1
      <4>1. IsIn(Message(u), u)
        BY <1>3, <1>5, <1>7, <3>2 DEF Answered
      <4>2. PICK j \in 1..n : history[c][j] = Message(u)
        BY <1>c, <1>6, <4>1 DEF IsIn
      <4> QED
        BY <1>5, <1>6, <2>1, <3>2, <4>2
    <3> QED
      BY <1>5, <3>1, <3>2
  <2>3. history'[c][k].update = u /\ history'[c][k].by = h
    BY <1>5, <1>6, <2>1 DEF Reply
  <2>4. <<u, h>> \in sent' /\ ChatOf[u] = c
    BY <1>c, <1>1, <1>7
  <2>5. Fits(c, k)'
    BY <1>3, <1>8, <2>2, <2>3, <2>4 DEF Fits
  <2> QED
    BY <2>1, <2>5
<1>12. m = 2 => Fits(c, n + 1)'
  <2>1. ASSUME m = 2
        PROVE  /\ history'[c][n + 1].update = u /\ history'[c][n + 1].by = "user"
               /\ h = "on_photo"
    BY <1>5, <1>6, <2>1 DEF Message
  <2> QED
    BY <1>c, <1>1, <1>3, <1>7, <1>8, <2>1 DEF Fits
<1>13. Answered(u, h)'
  <2>1. IsIn(Reply(u, h), u)'
    <3>1. n + m \in 1..(n + m) /\ history'[c][n + m] = Reply(u, h)
      BY <1>5, <1>6
    <3> QED
      BY <1>c, <1>6, <3>1 DEF IsIn, Reply
  <2>2. IsIn(Message(u), u) => IsIn(Message(u), u)'
    BY <1>6, IsInStays
  <2> QED
    BY <1>1, <1>3, <1>7, <2>1, <2>2 DEF Answered, Message, Reply
<1>14. \A i \in DOMAIN history'[c] : i \in DOMAIN history[c] \/ Fits(c, i)'
  <2>1. \A i \in 1..(n + m) : i \in 1..n \/ i = n + m \/ (m = 2 /\ i = n + 1)
    BY <1>5, <1>6
  <2> QED
    BY <1>6, <1>11, <1>12, <2>1
<1> QED
  BY <1>c, <1>1, <1>6, <1>10, <1>13, <1>14, DoesKeepsHistory

LEMMA HistoryStep == HistoryInv /\ [Next]_vars => HistoryInv'
<1> SUFFICES ASSUME HistoryInv, [Next]_vars PROVE HistoryInv'
  OBVIOUS
<1>1. Types /\ SentByHandlers
  BY DEF HistoryInv, HistoryTypes
<1>2. ASSUME Types', Onward, SentByHandlers', UNCHANGED <<history, sent>>,
             \A v \in Updates : \A g \in Recording : Started(v, g)' =>
               \/ Started(v, g) /\ Pc(v, g)' = Pc(v, g)
               \/ ~Started(v, g) /\ Pc(v, g)' = "start"
      PROVE  HistoryInv'
  <2>1. /\ Extended /\ history' \in [Chats -> Seq(Entries)]
        /\ \A c \in Chats : Once(c)' /\ \A i \in DOMAIN history'[c] : Fits(c, i)'
    BY <1>2, SameHistoryFits
  <2>2. ASSUME NEW v \in Updates, NEW g \in Recording, Started(v, g)'
        PROVE  Answered(v, g)'
    <3>1. CASE Started(v, g) /\ Pc(v, g)' = Pc(v, g)
      BY <1>2, <2>1, <3>1, AnsweredStays
    <3>2. CASE ~Started(v, g) /\ Pc(v, g)' = "start"
      <4>1. <<v, g>> \notin sent'
        BY <1>1, <1>2, <3>2 DEF SentByHandlers
      <4> QED
        BY <3>2, <4>1 DEF Answered
    <3> QED
      BY <1>2, <2>2, <3>1, <3>2
  <2> QED
    BY <1>2, <2>1, <2>2 DEF HistoryInv, HistoryTypes
<1>3. Types'
  BY <1>1, TypesStep
<1>4. CASE Panics
  <2>1. Onward /\ SentByHandlers'
    BY <1>1, <1>4 DEF Panics, Onward, SentByHandlers, Started, Pc
  <2> QED
    BY <1>2, <1>3, <1>4, <2>1 DEF Panics, Started, Pc
<1>5. ASSUME NEW u \in Updates, Start(u)
      PROVE  HistoryInv'
  <2>1. /\ UNCHANGED <<kind, history, sent>> /\ phase[u] = "new" /\ phase'[u] = "running"
        /\ \A h \in Routes[kind[u]] : task'[u][h] = [pc |-> "start"]
        /\ \A v \in Updates \ {u} : phase'[v] = phase[v] /\ task'[v] = task[v]
    BY <1>1, <1>5, StartFrame DEF chat
  <2>2. \A v, g : Started(v, g) => Started(v, g)' /\ Pc(v, g)' = Pc(v, g)
    BY <2>1 DEF Started, Pc
  <2>3. Onward /\ SentByHandlers'
    BY <1>1, <2>1, <2>2 DEF Onward, SentByHandlers
  <2>4. \A v \in Updates : \A g \in Recording : Started(v, g)' =>
          \/ Started(v, g) /\ Pc(v, g)' = Pc(v, g)
          \/ ~Started(v, g) /\ Pc(v, g)' = "start"
    BY <2>1 DEF Started, Pc
  <2> QED
    BY <1>2, <1>3, <2>1, <2>3, <2>4
<1>6. ASSUME NEW u \in Updates, Return(u)
      PROVE  HistoryInv'
  <2>1. /\ UNCHANGED <<kind, task, history, sent>> /\ phase[u] = "running" /\ phase'[u] = "returned"
        /\ \A v \in Updates \ {u} : phase'[v] = phase[v]
    BY <1>1, <1>6, ReturnFrame DEF chat
  <2>2. \A v, g : (Started(v, g)' <=> Started(v, g)) /\ Pc(v, g)' = Pc(v, g)
    BY <2>1 DEF Started, Pc
  <2>3. Onward /\ SentByHandlers'
    BY <1>1, <2>1, <2>2 DEF Onward, SentByHandlers
  <2> QED
    BY <1>2, <1>3, <2>1, <2>2, <2>3
<1>7. ASSUME NEW u \in Updates, NEW h, Does(u, h)
      PROVE  HistoryInv'
  BY <1>7, UnrecordedKeepsHistory, RecordsFirstKeepsHistory, RecordsLastKeepsHistory DEF Does
<1> QED
  BY <1>4, <1>5, <1>6, <1>7, NextDoes

(* However the handlers of different updates interleave and fail, the      *)
(* history remembers what Telegram took from the bot, and nothing else.    *)
THEOREM HistoryAlwaysTells == Spec => []HistoryTellsWhatWasSent
<1>1. Init => HistoryInv
  <2> SUFFICES ASSUME Init PROVE HistoryInv
    OBVIOUS
  <2>1. Types /\ sent = {} /\ history = [c \in Chats |-> <<>>]
    BY TypesInit DEF Init, DispatchInit
  <2>2. <<>> \in Seq(Entries) /\ DOMAIN <<>> = {}
    BY EmptySeq
  <2>3. \A u, h : ~Started(u, h)
    BY DEF Init, DispatchInit, Started
  <2> QED
    BY <2>1, <2>2, <2>3 DEF HistoryInv, HistoryTypes, SentByHandlers, Once
<1> QED
  BY <1>1, HistoryStep, InvTells, PTL DEF Spec
-------------------------------------------------------------------------------
(* The pools: what is being picked from is what it was drawn from, under   *)
(* the lock of the voices, or an older reading of the greetings.           *)
Readings == [size : Nat, generation : {1, 2}]
Holding == {"choose", "take", "file", "notify", "reply", "record"}

PoolTypes ==
  /\ pool \in [Pool -> Readings] /\ DOMAIN updater = Pool
  /\ \A p \in Pool :
       /\ updater[p].pc \in {"timer", "lock"} => pool[p].generation = 1
       /\ updater[p].pc = "lock" => updater[p].read \in Readings /\ updater[p].read.generation = 2

VoiceHeld(u) ==
  /\ Pc(u, "on_voice") \in Holding => u \in readers
  /\ Pc(u, "on_voice") = "take" => task[u]["on_voice"].index \in 1..pool["voices"].size

GreetingDrawn(u) ==
  Pc(u, "greetings") = "greet" =>
    LET t == task[u]["greetings"] IN
    /\ t.drawn \in Readings /\ t.index \in 1..t.drawn.size
    /\ \/ t.drawn = pool["greetings"]
       \/ t.drawn.generation = 1 /\ pool["greetings"].generation = 2

DrawnInv ==
  /\ Types /\ PoolTypes
  /\ \A u \in Updates : Started(u, "on_voice") => VoiceHeld(u)
  /\ \A u \in Updates : Started(u, "greetings") => GreetingDrawn(u)

PoolsInv == DrawnInv /\ OnlyGreetingsShrink

LEMMA ApartKeepsDrawn ==
  ASSUME DrawnInv, Types', UNCHANGED pools,
         \A v \in Updates : \A g \in {"on_voice", "greetings"} : Started(v, g)' =>
           \/ Started(v, g) /\ task'[v][g] = task[v][g]
           \/ task'[v][g].pc = "start"
  PROVE  DrawnInv'
<1>1. PoolTypes'
  BY DEF DrawnInv, PoolTypes, pools
<1>2. ASSUME NEW v \in Updates, Started(v, "on_voice")'
      PROVE  VoiceHeld(v)'
  <2>1. CASE Started(v, "on_voice") /\ task'[v]["on_voice"] = task[v]["on_voice"]
    BY <2>1 DEF DrawnInv, VoiceHeld, Pc, pools
  <2>2. CASE task'[v]["on_voice"].pc = "start"
    BY <2>2 DEF VoiceHeld, Pc, Holding
  <2> QED
    BY <1>2, <2>1, <2>2
<1>3. ASSUME NEW v \in Updates, Started(v, "greetings")'
      PROVE  GreetingDrawn(v)'
  <2>1. CASE Started(v, "greetings") /\ task'[v]["greetings"] = task[v]["greetings"]
    BY <2>1 DEF DrawnInv, GreetingDrawn, Pc, pools
  <2>2. CASE task'[v]["greetings"].pc = "start"
    BY <2>2 DEF GreetingDrawn, Pc
  <2> QED
    BY <1>3, <2>1, <2>2
<1> QED
  BY <1>1, <1>2, <1>3 DEF DrawnInv

(* One step of the handler of voices. *)
LEMMA VoiceStep ==
  ASSUME DrawnInv, NEW u \in Updates, NEW p, NEW s, Step(u, "on_voice", p, s),
         UNCHANGED <<pool, updater>>, readers \subseteq readers' \cup {u},
         s.pc \in Holding => u \in readers',
         s.pc = "take" => s.index \in 1..pool["voices"].size
  PROVE  DrawnInv'
<1>1. /\ UNCHANGED <<kind, phase>> /\ Types' /\ task'[u]["on_voice"] = s
      /\ \A v \in Updates : \A g :
           Started(v, g) /\ (v # u \/ g # "on_voice") => task'[v][g] = task[v][g]
  BY StepFrame DEF DrawnInv
<1>2. PoolTypes'
  BY DEF DrawnInv, PoolTypes
<1>3. ASSUME NEW v \in Updates, Started(v, "on_voice")'
      PROVE  VoiceHeld(v)'
  <2>1. CASE v = u
    BY <1>1, <2>1 DEF VoiceHeld, Pc
  <2>2. CASE v # u
    <3>1. Started(v, "on_voice") /\ task'[v]["on_voice"] = task[v]["on_voice"]
      BY <1>1, <1>3, <2>2 DEF Started
    <3> QED
      BY <2>2, <3>1 DEF DrawnInv, VoiceHeld, Pc
  <2> QED
    BY <2>1, <2>2
<1>4. ASSUME NEW v \in Updates, Started(v, "greetings")'
      PROVE  GreetingDrawn(v)'
  <2>1. Started(v, "greetings") /\ task'[v]["greetings"] = task[v]["greetings"]
    BY <1>1, <1>4 DEF Started
  <2> QED
    BY <2>1 DEF DrawnInv, GreetingDrawn, Pc
<1> QED
  BY <1>1, <1>2, <1>3, <1>4 DEF DrawnInv

LEMMA AskingStep ==
  ASSUME NEW u, NEW h, NEW p, NEW fault, NEW next, NEW otherwise,
         Asks(u, h, p, fault, next, otherwise)
  PROVE  /\ fate' = fate
         /\ \E s : Step(u, h, p, s) /\ s.pc \in {next, otherwise}
<1>1. PICK s \in {[pc |-> next], [pc |-> otherwise]} : Goes(u, h, s)
  BY DEF Asks, GoesTo
<1> QED
  BY <1>1 DEF Asks, Step, flow, chat

LEMMA VoicesKeepDrawn ==
  ASSUME DrawnInv, NEW u \in Updates, OnVoice(u)
  PROVE  DrawnInv' /\ fate' \in {fate, "empty"}
<1> DEFINE h == "on_voice"
<1>1. ASSUME NEW p, NEW s, Step(u, h, p, s), UNCHANGED pools, s.pc \notin Holding
      PROVE  DrawnInv' /\ fate' = fate
  BY <1>1, VoiceStep DEF pools, Holding, Step, flow
<1>2. ASSUME NEW p, At(u, h, p)
      PROVE  Started(u, h) /\ Pc(u, h) = p /\ VoiceHeld(u)
  BY <1>2 DEF At, Started, Pc, DrawnInv
<1>3. CASE RecordsMessage(u, h)
  <2>1. Step(u, h, "start", [pc |-> "settings"]) /\ UNCHANGED pools
    BY <1>3 DEF RecordsMessage, Step, GoesTo
  <2> QED
    BY <1>1, <2>1 DEF Holding
<1>4. CASE Rolls(u, h)
  <2>1. UNCHANGED pools /\ \E s : Step(u, h, "settings", s) /\ s.pc \in {"pick", "failed", "ended"}
    <3>1. CASE Asks(u, h, "settings", "store", "pick", "failed")
      BY <1>4, <3>1, AskingStep DEF Rolls
    <3>2. CASE At(u, h, "settings") /\ Ends(u, h) /\ UNCHANGED <<flow, chat>>
      BY <1>4, <3>2 DEF Rolls, Ends, GoesTo, Step, flow, chat
    <3> QED
      BY <1>4, <3>1, <3>2 DEF Rolls
  <2> QED
    BY <1>1, <2>1 DEF Holding
<1>5. CASE VoiceLocks(u)
  <2>1. /\ Step(u, h, "pick", [pc |-> "choose"]) /\ UNCHANGED <<pool, updater>>
        /\ readers' = readers \cup {u} /\ fate' = fate
    BY <1>5 DEF VoiceLocks, GoesTo, Step, flow, chat
  <2> QED
    BY <2>1, VoiceStep
<1>6. CASE VoiceDraws(u)
  <2>1. u \in readers /\ UNCHANGED pools /\ pool["voices"].size \in Nat
    BY <1>2, <1>6 DEF VoiceDraws, VoiceHeld, Holding, DrawnInv, PoolTypes, Pool, Readings
  <2>2. CASE Panic("empty")
    <3>1. UNCHANGED <<kind, phase, task>> /\ fate' = "empty"
      BY <2>2 DEF Panic
    <3>2. Types'
      BY <2>2, TypesStep, <3>1 DEF Panic, DrawnInv, Types
    <3> QED
      BY <2>1, <3>1, <3>2, ApartKeepsDrawn DEF Started
  <2>3. ASSUME NEW i \in 1..pool["voices"].size, Goes(u, h, [pc |-> "take", index |-> i]),
               UNCHANGED <<flow, chat>>
        PROVE  DrawnInv' /\ fate' = fate
    <3>1. PICK s : s = [pc |-> "take", index |-> i]
      OBVIOUS
    <3>2. Step(u, h, "choose", s) /\ fate' = fate
      BY <1>6, <2>3, <3>1 DEF VoiceDraws, Step, flow, chat
    <3> QED
      BY <2>1, <3>1, <3>2, VoiceStep DEF pools
  <2> QED
    BY <1>6, <2>2, <2>3 DEF VoiceDraws
<1>7. CASE VoiceTakes(u)
  <2>1. u \in readers /\ UNCHANGED pools /\ ~(task[u][h].index > pool["voices"].size)
    <3>1. VoiceHeld(u) /\ Pc(u, h) = "take" /\ UNCHANGED pools
      BY <1>2, <1>7 DEF VoiceTakes
    <3>2. pool["voices"].size \in Nat
      BY DEF DrawnInv, PoolTypes, Pool, Readings
    <3>3. u \in readers /\ task[u][h].index \in 1..pool["voices"].size
      BY <3>1 DEF VoiceHeld, Holding
    <3> QED
      BY <3>1, <3>2, <3>3
  <2>2. Step(u, h, "take", [pc |-> "file"]) /\ fate' = fate
    BY <1>7, <2>1 DEF VoiceTakes, GoesTo, Step, flow, chat
  <2> QED
    BY <2>1, <2>2, VoiceStep DEF pools
<1>8. CASE VoiceSends(u)
  <2>1. PICK p, s : /\ p \in {"file", "notify", "reply"} /\ Step(u, h, p, s)
                    /\ s.pc \in {"notify", "reply", "record", "failed"}
    <3>1. CASE \/ Asks(u, h, "file", "telegram", "notify", "failed")
               \/ Asks(u, h, "notify", "telegram", "reply", "failed")
      BY <3>1, AskingStep
    <3>2. CASE Sends(u, h, "record")
      BY <3>2 DEF Sends, GoesTo, Fails, Step, flow
    <3> QED
      BY <1>8, <3>1, <3>2 DEF VoiceSends, VoiceRequests
  <2>2. u \in readers /\ task'[u][h].pc = s.pc /\ fate' = fate
    BY <1>2, <2>1, StepFrame DEF Step, VoiceHeld, Holding, DrawnInv, flow
  <2>3. /\ UNCHANGED <<pool, updater>>
        /\ readers' = IF s.pc = "failed" THEN readers \ {u} ELSE readers
    BY <1>8, <2>2 DEF VoiceSends
  <2> QED
    BY <2>1, <2>2, <2>3, VoiceStep DEF Holding
<1>9. CASE VoiceRecordsReply(u)
  <2>1. /\ Step(u, h, "record", [pc |-> "ended"]) /\ UNCHANGED <<pool, updater>>
        /\ readers' = readers \ {u} /\ fate' = fate
    BY <1>9 DEF VoiceRecordsReply, Step, Ends, GoesTo, flow
  <2> QED
    BY <2>1, VoiceStep DEF Holding
<1> QED
  BY <1>3, <1>4, <1>5, <1>6, <1>7, <1>8, <1>9 DEF OnVoice

(* One step of the handler of greetings. *)
LEMMA GreetingStep ==
  ASSUME DrawnInv, NEW u \in Updates, NEW p, NEW s, Step(u, "greetings", p, s), UNCHANGED pools,
         s.pc = "greet" =>
           /\ s.drawn = pool["greetings"] /\ s.drawn \in Readings
           /\ s.index \in 1..s.drawn.size
  PROVE  DrawnInv'
<1>1. /\ UNCHANGED <<kind, phase>> /\ Types' /\ task'[u]["greetings"] = s
      /\ \A v \in Updates : \A g :
           Started(v, g) /\ (v # u \/ g # "greetings") => task'[v][g] = task[v][g]
  BY StepFrame DEF DrawnInv
<1>2. PoolTypes'
  BY DEF DrawnInv, PoolTypes, pools
<1>3. ASSUME NEW v \in Updates, Started(v, "greetings")'
      PROVE  GreetingDrawn(v)'
  <2>1. CASE v = u
    BY <1>1, <2>1 DEF GreetingDrawn, Pc, pools
  <2>2. CASE v # u
    <3>1. Started(v, "greetings") /\ task'[v]["greetings"] = task[v]["greetings"]
      BY <1>1, <1>3, <2>2 DEF Started
    <3> QED
      BY <2>2, <3>1 DEF DrawnInv, GreetingDrawn, Pc, pools
  <2> QED
    BY <2>1, <2>2
<1>4. ASSUME NEW v \in Updates, Started(v, "on_voice")'
      PROVE  VoiceHeld(v)'
  <2>1. Started(v, "on_voice") /\ task'[v]["on_voice"] = task[v]["on_voice"]
    BY <1>1, <1>4 DEF Started
  <2> QED
    BY <2>1 DEF DrawnInv, VoiceHeld, Pc, pools
<1> QED
  BY <1>1, <1>2, <1>3, <1>4 DEF DrawnInv

LEMMA PanicKeepsDrawn ==
  ASSUME DrawnInv, Panics, UNCHANGED pools
  PROVE  DrawnInv'
<1>1. Types'
  BY DEF DrawnInv, Types, Panics
<1> QED
  BY <1>1, ApartKeepsDrawn DEF Panics, Started

LEMMA GreetingsKeepDrawn ==
  ASSUME DrawnInv, NEW u \in Updates, OnUserJoin(u)
  PROVE  DrawnInv' /\ (fate' \in {fate, "empty"} \/ OnlyGreetingsShrink')
<1> DEFINE h == "greetings"
<1>1. CASE GreetingDraws(u)
  <2>1. UNCHANGED pools /\ pool["greetings"] \in Readings
    BY <1>1 DEF GreetingDraws, DrawnInv, PoolTypes, Pool
  <2>2. CASE Panic("empty")
    BY <2>1, <2>2, PanicKeepsDrawn DEF Panic, Panics, chat
  <2>3. ASSUME NEW i \in 1..pool["greetings"].size, UNCHANGED <<flow, chat>>,
               Goes(u, h, [pc |-> "greet", index |-> i, drawn |-> pool["greetings"]])
        PROVE  DrawnInv' /\ fate' = fate
    <3>1. PICK s : s = [pc |-> "greet", index |-> i, drawn |-> pool["greetings"]]
      OBVIOUS
    <3>2. Step(u, h, "start", s) /\ fate' = fate
      BY <1>1, <2>3, <3>1 DEF GreetingDraws, Step, flow, chat
    <3> QED
      BY <2>1, <3>1, <3>2, GreetingStep
  <2> QED
    BY <1>1, <2>2, <2>3 DEF GreetingDraws
<1>2. CASE Greets(u)
  <2>1. UNCHANGED pools /\ At(u, h, "greet")
    BY <1>2 DEF Greets
  <2>2. CASE task[u][h].index > pool["greetings"].size
    <3>1. Panics /\ fate' = "index"
      BY <1>2, <2>2 DEF Greets, Panic, Panics, chat
    <3>2. Started(u, h) /\ Pc(u, h) = "greet" /\ kind[u] = "join" /\ u \in DOMAIN kind
      BY <2>1, RoutesOf DEF At, Started, Pc, DrawnInv, Types
    <3>3. PICK t : t = task[u][h]
      OBVIOUS
    <3>4. /\ t.drawn \in Readings /\ t.index \in 1..t.drawn.size
          /\ \/ t.drawn = pool["greetings"]
             \/ t.drawn.generation = 1 /\ pool["greetings"].generation = 2
      BY <3>2, <3>3 DEF DrawnInv, GreetingDrawn
    <3>5. pool["greetings"].size \in Nat /\ t.drawn.size \in Nat
      BY <3>4 DEF DrawnInv, PoolTypes, Pool, Readings
    <3>6. t.index > pool["greetings"].size
      BY <2>2, <3>3
    <3>7. t.drawn.size > pool["greetings"].size
      BY <3>4, <3>5, <3>6
    <3>8. t.drawn.generation < pool["greetings"].generation
      BY <3>4, <3>5, <3>7
    <3>9. OnlyGreetingsShrink'
      BY <2>1, <3>1, <3>2, <3>3, <3>7, <3>8 DEF OnlyGreetingsShrink, Panics, pools, Pc
    <3> QED
      BY <2>1, <3>1, <3>9, PanicKeepsDrawn
  <2>3. CASE ~(task[u][h].index > pool["greetings"].size)
    <3>1. Step(u, h, "greet", [pc |-> "reply"]) /\ fate' = fate
      BY <1>2, <2>3 DEF Greets, GoesTo, Step, flow
    <3> QED
      BY <2>1, <3>1, GreetingStep
  <2> QED
    BY <2>2, <2>3
<1>3. CASE Sends(u, h, "ended") /\ UNCHANGED pools
  <2>1. \E s : Step(u, h, "reply", s) /\ s.pc \in {"ended", "failed"}
    BY <1>3 DEF Sends, GoesTo, Fails, Step, flow
  <2> QED
    BY <1>3, <2>1, GreetingStep DEF Step, flow
<1> QED
  BY <1>1, <1>2, <1>3 DEF OnUserJoin

(* The other handlers leave the pools and these two alone. *)
LEMMA OthersKeepDrawn ==
  ASSUME DrawnInv, NEW u \in Updates, NEW h, h \notin {"on_voice", "greetings"}, UNCHANGED pools,
         Does(u, h)
  PROVE  DrawnInv' /\ fate' = fate
<1>1. /\ UNCHANGED <<kind, phase, fate>> /\ Types'
      /\ \A v \in Updates : \A g : Started(v, g) /\ (v # u \/ g # h) => task'[v][g] = task[v][g]
  BY DoesFrame DEF DrawnInv
<1>2. \A v \in Updates : \A g \in {"on_voice", "greetings"} : Started(v, g)' =>
        Started(v, g) /\ task'[v][g] = task[v][g]
  BY <1>1 DEF Started
<1> QED
  BY <1>1, <1>2, ApartKeepsDrawn

LEMMA UpdateStepKeepsDrawn ==
  ASSUME DrawnInv, NEW u \in Updates, UpdateStep(u)
  PROVE  DrawnInv' /\ (fate' \in {fate, "empty"} \/ OnlyGreetingsShrink')
<1>1. CASE Return(u) /\ UNCHANGED pools
  <2>1. /\ UNCHANGED <<kind, task, fate>> /\ Types' /\ phase[u] = "running"
        /\ \A v \in Updates \ {u} : phase'[v] = phase[v]
    BY <1>1, ReturnFrame DEF DrawnInv
  <2> QED
    BY <1>1, <2>1, ApartKeepsDrawn DEF Started
<1>2. CASE \E h \in {"bulling", "tagger"} : HandledElsewhere(u, h) /\ UNCHANGED pools
  BY <1>2, OthersDo, OthersKeepDrawn DEF Does
<1>3. ASSUME NEW h \in Persons, OnPersonal(u, h)
      PROVE  DrawnInv' /\ fate' \in {fate, "empty"}
  <2>1. UNCHANGED pools /\ (fate' = fate \/ (Panics /\ fate' = "empty") \/ Does(u, h))
    BY <1>3, OthersDo
       DEF OnPersonal, PersonalDeclines, PersonalReads, PersonalChooses, Panic, Panics, Does, chat,
           flow, Asks, Sends
  <2>2. h \notin {"on_voice", "greetings"}
    BY PersonsAssumption
  <2>3. Panics \/ Does(u, h)
    BY <1>3, OthersDo DEF Does
  <2>4. fate' \in {fate, "empty"}
    BY <1>3, <2>1, <2>2, OthersKeepDrawn
  <2> QED
    BY <2>1, <2>2, <2>3, <2>4, OthersKeepDrawn, PanicKeepsDrawn
<1>4. CASE OnSticker(u)
  <2>1. UNCHANGED pools
    BY <1>4 DEF OnSticker, RecordsMessage, Rolls, StickerChooses, RecordsReply
  <2>2. (Panics /\ fate' \in {fate, "empty"}) \/ Does(u, "sticker_reactions")
    <3>1. CASE StickerChooses(u)
      <4>1. fate' \in {fate, "empty"}
        BY <3>1 DEF StickerChooses, Panic, flow
      <4> QED
        BY <1>4, <4>1, StickersDo
    <3>2. CASE ~StickerChooses(u)
      <4>1. fate' = fate
        BY <1>4, <3>2 DEF OnSticker, RecordsMessage, Rolls, RecordsReply, Asks, Sends, flow
      <4> QED
        BY <1>4, <4>1, StickersDo
    <3> QED
      BY <3>1, <3>2
  <2> QED
    BY <2>1, <2>2, OthersKeepDrawn, PanicKeepsDrawn
<1>5. CASE OnUserLeft(u)
  <2>1. UNCHANGED pools
    BY <1>5 DEF OnUserLeft
  <2> QED
    BY <1>5, <2>1, OthersDo, OthersKeepDrawn DEF Does
<1>6. CASE OnPhoto(u) /\ UNCHANGED pools
  BY <1>6, PhotosDo, OthersKeepDrawn
<1> QED
  BY <1>1, <1>2, <1>3, <1>4, <1>5, <1>6, VoicesKeepDrawn, GreetingsKeepDrawn DEF UpdateStep

LEMMA UpdaterKeepsDrawn ==
  ASSUME DrawnInv, NEW p \in Pool, UpdaterStep(p), UNCHANGED <<flow, task, chat>>
  PROVE  DrawnInv' /\ fate' = fate
<1>1. UNCHANGED <<kind, phase, task, fate>> /\ Types'
  BY DEF flow, DrawnInv, Types
<1>2. CASE Refresh(p)
  <2>1. PoolTypes'
    <3>1. UNCHANGED pool /\ updater[p].pc = "timer"
      BY <1>2 DEF Refresh
    <3>2. PICK d : /\ updater' = [updater EXCEPT ![p] = d]
                   /\ \/ d.pc = "gone"
                      \/ d.pc = "lock" /\ d.read \in Readings /\ d.read.generation = 2
      <4>1. CASE updater' = [updater EXCEPT ![p] = [pc |-> "gone"]]
        <5>1. PICK d : d = [pc |-> "gone"]
          OBVIOUS
        <5>2. updater' = [updater EXCEPT ![p] = d] /\ d.pc = "gone"
          BY <4>1, <5>1
        <5> QED
          BY <5>2
      <4>2. ASSUME NEW n \in Lengths,
                   updater' = [updater EXCEPT ![p] = [pc |-> "lock", read |-> Reading(n, 2)]]
            PROVE  \E d : /\ updater' = [updater EXCEPT ![p] = d]
                          /\ d.pc = "lock" /\ d.read \in Readings /\ d.read.generation = 2
        <5>1. Reading(n, 2) \in Readings /\ Reading(n, 2).generation = 2
          BY LengthsAssumption DEF Reading, Readings
        <5>2. PICK d : d = [pc |-> "lock", read |-> Reading(n, 2)]
          OBVIOUS
        <5>3. d.pc = "lock" /\ d.read \in Readings /\ d.read.generation = 2
          BY <5>1, <5>2
        <5> QED
          BY <4>2, <5>2, <5>3
      <4> QED
        BY <1>2, <4>1, <4>2 DEF Refresh
    <3>3. DOMAIN updater = Pool
      BY DEF DrawnInv, PoolTypes
    <3>4. DOMAIN updater' = Pool /\ updater'[p] = d
          /\ \A q \in Pool \ {p} : updater'[q] = updater[q]
      BY <3>2, <3>3
    <3> QED
      BY <3>1, <3>2, <3>4 DEF DrawnInv, PoolTypes
  <2>2. UNCHANGED <<pool, readers>>
    BY <1>2 DEF Refresh
  <2> QED
    BY <1>1, <2>1, <2>2 DEF DrawnInv, VoiceHeld, GreetingDrawn, Started, Pc
<1>3. CASE Replace(p)
  <2>1. PICK r : r = updater[p].read
    OBVIOUS
  <2>2. /\ r \in Readings /\ r.generation = 2 /\ pool[p].generation = 1
        /\ pool' = [pool EXCEPT ![p] = r]
        /\ updater' = [updater EXCEPT ![p] = [pc |-> "gone"]]
        /\ UNCHANGED readers /\ (p = "voices" => readers = {})
    BY <1>3, <2>1 DEF Replace, DrawnInv, PoolTypes
  <2>3. pool \in [Pool -> Readings] /\ DOMAIN updater = Pool
    BY DEF DrawnInv, PoolTypes
  <2>4. /\ pool'[p] = r /\ updater'[p].pc = "gone"
        /\ \A q \in Pool \ {p} : pool'[q] = pool[q] /\ updater'[q] = updater[q]
    BY <2>2, <2>3
  <2>5. PoolTypes'
    BY <2>2, <2>3, <2>4 DEF DrawnInv, PoolTypes
  <2>6. ASSUME NEW v \in Updates, Started(v, "on_voice")'
        PROVE  VoiceHeld(v)'
    <3>1. VoiceHeld(v)
      BY <1>1, <2>6 DEF DrawnInv, Started
    <3>2. CASE p = "voices"
      BY <1>1, <2>2, <3>1, <3>2 DEF VoiceHeld, Holding, Pc
    <3>3. CASE p # "voices"
      BY <1>1, <2>2, <2>4, <3>1, <3>3 DEF VoiceHeld, Pc, Pool
    <3> QED
      BY <3>2, <3>3
  <2>7. ASSUME NEW v \in Updates, Started(v, "greetings")'
        PROVE  GreetingDrawn(v)'
    <3>1. GreetingDrawn(v)
      BY <1>1, <2>7 DEF DrawnInv, Started
    <3>2. CASE p = "greetings"
      BY <1>1, <2>2, <2>4, <3>1, <3>2 DEF GreetingDrawn, Pc
    <3>3. CASE p # "greetings"
      BY <1>1, <2>4, <3>1, <3>3 DEF GreetingDrawn, Pc, Pool
    <3> QED
      BY <3>2, <3>3
  <2> QED
    BY <1>1, <2>5, <2>6, <2>7 DEF DrawnInv
<1> QED
  BY <1>1, <1>2, <1>3 DEF UpdaterStep

(* A list that shrank under its reader's hands ends the process through    *)
(* the greetings only, whatever the sheets hold and whatever comes.        *)
THEOREM OnlyGreetingsPanic == Spec => []OnlyGreetingsShrink
<1>1. Init => PoolsInv
  <2> SUFFICES ASSUME Init PROVE DrawnInv /\ OnlyGreetingsShrink
    BY DEF PoolsInv
  <2>1. Types /\ fate = "running" /\ \A u, h : ~Started(u, h)
    BY TypesInit DEF Init, DispatchInit, Started
  <2>2. PoolTypes
    <3>1. /\ pool \in [Pool -> {Reading(n, 1) : n \in Lengths}]
          /\ updater = [p \in Pool |-> [pc |-> "timer"]]
      BY DEF Init, PoolsInit
    <3>2. \A n \in Lengths : Reading(n, 1) \in Readings /\ Reading(n, 1).generation = 1
      BY LengthsAssumption DEF Reading, Readings
    <3>3. \A p \in Pool : pool[p] \in Readings /\ pool[p].generation = 1
      BY <3>1, <3>2
    <3>4. DOMAIN pool = Pool /\ pool = [p \in Pool |-> pool[p]]
      BY <3>1
    <3>5. pool \in [Pool -> Readings]
      BY <3>3, <3>4
    <3>6. \A p \in Pool : updater[p].pc = "timer"
      BY <3>1
    <3> QED
      BY <3>1, <3>3, <3>5, <3>6 DEF PoolTypes
  <2> QED
    BY <2>1, <2>2 DEF DrawnInv, OnlyGreetingsShrink
<1>2. PoolsInv /\ [Next]_vars => PoolsInv'
  <2> SUFFICES ASSUME DrawnInv, OnlyGreetingsShrink, [Next]_vars
               PROVE  DrawnInv' /\ OnlyGreetingsShrink'
    BY DEF PoolsInv
  <2>1. CASE UNCHANGED vars
    <3>1. Panics /\ UNCHANGED <<pools, fate>>
      BY <2>1 DEF vars, flow, chat, Panics
    <3> QED
      BY <3>1, PanicKeepsDrawn DEF OnlyGreetingsShrink, pools, Panics
  <2>2. CASE Next
    <3>1. fate = "running"
      BY <2>2 DEF Next
    <3>2. ASSUME NEW u \in Updates, UpdateStep(u)
          PROVE  DrawnInv' /\ (fate' \in {fate, "empty"} \/ OnlyGreetingsShrink')
      BY <3>2, UpdateStepKeepsDrawn
    <3>3. ASSUME NEW u \in Updates, Start(u), UNCHANGED pools
          PROVE  DrawnInv' /\ fate' = fate
      <4>1. /\ UNCHANGED <<kind, fate>> /\ Types'
            /\ \A h \in Routes[kind[u]] : task'[u][h] = [pc |-> "start"]
            /\ \A v \in Updates \ {u} : phase'[v] = phase[v] /\ task'[v] = task[v]
        BY <3>3, StartFrame DEF DrawnInv
      <4>2. \A v \in Updates : \A g \in {"on_voice", "greetings"} : Started(v, g)' =>
              \/ Started(v, g) /\ task'[v][g] = task[v][g]
              \/ task'[v][g].pc = "start"
        BY <4>1 DEF Started
      <4> QED
        BY <3>3, <4>1, <4>2, ApartKeepsDrawn
    <3>4. ASSUME Clock
          PROVE  DrawnInv' /\ fate' = fate
      <4>1. CASE \E p \in Pool : UpdaterStep(p)
        BY <3>4, <4>1, UpdaterKeepsDrawn DEF Clock
      <4>2. CASE UNCHANGED pools
        <5>1. Panics /\ fate' = fate
          BY <3>4 DEF Clock, Panics, flow, chat
        <5> QED
          BY <4>2, <5>1, PanicKeepsDrawn
      <4> QED
        BY <3>4, <4>1, <4>2 DEF Clock
    <3>5. DrawnInv' /\ (fate' \in {fate, "empty"} \/ OnlyGreetingsShrink')
      BY <2>2, <3>2, <3>3, <3>4 DEF Next
    <3> QED
      BY <3>1, <3>5 DEF OnlyGreetingsShrink
  <2> QED
    BY <2>1, <2>2
<1> QED
  BY <1>1, <1>2, PTL DEF Spec, PoolsInv
-------------------------------------------------------------------------------
(* Albums: besides the photos that were answered, those count that are on  *)
(* their way to an answer.  A claim that is held has paid for one of them, *)
(* each that was given up for one more.                                    *)
OnTheWay == {"settings", "download", "read", "describe", "generate", "notify", "reply"}

Active(u) ==
  <<u, "on_photo">> \in sent \/ (Started(u, "on_photo") /\ Pc(u, "on_photo") \in OnTheWay)

Chosen(a) == {u \in DOMAIN kind : AlbumOf[u] = a /\ kind[u] = "photo" /\ Active(u)}

PaidFor(a) == minutes[a] + (IF claims[a] = Unclaimed THEN 0 ELSE 1)

AlbumTypes ==
  Types /\ claims \in [Albums -> Updates \cup {Unclaimed}] /\ minutes \in [Albums -> Nat]

ClaimsPay(a) == IsFiniteSet(Chosen(a)) /\ Cardinality(Chosen(a)) <= PaidFor(a)

AlbumInv == AlbumTypes /\ \A a \in Albums : ClaimsPay(a)

LEMMA InvAnswersOnce == AlbumInv => AlbumAnsweredOnce
<1> SUFFICES ASSUME AlbumInv, NEW a \in Albums
             PROVE  Cardinality(Answering(a)) <= 1 + minutes[a]
  BY DEF AlbumAnsweredOnce
<1>1. Answering(a) \subseteq Chosen(a) /\ ClaimsPay(a)
  BY DEF Answering, Chosen, Active, AlbumInv
<1>2. /\ Cardinality(Answering(a)) \in Nat /\ Cardinality(Chosen(a)) \in Nat
      /\ Cardinality(Answering(a)) <= Cardinality(Chosen(a))
  BY <1>1, FS_Subset, FS_CardinalityType DEF ClaimsPay
<1>3. minutes[a] \in Nat
  BY DEF AlbumInv, AlbumTypes
<1> QED
  BY <1>1, <1>2, <1>3 DEF ClaimsPay, PaidFor

(* No further photo is chosen, and a claim is paid for no less. *)
LEMMA FewerPay ==
  ASSUME AlbumInv, NEW a \in Albums, Chosen(a)' \subseteq Chosen(a),
         PaidFor(a)' \in Nat, PaidFor(a) <= PaidFor(a)'
  PROVE  ClaimsPay(a)'
<1>1. IsFiniteSet(Chosen(a)) /\ Cardinality(Chosen(a)) <= PaidFor(a)
  BY DEF AlbumInv, ClaimsPay
<1>2. PICK S : S = Chosen(a)'
  OBVIOUS
<1>3. /\ IsFiniteSet(S) /\ Cardinality(S) \in Nat /\ Cardinality(Chosen(a)) \in Nat
      /\ Cardinality(S) <= Cardinality(Chosen(a))
  BY <1>1, <1>2, FS_Subset, FS_CardinalityType
<1>4. PaidFor(a) \in Nat
  BY DEF PaidFor, AlbumInv, AlbumTypes
<1>5. Cardinality(S) <= PaidFor(a)'
  BY <1>1, <1>3, <1>4
<1> QED
  BY <1>2, <1>3, <1>5 DEF ClaimsPay

LEMMA NobodyChosen ==
  ASSUME AlbumInv, Types', UNCHANGED <<kind, albums>>,
         \A v \in Updates : Active(v)' => Active(v)
  PROVE  AlbumInv'
<1>1. AlbumTypes' /\ DOMAIN kind \subseteq Updates
  BY DEF AlbumInv, AlbumTypes, albums, Types
<1>2. ASSUME NEW a \in Albums
      PROVE  ClaimsPay(a)'
  <2>1. Chosen(a)' \subseteq Chosen(a)
    BY <1>1 DEF Chosen
  <2>2. PaidFor(a)' = PaidFor(a) /\ PaidFor(a) \in Nat
    BY DEF PaidFor, albums, AlbumInv, AlbumTypes
  <2> QED
    BY <2>1, <2>2, FewerPay
<1> QED
  BY <1>1, <1>2 DEF AlbumInv

(* What a step of a handler does for the photo of its update. *)
LEMMA ActiveStep ==
  ASSUME Types, NEW u \in Updates, NEW h, NEW p, NEW s, Step(u, h, p, s),
         \/ sent' = sent
         \/ sent' = sent \cup {<<u, h>>} /\ (h = "on_photo" => p \in OnTheWay)
  PROVE  \A v \in Updates :
           Active(v)' => \/ Active(v)
                         \/ v = u /\ h = "on_photo" /\ p \notin OnTheWay /\ s.pc \in OnTheWay
<1> SUFFICES ASSUME NEW v \in Updates, Active(v)'
             PROVE  \/ Active(v)
                    \/ v = u /\ h = "on_photo" /\ p \notin OnTheWay /\ s.pc \in OnTheWay
  OBVIOUS
<1>1. /\ UNCHANGED <<kind, phase>> /\ Started(u, h) /\ Pc(u, h) = p /\ Pc(u, h)' = s.pc
      /\ \A w \in Updates : \A g : Started(w, g) /\ (w # u \/ g # h) => task'[w][g] = task[w][g]
  BY StepFrame
<1>2. CASE v # u \/ h # "on_photo"
  <2>1. <<v, "on_photo">> \in sent' => <<v, "on_photo">> \in sent
    BY <1>2
  <2>2. Started(v, "on_photo")' => Started(v, "on_photo") /\ Pc(v, "on_photo")' = Pc(v, "on_photo")
    BY <1>1, <1>2 DEF Started, Pc
  <2> QED
    BY <2>1, <2>2 DEF Active
<1>3. CASE v = u /\ h = "on_photo"
  BY <1>1, <1>3 DEF Active
<1> QED
  BY <1>2, <1>3

LEMMA PhotoGoesOn ==
  ASSUME NEW u \in Updates, OnPhoto(u), ~PhotoArrives(u)
  PROVE  /\ UNCHANGED albums
         /\ \E p, s : /\ Step(u, "on_photo", p, s)
                      /\ \/ /\ p \in OnTheWay
                            /\ sent' = sent \/ sent' = sent \cup {<<u, "on_photo">>}
                         \/ s.pc = "ended" /\ sent' = sent
<1> DEFINE h == "on_photo"
<1>1. ASSUME NEW p \in OnTheWay, NEW fault, NEW next, NEW otherwise,
             Asks(u, h, p, fault, next, otherwise)
      PROVE  \E s : Step(u, h, p, s) /\ sent' = sent
  <2>1. \E s : Step(u, h, p, s)
    BY <1>1 DEF Asks, Step, flow, chat, GoesTo
  <2> QED
    BY <1>1, <2>1 DEF Asks, chat
<1>2. "settings" \in OnTheWay /\ "download" \in OnTheWay /\ "read" \in OnTheWay
      /\ "describe" \in OnTheWay /\ "generate" \in OnTheWay /\ "notify" \in OnTheWay
      /\ "reply" \in OnTheWay
  BY DEF OnTheWay
<1>3. CASE PhotoRolls(u)
  <2>1. CASE At(u, h, "settings") /\ Ends(u, h) /\ UNCHANGED <<flow, chat>>
    <3>1. Step(u, h, "settings", [pc |-> "ended"]) /\ sent' = sent
      BY <2>1 DEF Ends, GoesTo, Step, flow, chat
    <3> QED
      BY <1>2, <1>3, <3>1 DEF PhotoRolls
  <2> QED
    BY <1>1, <1>2, <1>3, <2>1 DEF PhotoRolls
<1>4. CASE PhotoIsDescribed(u)
  BY <1>1, <1>2, <1>4 DEF PhotoIsDescribed
<1>5. CASE PhotoIsAnswered(u)
  <2>1. Step(u, h, "generate", [pc |-> "notify"]) /\ sent' = sent /\ UNCHANGED albums
    BY <1>5 DEF PhotoIsAnswered, GoesTo, Step, flow, chat
  <2> QED
    BY <1>2, <2>1
<1>6. CASE PhotoSends(u)
  <2>1. CASE Sends(u, h, "record")
    <3>1. /\ \E s : Step(u, h, "reply", s)
          /\ sent' = sent \/ sent' = sent \cup {<<u, h>>}
      BY <2>1 DEF Sends, GoesTo, Fails, Step, flow
    <3> QED
      BY <1>2, <1>6, <3>1 DEF PhotoSends
  <2> QED
    BY <1>1, <1>2, <1>6, <2>1 DEF PhotoSends
<1>7. CASE PhotoIsRecorded(u)
  <2>1. Step(u, h, "record", [pc |-> "ended"]) /\ sent' = sent /\ UNCHANGED albums
    BY <1>7 DEF PhotoIsRecorded, Ends, GoesTo, Step, flow, albums
  <2>2. [pc |-> "ended"].pc = "ended"
    OBVIOUS
  <2> QED
    BY <2>1, <2>2
<1> QED
  BY <1>3, <1>4, <1>5, <1>6, <1>7 DEF OnPhoto

LEMMA ArrivalIsPaid ==
  ASSUME AlbumInv, Types', NEW u \in Updates, PhotoArrives(u)
  PROVE  AlbumInv'
<1> DEFINE h == "on_photo"
<1>a. PICK a : a = AlbumOf[u]
  OBVIOUS
<1>1. At(u, h, "start") /\ UNCHANGED <<flow, chat, minutes>>
  BY DEF PhotoArrives
<1>2. UNCHANGED <<kind, sent, minutes>> /\ DOMAIN kind \subseteq Updates
  BY <1>1 DEF flow, chat, AlbumInv, AlbumTypes, Types
<1>3. CASE a # NoAlbum /\ claims[a] # Unclaimed
  <2>1. Step(u, h, "start", [pc |-> "ended"]) /\ UNCHANGED albums
    BY <1>1, <1>3, <1>a DEF PhotoArrives, Ends, GoesTo, Step, albums
  <2>2. [pc |-> "ended"].pc \notin OnTheWay
    BY DEF OnTheWay
  <2>3. \A v \in Updates : Active(v)' => Active(v)
    BY <1>2, <2>1, <2>2, ActiveStep DEF AlbumInv, AlbumTypes
  <2> QED
    BY <1>2, <2>1, <2>3, NobodyChosen
<1>4. CASE ~(a # NoAlbum /\ claims[a] # Unclaimed)
  <2>1. /\ \E s : Step(u, h, "start", s)
        /\ claims' = IF a = NoAlbum THEN claims ELSE [claims EXCEPT ![a] = u]
    BY <1>1, <1>4, <1>a DEF PhotoArrives, GoesTo, Step
  <2>2. \A v \in Updates : Active(v)' => Active(v) \/ v = u
    BY <1>2, <2>1, ActiveStep DEF AlbumInv, AlbumTypes
  <2>3. AlbumTypes'
    BY <1>2, <2>1 DEF AlbumInv, AlbumTypes
  <2>4. ASSUME NEW b \in Albums
        PROVE  ClaimsPay(b)'
    <3>1. minutes'[b] = minutes[b] /\ minutes[b] \in Nat
      BY <1>2 DEF AlbumInv, AlbumTypes
    <3>2. CASE b # a
      <4>1. Chosen(b)' \subseteq Chosen(b)
        BY <1>2, <1>a, <2>2, <3>2 DEF Chosen
      <4>2. claims'[b] = claims[b]
        BY <2>1, <3>2 DEF AlbumInv, AlbumTypes
      <4>3. PaidFor(b)' = PaidFor(b) /\ PaidFor(b) \in Nat
        BY <3>1, <4>2 DEF PaidFor
      <4> QED
        BY <4>1, <4>3, FewerPay
    <3>3. CASE b = a
      <4>1. claims[b] = Unclaimed /\ claims'[b] = u
        BY <1>4, <2>1, <3>3, AlbumAssumption DEF AlbumInv, AlbumTypes
      <4>2. PaidFor(b) = minutes[b] /\ PaidFor(b)' = minutes[b] + 1
        BY <3>1, <4>1, ClaimsAssumption DEF PaidFor
      <4>3. Chosen(b)' \subseteq Chosen(b) \cup {u}
        BY <1>2, <2>2 DEF Chosen
      <4>4. IsFiniteSet(Chosen(b)) /\ Cardinality(Chosen(b)) <= minutes[b]
        BY <4>2 DEF AlbumInv, ClaimsPay
      <4>5. PICK S, T : S = Chosen(b)' /\ T = Chosen(b) \cup {u}
        OBVIOUS
      <4>6. /\ IsFiniteSet(T) /\ Cardinality(Chosen(b)) \in Nat
            /\ Cardinality(T) \in {Cardinality(Chosen(b)), Cardinality(Chosen(b)) + 1}
        BY <4>4, <4>5, FS_AddElement, FS_CardinalityType
      <4>7. IsFiniteSet(S) /\ Cardinality(S) \in Nat /\ Cardinality(S) <= Cardinality(T)
        BY <4>3, <4>5, <4>6, FS_Subset, FS_CardinalityType
      <4>8. Cardinality(S) <= minutes[b] + 1
        BY <3>1, <4>4, <4>6, <4>7
      <4> QED
        BY <4>2, <4>5, <4>7, <4>8 DEF ClaimsPay
    <3> QED
      BY <3>2, <3>3
  <2> QED
    BY <2>3, <2>4 DEF AlbumInv
<1> QED
  BY <1>3, <1>4

LEMMA MinuteIsPaid ==
  ASSUME AlbumInv, Types', NEW a \in Albums, MinutePasses(a), UNCHANGED <<flow, task, chat>>
  PROVE  AlbumInv'
<1>1. UNCHANGED <<kind, phase, task, sent>>
  BY DEF flow, chat
<1>2. /\ claims[a] # Unclaimed /\ claims' = [claims EXCEPT ![a] = Unclaimed]
      /\ minutes' = [minutes EXCEPT ![a] = @ + 1]
      /\ claims \in [Albums -> Updates \cup {Unclaimed}] /\ minutes \in [Albums -> Nat]
  BY DEF MinutePasses, AlbumInv, AlbumTypes
<1>3. AlbumTypes'
  BY <1>2 DEF AlbumTypes
<1>4. ASSUME NEW b \in Albums
      PROVE  ClaimsPay(b)'
  <2>1. Chosen(b)' \subseteq Chosen(b)
    BY <1>1 DEF Chosen, Active, Started, Pc
  <2>2. PaidFor(b)' = PaidFor(b) /\ PaidFor(b) \in Nat
    BY <1>2 DEF PaidFor
  <2> QED
    BY <2>1, <2>2, FewerPay
<1> QED
  BY <1>3, <1>4 DEF AlbumInv

LEMMA AlbumStep == AlbumInv /\ [Next]_vars => AlbumInv'
<1> SUFFICES ASSUME AlbumInv, [Next]_vars PROVE AlbumInv'
  OBVIOUS
<1>1. Types /\ Types'
  BY TypesStep DEF AlbumInv, AlbumTypes
<1>2. CASE Panics /\ UNCHANGED albums
  <2>1. \A v \in Updates : Active(v)' => Active(v)
    BY <1>2 DEF Panics, Active, Started, Pc
  <2> QED
    BY <1>1, <1>2, <2>1, NobodyChosen DEF Panics
<1>3. ASSUME NEW u \in Updates, NEW h, h # "on_photo", Does(u, h), UNCHANGED albums
      PROVE  AlbumInv'
  <2>1. /\ \E p, s : Step(u, h, p, s)
        /\ sent' = sent \/ sent' = sent \cup {<<u, h>>}
    BY <1>3 DEF Does, Quiet, Elsewhere, RecordsFirst, SendsReply, RecordsLast, chat
  <2>2. \A v \in Updates : Active(v)' => Active(v)
    BY <1>1, <1>3, <2>1, ActiveStep
  <2>3. kind' = kind
    BY <1>1, <1>3, DoesFrame
  <2> QED
    BY <1>1, <1>3, <2>2, <2>3, NobodyChosen
<1>4. ASSUME NEW u \in Updates, OnPhoto(u)
      PROVE  AlbumInv'
  <2>1. CASE PhotoArrives(u)
    BY <1>1, <2>1, ArrivalIsPaid
  <2>2. CASE ~PhotoArrives(u)
    <3>1. \A v \in Updates : Active(v)' => Active(v)
      <4>1. "ended" \notin OnTheWay
        BY DEF OnTheWay
      <4> QED
        BY <1>1, <1>4, <2>2, <4>1, PhotoGoesOn, ActiveStep
    <3>2. UNCHANGED <<kind, albums>>
      BY <1>1, <1>4, <2>2, PhotoGoesOn, PhotosDo, DoesFrame
    <3> QED
      BY <1>1, <3>1, <3>2, NobodyChosen
  <2> QED
    BY <2>1, <2>2
<1>5. ASSUME NEW u \in Updates, Start(u) \/ Return(u), UNCHANGED albums
      PROVE  AlbumInv'
  <2>1. UNCHANGED <<kind, sent>>
    BY <1>5 DEF Start, Return, chat
  <2>2. ASSUME NEW v \in Updates, Started(v, "on_photo")', Pc(v, "on_photo")' \in OnTheWay
        PROVE  Started(v, "on_photo") /\ Pc(v, "on_photo")' = Pc(v, "on_photo")
    <3>1. CASE Return(u)
      BY <1>1, <2>2, <3>1, ReturnFrame DEF Started, Pc
    <3>2. CASE Start(u)
      <4>1. "start" \notin OnTheWay
        BY DEF OnTheWay
      <4> QED
        BY <1>1, <2>2, <3>2, <4>1, StartFrame DEF Started, Pc
    <3> QED
      BY <1>5, <3>1, <3>2
  <2> QED
    BY <1>1, <1>5, <2>1, <2>2, NobodyChosen DEF Active
<1>6. ASSUME NEW u \in Updates, UpdateStep(u)
      PROVE  AlbumInv'
  <2>1. CASE OnPhoto(u)
    BY <1>4, <2>1
  <2>2. CASE ~OnPhoto(u)
    <3>1. UNCHANGED albums
      BY <1>6, <2>2 DEF UpdateStep
    <3>2. Return(u) \/ Panics \/ \E h : h # "on_photo" /\ Does(u, h)
      <4>1. "on_photo" \notin Persons
        BY PersonsAssumption
      <4> QED
        BY <1>6, <2>2, <4>1, VoicesDo, StickersDo, OthersDo DEF UpdateStep, Does
    <3> QED
      BY <1>2, <1>3, <1>5, <3>1, <3>2
  <2> QED
    BY <2>1, <2>2
<1>7. CASE Clock
  <2>1. Panics
    BY <1>7 DEF Clock, Panics, flow, chat
  <2>2. CASE UNCHANGED albums
    BY <1>2, <2>1, <2>2
  <2>3. CASE \E a \in Albums : MinutePasses(a)
    BY <1>1, <1>7, <2>3, MinuteIsPaid DEF Clock
  <2> QED
    BY <1>7, <2>2, <2>3 DEF Clock
<1>8. CASE UNCHANGED vars
  BY <1>2, <1>8 DEF vars, Panics, flow, chat
<1> QED
  BY <1>5, <1>6, <1>7, <1>8 DEF Next

(* However the photos of however many albums interleave and fail, every    *)
(* album is answered once, and once more for each claim the clock gave up. *)
THEOREM AlbumsAnsweredOnce == Spec => []AlbumAnsweredOnce
<1>1. Init => AlbumInv
  <2> SUFFICES ASSUME Init PROVE AlbumInv
    OBVIOUS
  <2>1. Types /\ sent = {} /\ \A u : ~Started(u, "on_photo")
    BY TypesInit DEF Init, DispatchInit, Started
  <2>2. /\ claims = [a \in Albums |-> Unclaimed] /\ minutes = [a \in Albums |-> 0]
        /\ AlbumTypes
    BY <2>1 DEF Init, PhotosInit, AlbumTypes
  <2>3. ASSUME NEW a \in Albums
        PROVE  ClaimsPay(a)
    <3>1. Chosen(a) = {}
      BY <2>1 DEF Chosen, Active
    <3>2. PaidFor(a) = 0
      BY <2>2 DEF PaidFor
    <3> QED
      BY <3>1, <3>2, FS_EmptySet DEF ClaimsPay
  <2> QED
    BY <2>2, <2>3 DEF AlbumInv
<1> QED
  BY <1>1, AlbumStep, InvAnswersOnce, PTL DEF Spec
-------------------------------------------------------------------------------
(* The reports.  Numbers of disjoint parts of a finite set add up to the   *)
(* number of the whole: what each number counts is numbered through.       *)
LEMMA CountedByKey ==
  ASSUME NEW L, IsFiniteSet(L), NEW key, NEW f,
         \A e \in L : key[e] \in DOMAIN f,
         \A k \in DOMAIN f : f[k] = Cardinality({e \in L : key[e] = k})
  PROVE  SumOf(f) = Cardinality(L)
<1> DEFINE Part(k) == {e \in L : key[e] = k}
           Numbering(k) == Bijection(1..f[k], Part(k))
           marks == UNION {{k} \X (1..f[k]) : k \in DOMAIN f}
           b == [k \in DOMAIN f |-> CHOOSE g : g \in Numbering(k)]
           h == [m \in marks |-> b[m[1]][m[2]]]
<1>1. ASSUME NEW k \in DOMAIN f
      PROVE  b[k] \in Numbering(k)
  <2>1. IsFiniteSet(Part(k))
    BY FS_Subset
  <2>2. Numbering(k) # {}
    BY <2>1, FS_CardinalityType DEF ExistsBijection
  <2> HIDE DEF Numbering
  <2> QED
    BY <2>2
<1>2. \A k \in DOMAIN f :
        /\ \A i \in 1..f[k] : b[k][i] \in Part(k)
        /\ \A i, j \in 1..f[k] : b[k][i] = b[k][j] => i = j
        /\ \A e \in Part(k) : \E i \in 1..f[k] : b[k][i] = e
  <2> SUFFICES ASSUME NEW k \in DOMAIN f
               PROVE  /\ \A i \in 1..f[k] : b[k][i] \in Part(k)
                      /\ \A i, j \in 1..f[k] : b[k][i] = b[k][j] => i = j
                      /\ \A e \in Part(k) : \E i \in 1..f[k] : b[k][i] = e
    OBVIOUS
  <2>1. b[k] \in Bijection(1..f[k], Part(k))
    BY <1>1
  <2> HIDE DEF b, Part
  <2> QED
    BY <2>1 DEF Bijection, Injection, Surjection, IsInjective
<1>3. \A m : m \in marks <=> \E k \in DOMAIN f : \E i \in 1..f[k] : m = <<k, i>>
  OBVIOUS
<1> HIDE DEF b, marks
<1>4. \A k \in DOMAIN f : \A i \in 1..f[k] : <<k, i>> \in marks /\ h[<<k, i>>] = b[k][i]
  BY <1>3
<1>5. h \in [marks -> L] /\ \A e \in L : \E m \in marks : h[m] = e
  <2>1. \A m \in marks : h[m] \in L
    BY <1>2, <1>3, <1>4
  <2>2. ASSUME NEW e \in L
        PROVE  \E m \in marks : h[m] = e
    <3>1. key[e] \in DOMAIN f /\ e \in Part(key[e])
      OBVIOUS
    <3>2. PICK i \in 1..f[key[e]] : b[key[e]][i] = e
      BY <1>2, <3>1
    <3> QED
      BY <1>4, <3>1, <3>2
  <2> QED
    BY <2>1, <2>2
<1>6. ASSUME NEW m \in marks, NEW n \in marks, h[m] = h[n]
      PROVE  m = n
  <2>1. PICK k \in DOMAIN f : \E i \in 1..f[k] : m = <<k, i>>
    BY <1>3
  <2>2. PICK i \in 1..f[k] : m = <<k, i>>
    BY <2>1
  <2>3. PICK l \in DOMAIN f : \E j \in 1..f[l] : n = <<l, j>>
    BY <1>3
  <2>4. PICK j \in 1..f[l] : n = <<l, j>>
    BY <2>3
  <2>5. b[k][i] \in Part(k) /\ b[l][j] \in Part(l) /\ b[k][i] = b[l][j]
    BY <1>2, <1>4, <1>6, <2>2, <2>4
  <2>6. k = l
    BY <2>5
  <2>7. i = j
    BY <1>2, <2>2, <2>4, <2>5, <2>6
  <2> QED
    BY <2>2, <2>4, <2>6, <2>7
<1> HIDE DEF h
<1>7. h \in Bijection(marks, L)
  BY <1>5, <1>6 DEF Bijection, Injection, Surjection, IsInjective
<1>8. ExistsBijection(L, marks)
  BY <1>7, Fun_ExistsBijSymmetric DEF ExistsBijection
<1>9. Cardinality(marks) = Cardinality(L)
  BY <1>8, FS_Bijection
<1> QED
  BY <1>9 DEF SumOf, marks

(* A line says how many reactions there are of a kind, also where the      *)
(* storage has found none.                                                 *)
LEMMA LinesCount ==
  ASSUME NEW S, NEW row, row.opTypes = ByOpType(S), row.genTypes = ByGenType(S)
  PROVE  /\ DOMAIN Lines(row).operations = Operations
         /\ \A o \in Operations : Lines(row).operations[o] = Count(S, o)
         /\ \A g \in Strategies : Lines(row).strategies[g] = CountGenerated(S, g)
<1>1. ASSUME NEW o
      PROVE  Shown(ByOpType(S), o) = Count(S, o)
  <2>1. CASE o \in {e.type : e \in S}
    BY <2>1 DEF Shown, ByOpType
  <2>2. CASE o \notin {e.type : e \in S}
    <3>1. {e \in S : e.type = o} = {}
      BY <2>2
    <3> QED
      BY <2>2, <3>1, FS_EmptySet DEF Shown, ByOpType, Count
  <2> QED
    BY <2>1, <2>2
<1>2. ASSUME NEW g \in Strategies
      PROVE  Shown(ByGenType(S), g) = CountGenerated(S, g)
  <2>1. g # NoExtra
    BY DEF Strategies, NoExtra
  <2>2. CASE g \in {e.extra : e \in S}
    BY <2>1, <2>2 DEF Shown, ByGenType
  <2>3. CASE g \notin {e.extra : e \in S}
    <3>1. {e \in S : e.extra = g} = {}
      BY <2>3
    <3> QED
      BY <2>3, <3>1, FS_EmptySet DEF Shown, ByGenType, CountGenerated
  <2> QED
    BY <2>2, <2>3
<1> QED
  BY <1>1, <1>2 DEF Lines

Row(c) ==
  [chat |-> c, lines |-> Lines([chat |-> c, opTypes |-> ByOpType(Of(c)), genTypes |-> ByGenType(Of(c))])]

(* The join has a row for each chat that has a generated text. *)
LEMMA RowsAreOfChats ==
  \A r : r \in DetailedReport <=> \E c \in LoggedChats : ~Textless(c) /\ r = Row(c)
<1> DEFINE Joined(c) == [chat |-> c, opTypes |-> ByOpType(Of(c)), genTypes |-> ByGenType(Of(c))]
<1>1. \A c : c \in {e.chat : e \in {f \in log : f.extra # NoExtra}} <=> c \in LoggedChats /\ ~Textless(c)
  BY DEF LoggedChats, Textless, Of
<1>2. \A d : d \in DetailedStat <=> \E c \in LoggedChats : ~Textless(c) /\ d = Joined(c)
  <2>1. ASSUME NEW d \in DetailedStat
        PROVE  \E c \in LoggedChats : ~Textless(c) /\ d = Joined(c)
    <3>1. PICK p \in OpTypeStats \X GenTypeStats :
            /\ p[1].chat = p[2].chat
            /\ d = [chat |-> p[1].chat, opTypes |-> p[1].stats, genTypes |-> p[2].stats]
      BY DEF DetailedStat
    <3>2. PICK c \in LoggedChats : p[1] = [chat |-> c, stats |-> ByOpType(Of(c))]
      BY DEF OpTypeStats
    <3>3. PICK a \in LoggedChats : ~Textless(a) /\ p[2] = [chat |-> a, stats |-> ByGenType(Of(a))]
      BY <1>1 DEF GenTypeStats
    <3> QED
      BY <3>1, <3>2, <3>3
  <2>2. ASSUME NEW c \in LoggedChats, ~Textless(c)
        PROVE  Joined(c) \in DetailedStat
    <3> DEFINE o == [chat |-> c, stats |-> ByOpType(Of(c))]
               g == [chat |-> c, stats |-> ByGenType(Of(c))]
    <3>1. o \in OpTypeStats
      BY DEF OpTypeStats
    <3>2. g \in GenTypeStats
      BY <1>1, <2>2 DEF GenTypeStats
    <3>3. <<o, g>> \in {p \in OpTypeStats \X GenTypeStats : p[1].chat = p[2].chat}
      BY <3>1, <3>2
    <3> QED
      BY <3>3 DEF DetailedStat
  <2> QED
    BY <2>1, <2>2
<1>3. \A c : Row(c) = [chat |-> Joined(c).chat, lines |-> Lines(Joined(c))]
  BY DEF Row
<1> HIDE DEF Joined
<1> QED
  BY <1>2, <1>3 DEF DetailedReport

(* Every logged reaction is of a kind that the reports have a line for. *)
Reported(e) == e.type \in Operations /\ e.extra \in Strategies \cup {NoExtra}

LogInv ==
  /\ IsFiniteSet(incs) /\ IsFiniteSet(log)
  /\ \A e \in incs \cup log : Reported(e)

LEMMA TotalCountsAll ==
  ASSUME IsFiniteSet(log), \A e \in log : Reported(e)
  PROVE  SumOf(TotalReport.operations) = Cardinality(log)
<1>1. /\ DOMAIN TotalReport.operations = Operations
      /\ \A o \in Operations : TotalReport.operations[o] = Count(log, o)
  BY LinesCount DEF TotalReport, TotalStat
<1> DEFINE key == [e \in log |-> e.type]
<1>2. \A e \in log : key[e] \in Operations
  BY DEF Reported
<1>3. \A o \in Operations : {e \in log : key[e] = o} = {e \in log : e.type = o}
  OBVIOUS
<1> HIDE DEF key
<1>4. \A o \in Operations : TotalReport.operations[o] = Cardinality({e \in log : key[e] = o})
  BY <1>1, <1>3 DEF Count
<1>5. PICK f : f = TotalReport.operations
  OBVIOUS
<1>6. /\ \A e \in log : key[e] \in DOMAIN f
      /\ \A o \in DOMAIN f : f[o] = Cardinality({e \in log : key[e] = o})
  BY <1>1, <1>2, <1>4, <1>5
<1>7. SumOf(f) = Cardinality(log)
  BY <1>6, CountedByKey
<1> QED
  BY <1>5, <1>7

(* What the rows say of some kind of event is how many there are in the    *)
(* chats that have a row.                                                  *)
LEMMA RowsCount ==
  ASSUME NEW A, IsFiniteSet(A), \A e \in A : e \in log /\ ~Textless(e.chat),
         NEW line,
         \A c \in LoggedChats : ~Textless(c) => line[Row(c)] = Cardinality({e \in A : e.chat = c}),
         DOMAIN line = DetailedReport
  PROVE  SumOf(line) = Cardinality(A)
<1> DEFINE key == [e \in A |-> Row(e.chat)]
<1>1. \A e \in A : e.chat \in LoggedChats /\ key[e] \in DOMAIN line
  BY RowsAreOfChats DEF LoggedChats
<1>2. ASSUME NEW r \in DOMAIN line
      PROVE  line[r] = Cardinality({e \in A : key[e] = r})
  <2>1. PICK c \in LoggedChats : ~Textless(c) /\ r = Row(c)
    BY RowsAreOfChats
  <2>2. \A e \in A : key[e] = r <=> e.chat = c
    BY <2>1 DEF Row
  <2> HIDE DEF key
  <2>3. {e \in A : key[e] = r} = {e \in A : e.chat = c}
    BY <2>2
  <2> QED
    BY <2>1, <2>3
<1> HIDE DEF key
<1> QED
  BY <1>1, <1>2, CountedByKey

LEMMA ReportsCount ==
  ASSUME LogInv
  PROVE  ReportsAgree
<1>1. IsFiniteSet(log) /\ \A e \in log : Reported(e)
  BY DEF LogInv
<1>2. ASSUME NEW o \in Operations
      PROVE  TotalReport.operations[o] =
               SumOf([r \in DetailedReport |-> r.lines.operations[o]])
                 + Cardinality({e \in log : e.type = o /\ Textless(e.chat)})
  <2> DEFINE line == [r \in DetailedReport |-> r.lines.operations[o]]
             A == {e \in log : e.type = o /\ ~Textless(e.chat)}
             B == {e \in log : e.type = o /\ Textless(e.chat)}
  <2>1. IsFiniteSet(A) /\ IsFiniteSet(B) /\ Cardinality(A) \in Nat /\ Cardinality(B) \in Nat
    BY <1>1, FS_Subset, FS_CardinalityType
  <2>2. ASSUME NEW c \in LoggedChats, ~Textless(c)
        PROVE  line[Row(c)] = Cardinality({e \in A : e.chat = c})
    <3>1. Row(c) \in DetailedReport
      BY <2>2, RowsAreOfChats
    <3>2. Row(c).lines.operations[o] = Count(Of(c), o)
      BY LinesCount DEF Row
    <3>3. {e \in Of(c) : e.type = o} = {e \in A : e.chat = c}
      BY <2>2 DEF Of
    <3> QED
      BY <3>1, <3>2, <3>3 DEF Count
  <2>3. SumOf(line) = Cardinality(A)
    <3>1. DOMAIN line = DetailedReport /\ \A e \in A : e \in log /\ ~Textless(e.chat)
      OBVIOUS
    <3> HIDE DEF line, A
    <3> QED
      BY <2>1, <2>2, <3>1, RowsCount
  <2>4. TotalReport.operations[o] = Cardinality({e \in log : e.type = o})
    BY LinesCount DEF TotalReport, TotalStat, Count
  <2>5. {e \in log : e.type = o} = A \cup B /\ A \cap B = {}
    OBVIOUS
  <2> HIDE DEF A, B, line
  <2>6. Cardinality(A \cup B) = Cardinality(A) + Cardinality(B)
    <3>1. Cardinality(A \cup B) = Cardinality(A) + Cardinality(B) - Cardinality(A \cap B)
      BY <2>1, FS_Union, Zenon
    <3>2. Cardinality(A \cap B) = 0
      BY <2>5, FS_EmptySet
    <3> QED
      BY <2>1, <3>1, <3>2
  <2>7. TotalReport.operations[o] = SumOf(line) + Cardinality(B)
    BY <2>3, <2>4, <2>5, <2>6
  <2> QED
    BY <2>7 DEF line, B
<1>3. ASSUME NEW g \in Strategies
      PROVE  TotalReport.strategies[g] = SumOf([r \in DetailedReport |-> r.lines.strategies[g]])
  <2> DEFINE line == [r \in DetailedReport |-> r.lines.strategies[g]]
             A == {e \in log : e.extra = g}
  <2>1. IsFiniteSet(A)
    BY <1>1, FS_Subset
  <2>2. ASSUME NEW c \in LoggedChats, ~Textless(c)
        PROVE  line[Row(c)] = Cardinality({e \in A : e.chat = c})
    <3>1. Row(c) \in DetailedReport
      BY <2>2, RowsAreOfChats
    <3>2. Row(c).lines.strategies[g] = CountGenerated(Of(c), g)
      BY LinesCount DEF Row
    <3>3. {e \in Of(c) : e.extra = g} = {e \in A : e.chat = c}
      BY DEF Of
    <3> QED
      BY <3>1, <3>2, <3>3 DEF CountGenerated
  <2>3. DOMAIN line = DetailedReport /\ \A e \in A : e \in log /\ ~Textless(e.chat)
    <3>1. g # NoExtra
      BY DEF Strategies, NoExtra
    <3> QED
      BY <3>1 DEF Textless, Of
  <2>4. TotalReport.strategies[g] = Cardinality(A)
    BY LinesCount DEF TotalReport, TotalStat, CountGenerated
  <2> HIDE DEF line, A
  <2>5. SumOf(line) = Cardinality(A)
    BY <2>1, <2>2, <2>3, RowsCount
  <2> QED
    BY <2>4, <2>5 DEF line
<1> QED
  BY <1>1, <1>2, <1>3, TotalCountsAll DEF ReportsAgree

(* The log grows by what a handler reports, and by nothing that a report   *)
(* would not know.                                                         *)
Reporting == \E e : Reported(e) /\ Inc(e)

LEMMA HandlersReport ==
  ASSUME [Next]_vars
  PROVE  UNCHANGED stats \/ Reporting \/ \E e \in incs : Insert(e)
<1>1. ASSUME NEW u, NEW op \in Operations, Reacts(u, op)
      PROVE  Reporting
  BY <1>1 DEF Reacts, Event, Reporting, Reported
<1>2. {"on_voice", "on_sticker", "on_user_join", "on_user_left", "personal", "on_photo"} \subseteq Operations
  BY DEF Operations
<1>3. ASSUME NEW u \in Updates, OnVoice(u)
      PROVE  UNCHANGED stats \/ Reporting
  BY <1>1, <1>2, <1>3 DEF OnVoice, RecordsMessage, Rolls, VoiceLocks, VoiceDraws, VoiceTakes,
       VoiceSends, VoiceRecordsReply
<1>4. ASSUME NEW u \in Updates, OnSticker(u)
      PROVE  UNCHANGED stats \/ Reporting
  BY <1>1, <1>2, <1>4 DEF OnSticker, RecordsMessage, Rolls, StickerChooses, RecordsReply
<1>5. ASSUME NEW u \in Updates, OnUserJoin(u) \/ OnUserLeft(u)
      PROVE  UNCHANGED stats \/ Reporting
  BY <1>1, <1>2, <1>5 DEF OnUserJoin, GreetingDraws, Greets, OnUserLeft
<1>6. ASSUME NEW u \in Updates, NEW h \in Persons, OnPersonal(u, h)
      PROVE  UNCHANGED stats \/ Reporting
  BY <1>1, <1>2, <1>6 DEF OnPersonal, PersonalDeclines, PersonalReads, PersonalChooses
<1>7. ASSUME NEW u \in Updates, OnPhoto(u)
      PROVE  UNCHANGED stats \/ Reporting
  <2>1. ASSUME PhotoIsAnswered(u)
        PROVE  Reporting
    <3>1. PICK strategy \in Strategies : Inc(Event(u, ChatOf[u], "on_photo", strategy))
      BY <2>1 DEF PhotoIsAnswered, Strategies
    <3> QED
      BY <1>2, <3>1 DEF Event, Reporting, Reported
  <2> QED
    BY <1>7, <2>1 DEF OnPhoto, PhotoArrives, PhotoRolls, PhotoIsDescribed, PhotoSends, PhotoIsRecorded
<1>8. ASSUME NEW u \in Updates, UpdateStep(u)
      PROVE  UNCHANGED stats \/ Reporting
  BY <1>3, <1>4, <1>5, <1>6, <1>7, <1>8 DEF UpdateStep
<1>9. CASE UNCHANGED vars
  BY <1>9 DEF vars
<1>10. CASE Next
  BY <1>8, <1>10 DEF Next, Clock
<1> QED
  BY <1>9, <1>10

LEMMA LogStep == LogInv /\ [Next]_vars => LogInv'
<1> SUFFICES ASSUME LogInv, [Next]_vars PROVE LogInv'
  OBVIOUS
<1>1. CASE UNCHANGED stats
  BY <1>1 DEF LogInv, stats, Reported
<1>2. ASSUME NEW e, Reported(e), Inc(e)
      PROVE  LogInv'
  <2>1. incs' = incs \cup {e} /\ log' = log
    BY <1>2 DEF Inc
  <2>2. IsFiniteSet(incs')
    BY <2>1, FS_AddElement DEF LogInv
  <2> QED
    BY <1>2, <2>1, <2>2 DEF LogInv, Reported
<1>3. ASSUME NEW e \in incs, Insert(e)
      PROVE  LogInv'
  <2>1. incs' = incs \ {e} /\ log' = log \cup {e}
    BY <1>3 DEF Insert
  <2>2. IsFiniteSet(incs') /\ IsFiniteSet(log')
    BY <2>1, FS_AddElement, FS_RemoveElement DEF LogInv
  <2> QED
    BY <1>3, <2>1, <2>2 DEF LogInv, Reported
<1> QED
  BY <1>1, <1>2, <1>3, HandlersReport DEF Reporting

(* Whatever the handlers report and in whatever order the inserts come or  *)
(* fail, no reaction of the log is lost between the reports of /stat, but  *)
(* for the chats that the join drops (response_log.go, stat.go).           *)
THEOREM ReportsAlwaysAgree == Spec => []ReportsAgree
<1>1. Init => LogInv
  BY FS_EmptySet DEF Init, StatisticsInit, LogInv
<1>2. LogInv => ReportsAgree
  BY ReportsCount
<1> QED
  BY <1>1, <1>2, LogStep, PTL DEF Spec
===============================================================================
