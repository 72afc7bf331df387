------------------------------ MODULE Generation ------------------------------
(***************************************************************************)
(* How a text is found (features/message): the language model is asked, if *)
(* the dice and the phrase filter say so, and a phrase of the list is      *)
(* taken where it is not or fails.  A photo is described first.  Answers   *)
(* to messages and photos add what they answer to the history that they    *)
(* copied from the buffer; a ping does not.  The prompt and the list are   *)
(* replaced together under Generator.mu and read in sections of their own. *)
(***************************************************************************)
EXTENDS Prompt, GigaChat

CONSTANTS Scenarios,      \* the calls made, as functions from some of Calls
          Pools,          \* what the sheet may hold, as sets of phrases
          Short,          \* the phrases that are not too long for an example
          ExampleSample,  \* exampleSampleSize
          MaxReloads      \* bound on the reloads

Authors == [sender : Int, author : STRING, bot : BOOLEAN]
HistoryEntries ==
  [kind : {"user", "bot", "reaction"}, id : Int, sender : Int, author : STRING, time : Int, replyTo : Int,
   update : Int, target : Int, known : SUBSET Authors, meaningful : BOOLEAN]
Asks ==
  [mode : {"reply", "photo", "tag"}, history : Seq(HistoryEntries), entry : HistoryEntries, recipient : Int]

(* What a call can tell of. *)
Sources(ask) == IF ask.mode = "tag" THEN ask.history ELSE Append(ask.history, ask.entry)

(* A message is named by its identifier, and a reaction has none.  Whose   *)
(* message a reaction is to was taken from the history when it was added.  *)
NamesItsMessages(entries) ==
  \A i, j \in DOMAIN entries :
    LET e == entries[i]
        f == entries[j]
    IN /\ e.id = 0 <=> IsReaction(e)
       /\ ~IsReaction(e) /\ e.id = f.id => e = f
       /\ IsReaction(e) /\ e.known # {} /\ ~IsReaction(f) /\ e.target = f.id => e.known = {WhoWrote(f)}

(* Every call made is one of Calls, and what is answered is of a user. *)
ASSUME ScenariosAssumption ==
  \A scenario \in Scenarios :
    /\ DOMAIN scenario \subseteq Calls
    /\ \A c \in DOMAIN scenario :
         /\ scenario[c] \in Asks
         /\ scenario[c].mode # "tag" => IsUser(scenario[c].entry)
         /\ NamesItsMessages(Sources(scenario[c]))

VARIABLES
  asks,     \* the mode, the copied history, the entry to add and the recipient of each call
  phrases,  \* Generator.messages
  examples, \* the phrases in Generator.systemPrompt
  reloads,
  asked,    \* the prompt that was sent, with its examples
  result    \* what the call returned

generator == <<asks, phrases, examples, reloads, asked, result>>
vars == <<phase, client, generator>>

Made == DOMAIN asks
NoPrompt == [examples |-> {}, items |-> <<>>]

(* sampleExamples: all of the pool, or as many as fit. *)
Samples(pool) ==
  IF Cardinality(pool) <= ExampleSample THEN {pool}
  ELSE {sample \in SUBSET pool : Cardinality(sample) = ExampleSample}

Loaded(pool) == phrases' = pool /\ examples' \in Samples(pool \cap Short)

Init ==
  /\ GigaChatInit
  /\ asks \in Scenarios
  /\ phase = [c \in Made |-> IF asks[c].mode = "photo" THEN "token" ELSE "decide"]
  /\ phrases \in Pools /\ examples \in Samples(phrases \cap Short)
  /\ reloads = 0
  /\ asked = [c \in Made |-> NoPrompt]
  /\ result = [c \in Made |-> "none"]

(* A failed reload changes nothing. *)
ReloadMessages ==
  /\ reloads < MaxReloads
  /\ reloads' = reloads + 1
  /\ \E pool \in Pools : Loaded(pool)
  /\ UNCHANGED <<phase, client, asks, asked, result>>

(* What the handlers hand to the generator. *)
Entries(c) ==
  CASE asks[c].mode = "reply" -> Append(asks[c].history, asks[c].entry)
    [] asks[c].mode = "photo" -> Append(DropBotEntries(asks[c].history), asks[c].entry)
    [] asks[c].mode = "tag" -> asks[c].history

(* Mutant: the filter looks at the entry that came last. *)
UnavailableByLast(c) ==
  LET entries == Entries(c) IN
  \/ LastUserMessageIndex(entries) = 0
  \/ asks[c].mode = "tag" /\ \A i \in DOMAIN entries : ~IsOwn(entries[i], asks[c].recipient)
  \/ asks[c].mode = "reply" /\ ~entries[Len(entries)].meaningful

(* What keeps the model from being asked, whatever the dice say. *)
Unavailable(c) ==
  LET entries == OrderedHistory(Entries(c))
      users == TagUserHistory(entries)
      trigger == LastUserMessageIndex(entries)
  IN \/ /\ asks[c].mode = "tag"
        /\ asks[c].recipient <= 0 \/ ~\E i \in DOMAIN users : IsOwn(users[i], asks[c].recipient)
     \/ trigger = 0
     \/ asks[c].mode = "reply" /\ ~entries[trigger].meaningful

Decide(c) ==
  /\ phase[c] = "decide"
  /\ \/ ~Unavailable(c) /\ GoesTo(c, "prompt")
     \/ Unavailable(c) /\ GoesTo(c, "list")
     \/ asks[c].mode # "photo" /\ ~Unavailable(c) /\ GoesTo(c, "list")
  /\ UNCHANGED <<client, generator>>

Completions(c) ==
  LET entries == OrderedHistory(Entries(c)) IN
  IF asks[c].mode = "tag" THEN BuildTagCompletions(entries, asks[c].recipient)
  ELSE BuildChatCompletions(entries)

SendPrompt(c) ==
  /\ phase[c] = "prompt"
  /\ asked' = [asked EXCEPT ![c] = [examples |-> examples, items |-> Completions(c)]]
  /\ GoesTo(c, "model")
  /\ UNCHANGED <<client, asks, phrases, examples, reloads, result>>

(* deepseek.Client.Chat: a text, or an error, also for one cut short.      *)
ModelAnswers(c) ==
  /\ phase[c] = "model"
  /\ \/ GoesTo(c, "done") /\ result' = [result EXCEPT ![c] = "ai"]
     \/ GoesTo(c, "list") /\ UNCHANGED result
  /\ UNCHANGED <<client, asks, phrases, examples, reloads, asked>>

(* An empty list is a panic. *)
TakePhrase(c) ==
  /\ phase[c] = "list"
  /\ IF phrases = {} THEN GoesTo(c, "panic") /\ UNCHANGED result
     ELSE GoesTo(c, "done") /\ \E p \in phrases : result' = [result EXCEPT ![c] = p]
  /\ UNCHANGED <<client, asks, phrases, examples, reloads, asked>>

(* A panic ends the process. *)
Next ==
  /\ \A c \in Made : phase[c] # "panic"
  /\ \/ ReloadMessages
     \/ TokenLapses /\ UNCHANGED generator
     \/ \E c \in Made :
          \/ GenerateContent(c) /\ UNCHANGED generator
          \/ Decide(c) \/ SendPrompt(c) \/ ModelAnswers(c) \/ TakePhrase(c)

Spec == Init /\ [][Next]_vars
-------------------------------------------------------------------------------
(***************************************************************************)
(* Properties                                                              *)
(***************************************************************************)

(* The calls share one token: it is asked for by one of them at a time,    *)
(* only for the first time or after the time of the last one was over, and *)
(* whatever becomes of the request, the gate is open afterwards.  Nobody   *)
(* sends a question more often than once and maxRetries times.             *)
TokenIsShared ==
  /\ gate = Cardinality({c \in Made : phase[c] = "authorize"})
  /\ tokens + gate <= lapses + 1
  /\ \A c \in Made : tries[c] <= MaxRetries + 1

Given(c) ==
  {i \in DOMAIN Sources(asks[c]) : asks[c].mode = "photo" => ~IsBot(Sources(asks[c])[i])}

(* What is given, but for the bot's own before the first user's. *)
Shown(sources, given) ==
  {i \in given : IsBot(sources[i]) => \E u \in given : IsUser(sources[u]) /\ Earlier(sources[u], sources[i])}

Marked(c) == {n \in DOMAIN asked[c].items : asked[c].items[n].now}
Turns(c) == {n \in DOMAIN asked[c].items : asked[c].items[n].role = "assistant"}
TurnsTo(c, target) == {n \in Turns(c) : asked[c].items[n].entry.id = target}

(* The number counts the turns up to one of these, if there is one. *)
CountsTo(turn, turns, these) ==
  IF turn > 0 THEN \E n \in these : turn = Cardinality({k \in turns : k <= n}) ELSE these = {}

(* In an answer the model is shown every message of the history once and   *)
(* in their order by time and identifier, but for the bot's own before the *)
(* first user's (and all of the bot's with a photo); exactly one, the      *)
(* latest of a user, is marked, and without force it is the one that was   *)
(* found meaningful; and a reaction's number counts to the very message of *)
(* the bot, as sent, that it is a reaction to.                             *)
DialogueIsTheHistory(c) ==
  LET items == asked[c].items
      sources == Sources(asks[c])
      shown == Shown(sources, Given(c))
      Same(e, f) == e.kind = f.kind /\ e.id = f.id /\ e.update = f.update
  IN
  /\ Len(items) = Cardinality(shown)
  /\ \A i \in shown : \E n \in DOMAIN items : Same(items[n].entry, sources[i])
  /\ \A m, n \in DOMAIN items : m < n => ~Earlier(items[n].entry, items[m].entry)
  /\ \E n \in DOMAIN items :
       /\ Marked(c) = {n} /\ IsUser(items[n].entry)
       /\ \A u \in Given(c) : IsUser(sources[u]) => ~Earlier(items[n].entry, sources[u])
       /\ asks[c].mode = "reply" => items[n].entry.meaningful
  /\ \A n \in DOMAIN items : IsReaction(items[n].entry) =>
       CountsTo(items[n].turn, Turns(c), TurnsTo(c, items[n].entry.target))

(* In a ping nothing is marked and nothing of the bot's own is told; what  *)
(* is given as the recipient's is all that they, and nobody else, wrote.   *)
TaskIsTheHistory(c) ==
  LET items == Range(asked[c].items)
      told == {m.entry : m \in items}
      section(name) == {m.entry : m \in {x \in items : x.section = name}}
  IN
  /\ \A m \in items : ~m.now /\ m.turn = 0
  /\ told = {e \in Range(asks[c].history) : ~IsBot(e)}
  /\ section("own") = {e \in told : IsUser(e) /\ e.sender > 0 /\ e.sender = asks[c].recipient}
  /\ section("own") # {}
  /\ section("reactions") = {e \in told : IsReaction(e)}

(* The message of this identifier, if it is there. *)
Named(entries, id) == {e \in Range(entries) : ~IsReaction(e) /\ e.id = id}
Writers(messages) == {WhoWrote(e) : e \in messages}
WriterNames(messages) == {e.author : e \in messages}

(* Of a reaction and of an answer the model is told whose message it was   *)
(* to, if what was copied or is answered tells.                            *)
AuthorsAreTold(c) ==
  LET sources == Sources(asks[c]) IN
  \A n \in DOMAIN asked[c].items :
    LET m == asked[c].items[n] IN
    /\ IsReaction(m.entry) /\ Named(sources, m.entry.target) # {} =>
         m.known = Writers(Named(sources, m.entry.target))
    /\ IsUser(m.entry) /\ asks[c].mode = "reply" =>
         m.replyTo = WriterNames(Named(sources, m.entry.replyTo))

(* Whatever the order in which the entries were recorded, what the model   *)
(* is told is what happened, and of a reaction or an answer it is told     *)
(* whose message it was to, if the history knows, though that message      *)
(* itself may be left out of the prompt.                                   *)
PromptTellsTheHistory ==
  \A c \in Made : phase[c] \in {"model", "done"} /\ asked[c] # NoPrompt =>
    /\ IF asks[c].mode = "tag" THEN TaskIsTheHistory(c) ELSE DialogueIsTheHistory(c)
    /\ AuthorsAreTold(c)
===============================================================================
