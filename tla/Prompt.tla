-------------------------------- MODULE Prompt --------------------------------
(***************************************************************************)
(* How a prompt is made of a chat's history (features/message).  In an     *)
(* answer the history is a dialogue, and the message to answer is marked;  *)
(* in a ping it is data: what the recipient wrote, what others wrote, and  *)
(* the reactions.  An entry is of a user, of the bot or a reaction; texts  *)
(* are left out, but for whether the phrase filter finds one meaningful.   *)
(***************************************************************************)
EXTENDS Integers, Sequences, SequencesExt, FiniteSets

(* The order of orderedHistory *)
Earlier(a, b) ==
  IF a.time # b.time THEN a.time < b.time
  ELSE IF a.kind # "reaction" /\ b.kind # "reaction" THEN a.id < b.id
  ELSE IF a.kind # "reaction" \/ b.kind # "reaction" THEN a.kind # "reaction"
  ELSE a.update < b.update

At(history, indices) == [n \in DOMAIN indices |-> history[indices[n]]]

(* The elements of a finite set, each before those it stands before in the *)
(* strict total order R.                                                   *)
Sorted(I, R) ==
  CHOOSE s \in [1..Cardinality(I) -> I] : \A m, n \in DOMAIN s : m < n => <<s[m], s[n]>> \in R

(* A stable sort. *)
Precedes(history) ==
  {p \in (DOMAIN history) \X (DOMAIN history) :
     LET a == history[p[1]]
         b == history[p[2]]
     IN Earlier(a, b) \/ (p[1] < p[2] /\ ~Earlier(b, a))}
OrderedHistory(history) == At(history, Sorted(DOMAIN history, Precedes(history)))

(* What is at the indices I. *)
Only(history, I) == At(history, Sorted(I, {p \in I \X I : p[1] < p[2]}))

IsUser(e) == e.kind = "user"
IsBot(e) == e.kind = "bot"
IsReaction(e) == e.kind = "reaction"

(* Zero where the code has -1. *)
LastUserMessageIndex(history) == SelectLastInSeq(history, IsUser)

(* Mutant: the answers at the beginning stay, after a reaction. *)
WithoutFirstBotEntries(history) ==
  LET first == SelectInSeq(history, LAMBDA e : ~IsBot(e)) IN
  IF first = 0 THEN <<>> ELSE SubSeq(history, first, Len(history))

WithoutLeadingBotEntries(history) ==
  Only(history, {i \in DOMAIN history : IsReaction(history[i]) \/ \E u \in 1..i : IsUser(history[u])})

WhoWrote(e) == [sender |-> e.sender, author |-> e.author, bot |-> IsBot(e)]

(* Reaction.ResolveTarget: who wrote the message the reaction is to, as a  *)
(* set of at most one.                                                     *)
ResolveTarget(reaction, history) ==
  LET i == SelectInSeq(history, LAMBDA e : ~IsReaction(e) /\ e.id = reaction.target) IN
  IF i = 0 THEN reaction.known ELSE {WhoWrote(history[i])}

(* Who is answered, if the message is in the history. *)
RepliesTo(e, history) ==
  LET i == SelectInSeq(history, LAMBDA h : h.id = e.replyTo) IN
  IF e.replyTo = 0 \/ i = 0 THEN {} ELSE {history[i].author}

(* Which of the assistant's messages has this identifier, counted from 1.  *)
AssistantTurn(entries, id) ==
  LET i == SelectLastInSeq(entries, LAMBDA e : IsBot(e) /\ e.id = id) IN
  Cardinality({k \in 1..i : IsBot(entries[k])})

Item(section, role, entry, replyTo, now, turn, known) ==
  [section |-> section, role |-> role, entry |-> entry, replyTo |-> replyTo,
   now |-> now, turn |-> turn, known |-> known]

FormatReaction(section, e, history, turn) ==
  Item(section, "user", e, {}, FALSE, turn, ResolveTarget(e, history))

(* Mutant: the turns are counted in the whole history. *)
BuildChatCompletionsAllTurns(history) ==
  LET sorted == OrderedHistory(history)
      entries == WithoutLeadingBotEntries(sorted)
      Message(i) ==
        CASE IsReaction(entries[i]) ->
               FormatReaction("dialogue", entries[i], sorted, AssistantTurn(sorted, entries[i].target))
          [] IsBot(entries[i]) -> Item("dialogue", "assistant", entries[i], {}, FALSE, 0, {})
          [] IsUser(entries[i]) ->
               Item("dialogue", "user", entries[i], RepliesTo(entries[i], sorted),
                    i = LastUserMessageIndex(entries), 0, {})
  IN [i \in DOMAIN entries |-> Message(i)]

(* buildChatCompletions in an answer, without the system prompt before it. *)
BuildChatCompletions(history) ==
  LET sorted == OrderedHistory(history)
      entries == WithoutLeadingBotEntries(sorted)
      Message(i) ==
        CASE IsReaction(entries[i]) ->
               FormatReaction("dialogue", entries[i], sorted, AssistantTurn(entries, entries[i].target))
          [] IsBot(entries[i]) -> Item("dialogue", "assistant", entries[i], {}, FALSE, 0, {})
          [] IsUser(entries[i]) ->
               Item("dialogue", "user", entries[i], RepliesTo(entries[i], sorted),
                    i = LastUserMessageIndex(entries), 0, {})
  IN [i \in DOMAIN entries |-> Message(i)]

TagUserHistory(history) ==
  OrderedHistory(Only(history, {i \in DOMAIN history : IsUser(history[i])}))
IsOwn(e, recipient) == e.sender > 0 /\ e.sender = recipient

TaskItem(name, e, users) == Item(name, "user", e, RepliesTo(e, users), FALSE, 0, {})
Section(name, entries, users) == [n \in DOMAIN entries |-> TaskItem(name, entries[n], users)]

(* buildTagCompletions: the three sections of the task. *)
BuildTagCompletions(history, recipient) ==
  LET users == TagUserHistory(history)
      own == {n \in DOMAIN users : IsOwn(users[n], recipient)}
      sorted == OrderedHistory(history)
      reactions == Only(sorted, {n \in DOMAIN sorted : IsReaction(sorted[n])})
  IN Section("own", Only(users, own), users)
       \o Section("background", Only(users, DOMAIN users \ own), users)
       \o [n \in DOMAIN reactions |-> FormatReaction("reactions", reactions[n], history, 0)]

(* dropBotEntries of the photo handler. *)
DropBotEntries(history) ==
  LET kept == Only(history, {i \in DOMAIN history : ~IsBot(history[i])})
  IN [n \in DOMAIN kept |->
        IF IsReaction(kept[n]) /\ kept[n].known = {}
        THEN [kept[n] EXCEPT !.known = ResolveTarget(kept[n], history)] ELSE kept[n]]
===============================================================================
