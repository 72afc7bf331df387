------------------------------ MODULE ChatHistory ------------------------------
(***************************************************************************)
(* The history of the chats (internal/features/chathistory and its table,  *)
(* storage/db/chat_history.go): the latest MaxSize entries of each chat,   *)
(* read from the table when the chat is first used and written back whole  *)
(* after every change, all under Buffer.mu.  An entry is a message or a    *)
(* reaction to one; a message's text, author and time are left out.        *)
(***************************************************************************)
EXTENDS Naturals, Sequences, SequencesExt

CONSTANTS Chats,
          Messages,   \* ids of messages, the bot's included
          Reactions,  \* ids of the updates that bring reactions
          MaxSize,    \* length of the window
          Stored,     \* what the table may hold of a chat at the first start
          Faults      \* what may go wrong: "load", "save", "crash"

ASSUME MaxSizeAssumption == MaxSize \in Nat \ {0}
ASSUME HistoryFaultsAssumption == Faults \subseteq {"load", "save", "crash"}

VARIABLES
  data,    \* Buffer.data
  loaded,  \* Buffer.loaded: the chats whose entries were read
  table    \* the table chat_history

history == <<data, loaded, table>>
-------------------------------------------------------------------------------
Message(m) == [message |-> m]
Reaction(r, m, known) == [update |-> r, target |-> m, known |-> known]
IsReaction(e) == "update" \in DOMAIN e

Entries ==
  {Message(m) : m \in Messages}
    \cup {Reaction(r, m, k) : r \in Reactions, m \in Messages, k \in BOOLEAN}

OnceEach(s) ==
  \A i, j \in 1..Len(s) :
    IsReaction(s[i]) /\ IsReaction(s[j]) /\ s[i].update = s[j].update => i = j

KnowsTargets(s) ==
  \A j \in 1..Len(s) : \A i \in 1..(j - 1) :
    IsReaction(s[j]) /\ s[i] = Message(s[j].target) => s[j].known

(* What the table holds was written by the same program. *)
ASSUME StoredAssumption ==
  \A s \in Stored : s \in Seq(Entries) /\ OnceEach(s) /\ KnowsTargets(s)

Trim(s) == IF Len(s) > MaxSize THEN SubSeq(s, Len(s) - MaxSize + 1, Len(s)) ELSE s

(* The target's author is found, whatever else is remembered of it. *)
ResolveTarget(m, s) == \E i \in 1..Len(s) : s[i] = Message(m)

Recorded(r, s) == \E i \in 1..Len(s) : IsReaction(s[i]) /\ s[i].update = r
-------------------------------------------------------------------------------
Outcomes(fault) == IF fault \in Faults THEN BOOLEAN ELSE {TRUE}

(* data[c] once loadLocked has read the table: an empty row leaves what    *)
(* was added before, any other replaces it.                                *)
Read(c) == IF c \in loaded \/ table[c] = <<>> THEN data[c] ELSE Trim(table[c])

Loads(c, ok) == c \in loaded \/ ok

(* ensureLoadedLocked: a failed load is logged and tried again next time. *)
Known(c, ok) == IF Loads(c, ok) THEN Read(c) ELSE data[c]
LoadedThen(c, ok) == IF Loads(c, ok) THEN loaded \cup {c} ELSE loaded

(* persistLocked: a failed save is logged. *)
Persist(c, ok) == table' = IF ok THEN [table EXCEPT ![c] = data'[c]] ELSE table

(* Mutant: the history is not read before something is added to it. *)
AddAllUnread(c, piece) ==
  \E save \in Outcomes("save") :
    /\ data' = [data EXCEPT ![c] = Trim(@ \o piece)]
    /\ UNCHANGED loaded
    /\ Persist(c, save)

(* Mutant: the history is taken as read when it could not be. *)
AddAllTakenAsRead(c, piece) ==
  \E load \in Outcomes("load"), save \in Outcomes("save") :
    /\ data' = [data EXCEPT ![c] = Trim(Known(c, load) \o piece)]
    /\ loaded' = loaded \cup {c}
    /\ Persist(c, save)

(* Trimming after each entry leaves what trimming the whole does. *)
AddAll(c, piece) ==
  \E load \in Outcomes("load"), save \in Outcomes("save") :
    /\ data' = [data EXCEPT ![c] = Trim(Known(c, load) \o piece)]
    /\ loaded' = LoadedThen(c, load)
    /\ Persist(c, save)

Add(c, e) == AddAll(c, <<e>>)

Get(c) ==
  \E load \in Outcomes("load") :
    /\ data' = [data EXCEPT ![c] = Known(c, load)]
    /\ loaded' = LoadedThen(c, load)
    /\ UNCHANGED table
-------------------------------------------------------------------------------
(* A reaction is not recorded over a history that could not be read; the   *)
(* caller gets the error.                                                  *)
AddReactionFails(c) ==
  /\ "load" \in Faults /\ c \notin loaded
  /\ UNCHANGED history

(* Mutant: repetitions are looked for in what is already in memory. *)
AddReactionCheckingFirst(c, r, m) ==
  \E save \in Outcomes("save") :
    /\ data' = [data EXCEPT ![c] =
         IF Recorded(r, @) THEN Read(c)
         ELSE Trim(Append(Read(c), Reaction(r, m, ResolveTarget(m, Read(c)))))]
    /\ loaded' = loaded \cup {c}
    /\ IF Recorded(r, data[c]) THEN UNCHANGED table ELSE Persist(c, save)

(* Mutant: the target is looked for before the history is read. *)
AddReactionResolvingFirst(c, r, m) ==
  \E save \in Outcomes("save") :
    /\ ~Recorded(r, Read(c))
    /\ data' = [data EXCEPT ![c] =
         Trim(Append(Read(c), Reaction(r, m, ResolveTarget(m, data[c]))))]
    /\ loaded' = loaded \cup {c}
    /\ Persist(c, save)

(* Mutant: the history is taken as read, whether it was or not. *)
AddReactionUnread(c, r, m) ==
  \E save \in Outcomes("save") :
    /\ ~Recorded(r, data[c])
    /\ data' = [data EXCEPT ![c] =
         Trim(Append(@, Reaction(r, m, ResolveTarget(m, @))))]
    /\ UNCHANGED loaded
    /\ Persist(c, save)

(* A repeated update changes nothing and is not saved again. *)
AddReaction(c, r, m) ==
  \E save \in Outcomes("save") :
    /\ data' = [data EXCEPT ![c] =
         IF Recorded(r, Read(c)) THEN Read(c)
         ELSE Trim(Append(Read(c), Reaction(r, m, ResolveTarget(m, Read(c)))))]
    /\ loaded' = loaded \cup {c}
    /\ IF Recorded(r, Read(c)) THEN UNCHANGED table ELSE Persist(c, save)
-------------------------------------------------------------------------------
(* The process dies and starts again. *)
HistoryRestart ==
  /\ "crash" \in Faults
  /\ data' = [c \in Chats |-> <<>>]
  /\ loaded' = {}
  /\ UNCHANGED table

HistoryInit ==
  /\ data = [c \in Chats |-> <<>>]
  /\ loaded = {}
  /\ table \in [Chats -> Stored]

(* Handlers record a message, or a message and the bot's reply in one      *)
(* piece, in any order; any update may come again.  A refused reaction     *)
(* changes nothing here; the poller of ReactionIntake sees it.             *)
HistoryNext ==
  \/ \E c \in Chats :
       \/ Get(c)
       \/ \E m \in Messages :
            \/ Add(c, Message(m))
            \/ \E n \in Messages \ {m} : AddAll(c, <<Message(m), Message(n)>>)
            \/ \E r \in Reactions : AddReaction(c, r, m)
  \/ HistoryRestart

HistorySpec == HistoryInit /\ [][HistoryNext]_history
-------------------------------------------------------------------------------
Histories == {data[c] : c \in Chats} \cup {table[c] : c \in Chats}

(* An update delivered again, before or after a restart, is not recorded   *)
(* a second time while its first record is in the window.                  *)
NoReactionTwice == \A s \in Histories : OnceEach(s)

(* A reaction recorded while the message it is about was in the window     *)
(* knows whose message that was.                                           *)
ReactionKnowsItsTarget == \A s \in Histories : KnowsTargets(s)

(* A window that is not full has lost nothing. *)
Extends(old, new) == Len(new) < MaxSize => IsPrefix(old, new)

SavedIsKept ==
  \A c \in Chats :
    table'[c] # table[c] /\ (c \in loaded' \/ IsReaction(Last(table'[c]))) =>
      Extends(table[c], table'[c])

(* A saved history is never replaced by an incomplete one once it was      *)
(* read, whatever was added and not saved meanwhile; and by a reaction not *)
(* even while the table cannot be read.  A message that is added just then *)
(* is saved alone over the history (history.go:60), and nothing else does  *)
(* that.                                                                   *)
SavedHistoryIsKept == [][SavedIsKept]_history

(* While the store can be read, the history is a window on the latest      *)
(* entries: nobody sees when it is read in, pieces stay whole and in       *)
(* order, and a restart falls back to what was saved.                      *)
Window == INSTANCE HistoryWindow
  WITH window <- [c \in Chats |-> Read(c)], saved <- table, WindowSize <- MaxSize
ImplementsWindow == Window!WindowSpec
===============================================================================
