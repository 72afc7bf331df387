------------------------------- MODULE Dispatch -------------------------------
(***************************************************************************)
(* One update, many handlers (internal/handlers/handlers.go and the wiring *)
(* of cmd/main.go): the handlers of an update run in goroutines of their   *)
(* own; Handle returns their joined errors when all of them have ended.    *)
(* Nobody recovers a panic there, so it ends the process.  What handlers   *)
(* share is here too: the chats' histories and what Telegram was sent.     *)
(***************************************************************************)
EXTENDS Naturals, Sequences, FiniteSets

CONSTANTS Updates,
          Persons,   \* the handlers of internal/handlers/personal
          Arrivals,  \* bound: which updates may come, and of which kinds
          Chats,
          ChatOf,    \* the chat of each update
          SenderOf,  \* its sender: one of Persons, or somebody else
          Faults     \* what may go wrong: "store", "telegram", "model", "sheet"

Kinds == {"text", "sticker", "voice", "photo", "join", "left"}

ASSUME DispatchAssumption ==
  /\ Arrivals \subseteq UNION {[us -> Kinds] : us \in SUBSET Updates}
  /\ ChatOf \in [Updates -> Chats]
  /\ Faults \subseteq {"store", "telegram", "model", "sheet"}

VARIABLES
  kind,
  phase,    \* new, running or returned, of each update
  task,     \* the goroutines of an update: where each handler is
  result,   \* the handlers whose errors Handle returned
  fate,     \* running, or why the process ended
  history,  \* the entries of each chat, see HistoryWindow
  sent      \* the replies that Telegram took

flow == <<kind, phase, result, fate>>
chat == <<history, sent>>
-------------------------------------------------------------------------------
Routes ==
  [text    |-> Persons \cup {"bulling", "tagger"},
   sticker |-> Persons \cup {"sticker_reactions", "tagger"},
   voice   |-> Persons \cup {"on_voice", "tagger"},
   photo   |-> {"on_photo", "tagger"},
   join    |-> {"greetings", "tagger"},
   left    |-> {"on_user_left", "tagger"}]

(* Names keep the handlers apart. *)
ASSUME PersonsAssumption ==
  Persons \cap {"bulling", "tagger", "sticker_reactions", "on_voice", "on_photo", "greetings",
                "on_user_left"} = {}

Start(u) ==
  /\ u \in DOMAIN kind
  /\ phase[u] = "new"
  /\ phase' = [phase EXCEPT ![u] = "running"]
  /\ task' = [task EXCEPT ![u] = [h \in Routes[kind[u]] |-> [pc |-> "start"]]]
  /\ UNCHANGED <<kind, result, fate, chat>>

At(u, h, pc) ==
  /\ phase[u] = "running"
  /\ h \in Routes[kind[u]] /\ task[u][h].pc = pc

Goes(u, h, state) == task' = [task EXCEPT ![u][h] = state]
GoesTo(u, h, pc) == Goes(u, h, [pc |-> pc])
Ends(u, h) == GoesTo(u, h, "ended")
Fails(u, h) == GoesTo(u, h, "failed")

Over(u, h) == task[u][h].pc \in {"ended", "failed"}
Failed(u) == {h \in Routes[kind[u]] : task[u][h].pc = "failed"}

(* The channel of errors has room for all; it is closed once all handlers  *)
(* are done, and read until then.                                          *)
Return(u) ==
  /\ phase[u] = "running"
  /\ \A h \in Routes[kind[u]] : Over(u, h)
  /\ phase' = [phase EXCEPT ![u] = "returned"]
  /\ result' = [result EXCEPT ![u] = Failed(u)]
  /\ UNCHANGED <<kind, task, fate, chat>>

(* What Bulling and Tagger do with the update is in their own modules. *)
HandledElsewhere(u, h) ==
  /\ h \in {"bulling", "tagger"} /\ At(u, h, "start")
  /\ Ends(u, h) \/ Fails(u, h)
  /\ UNCHANGED <<flow, chat>>

Panic(cause) ==
  /\ fate' = cause
  /\ UNCHANGED <<kind, phase, task, result, chat>>
-------------------------------------------------------------------------------
Add(u, entries) ==
  history' = [history EXCEPT ![ChatOf[u]] = @ \o entries]

Message(u) == [update |-> u, by |-> "user"]
Reply(u, h) == [update |-> u, by |-> h]

(* One request to Telegram, the sheet or a model on the way to the next    *)
(* step; with an error the handler returns it, or ends without.            *)
Asks(u, h, from, fault, next, otherwise) ==
  /\ At(u, h, from)
  /\ \/ GoesTo(u, h, next)
     \/ fault \in Faults /\ GoesTo(u, h, otherwise)
  /\ UNCHANGED <<flow, chat>>

Sends(u, h, next) ==
  /\ At(u, h, "reply")
  /\ \/ /\ GoesTo(u, h, next)
        /\ sent' = sent \cup {<<u, h>>}
     \/ /\ "telegram" \in Faults
        /\ Fails(u, h)
        /\ sent' = sent
  /\ UNCHANGED <<flow, history>>

DispatchInit ==
  /\ kind \in Arrivals
  /\ phase = [u \in Updates |-> "new"]
  /\ task = [u \in Updates |-> <<>>]
  /\ result = [u \in Updates |-> {}]
  /\ fate = "running"
  /\ history = [c \in Chats |-> <<>>]
  /\ sent = {}
===============================================================================
