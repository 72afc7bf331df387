----------------------------- MODULE ChatSettings ------------------------------
(***************************************************************************)
(* The settings of the chats: the provider with its cache                  *)
(* (internal/features/chatsettings), the table under it                    *)
(* (storage/db/chat_settings.go) and the command /settings, which shows    *)
(* and changes them (internal/handlers/settings).  Handlers read settings  *)
(* and administrators change them in goroutines of their own; nothing but  *)
(* the cache's single operations and the table's statements is atomic.     *)
(***************************************************************************)
EXTENDS Naturals, FiniteSets

CONSTANTS Chats,
          ChatType,    \* private, group, supergroup or channel
          Users,       \* accounts that may send the command
          Keys,        \* the settings
          KeyType,     \* number, duration, chance or switch
          Goroutines,
          MaxChanges,  \* bound on the changes of the table
          Faults       \* what may go wrong: "read", "write", "telegram"

ASSUME ChatTypeAssumption ==
  ChatType \in [Chats -> {"private", "group", "supergroup", "channel"}]
ASSUME KeyTypeAssumption ==
  KeyType \in [Keys -> {"number", "duration", "chance", "switch"}]
ASSUME MaxChangesAssumption == MaxChanges \in Nat
ASSUME SettingsFaultsAssumption == Faults \subseteq {"read", "write", "telegram"}

VARIABLES
  table,    \* the table chat_settings: what each chat has overridden
  cache,    \* Provider.cache
  procs,    \* what each goroutine is doing
  admins,   \* Telegram: the owner and administrators of each chat
  changes,  \* how often the table was changed, for the bound
  raced     \* history: the chats whose entry was read before a change of the
            \* table and cached after it

vars == <<table, cache, procs, admins, changes, raced>>
-------------------------------------------------------------------------------
Idle == [pc |-> "idle"]
NotCached == [state |-> "none"]

(* What a user may type as a value, as far as the parsers tell it apart;   *)
(* a duration has a unit.                                                  *)
Raw == {"letters", "negative", "zero", "half", "five", "nan", "on"}

(* Atoi and > 0; ParseDuration and > 0; ParseFloat and neither < 0 nor     *)
(* > 1, both of which are false of NaN; one of two words.                  *)
Accepts(key, raw) ==
  CASE KeyType[key] = "number"   -> raw = "five"
    [] KeyType[key] = "duration" -> raw \in {"half", "five"}
    [] KeyType[key] = "chance"   -> raw \notin {"letters", "on", "negative", "five"}
    [] KeyType[key] = "switch"   -> raw = "on"

(* Mutant: the value is stored as it was parsed. *)
ColumnAsParsed(raw) == raw

(* domainToRow: a NaN is NULL in SQLite, as a setting that is not named. *)
Unset == "unset"
NoRow == [k \in Keys |-> Unset]
Column(raw) == IF raw = "nan" THEN Unset ELSE raw

(* Mutant: a change replaces the row. *)
UpsertedAlone(row, key, raw) ==
  [k \in Keys |-> IF k = key THEN Column(raw) ELSE Unset]

(* on conflict do update: coalesce keeps what the change does not name. *)
Upserted(row, key, raw) ==
  IF Column(raw) = Unset THEN row ELSE [row EXCEPT ![key] = Column(raw)]
-------------------------------------------------------------------------------
(* getChatSettings: an entry that has expired is deleted, and the table    *)
(* read, in steps of their own.                                            *)
Reading(c, task) ==
  CASE cache[c].state = "valid"   -> Idle
    [] cache[c].state = "expired" -> [task EXCEPT !.pc = "evict"]
    [] cache[c].state = "none"    -> [task EXCEPT !.pc = "get"]

BeginRead(p, c) ==
  /\ procs[p] = Idle
  /\ procs' = [procs EXCEPT ![p] =
       Reading(c, [pc |-> "get", chat |-> c, op |-> [name |-> "read"]])]
  /\ UNCHANGED <<table, cache, admins, changes, raced>>

Evict(p) ==
  /\ procs[p].pc = "evict"
  /\ cache' = [cache EXCEPT ![procs[p].chat] = NotCached]
  /\ raced' = raced \ {procs[p].chat}
  /\ procs' = [procs EXCEPT ![p].pc = "get"]
  /\ UNCHANGED <<table, admins, changes>>

(* An error of the table ends the read. *)
Get(p) ==
  /\ procs[p].pc = "get"
  /\ LET c == procs[p].chat IN
     \/ procs' = [procs EXCEPT ![p] = [pc |-> "store", chat |-> c, row |-> table[c]]]
     \/ "read" \in Faults /\ procs' = [procs EXCEPT ![p] = Idle]
  /\ UNCHANGED <<table, cache, admins, changes, raced>>

Store(p) ==
  /\ procs[p].pc = "store"
  /\ LET c == procs[p].chat
         row == procs[p].row
     IN  /\ cache' = [cache EXCEPT ![c] = [state |-> "valid", row |-> row]]
         /\ raced' = IF row = table[c] THEN raced \ {c} ELSE raced \cup {c}
  /\ procs' = [procs EXCEPT ![p] = Idle]
  /\ UNCHANGED <<table, admins, changes>>

(* Mutant: a chat without a row is remembered for good. *)
ExpireRowsOnly(c) ==
  /\ cache[c].state = "valid" /\ cache[c].row # NoRow
  /\ cache' = [cache EXCEPT ![c].state = "expired"]
  /\ UNCHANGED <<table, procs, admins, changes, raced>>

(* A minute has passed since the entry was stored. *)
Expire(c) ==
  /\ cache[c].state = "valid"
  /\ cache' = [cache EXCEPT ![c].state = "expired"]
  /\ UNCHANGED <<table, procs, admins, changes, raced>>
-------------------------------------------------------------------------------
(* The command: its sender is an account or a chat, the one it is sent to  *)
(* (an anonymous administrator) or another one.                            *)
Senders == Users \cup {"thisChat", "otherChat"}

Commands ==
  [name : {"show", "reset", "usage"}] \cup [name : {"set"}, key : Keys, raw : Raw]

IsGroup(c) == ChatType[c] \in {"group", "supergroup"}

(* Mutant: any chat may speak for an administrator. *)
AnonymousAnyChat(c, sender) == IsGroup(c) /\ sender \in {"thisChat", "otherChat"}

Anonymous(c, sender) == ChatType[c] = "supergroup" /\ sender = "thisChat"

(* history: whether the sender was an administrator of the chat when the   *)
(* command was let through.                                                *)
Entitled(c, sender) == sender \in admins[c] \/ sender = "thisChat"

Allow(c, op, sender) ==
  [pc |-> "allowed", chat |-> c, op |-> op, entitled |-> Entitled(c, sender)]

(* Whoever is not let through is refused at once, except for an account    *)
(* in a group: Telegram is asked about it.                                 *)
SendCommand(p, c, sender, op) ==
  /\ procs[p] = Idle
  /\ \/ /\ Anonymous(c, sender)
        /\ procs' = [procs EXCEPT ![p] = Allow(c, op, sender)]
     \/ /\ IsGroup(c) /\ sender \in Users
        /\ procs' = [procs EXCEPT ![p] =
             [pc |-> "ask", chat |-> c, op |-> op, sender |-> sender]]
  /\ UNCHANGED <<table, cache, admins, changes, raced>>

(* Mutant: a failed request lets the command through. *)
MemberAnswersLeniently(p) ==
  /\ procs[p].pc = "ask"
  /\ LET t == procs[p] IN
     \/ procs' = [procs EXCEPT ![p] = Allow(t.chat, t.op, t.sender)]
     \/ t.sender \notin admins[t.chat] /\ procs' = [procs EXCEPT ![p] = Idle]
  /\ UNCHANGED <<table, cache, admins, changes, raced>>

(* getChatMember: a failed request and an unknown role refuse the command, *)
(* as a role without rights does.                                          *)
MemberAnswers(p) ==
  /\ procs[p].pc = "ask"
  /\ LET t == procs[p] IN
     \/ /\ t.sender \in admins[t.chat]
        /\ procs' = [procs EXCEPT ![p] = Allow(t.chat, t.op, t.sender)]
     \/ /\ t.sender \notin admins[t.chat] \/ "telegram" \in Faults
        /\ procs' = [procs EXCEPT ![p] = Idle]
  /\ UNCHANGED <<table, cache, admins, changes, raced>>

Allowed(p, name) == procs[p].pc = "allowed" /\ procs[p].op.name = name

Show(p) ==
  /\ Allowed(p, "show")
  /\ procs' = [procs EXCEPT ![p] = Reading(@.chat, @)]
  /\ UNCHANGED <<table, cache, admins, changes, raced>>

(* usage, or an explanation of what is wrong with the value. *)
Explain(p) ==
  /\ \/ Allowed(p, "usage")
     \/ Allowed(p, "set") /\ ~Accepts(procs[p].op.key, procs[p].op.raw)
  /\ procs' = [procs EXCEPT ![p] = Idle]
  /\ UNCHANGED <<table, cache, admins, changes, raced>>

(* The statement fails, or the cache remains to be cleared. *)
Change(p, row) ==
  /\ \/ /\ changes < MaxChanges
        /\ changes' = changes + 1
        /\ table' = [table EXCEPT ![procs[p].chat] = row]
        /\ procs' = [procs EXCEPT ![p].pc = "invalidate"]
     \/ /\ "write" \in Faults
        /\ procs' = [procs EXCEPT ![p] = Idle]
        /\ UNCHANGED <<table, changes>>
  /\ UNCHANGED <<cache, admins, raced>>

Set(p) ==
  /\ Allowed(p, "set") /\ Accepts(procs[p].op.key, procs[p].op.raw)
  /\ Change(p, Upserted(table[procs[p].chat], procs[p].op.key, procs[p].op.raw))

Reset(p) == Allowed(p, "reset") /\ Change(p, NoRow)

(* Mutant: a reset leaves the cache as it is. *)
InvalidateAfterSet(p) ==
  /\ procs[p].pc = "invalidate"
  /\ IF procs[p].op.name = "set"
     THEN /\ cache' = [cache EXCEPT ![procs[p].chat] = NotCached]
          /\ raced' = raced \ {procs[p].chat}
     ELSE UNCHANGED <<cache, raced>>
  /\ procs' = [procs EXCEPT ![p] = Idle]
  /\ UNCHANGED <<table, admins, changes>>

Invalidate(p) ==
  /\ procs[p].pc = "invalidate"
  /\ cache' = [cache EXCEPT ![procs[p].chat] = NotCached]
  /\ raced' = raced \ {procs[p].chat}
  /\ procs' = [procs EXCEPT ![p] = Idle]
  /\ UNCHANGED <<table, admins, changes>>

(* Telegram: somebody is made an administrator, or is one no more. *)
Promote(c, u) ==
  /\ IsGroup(c)
  /\ admins' = [admins EXCEPT ![c] = IF u \in @ THEN @ \ {u} ELSE @ \cup {u}]
  /\ UNCHANGED <<table, cache, procs, changes, raced>>
-------------------------------------------------------------------------------
Init ==
  /\ table = [c \in Chats |-> NoRow]
  /\ cache = [c \in Chats |-> NotCached]
  /\ procs = [p \in Goroutines |-> Idle]
  /\ admins = [c \in Chats |-> {}]
  /\ changes = 0
  /\ raced = {}

Step(p) ==
  \/ Evict(p) \/ Get(p) \/ Store(p) \/ MemberAnswers(p)
  \/ Show(p) \/ Explain(p) \/ Set(p) \/ Reset(p) \/ Invalidate(p)

Next ==
  \/ \E p \in Goroutines :
       \/ Step(p)
       \/ \E c \in Chats :
            \/ BeginRead(p, c)
            \/ \E sender \in Senders, op \in Commands : SendCommand(p, c, sender, op)
  \/ \E c \in Chats : Expire(c) \/ \E u \in Users : Promote(c, u)

Spec == Init /\ [][Next]_vars

(* The goroutines keep running, and time passes. *)
Fairness ==
  /\ \A p \in Goroutines : WF_vars(Step(p))
  /\ \A c \in Chats : WF_vars(Expire(c))

FairSpec == Spec /\ Fairness
-------------------------------------------------------------------------------
Changing(c) ==
  \E p \in Goroutines : procs[p].pc = "invalidate" /\ procs[p].chat = c

Current(c) == cache[c].state = "valid" => cache[c].row = table[c]

(* Once a change has returned, only an entry that was read before it and   *)
(* cached after it may still be used: no sequence of changes, resets and   *)
(* expired entries leaves any other outdated one.                          *)
OutdatedOnlyByRace == \A c \in Chats : Current(c) \/ Changing(c) \/ c \in raced

(* Once nobody changes the settings any more, what handlers get is what    *)
(* the table holds, whatever raced before: an outdated entry lives no      *)
(* longer than its minute.                                                 *)
ChangesTakeEffect == <>[](\A c \in Chats : Current(c))

NamedByTheEntitled ==
  \A c \in Chats, k \in Keys : table'[c][k] # table[c][k] =>
    /\ table'[c][k] # "nan"
    /\ \E p \in Goroutines :
         /\ procs[p].pc = "allowed" /\ procs'[p].pc = "invalidate"
         /\ procs[p].chat = c /\ procs[p].entitled
         /\ procs[p].op.name = "set" => procs[p].op.key = k

(* A setting changes only by a command that names it, or a reset, of       *)
(* somebody who was an administrator of this chat when the command was let *)
(* through; two administrators changing different settings at the same     *)
(* time do not undo each other's.  Whatever was typed, NaN, which passes   *)
(* both of the bounds of a value, never gets into the table.               *)
ChangedByRight == [][NamedByTheEntitled]_vars
===============================================================================
