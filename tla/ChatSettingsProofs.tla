--------------------------- MODULE ChatSettingsProofs ---------------------------
(***************************************************************************)
(* Proofs about the settings of the chats, for any chats, accounts, keys,  *)
(* goroutines, faults and bound on the changes.                            *)
(***************************************************************************)
EXTENDS ChatSettings, TLAPS

Rows == [Keys -> Raw \cup {Unset}]
Reads == [pc : {"get", "evict"}, chat : Chats, op : {[name |-> "read"]}]
Stores == [pc : {"store"}, chat : Chats, row : Rows]
Asks == [pc : {"ask"}, chat : Chats, op : Commands, sender : Users]
Granted == [pc : {"allowed", "get", "evict", "invalidate"}, chat : Chats, op : Commands,
            entitled : BOOLEAN]
Cacheable == [state : {"valid", "expired"}, row : Rows]
Tasks == {Idle} \cup Reads \cup Stores \cup Asks \cup Granted

Types ==
  /\ table \in [Chats -> Rows]
  /\ cache \in [Chats -> {NotCached} \cup Cacheable]
  /\ procs \in [Goroutines -> Tasks]

(* Who is let through was an administrator. *)
GrantedByRight == \A p \in Goroutines : procs[p].pc = "allowed" => procs[p].entitled

Inv == Types /\ GrantedByRight /\ OutdatedOnlyByRace

LEMMA TaskFields ==
  ASSUME NEW t \in Tasks
  PROVE  /\ t.pc \in {"idle", "get", "evict", "store", "ask", "allowed", "invalidate"}
         /\ t.pc = "store" => t \in Stores
         /\ t.pc = "ask" => t \in Asks
         /\ t.pc \in {"allowed", "invalidate"} => t \in Granted
         /\ t.pc \in {"get", "evict"} => t \in Reads \cup Granted
         /\ t.pc # "idle" => t.chat \in Chats
BY DEF Tasks, Idle, Reads, Stores, Asks, Granted

LEMMA GrantedMoves ==
  ASSUME NEW t \in Granted, NEW q \in {"get", "evict", "invalidate"}
  PROVE  /\ [t EXCEPT !.pc = q] \in Granted
         /\ [t EXCEPT !.pc = q].pc = q
         /\ [t EXCEPT !.pc = q].chat = t.chat
BY DEF Granted

LEMMA ReadMoves ==
  ASSUME NEW t \in Reads, NEW q \in {"get", "evict"}
  PROVE  /\ [t EXCEPT !.pc = q] \in Reads
         /\ [t EXCEPT !.pc = q].pc = q
         /\ [t EXCEPT !.pc = q].chat = t.chat
BY DEF Reads

(* A goroutine goes on, and neither begins nor ends a change. *)
LEMMA Moves ==
  ASSUME Inv, NEW p \in Goroutines, NEW t \in Tasks,
         procs' = [procs EXCEPT ![p] = t],
         t.pc # "invalidate",
         t.pc = "allowed" => t.entitled
  PROVE  /\ procs' \in [Goroutines -> Tasks] /\ GrantedByRight'
         /\ procs[p].pc # "invalidate" => \A c \in Chats : Changing(c) => Changing(c)'
         /\ \A c \in Chats : Changing(c) => Changing(c)' \/ (procs[p].pc = "invalidate" /\ procs[p].chat = c)
BY DEF Inv, Types, GrantedByRight, Changing

LEMMA MovesAlone ==
  ASSUME Inv, NEW p \in Goroutines, NEW t \in Tasks,
         procs' = [procs EXCEPT ![p] = t],
         t.pc # "invalidate", procs[p].pc # "invalidate",
         t.pc = "allowed" => t.entitled,
         UNCHANGED <<table, cache, raced>>
  PROVE  Inv'
BY Moves DEF Inv, Types, OutdatedOnlyByRace, Current

LEMMA InvInit == Init => Inv
<1> SUFFICES ASSUME Init PROVE Inv
  OBVIOUS
<1>1. Types
  BY DEF Init, Types, Rows, NoRow, Tasks
<1>2. GrantedByRight
  BY DEF Init, GrantedByRight, Idle
<1>3. OutdatedOnlyByRace
  BY DEF Init, OutdatedOnlyByRace, Current, NotCached
<1> QED
  BY <1>1, <1>2, <1>3 DEF Inv

LEMMA ReadingIsTask ==
  ASSUME NEW c \in Chats, NEW t \in Reads \cup Granted, cache[c].state \in {"valid", "expired", "none"}
  PROVE  Reading(c, t) \in {Idle} \cup Reads \cup Granted /\ Reading(c, t).pc \notin {"allowed", "invalidate"}
BY GrantedMoves, ReadMoves DEF Reading, Idle

LEMMA CacheStates == Types => \A c \in Chats : cache[c].state \in {"valid", "expired", "none"}
BY DEF Types, NotCached, Cacheable

LEMMA RowsChange ==
  ASSUME NEW row \in Rows, NEW key \in Keys, NEW raw \in Raw
  PROVE  Upserted(row, key, raw) \in Rows
BY DEF Upserted, Column, Rows, Raw, Unset

LEMMA NoRowIsRow == NoRow \in Rows
BY DEF NoRow, Rows

LEMMA Commanded ==
  ASSUME NEW op \in Commands
  PROVE  op.name = "set" => op.key \in Keys /\ op.raw \in Raw
BY DEF Commands

(* An entry is deleted, by a reader who found it expired or after a change. *)
LEMMA CacheCleared ==
  ASSUME Inv, NEW p \in Goroutines, NEW t \in Tasks, NEW c \in Chats,
         procs' = [procs EXCEPT ![p] = t], t.pc \notin {"allowed", "invalidate"},
         procs[p].pc = "invalidate" => procs[p].chat = c,
         cache' = [cache EXCEPT ![c] = NotCached], raced' = raced \ {c}, UNCHANGED table
  PROVE  Inv'
<1>1. Types' /\ GrantedByRight'
  BY Moves DEF Inv, Types
<1>2. cache'[c] = NotCached /\ \A d \in Chats : d # c => cache'[d] = cache[d]
  BY DEF Inv, Types
<1>3. Current(c)'
  BY <1>2 DEF Current, NotCached
<1>4. \A d \in Chats : d # c => Current(d)' \/ Changing(d)' \/ d \in raced'
  <2>1. \A d \in Chats : d # c => (Changing(d) => Changing(d)')
    BY Moves
  <2> QED
    BY <1>2, <2>1 DEF Inv, OutdatedOnlyByRace, Current
<1> QED
  BY <1>1, <1>3, <1>4 DEF Inv, OutdatedOnlyByRace

LEMMA StoreStep ==
  ASSUME Inv, NEW p \in Goroutines, Store(p)
  PROVE  Inv'
<1> DEFINE Entry(row) == [state |-> "valid", row |-> row]
<1>0. procs[p] \in Stores /\ procs[p].pc = "store"
  BY TaskFields DEF Store, Inv, Types
<1>1. PICK c \in Chats, row \in Rows : c = procs[p].chat /\ row = procs[p].row
  BY <1>0 DEF Stores
<1>2. /\ cache' = [cache EXCEPT ![c] = Entry(row)]
      /\ raced' = IF row = table[c] THEN raced \ {c} ELSE raced \cup {c}
      /\ procs' = [procs EXCEPT ![p] = Idle] /\ UNCHANGED table
  BY <1>1 DEF Store
<1>3. Entry(row) \in Cacheable /\ Entry(row).row = row
  BY <1>1 DEF Cacheable
<1>4. Idle \in Tasks /\ Idle.pc = "idle"
  BY DEF Tasks, Idle
<1> HIDE DEF Entry
<1>5. Types' /\ GrantedByRight'
  BY <1>0, <1>1, <1>2, <1>3, <1>4, Moves DEF Inv, Types
<1>6. cache'[c] = Entry(row) /\ \A d \in Chats : d # c => cache'[d] = cache[d]
  BY <1>1, <1>2 DEF Inv, Types
<1>7. Current(c)' \/ c \in raced'
  BY <1>2, <1>3, <1>6 DEF Current
<1>8. \A d \in Chats : d # c => Current(d)' \/ Changing(d)' \/ d \in raced'
  <2>1. \A d \in Chats : Changing(d) => Changing(d)'
    BY <1>0, <1>2, <1>4, Moves
  <2> QED
    BY <1>2, <1>6, <2>1 DEF Inv, OutdatedOnlyByRace, Current
<1> QED
  BY <1>5, <1>7, <1>8 DEF Inv, OutdatedOnlyByRace

LEMMA ChangeStep ==
  ASSUME Inv, NEW p \in Goroutines, procs[p].pc = "allowed", NEW row \in Rows, Change(p, row)
  PROVE  Inv'
<1>0. procs[p] \in Granted
  BY TaskFields DEF Inv, Types
<1>1. PICK c \in Chats : c = procs[p].chat
  BY <1>0 DEF Granted
<1> DEFINE Ended(r) == [r EXCEPT !.pc = "invalidate"]
<1>2. PICK t : t = Ended(procs[p])
  OBVIOUS
<1>3. t \in Tasks /\ t.pc = "invalidate" /\ t.chat = c
  BY <1>0, <1>1, <1>2, GrantedMoves DEF Tasks
<1>4. UNCHANGED <<cache, raced>>
  BY DEF Change
<1>5. CASE procs' = [procs EXCEPT ![p] = Idle] /\ UNCHANGED table
  <2>1. Idle \in Tasks /\ Idle.pc = "idle"
    BY DEF Tasks, Idle
  <2> QED
    BY <1>4, <1>5, <2>1, MovesAlone
<1>6. CASE procs' = [procs EXCEPT ![p].pc = "invalidate"] /\ table' = [table EXCEPT ![c] = row]
  <2>1. procs' = [procs EXCEPT ![p] = t]
    BY <1>2, <1>6
  <2> HIDE DEF Ended
  <2>2. procs'[p] = t /\ \A q \in Goroutines : q # p => procs'[q] = procs[q]
    BY <2>1 DEF Inv, Types
  <2>3. Types'
    BY <1>1, <1>3, <1>4, <1>6, <2>1 DEF Inv, Types
  <2>4. GrantedByRight'
    BY <1>3, <2>2 DEF Inv, GrantedByRight
  <2>5. Changing(c)'
    BY <1>3, <2>2 DEF Changing
  <2>6. \A d \in Chats : Changing(d) => Changing(d)'
    BY <2>2 DEF Changing
  <2>7. \A d \in Chats : d # c => table'[d] = table[d]
    BY <1>6 DEF Inv, Types
  <2>8. OutdatedOnlyByRace'
    BY <1>4, <2>5, <2>6, <2>7 DEF Inv, OutdatedOnlyByRace, Current
  <2> QED
    BY <2>3, <2>4, <2>8 DEF Inv
<1> QED
  BY <1>1, <1>5, <1>6 DEF Change

LEMMA InvStep == Inv /\ [Next]_vars => Inv'
<1> SUFFICES ASSUME Inv, [Next]_vars PROVE Inv'
  OBVIOUS
<1>1. Idle \in Tasks /\ Idle.pc = "idle"
  BY DEF Tasks, Idle
<1>2. CASE UNCHANGED vars
  BY <1>2 DEF vars, Inv, Types, GrantedByRight, OutdatedOnlyByRace, Current, Changing
<1>3. ASSUME NEW c \in Chats, Expire(c) PROVE Inv'
  <2>1. cache[c] \in Cacheable
    BY <1>3 DEF Expire, Inv, Types, NotCached
  <2>2. /\ [cache[c] EXCEPT !.state = "expired"] \in Cacheable
        /\ [cache[c] EXCEPT !.state = "expired"].state = "expired"
    BY <2>1 DEF Cacheable
  <2>3. cache' = [cache EXCEPT ![c] = [cache[c] EXCEPT !.state = "expired"]]
    BY <1>3 DEF Expire
  <2>4. \A d \in Chats : Current(d) => Current(d)'
    BY <1>3, <2>2, <2>3 DEF Expire, Inv, Types, Current
  <2>5. Types'
    BY <1>3, <2>2, <2>3 DEF Expire, Inv, Types
  <2> QED
    BY <1>3, <2>4, <2>5 DEF Expire, Inv, GrantedByRight, OutdatedOnlyByRace, Changing
<1>4. ASSUME NEW c \in Chats, NEW u \in Users, Promote(c, u) PROVE Inv'
  BY <1>4 DEF Promote, Inv, Types, GrantedByRight, OutdatedOnlyByRace, Current, Changing
<1>5. ASSUME NEW p \in Goroutines, NEW c \in Chats, BeginRead(p, c) PROVE Inv'
  <2> DEFINE t == [pc |-> "get", chat |-> c, op |-> [name |-> "read"]]
  <2>1. t \in Reads
    BY DEF Reads
  <2>2. Reading(c, t) \in Tasks /\ Reading(c, t).pc \notin {"allowed", "invalidate"}
    BY <2>1, ReadingIsTask, CacheStates DEF Inv, Tasks
  <2>3. procs[p].pc = "idle" /\ procs' = [procs EXCEPT ![p] = Reading(c, t)]
    BY <1>5 DEF BeginRead, Idle
  <2> QED
    BY <1>5, <2>2, <2>3, MovesAlone DEF BeginRead
<1>6. ASSUME NEW p \in Goroutines, NEW c \in Chats, NEW sender \in Senders, NEW op \in Commands,
             SendCommand(p, c, sender, op)
      PROVE  Inv'
  <2>0. procs[p].pc = "idle"
    BY <1>6 DEF SendCommand, Idle
  <2>1. CASE Anonymous(c, sender) /\ procs' = [procs EXCEPT ![p] = Allow(c, op, sender)]
    <3>1. Entitled(c, sender) = TRUE
      BY <2>1 DEF Anonymous, Entitled
    <3>2. Allow(c, op, sender) \in Tasks /\ Allow(c, op, sender).pc = "allowed" /\ Allow(c, op, sender).entitled
      BY <3>1 DEF Allow, Tasks, Granted
    <3> QED
      BY <1>6, <2>0, <2>1, <3>2, MovesAlone DEF SendCommand
  <2>2. CASE sender \in Users /\ procs' = [procs EXCEPT ![p] =
               [pc |-> "ask", chat |-> c, op |-> op, sender |-> sender]]
    <3> DEFINE t == [pc |-> "ask", chat |-> c, op |-> op, sender |-> sender]
    <3>1. t \in Tasks /\ t.pc = "ask"
      BY <2>2 DEF Tasks, Asks
    <3>2. procs' = [procs EXCEPT ![p] = t] /\ UNCHANGED <<table, cache, raced>>
      BY <1>6, <2>2 DEF SendCommand
    <3> HIDE DEF t
    <3> QED
      BY <2>0, <3>1, <3>2, MovesAlone
  <2> QED
    BY <1>6, <2>1, <2>2 DEF SendCommand
<1>7. ASSUME NEW p \in Goroutines, Step(p) PROVE Inv'
  <2> DEFINE t == procs[p]
  <2>1. CASE Evict(p)
    <3> DEFINE s == [t EXCEPT !.pc = "get"]
    <3>1. t \in Reads \cup Granted /\ t.pc = "evict" /\ t.chat \in Chats
      BY <2>1, TaskFields DEF Evict, Inv, Types
    <3>2. s \in Tasks /\ s.pc = "get"
      BY <3>1, GrantedMoves, ReadMoves DEF Tasks
    <3> QED
      BY <2>1, <3>1, <3>2, CacheCleared DEF Evict
  <2>2. CASE Get(p)
    <3> DEFINE s == [pc |-> "store", chat |-> t.chat, row |-> table[t.chat]]
    <3>1. t.chat \in Chats /\ t.pc = "get"
      BY <2>2, TaskFields DEF Get, Inv, Types
    <3>2. s \in Tasks /\ s.pc = "store"
      BY <3>1 DEF Tasks, Stores, Inv, Types
    <3> QED
      BY <1>1, <2>2, <3>1, <3>2, MovesAlone DEF Get
  <2>3. CASE MemberAnswers(p)
    <3> DEFINE s == Allow(t.chat, t.op, t.sender)
    <3>1. t \in Asks /\ t.pc = "ask" /\ t.op \in Commands /\ t.chat \in Chats
      BY <2>3, TaskFields DEF MemberAnswers, Inv, Types, Asks
    <3>2. CASE t.sender \in admins[t.chat] /\ procs' = [procs EXCEPT ![p] = s]
      <4>1. Entitled(t.chat, t.sender) = TRUE
        BY <3>2 DEF Entitled
      <4>2. s \in Tasks /\ s.pc = "allowed" /\ s.entitled
        BY <3>1, <4>1 DEF Allow, Tasks, Granted
      <4> QED
        BY <2>3, <3>1, <3>2, <4>2, MovesAlone DEF MemberAnswers
    <3> QED
      BY <1>1, <2>3, <3>1, <3>2, MovesAlone DEF MemberAnswers
  <2>4. CASE Show(p)
    <3>1. t \in Granted /\ t.pc = "allowed" /\ t.chat \in Chats
      BY <2>4, TaskFields DEF Show, Allowed, Inv, Types
    <3>2. Reading(t.chat, t) \in Tasks /\ Reading(t.chat, t).pc \notin {"allowed", "invalidate"}
      BY <3>1, ReadingIsTask, CacheStates DEF Inv, Tasks
    <3>3. procs' = [procs EXCEPT ![p] = Reading(t.chat, t)]
      BY <2>4 DEF Show
    <3> QED
      BY <2>4, <3>1, <3>2, <3>3, MovesAlone DEF Show
  <2>5. CASE Explain(p)
    BY <1>1, <2>5, MovesAlone DEF Explain, Allowed
  <2>6. CASE Set(p)
    <3>1. t \in Granted /\ t.op \in Commands /\ t.op.name = "set" /\ t.chat \in Chats /\ t.pc = "allowed"
      BY <2>6, TaskFields DEF Set, Allowed, Inv, Types, Granted
    <3>2. Upserted(table[t.chat], t.op.key, t.op.raw) \in Rows
      BY <3>1, Commanded, RowsChange DEF Inv, Types
    <3> QED
      BY <2>6, <3>1, <3>2, ChangeStep DEF Set
  <2>7. CASE Reset(p)
    BY <2>7, NoRowIsRow, ChangeStep DEF Reset, Allowed
  <2>8. CASE Invalidate(p)
    <3>1. t.chat \in Chats /\ t.pc = "invalidate"
      BY <2>8, TaskFields DEF Invalidate, Inv, Types
    <3> QED
      BY <1>1, <2>8, <3>1, CacheCleared DEF Invalidate
  <2> QED
    BY <1>7, <2>1, <2>2, <2>3, <2>4, <2>5, <2>6, <2>7, <2>8, StoreStep DEF Step
<1> QED
  BY <1>2, <1>3, <1>4, <1>5, <1>6, <1>7 DEF Next
LEMMA InvAlways == Spec => []Inv
BY InvInit, InvStep, PTL DEF Spec

(* No sequence of reads, changes, resets and expiries leaves an outdated   *)
(* entry that may be used, but the one that was read before a change and   *)
(* cached after it (provider.go: Get, Upsert).                             *)
THEOREM OnlyTheRaceOutdates == Spec => []OutdatedOnlyByRace
BY InvAlways, PTL DEF Inv

(* A setting changes only by a command that names it, of somebody entitled *)
(* in that chat, whoever else changes another at the same time; NaN never  *)
(* gets into the table (settings.go, storage/db/chat_settings.go).         *)
THEOREM AlwaysChangedByRight == Spec => ChangedByRight
<1>1. ASSUME Inv, [Next]_vars,
             NEW c \in Chats, NEW k \in Keys, table'[c][k] # table[c][k]
      PROVE  /\ table'[c][k] # "nan"
             /\ \E p \in Goroutines :
                  /\ procs[p].pc = "allowed" /\ procs'[p].pc = "invalidate"
                  /\ procs[p].chat = c /\ procs[p].entitled
                  /\ procs[p].op.name = "set" => procs[p].op.key = k
  <2>1. PICK p \in Goroutines : Set(p) \/ Reset(p)
    BY <1>1 DEF Next, vars, Step, Evict, Get, Store, MemberAnswers, Show, Explain, Invalidate,
                BeginRead, SendCommand, Expire, Promote
  <2>2. PICK row : /\ Change(p, row)
                   /\ \/ row = NoRow /\ procs[p].op.name = "reset"
                      \/ /\ row = Upserted(table[procs[p].chat], procs[p].op.key, procs[p].op.raw)
                         /\ procs[p].op.name = "set"
    BY <2>1 DEF Set, Reset, Allowed
  <2>3. procs[p] \in Granted /\ procs[p].pc = "allowed" /\ procs[p].entitled
    BY <1>1, <2>1, TaskFields DEF Set, Reset, Allowed, Inv, Types, GrantedByRight
  <2>4. procs[p].chat \in Chats /\ procs[p].op \in Commands
    BY <2>3 DEF Granted
  <2>5. /\ table' = [table EXCEPT ![procs[p].chat] = row]
        /\ procs' = [procs EXCEPT ![p].pc = "invalidate"]
    BY <1>1, <2>2 DEF Change
  <2>6. procs[p].chat = c /\ table'[c] = row
    BY <1>1, <2>4, <2>5 DEF Inv, Types
  <2>7. procs'[p].pc = "invalidate"
    BY <1>1, <2>3, <2>5, GrantedMoves DEF Inv, Types
  <2>8. row[k] # "nan"
    BY <1>1, <2>2, <2>4, <2>6, Commanded DEF NoRow, Upserted, Column, Unset, Inv, Types, Rows
  <2>9. procs[p].op.name = "set" => procs[p].op.key = k
    BY <1>1, <2>2, <2>4, <2>6, Commanded DEF Upserted, Inv, Types, Rows
  <2> QED
    BY <2>3, <2>6, <2>7, <2>8, <2>9
<1>2. Inv /\ [Next]_vars => [NamedByTheEntitled]_vars
  BY <1>1 DEF NamedByTheEntitled
<1> QED
  BY <1>2, InvAlways, PTL DEF Spec, ChangedByRight
===============================================================================
