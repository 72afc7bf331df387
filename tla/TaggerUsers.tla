----------------------------- MODULE TaggerUsers ------------------------------
(***************************************************************************)
(* The registry of tagger candidates (internal/features/taggerusers and    *)
(* its table, storage/db/tagger_users.go): two maps in memory over the     *)
(* table tagger_users.  Every change is written to the table first, then   *)
(* to memory, under the registry's lock; the process may die in between.   *)
(***************************************************************************)
EXTENDS Membership, Naturals, Sequences, FiniteSets, SequencesExt

CONSTANTS Authors,   \* captions
          NoAuthor   \* the member is not in the map, or not in the table

ASSUME AuthorsAssumption == NoAuthor \notin Authors
(* Ids are numbers, and the table is read in their order. *)
ASSUME UserIdsAssumption == Users \subseteq Nat /\ IsFiniteSet(Users)

VARIABLES
  stored,   \* the table tagger_users
  authors,  \* Registry.authors
  chats,    \* Registry.chats: the members of each chat, as a list
  call,     \* the change that holds the lock after its write to the table
  failed    \* the last change returned an error

registry == <<stored, authors, chats, call, failed>>
-------------------------------------------------------------------------------
NoCall == [op |-> "none"]
NoMembers == [u \in Users |-> NoAuthor]
Members(t, c) == {u \in Users : t[c][u] # NoAuthor}

(* Mutant: the last member is dropped instead of moved. *)
DropLast(list, u) == [i \in 1..(Len(list) - 1) |-> list[i]]

(* Remove: the last member takes the place of the removed one. *)
SwapRemove(list, u) ==
  LET n == Len(list) IN
  [i \in 1..(n - 1) |-> IF list[i] = u THEN list[n] ELSE list[i]]

(* The statements of the table. *)
Upsert(c, u, a) == stored' = [stored EXCEPT ![c][u] = a]
Delete(c, u) == stored' = [stored EXCEPT ![c][u] = NoAuthor]
DeleteChat(c) == stored' = [stored EXCEPT ![c] = NoMembers]

(* A statement fails and changes nothing: the change returns the error and *)
(* leaves memory alone.                                                    *)
WriteFails == failed' = TRUE /\ UNCHANGED <<stored, call>>

AddBegins(c, u, a) ==
  /\ call = NoCall /\ authors[c][u] # a
  /\ \/ WriteFails
     \/ /\ Upsert(c, u, a)
        /\ call' = [op |-> "add", chat |-> c, user |-> u, author |-> a]
        /\ failed' = FALSE
  /\ UNCHANGED <<authors, chats>>

AddEnds ==
  /\ call.op = "add"
  /\ LET c == call.chat IN
     /\ chats' = IF authors[c][call.user] = NoAuthor
                 THEN [chats EXCEPT ![c] = Append(@, call.user)] ELSE chats
     /\ authors' = [authors EXCEPT ![c][call.user] = call.author]
  /\ call' = NoCall
  /\ UNCHANGED <<stored, failed>>

(* Mutant: memory is changed even if the table was not. *)
RemoveBeginsInMemory(c, u) ==
  /\ call = NoCall /\ authors[c][u] # NoAuthor
  /\ failed' \in BOOLEAN
  /\ IF failed' THEN stored' = stored ELSE Delete(c, u)
  /\ call' = [op |-> "remove", chat |-> c, user |-> u]
  /\ UNCHANGED <<authors, chats>>

RemoveBegins(c, u) ==
  /\ call = NoCall /\ authors[c][u] # NoAuthor
  /\ \/ WriteFails
     \/ /\ Delete(c, u)
        /\ call' = [op |-> "remove", chat |-> c, user |-> u]
        /\ failed' = FALSE
  /\ UNCHANGED <<authors, chats>>

RemoveEnds ==
  /\ call.op = "remove"
  /\ authors' = [authors EXCEPT ![call.chat][call.user] = NoAuthor]
  /\ chats' = [chats EXCEPT ![call.chat] = SwapRemove(@, call.user)]
  /\ call' = NoCall
  /\ UNCHANGED <<stored, failed>>

RemoveChatBegins(c) ==
  /\ call = NoCall
  /\ \/ WriteFails
     \/ /\ DeleteChat(c)
        /\ call' = [op |-> "removeChat", chat |-> c]
        /\ failed' = FALSE
  /\ UNCHANGED <<authors, chats>>

(* The captions to delete are found by the chat's list. *)
RemoveChatEnds ==
  /\ call.op = "removeChat"
  /\ LET c == call.chat IN
     /\ authors' = [authors EXCEPT ![c] =
          [u \in Users |-> IF u \in ToSet(chats[c]) THEN NoAuthor ELSE @[u]]]
     /\ chats' = [chats EXCEPT ![c] = <<>>]
  /\ call' = NoCall
  /\ UNCHANGED <<stored, failed>>

(* The rows of a chat, by their ids. *)
InOrder(members) ==
  [i \in 1..Cardinality(members) |->
     CHOOSE u \in members : Cardinality({v \in members : v < u}) = i - 1]

(* The process dies and New loads the table again.  A load that fails ends *)
(* the start: nothing runs then.                                           *)
RegistryRestart ==
  /\ authors' = stored
  /\ chats' = [c \in Chats |-> InOrder(Members(stored, c))]
  /\ call' = NoCall
  /\ failed' = FALSE
  /\ UNCHANGED stored

RegistryInit ==
  /\ stored = [c \in Chats |-> NoMembers]
  /\ authors = stored
  /\ chats = [c \in Chats |-> <<>>]
  /\ call = NoCall
  /\ failed = FALSE

RegistryNext ==
  \/ \E c \in Chats, u \in Users, a \in Authors : AddBegins(c, u, a)
  \/ \E c \in Chats, u \in Users : RemoveBegins(c, u)
  \/ \E c \in Chats : RemoveChatBegins(c)
  \/ AddEnds \/ RemoveEnds \/ RemoveChatEnds
  \/ RegistryRestart

RegistrySpec == RegistryInit /\ [][RegistryNext]_registry
-------------------------------------------------------------------------------
(* Whoever gets the lock reads what the table holds: the captions are the  *)
(* table's, and each chat's list names its members once each.              *)
MemoryIsTheTable ==
  call = NoCall =>
    /\ authors = stored
    /\ \A c \in Chats :
         /\ ToSet(chats[c]) = Members(stored, c)
         /\ \A i, j \in 1..Len(chats[c]) : chats[c][i] = chats[c][j] => i = j

(* The members and captions that Users and Author give. *)
Seen == [c \in Chats |-> [u \in Users |->
           IF u \in ToSet(chats[c]) THEN authors[c][u] ELSE NoAuthor]]

(* Two maps over a table that is written first look like one table that is *)
(* changed by one call at a time: nothing of a call is seen before its end, *)
(* a failed one has no effect, and a restart in the middle of one leaves   *)
(* it done or not done and every other member as it was.                   *)
Table == INSTANCE MemberTable WITH table <- Seen, under <- call
ImplementsTable == Table!TableSpec
===============================================================================
