---------------------------- MODULE TaggerTelegram ----------------------------
(***************************************************************************)
(* The tagger against the truth it tries to follow: people join and leave  *)
(* chats, Telegram tells the bot of some of these moves and answers        *)
(* getChatMember with the state of that moment.  Every handler runs in a   *)
(* goroutine of its own, and a join message is handled once for each user  *)
(* it names, every call adding all of them.  So the calls for one user's   *)
(* moves run in any order, late and repeatedly, among answers, restarts    *)
(* and the calls for others.  Every step is a step of Tagger, or of        *)
(* Telegram alone.                                                         *)
(***************************************************************************)
EXTENDS Tagger, Sequences

CONSTANT MaxMoves   \* bounds how often users join and leave

ASSUME MaxMovesAssumption == MaxMoves \in Nat

VARIABLES
  inChat,  \* who is in each chat
  log,     \* the event of each move, in order, or NoEvent
  calls,   \* for each move, the calls of its handler that have not begun
  told     \* history: the event about the user that was handled last says
           \* what is still true of it, and the registry took it

telegram == <<inChat, log, calls, told>>
allVars == <<known, jobs, queue, epochs, slots, attempt, outlived,
             inChat, log, calls, told>>
-------------------------------------------------------------------------------
(* A move that Telegram does not tell, or will not tell again. *)
NoEvent == [kind |-> "none"]

CallsFor(e) ==
  CASE e.kind = "join" -> Cardinality(e.users)
    [] e.kind = "left" -> 1
    [] e.kind = "none" -> 0

(* A service message may be missing: large groups hide them, and a bot     *)
(* outside the chat gets none.                                             *)
MayTell(event) ==
  /\ Len(log) < MaxMoves
  /\ \E e \in {event, NoEvent} :
       log' = Append(log, e) /\ calls' = Append(calls, CallsFor(e))

Moved(c, users) ==
  told' = [told EXCEPT ![c] = [u \in Users |-> u \notin users /\ @[u]]]

UsersJoin(c, users) ==
  /\ users # {} /\ users \cap inChat[c] = {}
  /\ inChat' = [inChat EXCEPT ![c] = @ \cup users]
  /\ MayTell([kind |-> "join", chat |-> c, users |-> users])
  /\ Moved(c, users)
  /\ UNCHANGED vars

UserLeaves(c, u) ==
  /\ u \in inChat[c]
  /\ inChat' = [inChat EXCEPT ![c] = @ \ {u}]
  /\ MayTell([kind |-> "left", chat |-> c, users |-> {u}])
  /\ Moved(c, {u})
  /\ UNCHANGED vars

(* Telegram never lies, but may fail or name a status nobody knows. *)
Truth(c, u) == {"unknown", IF u \in inChat[c] THEN "present" ELSE "gone"}
-------------------------------------------------------------------------------
CallBegins(e, kind) ==
  /\ calls[e] > 0 /\ log[e].kind = kind
  /\ calls' = [calls EXCEPT ![e] = @ - 1]
  /\ UNCHANGED <<inChat, log>>

JoinTold(c, u) ==
  told' = [told EXCEPT ![c][u] = u \in inChat[c] /\ u \in known'[c]]

LeftTold(c, u) ==
  told' = [told EXCEPT ![c][u] = u \notin inChat[c] /\ u \notin known'[c]]

JoinHandled(e, sender, u) ==
  /\ CallBegins(e, "join")
  /\ HandleJoin(log[e].chat, log[e].users, sender, u)
  /\ JoinTold(log[e].chat, u)

JoinContinues(s, u) ==
  /\ AddJoined(s, u)
  /\ JoinTold(slots[s].chat, u)
  /\ UNCHANGED <<inChat, log, calls>>

LeftHandled(e, u, sender) ==
  /\ CallBegins(e, "left")
  /\ u \in log[e].users
  /\ HandleLeft(log[e].chat, u, sender)
  /\ LeftTold(log[e].chat, u)

BotRemovalHandled(c) ==
  /\ HandleBotRemoved(c)
  /\ told' = [told EXCEPT ![c] = [u \in Users |->
       IF known'[c] = {} THEN u \notin inChat[c] ELSE @[u]]]
  /\ UNCHANGED <<inChat, log, calls>>

(* The calls that wait die with the process.  Telegram sends the events    *)
(* that the process had not confirmed once more, handled or not.           *)
RestartAmongEvents ==
  /\ Restart
  /\ \E confirmed \in 0..Len(log) :
       log' = [e \in 1..Len(log) |-> IF e <= confirmed THEN NoEvent ELSE log[e]]
  /\ calls' = [e \in 1..Len(log) |-> CallsFor(log'[e])]
  /\ UNCHANGED <<inChat, told>>

TInit ==
  /\ Init
  /\ inChat \in [Chats -> SUBSET Users]
  /\ log = <<>> /\ calls = <<>>
  /\ told = [c \in Chats |-> [u \in Users |-> u \notin inChat[c]]]

TNext ==
  \/ \E c \in Chats :
       \/ BotRemovalHandled(c) \/ (TakeDue(c) /\ UNCHANGED telegram)
       \/ \E users \in SUBSET Users : UsersJoin(c, users)
       \/ \E u \in Users :
            \/ UserLeaves(c, u)
            \/ \E s \in Slots : HandleMessage(s, c, u) /\ UNCHANGED telegram
  \/ \E e \in 1..Len(log), u \in Users, sender \in Users \cup {NoUser} :
       JoinHandled(e, sender, u) \/ LeftHandled(e, u, sender)
  \/ \E s \in Slots :
       \/ (BeginObserve(s) \/ ObserveFinish(s)) /\ UNCHANGED telegram
       \/ \E u \in Users : JoinContinues(s, u)
       \/ \E v \in Verdicts :
            /\ MemberAnswers(s, v) /\ v \in Truth(slots[s].chat, slots[s].user)
            /\ UNCHANGED telegram
  \/ /\ SelectTarget \/ DropGoneCandidate \/ CanSend \/ Send \/ FinishJob
     /\ UNCHANGED telegram
  \/ \E v \in Verdicts :
       /\ CandidateAnswers(v) /\ v \in Truth(attempt.chat, attempt.user)
       /\ UNCHANGED telegram
  \/ RestartAmongEvents

TSpec == TInit /\ [][TNext]_allVars
-------------------------------------------------------------------------------
(* Once an event has rightly said that a user is in the chat, the user is  *)
(* known until it moves or a later call says otherwise: no answer about    *)
(* the time before, no event about others and no restart removes it.       *)
NoForgottenMember ==
  \A c \in Chats, u \in Users :
    told[c][u] /\ u \in inChat[c] => u \in known[c]

(* Once an event has rightly said that a user is gone, the user stays      *)
(* unknown until it moves or a later call says otherwise: an answer given  *)
(* before the departure does not bring it back.  (A call for an older join *)
(* that runs after the departure does; the check before the ping finds it.) *)
NoGhostMember ==
  \A c \in Chats, u \in Users :
    told[c][u] /\ u \notin inChat[c] => u \notin known[c]
===============================================================================
