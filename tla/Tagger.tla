-------------------------------- MODULE Tagger --------------------------------
(***************************************************************************)
(* The tagger (internal/handlers/tagger): the bot keeps, for every chat,   *)
(* the members it knows, and pings one of them when the chat's only job    *)
(* falls due.  Handler goroutines (messages, joins, departures) and the    *)
(* one sender goroutine share the registry, the jobs, the queue and the    *)
(* membership epochs under Handler.mu, and leave the lock to ask Telegram  *)
(* about a member.  One action is one section under the lock or one reply. *)
(*                                                                         *)
(* The registry is its durable table `known`: the module TaggerUsers       *)
(* shows that the memory and the table of the registry never differ        *)
(* outside a call.  The queue is the set of its jobs: which is due first   *)
(* is left open, so every order of random intervals is covered.            *)
(*                                                                         *)
(* jobSeq and the epoch counters are only ever compared for equality with  *)
(* copies of the same chat's that the queue and running goroutines hold.   *)
(* Fresh gives a number none of them holds instead of the next one, so     *)
(* that runs of any length have finitely many states.                      *)
(***************************************************************************)
EXTENDS Membership, Naturals, FiniteSets

CONSTANTS Bots,      \* those of the users that are bots
          NoUser,    \* an event without a second participant to check
          Slots,     \* handler goroutines alive at the same time
          Sender,    \* the name of the sender goroutine
          Faults     \* what may go wrong: "store", "crash"

ASSUME SlotsAssumption == IsFiniteSet(Slots) /\ Sender \notin Slots
ASSUME UsersAssumption == Bots \subseteq Users /\ NoUser \notin Users
ASSUME FaultsAssumption == Faults \subseteq {"store", "crash"}

VARIABLES
  known,     \* the registry: the members known in each chat
  jobs,      \* token of the chat's only job, NoJob if it has none
  queue,     \* jobs waiting for their time
  epochs,    \* news about each chat's membership
  slots,     \* what each handler goroutine is doing
  attempt,   \* what the sender is doing
  outlived   \* history: the checks and attempts whose chat was emptied after
             \* they began

tagger == <<known, jobs, queue, epochs>>
vars == <<known, jobs, queue, epochs, slots, attempt, outlived>>
-------------------------------------------------------------------------------
NoJob == 0
Idle == [pc |-> "idle"]
NoNews == [present |-> 0, removed |-> 0]

Checking == {"asked", "present", "gone"}                   \* pc of a check
Targeted == {"check", "gone", "canSend", "send"} \* attempts with a user

(* The smallest number outside a finite set of numbers. *)
Fresh(used) == CHOOSE n \in 0..Cardinality(used) : n \notin used

(* A check holds the epoch it began with; so does an attempt with a target. *)
Snapshots(c) ==
  {slots[s].epoch : s \in {t \in Slots : slots[t].pc \in Checking /\ slots[t].chat = c}}
    \cup {attempt.epoch : a \in {b \in {attempt} : b.pc \in Targeted /\ b.chat = c}}

MarkPresent(c) ==
  epochs' = [epochs EXCEPT ![c].present = Fresh({e.present : e \in Snapshots(c)})]
MarkRemoved(c) ==
  epochs' = [epochs EXCEPT ![c].removed = Fresh({e.removed : e \in Snapshots(c)})]

(* Mutant: an absence is believed whatever came since. *)
OutdatesPresenceOnly(now, since, state) ==
  state = "present" /\ now.removed # since.removed

(* chatEpoch.outdates: news of the opposite kind came since the snapshot. *)
Outdates(now, since, state) ==
  IF state = "present" THEN now.removed # since.removed
                       ELSE now.present # since.present

(* The tokens of c that are still held somewhere. *)
LiveTokens(c) ==
  {NoJob} \cup {j.token : j \in {i \in queue : i.chat = c}}
    \cup {attempt.token : a \in {b \in {attempt} : b.pc # "idle" /\ b.chat = c}}

NewToken(c) == Fresh(LiveTokens(c))
Job(c, token) == [chat |-> c, token |-> token]

JobCurrent == jobs[attempt.chat] = attempt.token

StoreOutcomes == IF "store" \in Faults THEN BOOLEAN ELSE {TRUE}
-------------------------------------------------------------------------------
(* Telegram's answer to getChatMember and what the handler makes of it. *)
Roles == {"creator", "administrator", "member", "restricted", "left", "kicked", "other"}
ChatMember == [role : Roles, member : BOOLEAN]

MembershipOf(m) ==
  IF \/ m.role \in {"creator", "administrator", "member"}
     \/ m.role = "restricted" /\ m.member
  THEN "present"
  ELSE IF m.role \in {"restricted", "left", "kicked"} THEN "gone" ELSE "unknown"

(* Whatever Telegram answers, rightly or not; a failed request tells as    *)
(* much as an unknown role.                                                *)
Verdicts == {MembershipOf(m) : m \in ChatMember}
-------------------------------------------------------------------------------
(* Sections under Handler.mu. *)
ScheduleLocked(c) ==
  \/ /\ jobs[c] # NoJob \/ known'[c] = {}
     /\ UNCHANGED <<jobs, queue>>
  \/ /\ jobs[c] = NoJob /\ known'[c] # {}
     /\ jobs' = [jobs EXCEPT ![c] = NewToken(c)]
     /\ queue' = queue \cup {Job(c, NewToken(c))}

(* heap.Remove takes the one entry indexOf finds. *)
UnscheduleLocked(c) ==
  /\ jobs' = [jobs EXCEPT ![c] = NoJob]
  /\ \/ /\ \A j \in queue : j.chat # c
        /\ queue' = queue
     \/ \E j \in queue : j.chat = c /\ queue' = queue \ {j}

(* Mutant: bots are not turned away. *)
AddUserLockedAnyone(c, u, ok) ==
  /\ MarkPresent(c)
  /\ \/ ok /\ known' = [known EXCEPT ![c] = @ \cup {u}] /\ ScheduleLocked(c)
     \/ ~ok /\ UNCHANGED <<known, jobs, queue>>

AddUserLocked(c, u, ok) ==
  \/ u \in Bots /\ UNCHANGED tagger
  \/ /\ u \notin Bots
     /\ MarkPresent(c)
     /\ \/ /\ ok
           /\ known' = [known EXCEPT ![c] = @ \cup {u}]
           /\ ScheduleLocked(c)
        \/ ~ok /\ UNCHANGED <<known, jobs, queue>>

(* Mutant: a departure is news only if the member was known. *)
RemoveUserLockedMarkingKnown(c, u, ok) ==
  \/ u \notin known[c] /\ UNCHANGED tagger
  \/ /\ u \in known[c] /\ ok /\ MarkRemoved(c)
     /\ known' = [known EXCEPT ![c] = @ \ {u}]
     /\ \/ known'[c] = {} /\ UnscheduleLocked(c)
        \/ known'[c] # {} /\ UNCHANGED <<jobs, queue>>

(* The registry does not touch the table for a user it does not know. *)
RemoveUserLocked(c, u, ok) ==
  /\ MarkRemoved(c)
  /\ \/ /\ ok \/ u \notin known[c]
        /\ known' = [known EXCEPT ![c] = @ \ {u}]
        /\ \/ known'[c] = {} /\ UnscheduleLocked(c)
           \/ known'[c] # {} /\ UNCHANGED <<jobs, queue>>
     \/ ~ok /\ u \in known[c] /\ UNCHANGED <<known, jobs, queue>>

(* Mutant: the epochs go with the rest of the chat. *)
ForgetChatClearingEpochs(c, ok) ==
  /\ epochs' = [epochs EXCEPT ![c] = NoNews]
  /\ \/ ok /\ known' = [known EXCEPT ![c] = {}] /\ UnscheduleLocked(c)
     \/ ~ok /\ UNCHANGED <<known, jobs, queue>>

ForgetChat(c, ok) ==
  /\ MarkRemoved(c)
  /\ \/ /\ ok
        /\ known' = [known EXCEPT ![c] = {}]
        /\ UnscheduleLocked(c)
     \/ ~ok /\ UNCHANGED <<known, jobs, queue>>

(* History: whoever is under way in c outlives its emptying. *)
RunningOn(c) ==
  {s \in Slots : slots[s].pc \in Checking /\ slots[s].chat = c}
    \cup {p \in {Sender} : attempt.pc # "idle" /\ attempt.chat = c}
Outliving(c) == IF known'[c] = {} THEN outlived \cup RunningOn(c) ELSE outlived
-------------------------------------------------------------------------------
(* observe, as the last call of a join or a departure: a bot is not looked *)
(* at; anyone else is checked from an epoch read in a section of its own.  *)
ThenObserve(c, u) ==
  IF u \in Bots \cup {NoUser} THEN Idle ELSE [pc |-> "observe", chat |-> c, user |-> u]

HandleMessage(s, c, u) ==
  /\ slots[s] = Idle /\ u \notin Bots
  /\ slots' = [slots EXCEPT ![s] =
       [pc |-> "asked", chat |-> c, user |-> u, epoch |-> epochs[c]]]
  /\ UNCHANGED <<known, jobs, queue, epochs, attempt, outlived>>

BeginObserve(s) ==
  /\ slots[s].pc = "observe"
  /\ slots' = [slots EXCEPT ![s] =
       [pc |-> "asked", chat |-> @.chat, user |-> @.user, epoch |-> epochs[@.chat]]]
  /\ UNCHANGED <<known, jobs, queue, epochs, attempt, outlived>>

(* getChatMember returns: an error and an unknown status end the handler. *)
MemberAnswers(s, v) ==
  /\ slots[s].pc = "asked"
  /\ slots' = [slots EXCEPT ![s] = IF v = "unknown" THEN Idle ELSE [@ EXCEPT !.pc = v]]
  /\ outlived' = IF v = "unknown" THEN outlived \ {s} ELSE outlived
  /\ UNCHANGED <<known, jobs, queue, epochs, attempt>>

ObserveFinish(s) ==
  /\ slots[s].pc \in {"present", "gone"}
  /\ LET c == slots[s].chat
         state == slots[s].pc
     IN  /\ \/ /\ Outdates(epochs[c], slots[s].epoch, state)
               /\ UNCHANGED tagger
               /\ outlived' = outlived \ {s}
            \/ /\ ~Outdates(epochs[c], slots[s].epoch, state)
               /\ \E ok \in StoreOutcomes :
                    \/ /\ state = "present"
                       /\ AddUserLocked(c, slots[s].user, ok)
                       /\ outlived' = outlived \ {s}
                    \/ /\ state = "gone"
                       /\ RemoveUserLocked(c, slots[s].user, ok)
                       /\ outlived' = Outliving(c) \ {s}
         /\ slots' = [slots EXCEPT ![s] = Idle]
  /\ UNCHANGED <<attempt>>
-------------------------------------------------------------------------------
(* A handler that ends with its first section never occupies a slot. *)
Occupy(task) ==
  \/ task = Idle /\ UNCHANGED slots
  \/ /\ task # Idle
     /\ \E s \in Slots : slots[s] = Idle /\ slots' = [slots EXCEPT ![s] = task]

(* Each member is added in a section of its own; an error does not stop    *)
(* the loop.  Whoever brought them is observed at the end.                 *)
AfterOne(c, u, todo, sender) ==
  IF todo = {u} THEN ThenObserve(c, sender)
                ELSE [pc |-> "adding", chat |-> c, todo |-> todo \ {u}, user |-> sender]

(* One join event names everyone who joined, and who brought them; u is    *)
(* the first to be added.                                                  *)
HandleJoin(c, joined, sender, u) ==
  /\ u \in joined
  /\ \E ok \in StoreOutcomes : AddUserLocked(c, u, ok)
  /\ Occupy(AfterOne(c, u, joined, IF sender \in joined THEN NoUser ELSE sender))
  /\ UNCHANGED <<attempt, outlived>>

AddJoined(s, u) ==
  /\ slots[s].pc = "adding"
  /\ LET t == slots[s] IN
     /\ u \in t.todo
     /\ \E ok \in StoreOutcomes : AddUserLocked(t.chat, u, ok)
     /\ slots' = [slots EXCEPT ![s] = AfterOne(t.chat, u, t.todo, t.user)]
  /\ UNCHANGED <<attempt, outlived>>

(* A member left or was removed; whoever removed it is observed. *)
HandleLeft(c, u, sender) ==
  /\ \E ok \in StoreOutcomes : RemoveUserLocked(c, u, ok)
  /\ Occupy(IF sender = u THEN Idle ELSE ThenObserve(c, sender))
  /\ outlived' = Outliving(c)
  /\ UNCHANGED attempt

(* The bot itself was removed from the chat. *)
HandleBotRemoved(c) ==
  /\ \E ok \in StoreOutcomes : ForgetChat(c, ok)
  /\ outlived' = Outliving(c)
  /\ UNCHANGED <<slots, attempt>>
-------------------------------------------------------------------------------
(* The sender: one attempt at a time. *)
Finished == [pc |-> "finish", chat |-> attempt.chat, token |-> attempt.token]

TakeDue(c) ==
  /\ attempt = Idle
  /\ \E j \in queue :
       /\ j.chat = c
       /\ queue' = queue \ {j}
       /\ jobs' = IF known[c] = {} THEN [jobs EXCEPT ![c] = NoJob] ELSE jobs
       /\ attempt' = IF known[c] = {} THEN Idle
                     ELSE [pc |-> "select", chat |-> c, token |-> j.token]
  /\ UNCHANGED <<known, epochs, slots, outlived>>

(* Settings that cannot be read do not switch the tagger off.  authors:    *)
(* who has messages of their own in the snapshot of the history.           *)
SelectTarget ==
  /\ attempt.pc = "select"
  /\ \E settings \in {"enabled", "disabled", "error"}, authors \in SUBSET Users :
       LET eligible == known[attempt.chat] \cap authors IN
       \/ /\ settings = "disabled" \/ ~JobCurrent \/ eligible = {}
          /\ attempt' = Finished
       \/ /\ settings # "disabled" /\ JobCurrent
          /\ \E u \in eligible :
               attempt' = [pc |-> "check", chat |-> attempt.chat, token |-> attempt.token,
                           user |-> u, epoch |-> epochs[attempt.chat]]
  /\ UNCHANGED <<known, jobs, queue, epochs, slots, outlived>>

CandidateAnswers(v) ==
  /\ attempt.pc = "check"
  /\ attempt' = CASE v = "unknown" -> Finished
                 [] v = "gone"    -> [attempt EXCEPT !.pc = "gone"]
                 [] v = "present" -> [attempt EXCEPT !.pc = "canSend"]
  /\ UNCHANGED <<known, jobs, queue, epochs, slots, outlived>>

DropGoneCandidate ==
  /\ attempt.pc = "gone"
  /\ LET c == attempt.chat IN
     \/ /\ Outdates(epochs[c], attempt.epoch, "gone")
        /\ UNCHANGED <<known, jobs, queue, epochs, outlived>>
     \/ /\ ~Outdates(epochs[c], attempt.epoch, "gone")
        /\ \E ok \in StoreOutcomes : RemoveUserLocked(c, attempt.user, ok)
        /\ outlived' = Outliving(c)
  /\ attempt' = Finished
  /\ UNCHANGED <<slots>>

(* The nicknames are read and the text generated, unless there are none;   *)
(* then the job and the candidate must still be the chat's.                *)
CanSend ==
  /\ attempt.pc = "canSend"
  /\ \/ attempt' = Finished
     \/ /\ JobCurrent /\ attempt.user \in known[attempt.chat]
        /\ attempt' = [attempt EXCEPT !.pc = "send"]
  /\ UNCHANGED <<known, jobs, queue, epochs, slots, outlived>>

(* bot.Send, outside the lock; its error is logged. *)
Send ==
  /\ attempt.pc = "send"
  /\ attempt' = Finished
  /\ UNCHANGED <<known, jobs, queue, epochs, slots, outlived>>

(* Mutant: the next job is scheduled even if the chat has one already. *)
FinishJobAlways ==
  /\ attempt.pc = "finish"
  /\ LET c == attempt.chat IN
     /\ jobs' = [jobs EXCEPT ![c] = IF known[c] = {} THEN NoJob ELSE NewToken(c)]
     /\ queue' = queue \cup {Job(c, NewToken(c)) : k \in known[c]}
  /\ attempt' = Idle
  /\ outlived' = outlived \ {Sender}
  /\ UNCHANGED <<known, epochs, slots>>

(* Mutant: the job is dropped and nothing is scheduled. *)
FinishJobWithoutNext ==
  /\ attempt.pc = "finish"
  /\ jobs' = IF JobCurrent THEN [jobs EXCEPT ![attempt.chat] = NoJob] ELSE jobs
  /\ attempt' = Idle
  /\ outlived' = outlived \ {Sender}
  /\ UNCHANGED <<known, queue, epochs, slots>>

FinishJob ==
  /\ attempt.pc = "finish"
  /\ LET c == attempt.chat IN
     \/ ~JobCurrent /\ UNCHANGED <<jobs, queue>>
     \/ /\ JobCurrent
        /\ jobs' = [jobs EXCEPT ![c] = IF known[c] = {} THEN NoJob ELSE NewToken(c)]
        /\ queue' = queue \cup {Job(c, NewToken(c)) : k \in known[c]}
  /\ attempt' = Idle
  /\ outlived' = outlived \ {Sender}
  /\ UNCHANGED <<known, epochs, slots>>
-------------------------------------------------------------------------------
(* The process dies and starts again.  The table is all that is left, and  *)
(* scheduleKnownChats gives each chat in it one job.                       *)
Restart ==
  /\ "crash" \in Faults
  /\ jobs' = [c \in Chats |-> IF known[c] = {} THEN NoJob ELSE 1]
  /\ queue' = {Job(c, 1) : c \in {d \in Chats : known[d] # {}}}
  /\ epochs' = [c \in Chats |-> NoNews]
  /\ slots' = [s \in Slots |-> Idle]
  /\ attempt' = Idle
  /\ outlived' = {}
  /\ UNCHANGED known

(* A first start: nothing is known yet. *)
Init ==
  /\ known = [c \in Chats |-> {}]
  /\ jobs = [c \in Chats |-> NoJob]
  /\ queue = {}
  /\ epochs = [c \in Chats |-> NoNews]
  /\ slots = [s \in Slots |-> Idle]
  /\ attempt = Idle
  /\ outlived = {}

Observation(s) ==
  \/ BeginObserve(s) \/ ObserveFinish(s)
  \/ \E v \in Verdicts : MemberAnswers(s, v)
  \/ \E u \in Users : AddJoined(s, u)

Events(c) ==
  \E u \in Users :
    \/ \E s \in Slots : HandleMessage(s, c, u)
    \/ \E sender \in Users \cup {NoUser} :
         \/ HandleLeft(c, u, sender)
         \/ \E joined \in SUBSET Users : HandleJoin(c, joined, sender, u)

Attempt ==
  \/ SelectTarget \/ DropGoneCandidate \/ CanSend \/ Send \/ FinishJob
  \/ \E v \in Verdicts : CandidateAnswers(v)

Next ==
  \/ \E c \in Chats : Events(c) \/ HandleBotRemoved(c) \/ TakeDue(c)
  \/ \E s \in Slots : Observation(s)
  \/ Attempt
  \/ Restart

Spec == Init /\ [][Next]_vars

(* The sender goroutine keeps running and every network call returns (the  *)
(* HTTP client times out).  A queued job cannot be overtaken for ever:     *)
(* later jobs get later times and the heap serves the earliest, so TakeDue *)
(* is strongly fair for each chat.                                         *)
Fairness == WF_vars(Attempt) /\ \A c \in Chats : SF_vars(TakeDue(c))

FairSpec == Spec /\ Fairness
-------------------------------------------------------------------------------
Epochs == [present : Nat, removed : Nat]

Tasks ==
  {Idle}
    \cup [pc : {"adding"}, chat : Chats, todo : SUBSET Users, user : Users \cup {NoUser}]
    \cup [pc : {"observe"}, chat : Chats, user : Users]
    \cup [pc : Checking, chat : Chats, user : Users, epoch : Epochs]

Attempts ==
  {Idle}
    \cup [pc : {"select", "finish"}, chat : Chats, token : Nat]
    \cup [pc : Targeted, chat : Chats, token : Nat, user : Users, epoch : Epochs]

(* Every variable has its type. *)
TypeOK ==
  /\ known \in [Chats -> SUBSET (Users \ Bots)]
  /\ jobs \in [Chats -> Nat]
  /\ queue \in SUBSET [chat : Chats, token : Nat]
  /\ epochs \in [Chats -> Epochs]
  /\ slots \in [Slots -> Tasks]
  /\ attempt \in Attempts
  /\ outlived \in SUBSET (Slots \cup {Sender})

(* A chat has a job exactly while it has known members; the job is waiting *)
(* in the queue or in the sender's hands, never in both and never twice,   *)
(* so a chat is neither forgotten nor pinged at double rate however        *)
(* members come, go and come back during an attempt.                       *)
OneJobPerChat ==
  /\ \A c \in Chats : known[c] # {} <=> jobs[c] # NoJob
  /\ \A c \in Chats : jobs[c] # NoJob =>
       \/ Job(c, jobs[c]) \in queue
       \/ attempt.pc # "idle" /\ attempt.chat = c /\ JobCurrent
  /\ \A j \in queue : j.token # NoJob /\ jobs[j.chat] = j.token
  /\ attempt.pc # "idle" /\ JobCurrent => \A j \in queue : j.chat # attempt.chat

(* What began before a chat was emptied (its last member left or the bot   *)
(* was removed) has no effect after it: a check neither returns nor        *)
(* removes a member, an attempt is not cleared for sending.                *)
EmptiedChatStartsAfresh ==
  [][/\ \A p \in outlived \ {Sender} : slots'[p] # slots[p] => known' = known
     /\ Sender \in outlived /\ attempt' # attempt =>
          known' = known /\ attempt'.pc # "send"]_vars

(* Every chat with known members is attempted again and again, once the    *)
(* process stays alive: each start draws a new interval, and one that      *)
(* comes before the interval of the last is over puts the attempt off.     *)
EveryKnownChatAttempted ==
  <>[][~Restart]_vars =>
    \A c \in Chats :
      known[c] # {} ~> \/ known[c] = {}
                       \/ attempt.pc # "idle" /\ attempt.chat = c

(* As TAG-024 says: an attempt begun before the chat was emptied sends     *)
(* nothing.                                                                *)
NothingSentAfterEmptying ==
  [][attempt.pc = "send" /\ attempt'.pc = "finish" => Sender \notin outlived]_vars
===============================================================================
