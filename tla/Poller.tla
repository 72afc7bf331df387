-------------------------------- MODULE Poller ---------------------------------
(***************************************************************************)
(* How updates reach the bot (internal/infrastructure/telegram).  Poll     *)
(* fetches batches from Telegram, which forgets what lies below the offset *)
(* of a request; records reactions itself, repeating one that the history  *)
(* refuses; and hands all other updates to telebot's channel.  A stop      *)
(* interrupts every wait.  The offset lives in memory only.                *)
(***************************************************************************)
EXTENDS Naturals, Sequences, FiniteSets

CONSTANTS NumUpdates,   \* bound: updates 1, 2, ... up to this one
          Arrivals,     \* bound: what the updates may be, one kind for each
          Capacity,     \* of telebot's channel
          MaxAttempts,  \* maxReactionAttempts
          Faults        \* what may go wrong: "request", "history", "repeat", "crash"

ASSUME PollerAssumption ==
  /\ NumUpdates \in Nat /\ Capacity \in Nat /\ MaxAttempts \in Nat \ {0}
  /\ Faults \subseteq {"request", "history", "repeat", "crash"}

Updates == 1..NumUpdates
Kinds == {"ordinary", "reaction", "malformed", "unknown"}

ASSUME ArrivalsAssumption == Arrivals \subseteq [Updates -> Kinds]

VARIABLES
  kind,      \* Telegram: what each update is
  sent,      \* Telegram: updates up to this one exist
  forgotten, \* Telegram: updates up to this one are confirmed
  pc,        \* where Poll is
  batch,     \* updates fetched and not delivered yet
  offset,
  tries,     \* reactionAttempts, of the reaction reactionID
  reactionID,
  dest,      \* telebot's channel
  telebot,   \* running, stopping (the stop channel is closed), stopped
  handed,    \* history: what went into dest since the start, in order
  failures,  \* history: how often each reaction failed since the start
  handled    \* history: updates handed over, recorded, passed over or given
             \* up after so many failures, in this run of the bot or before

bot == <<offset, tries, reactionID>>
chronicle == <<handed, failures, handled>>
vars == <<kind, sent, forgotten, pc, batch, bot, dest, telebot, chronicle>>
-------------------------------------------------------------------------------
Stopping == telebot # "running"

(* A new update. *)
Publish ==
  /\ sent < NumUpdates
  /\ sent' = sent + 1
  /\ UNCHANGED <<kind, forgotten, pc, batch, bot, dest, telebot, chronicle>>

(* getUpdates reaches Telegram, whatever becomes of the answer. *)
Request ==
  /\ pc = "request" /\ ~Stopping
  /\ pc' = "waiting"
  /\ forgotten' = IF offset - 1 > forgotten THEN offset - 1 ELSE forgotten
  /\ UNCHANGED <<kind, sent, batch, bot, dest, telebot, chronicle>>

(* The first updates that are not confirmed; by mistake, the last one that *)
(* this process has confirmed with them.                                   *)
Answer ==
  /\ pc = "waiting"
  /\ \E first \in {forgotten + 1} \cup (IF "repeat" \in Faults /\ offset > 1
                                        THEN {offset - 1} ELSE {}) :
     \E last \in forgotten..sent :
       batch' = [i \in 1..(last + 1 - first) |-> first + i - 1]
  /\ pc' = "deliver"
  /\ UNCHANGED <<kind, sent, forgotten, bot, dest, telebot, chronicle>>

(* No answer, an unsuccessful one, one that cannot be decoded. *)
RequestFails ==
  /\ pc = "waiting" /\ "request" \in Faults
  /\ pc' = "pause"
  /\ UNCHANGED <<kind, sent, forgotten, batch, bot, dest, telebot, chronicle>>

PauseEnds ==
  /\ pc = "pause"
  /\ pc' = "request"
  /\ UNCHANGED <<kind, sent, forgotten, batch, bot, dest, telebot, chronicle>>
-------------------------------------------------------------------------------
BatchEnds ==
  /\ pc = "deliver" /\ batch = <<>>
  /\ pc' = "request"
  /\ UNCHANGED <<kind, sent, forgotten, batch, bot, dest, telebot, chronicle>>

Current == Head(batch)
Delivering == pc = "deliver" /\ batch # <<>> /\ ~Stopping

(* Mutant: an update below the offset is delivered again. *)
DueAnyway == Delivering

Due == Delivering /\ Current >= offset

Repeated ==
  /\ Delivering /\ ~Due
  /\ batch' = Tail(batch)
  /\ UNCHANGED <<kind, sent, forgotten, pc, bot, dest, telebot, chronicle>>

Accept ==
  /\ batch' = Tail(batch)
  /\ offset' = Current + 1
  /\ tries' = 0

(* A malformed update is logged, one of no known kind is not. *)
PassOver ==
  /\ Due /\ kind[Current] \in {"malformed", "unknown"}
  /\ Accept
  /\ handled' = handled \cup {Current}
  /\ UNCHANGED <<kind, sent, forgotten, pc, reactionID, dest, telebot, handed, failures>>

(* Mutant: every batch starts counting again. *)
BeginReactionAfresh ==
  /\ Due /\ kind[Current] = "reaction"
  /\ reactionID' = Current
  /\ tries' = 1
  /\ pc' = "reaction"
  /\ UNCHANGED <<kind, sent, forgotten, batch, offset, dest, telebot, chronicle>>

BeginReaction ==
  /\ Due /\ kind[Current] = "reaction"
  /\ reactionID' = Current
  /\ tries' = IF reactionID = Current THEN tries + 1 ELSE 1
  /\ pc' = "reaction"
  /\ UNCHANGED <<kind, sent, forgotten, batch, offset, dest, telebot, chronicle>>

RecordReaction ==
  /\ pc = "reaction"
  /\ Accept
  /\ handled' = handled \cup {Current}
  /\ pc' = "deliver"
  /\ UNCHANGED <<kind, sent, forgotten, reactionID, dest, telebot, handed, failures>>

(* The history cannot be read, or a stop cancels the call. *)
Refused ==
  /\ pc = "reaction"
  /\ "history" \in Faults \/ Stopping
  /\ failures' = [failures EXCEPT ![Current] = IF Stopping \/ @ > MaxAttempts THEN @ ELSE @ + 1]

(* The rest of the batch is fetched again after a pause. *)
RetryReaction ==
  /\ Refused /\ tries < MaxAttempts
  /\ pc' = "pause"
  /\ UNCHANGED <<kind, sent, forgotten, batch, bot, dest, telebot, handed, handled>>

(* Mutant: a reaction is repeated until it is recorded. *)
GiveUpNever ==
  /\ Refused /\ tries >= MaxAttempts
  /\ pc' = "pause" /\ tries' = 0
  /\ UNCHANGED <<kind, sent, forgotten, batch, offset, reactionID, dest, telebot, handed, handled>>

(* Mutant: a reaction is given up one attempt too early. *)
GiveUpEarly ==
  /\ Refused /\ tries >= MaxAttempts - 1
  /\ Accept
  /\ handled' = IF failures'[Current] >= MaxAttempts THEN handled \cup {Current} ELSE handled
  /\ pc' = "deliver"
  /\ UNCHANGED <<kind, sent, forgotten, reactionID, dest, telebot, handed>>

GiveUp ==
  /\ Refused /\ tries >= MaxAttempts
  /\ Accept
  /\ handled' = IF failures'[Current] >= MaxAttempts THEN handled \cup {Current} ELSE handled
  /\ pc' = "deliver"
  /\ UNCHANGED <<kind, sent, forgotten, reactionID, dest, telebot, handed>>

(* An ordinary update waits for room in the channel. *)
Offer ==
  /\ Due /\ kind[Current] = "ordinary"
  /\ pc' = "offer"
  /\ UNCHANGED <<kind, sent, forgotten, batch, bot, dest, telebot, chronicle>>

(* With room in the channel and the stop closed, select takes either. *)
HandOver ==
  /\ pc = "offer" /\ Len(dest) < Capacity
  /\ dest' = Append(dest, Current)
  /\ handed' = Append(handed, Current)
  /\ handled' = handled \cup {Current}
  /\ Accept
  /\ pc' = "deliver"
  /\ UNCHANGED <<kind, sent, forgotten, reactionID, telebot, failures>>
-------------------------------------------------------------------------------
(* telebot's loop takes an update and starts its handler, or takes a stop. *)
Consume ==
  /\ telebot = "running" /\ dest # <<>>
  /\ dest' = Tail(dest)
  /\ UNCHANGED <<kind, sent, forgotten, pc, batch, bot, telebot, chronicle>>

Stop ==
  /\ telebot = "running"
  /\ telebot' = "stopping"
  /\ UNCHANGED <<kind, sent, forgotten, pc, batch, bot, dest, chronicle>>

(* Mutant: an interrupted wait counts as a failure and Poll goes on. *)
StopSeenRetrying ==
  /\ Stopping /\ pc \notin {"reaction", "done"}
  /\ pc' = IF pc = "request" THEN "pause" ELSE "request"
  /\ UNCHANGED <<kind, sent, forgotten, batch, bot, dest, telebot, chronicle>>

(* Each wait of Poll ends at once, the request by its cancelled context. *)
StopSeen ==
  /\ Stopping /\ pc \notin {"reaction", "done"}
  /\ pc' = "done"
  /\ UNCHANGED <<kind, sent, forgotten, batch, bot, dest, telebot, chronicle>>

Stopped ==
  /\ telebot = "stopping" /\ pc = "done"
  /\ telebot' = "stopped"
  /\ UNCHANGED <<kind, sent, forgotten, pc, batch, bot, dest, chronicle>>

(* The process ends, stopped or not, and a new one starts. *)
Restart ==
  /\ telebot = "stopped" \/ "crash" \in Faults
  /\ pc' = "request" /\ batch' = <<>>
  /\ offset' = 1 /\ tries' = 0 /\ reactionID' = 0
  /\ dest' = <<>> /\ telebot' = "running"
  /\ handed' = <<>>
  /\ failures' = [u \in Updates |-> 0]
  /\ UNCHANGED <<kind, sent, forgotten, handled>>

Init ==
  /\ kind \in Arrivals
  /\ sent = 0 /\ forgotten = 0
  /\ pc = "request" /\ batch = <<>>
  /\ offset = 1 /\ tries = 0 /\ reactionID = 0
  /\ dest = <<>> /\ telebot = "running"
  /\ handed = <<>> /\ handled = {}
  /\ failures = [u \in Updates |-> 0]

Reaction == BeginReaction \/ RecordReaction \/ RetryReaction \/ GiveUp

Deliver == BatchEnds \/ Repeated \/ PassOver \/ Reaction \/ Offer \/ HandOver

Next ==
  \/ Publish \/ Request \/ Answer \/ RequestFails \/ PauseEnds \/ Deliver
  \/ Consume \/ Stop \/ StopSeen \/ Stopped \/ Restart

Spec == Init /\ [][Next]_vars

(* Poll keeps running; timers fire; the history answers; telebot starts a  *)
(* goroutine for what it takes, so it takes the next; and a request that   *)
(* is repeated for ever is answered now and then with all there is.        *)
AnswerWithAll ==
  Answer /\ batch' # <<>> /\ batch'[Len(batch')] = sent

Fairness ==
  /\ WF_vars(Request) /\ WF_vars(PauseEnds) /\ WF_vars(Deliver)
  /\ WF_vars(Consume) /\ WF_vars(StopSeen) /\ WF_vars(Stopped)
  /\ WF_vars(Answer) /\ SF_vars(AnswerWithAll)

FairSpec == Spec /\ Fairness
-------------------------------------------------------------------------------
(* Telegram forgets an update only when the bot has done its part: it is   *)
(* in telebot's channel, recorded, no good, or was refused by the history  *)
(* as often as allowed; a stop or a crash at any point loses none.         *)
ConfirmedWasHandled == 1..forgotten \subseteq handled

(* Between two starts an update is handed to telebot at most once, and in  *)
(* Telegram's order, whatever is fetched again after a refused reaction.   *)
HandedOnceInOrder ==
  \A i, j \in 1..Len(handed) : i < j => handed[i] < handed[j]

(* No reaction is offered to the history more often than allowed. *)
AttemptsAreLimited == \A u \in Updates : failures[u] <= MaxAttempts

(* Every update is handled in the end, however often requests fail and the *)
(* history refuses reactions before it, unless the bot is stopped or       *)
(* crashes for ever.                                                       *)
EveryUpdateHandled ==
  \/ []<><<Restart>>_vars
  \/ \A u \in Updates : sent >= u ~> u \in handled \/ Stopping

(* A stop ends the poller and with it the bot, in every wait and with the  *)
(* channel full and nobody taking from it (unless a crash ends it first).  *)
StopEnds == telebot = "stopping" ~> telebot # "stopping"
===============================================================================
