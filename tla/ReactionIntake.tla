---------------------------- MODULE ReactionIntake ----------------------------
(***************************************************************************)
(* Poller over ChatHistory: a reaction that Poll delivers is recorded by   *)
(* the buffer, or refused by it because the chat cannot be read, while the *)
(* handlers of ordinary updates, which telebot runs in goroutines of their *)
(* own, use the same buffer, and a crash ends all of them.                 *)
(***************************************************************************)
EXTENDS Poller

CONSTANTS Chat, Target, WindowSize, Stored, BufferFaults

VARIABLES
  running,  \* updates whose handler has not recorded its message yet
  data, loaded, table

intake == <<running, data, loaded, table>>
intakeVars == <<kind, sent, forgotten, pc, batch, bot, dest, telebot, chronicle, running, data, loaded, table>>

(* An ordinary update brings the message of its number, a reaction is      *)
(* about Target[update]; 0 is an older message, or a reply of the bot.     *)
H == INSTANCE ChatHistory
  WITH Chats <- {Chat}, Messages <- {0} \cup Updates, Reactions <- Updates,
       MaxSize <- WindowSize, Faults <- BufferFaults

ASSUME IntakeAssumption ==
  /\ Target \in [Updates -> {0} \cup Updates]
  /\ WindowSize \in Nat \ {0} /\ BufferFaults \subseteq {"load", "save", "crash"}
  /\ \A s \in Stored : s \in Seq(H!Entries) /\ H!OnceEach(s) /\ H!KnowsTargets(s)

PollerRuns == Publish \/ Request \/ Answer \/ RequestFails \/ PauseEnds
              \/ BatchEnds \/ Repeated \/ PassOver \/ BeginReaction \/ Offer \/ HandOver
              \/ Stop \/ StopSeen \/ Stopped

HistoryRecords ==
  /\ RecordReaction
  /\ H!AddReaction(Chat, Current, Target[Current])
  /\ UNCHANGED running

(* A chat in memory is not read again, so its reactions are never refused. *)
HistoryRefuses ==
  /\ RetryReaction \/ GiveUp
  /\ H!AddReactionFails(Chat)
  /\ UNCHANGED running

HandlerStarts ==
  /\ Consume
  /\ running' = running \cup {Head(dest)}
  /\ UNCHANGED <<data, loaded, table>>

(* It reads the history for its prompt; it records the message, alone or   *)
(* with the reply.                                                         *)
HandlerReads(u) ==
  /\ H!Get(Chat)
  /\ UNCHANGED <<vars, running>>

HandlerRecords(u) ==
  /\ \/ H!Add(Chat, H!Message(u))
     \/ H!AddAll(Chat, <<H!Message(u), H!Message(0)>>)
  /\ running' = running \ {u}
  /\ UNCHANGED vars

ProcessRestarts ==
  /\ Restart
  /\ H!HistoryRestart
  /\ running' = {}

IntakeInit == Init /\ running = {} /\ H!HistoryInit

IntakeNext ==
  \/ PollerRuns /\ UNCHANGED intake
  \/ HistoryRecords \/ HistoryRefuses \/ HandlerStarts \/ ProcessRestarts
  \/ \E u \in running : HandlerReads(u) \/ HandlerRecords(u)

IntakeSpec == IntakeInit /\ [][IntakeNext]_intakeVars

DeliverIntake ==
  \/ (BatchEnds \/ Repeated \/ PassOver \/ BeginReaction \/ Offer \/ HandOver) /\ UNCHANGED intake
  \/ HistoryRecords \/ HistoryRefuses

(* As in Poller; the handlers need no fairness for what is claimed here.   *)
IntakeFairness ==
  /\ WF_intakeVars(Request /\ UNCHANGED intake) /\ WF_intakeVars(PauseEnds /\ UNCHANGED intake)
  /\ WF_intakeVars(DeliverIntake) /\ WF_intakeVars(HandlerStarts)
  /\ WF_intakeVars((StopSeen \/ Stopped) /\ UNCHANGED intake)
  /\ WF_intakeVars(Answer /\ UNCHANGED intake) /\ SF_intakeVars(AnswerWithAll /\ UNCHANGED intake)

FairIntakeSpec == IntakeSpec /\ IntakeFairness
-------------------------------------------------------------------------------
(* An update delivered again, before or after a restart, is not recorded   *)
(* a second time while its first record is in the window.                  *)
NoReactionTwice == H!NoReactionTwice

(* A reaction recorded while the message it is about was in the window     *)
(* knows whose message that was.                                           *)
ReactionKnowsItsTarget == H!ReactionKnowsItsTarget

(* A saved history is never replaced by an incomplete one once it was      *)
(* read, and by a reaction not even while the table cannot be read.        *)
SavedHistoryIsKept == H!SavedHistoryIsKept

===============================================================================
