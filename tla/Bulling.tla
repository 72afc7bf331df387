-------------------------------- MODULE Bulling --------------------------------
(***************************************************************************)
(* The answers to text messages (internal/handlers/bulling): the bot       *)
(* answers whoever addresses it, and whoever has written a lot, but then   *)
(* not again before a cooldown is over.  Every message is handled in a     *)
(* goroutine of its own; one action is one section under muCooldown or     *)
(* muCount, one call of the history or one request to Telegram.  What the  *)
(* link enricher and the generator add is text, and the time they take     *)
(* lies between any two actions.  The history is the abstract one of the   *)
(* module HistoryWindow, which ChatHistory implements.                     *)
(***************************************************************************)
EXTENDS Naturals, Sequences, FiniteSets

CONSTANTS Messages,        \* ids of the messages
          Chats, Users,
          ThresholdCount,  \* messages within ThresholdTime that provoke the bot
          ThresholdTime,
          Cooldown,
          WindowSize,      \* of the history
          MaxTime,         \* bound on the clock
          Faults           \* what may fail: "settings", "notify", "reply"

ASSUME BullingAssumption ==
  /\ ThresholdCount \in Nat \ {0} /\ ThresholdTime \in Nat /\ Cooldown \in Nat
  /\ IsFiniteSet(Messages) /\ WindowSize \in Nat /\ MaxTime \in Nat \ {0}
  /\ Faults \subseteq {"settings", "notify", "reply"}

VARIABLES
  now,       \* the clock
  sent,      \* Telegram: what each message is
  cooldown,  \* Handler.cooldown: when it ends for each chat and user
  msgCount,  \* Handler.msgCount: the messages counted for each chat and user
  history,   \* the entries of each chat
  handling   \* where the handler of each message is

vars == <<now, sent, cooldown, msgCount, history, handling>>
-------------------------------------------------------------------------------
Entries == [message : Messages] \cup [reply : Messages]
Message(m) == [message |-> m]
Reply(m) == [reply |-> m]

Buffer == INSTANCE HistoryWindow WITH window <- history, saved <- history
Add(m, piece) == Buffer!Record(sent[m].chat, piece)

Unsent == [pc |-> "unsent"]

(* Mutant: what a user does in one chat counts in all of them. *)
KeyOfUser(m) == <<CHOOSE c \in Chats : TRUE, sent[m].user>>

Key(m) == <<sent[m].chat, sent[m].user>>

At(m, pc) == handling[m].pc = pc
Go(m, pc) == handling' = [handling EXCEPT ![m].pc = pc]

SameUser(m, n) ==
  ~At(n, "unsent") /\ sent[m].chat = sent[n].chat /\ sent[m].user = sent[n].user

Arrive(m, c, u, addressed) ==
  /\ At(m, "unsent")
  /\ sent' = [sent EXCEPT ![m] = [chat |-> c, user |-> u, addressed |-> addressed, time |-> now]]
  /\ Go(m, "settings")
  /\ UNCHANGED <<now, cooldown, msgCount, history>>

Tick ==
  /\ now < MaxTime
  /\ now' = now + 1
  /\ UNCHANGED <<sent, cooldown, msgCount, history, handling>>

(* Without settings the handler gives the message up. *)
ReadSettings(m) ==
  /\ At(m, "settings")
  /\ Go(m, "cooldown") \/ ("settings" \in Faults /\ Go(m, "dropped"))
  /\ UNCHANGED <<now, sent, cooldown, msgCount, history>>

(* Mutant: the cooldown is over in its last instant. *)
IsCooldownEarly(k) == now < cooldown[k]

IsCooldown(k) == now <= cooldown[k]

(* history: whether the bot has reacted to the user less than a cooldown   *)
(* ago.                                                                    *)
JustReacted(m) ==
  \E n \in Messages : "since" \in DOMAIN handling[n] /\ SameUser(m, n)
                        /\ now <= handling[n].since + Cooldown

(* A cooldown of 0 is none. *)
CheckCooldown(m) ==
  /\ At(m, "cooldown")
  /\ cooldown' = [cooldown EXCEPT ![Key(m)] = IF IsCooldown(Key(m)) THEN @ ELSE 0]
  /\ handling' = [handling EXCEPT ![m] =
       [pc |-> "count", cooling |-> IsCooldown(Key(m)), hot |-> JustReacted(m)]]
  /\ UNCHANGED <<now, sent, msgCount, history>>

(* Mutant: messages are counted for ever. *)
CountedAnyTime(m) == msgCount[Key(m)] \cup {m}

Counted(m) ==
  {n \in msgCount[Key(m)] \cup {m} : now - sent[n].time <= ThresholdTime}

Reacts(m, threshold) ==
  sent[m].addressed \/ (~handling[m].cooling /\ threshold)

CountMessage(m) ==
  /\ At(m, "count")
  /\ msgCount' = [msgCount EXCEPT ![Key(m)] = Counted(m)]
  /\ LET threshold == Cardinality(Counted(m)) >= ThresholdCount IN
     handling' = [handling EXCEPT ![m] =
       IF Reacts(m, threshold)
       THEN [pc |-> "react", hot |-> @.hot] ELSE [pc |-> "skip"]]
  /\ UNCHANGED <<now, sent, cooldown, history>>

Skip(m) ==
  /\ At(m, "skip")
  /\ Add(m, <<Message(m)>>)
  /\ Go(m, "done")
  /\ UNCHANGED <<now, sent, cooldown, msgCount>>

(* The history is read for the prompt, the reply generated and counted.    *)
SetCooldown(m) ==
  /\ At(m, "react")
  /\ cooldown' = [cooldown EXCEPT ![Key(m)] = now + Cooldown]
  /\ handling' = [handling EXCEPT ![m] =
       [pc |-> "notify", hot |-> @.hot, since |-> now]]
  /\ UNCHANGED <<now, sent, msgCount, history>>

(* A chat that cannot be shown that the bot is typing gets no reply. *)
Notify(m) ==
  /\ At(m, "notify")
  /\ Go(m, "reply") \/ ("notify" \in Faults /\ Go(m, "dropped"))
  /\ UNCHANGED <<now, sent, cooldown, msgCount, history>>

SendReply(m) ==
  /\ At(m, "reply")
  /\ Go(m, "sent") \/ ("reply" \in Faults /\ Go(m, "unanswered"))
  /\ UNCHANGED <<now, sent, cooldown, msgCount, history>>

(* Mutant: a message that could not be answered is forgotten. *)
RecordUnansweredNot(m) ==
  /\ At(m, "unanswered")
  /\ Go(m, "done")
  /\ UNCHANGED <<now, sent, cooldown, msgCount, history>>

RecordUnanswered(m) ==
  /\ At(m, "unanswered")
  /\ Add(m, <<Message(m)>>)
  /\ Go(m, "done")
  /\ UNCHANGED <<now, sent, cooldown, msgCount>>

(* Mutant: the message and the reply are added one by one. *)
RecordExchangeApart(m) ==
  \/ /\ At(m, "sent")
     /\ Add(m, <<Message(m)>>)
     /\ Go(m, "half")
     /\ UNCHANGED <<now, sent, cooldown, msgCount>>
  \/ /\ At(m, "half")
     /\ Add(m, <<Reply(m)>>)
     /\ Go(m, "answered")
     /\ UNCHANGED <<now, sent, cooldown, msgCount>>

RecordExchange(m) ==
  /\ At(m, "sent")
  /\ Add(m, <<Message(m), Reply(m)>>)
  /\ Go(m, "answered")
  /\ UNCHANGED <<now, sent, cooldown, msgCount>>
-------------------------------------------------------------------------------
Init ==
  /\ now = 1
  /\ sent = [m \in Messages |-> {}]
  /\ cooldown = [k \in Chats \X Users |-> 0]
  /\ msgCount = [k \in Chats \X Users |-> {}]
  /\ history = [c \in Chats |-> <<>>]
  /\ handling = [m \in Messages |-> Unsent]

Handle(m) ==
  \/ ReadSettings(m) \/ CheckCooldown(m) \/ CountMessage(m) \/ Skip(m)
  \/ SetCooldown(m) \/ Notify(m) \/ SendReply(m)
  \/ RecordUnanswered(m) \/ RecordExchange(m)

Next ==
  \/ Tick
  \/ \E m \in Messages :
       \/ Handle(m)
       \/ \E c \in Chats, u \in Users, addressed \in BOOLEAN : Arrive(m, c, u, addressed)

Spec == Init /\ [][Next]_vars
-------------------------------------------------------------------------------
Reacting == {"notify", "reply", "sent", "unanswered", "answered"}
Ended == {"done", "answered", "dropped"}

(* Every variable has its type. *)
TypeOK ==
  /\ now \in 1..MaxTime
  /\ \A m \in Messages :
       /\ handling[m].pc \in {"unsent", "settings", "cooldown", "count", "react", "skip"}
                               \cup Reacting \cup Ended
       /\ At(m, "unsent") \/ sent[m] \in
            [chat : Chats, user : Users, addressed : BOOLEAN, time : 1..MaxTime]
  /\ cooldown \in [Chats \X Users -> 0..(MaxTime + Cooldown)]
  /\ msgCount \in [Chats \X Users -> SUBSET Messages]
  /\ history \in [Chats -> Seq(Entries)]

(* A reaction that nobody asked for comes only after the cooldown of every *)
(* earlier reaction to the same user in the chat, asked for or not; only   *)
(* handlers that looked at the cooldown before it was set may still react. *)
QuietDuringCooldown ==
  \A m \in Messages :
    handling[m].pc \in Reacting \cup {"react"} /\ handling[m].hot => sent[m].addressed

(* The bot reacts unasked only to who has written ThresholdCount messages  *)
(* in this chat within ThresholdTime, whatever was written and handled in  *)
(* other chats and before.                                                 *)
OnlyTheBusyAreBothered ==
  [][\A m \in Messages :
       At(m, "count") /\ handling'[m].pc = "react" /\ ~sent[m].addressed =>
         Cardinality({n \in Messages :
             SameUser(m, n) /\ now - sent[n].time <= ThresholdTime}) >= ThresholdCount]_vars

(* A message whose handling ended, with or without a reply or a refused    *)
(* one, is in the history of its chat once, unless it was given up for     *)
(* want of settings or of the typing status, or the window was full and    *)
(* moved on past it.  The reply that was sent follows its message at once, *)
(* whatever was handled meanwhile, and neither is there without the other  *)
(* but for a reply whose message was the last that the window moved past.  *)
HistoryIsComplete ==
  \A m \in Messages : handling[m].pc \in {"done", "answered"} =>
    LET h == history[sent[m].chat] IN
      /\ \A i, j \in 1..Len(h) : h[i] = Message(m) /\ h[j] = Message(m) => i = j
      /\ Len(h) < WindowSize => \E i \in 1..Len(h) : h[i] = Message(m)
      /\ At(m, "answered") => \A i \in 1..Len(h) : h[i] = Message(m) =>
                                i < Len(h) /\ h[i + 1] = Reply(m)
      /\ \A i \in 1..Len(h) : h[i] = Reply(m) =>
           At(m, "answered") /\ (i = 1 \/ h[i - 1] = Message(m))
===============================================================================
