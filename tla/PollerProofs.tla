----------------------------- MODULE PollerProofs -----------------------------
(***************************************************************************)
(* Proofs about the delivery of updates, for any number of updates of any  *)
(* kinds, any channel, limit of attempts and faults, with the history and  *)
(* the handlers of ReactionIntake or without them.                         *)
(***************************************************************************)
EXTENDS ReactionIntake, SequenceTheorems, TLAPS

(* The first update that is neither confirmed nor below the offset: what   *)
(* is fetched begins with it, or with what is passed over as repeated.     *)
Expected == IF offset > forgotten THEN offset ELSE forgotten + 1

Types ==
  /\ kind \in [Updates -> Kinds]
  /\ sent \in 0..NumUpdates /\ forgotten \in Nat
  /\ pc \in {"request", "waiting", "pause", "deliver", "reaction", "offer", "done"}
  /\ batch \in Seq(Updates)
  /\ offset \in Nat \ {0} /\ tries \in Nat /\ reactionID \in Nat
  /\ telebot \in {"running", "stopping", "stopped"}
  /\ handed \in Seq(Updates)
  /\ failures \in [Updates -> Nat]

(* A batch has no gaps, and what is being delivered is what is expected.   *)
BatchInOrder ==
  /\ \A i \in 1..Len(batch) : batch[i] = batch[1] + i - 1
  /\ batch # <<>> => batch[1] = Expected \/ batch[1] < offset
  /\ offset = 1 \/ offset > forgotten
  /\ pc \in {"reaction", "offer"} => batch # <<>> /\ batch[1] >= offset
  /\ pc = "reaction" => reactionID = batch[1]

(* Below the offset all is done, unless the offset passed a reaction that  *)
(* a stop interrupted; then there is no further request.                   *)
AllBelowIsHandled ==
  /\ ConfirmedWasHandled
  /\ telebot = "running" => 1..(offset - 1) \subseteq handled

HandedIsBelow == \A i \in 1..Len(handed) : handed[i] < offset

(* The attempts that have ended of those that were counted. *)
Ended == IF pc = "reaction" THEN tries - 1 ELSE tries

AttemptsAreCounted ==
  /\ tries <= MaxAttempts
  /\ pc # "reaction" => tries < MaxAttempts
  /\ pc = "reaction" => tries >= 1
  /\ \A u \in Updates : u > Expected => failures[u] = 0
  /\ Expected \in Updates /\ failures[Expected] > 0 =>
       reactionID = Expected /\ failures[Expected] <= Ended
  /\ telebot = "running" /\ reactionID \in Updates /\ tries > 0 =>
       failures[reactionID] >= Ended

Inv ==
  /\ Types /\ BatchInOrder
  /\ AllBelowIsHandled
  /\ HandedIsBelow /\ HandedOnceInOrder
  /\ AttemptsAreCounted /\ AttemptsAreLimited
-------------------------------------------------------------------------------
LEMMA CurrentIsFirst ==
  ASSUME Types, batch # <<>>
  PROVE  /\ Len(batch) \in Nat \ {0}
         /\ Current = batch[1] /\ Current \in Updates /\ Current \in Nat
         /\ Tail(batch) \in Seq(Updates) /\ Len(Tail(batch)) = Len(batch) - 1
         /\ \A i \in 1..Len(Tail(batch)) : Tail(batch)[i] = batch[i + 1]
<1>1. batch \in Seq(Updates)
  BY DEF Types
<1>2. Current \in Updates /\ Len(batch) \in Nat \ {0}
  BY <1>1, EmptySeq, HeadTailProperties DEF Current
<1> QED
  BY <1>1, <1>2, PollerAssumption, HeadTailProperties DEF Current, Updates

LEMMA TypesInit == Init => Types
BY PollerAssumption, ArrivalsAssumption, EmptySeq DEF Init, Types, Updates

(* What Telegram answers is a sequence without gaps. *)
LEMMA AnswerIsBatch ==
  ASSUME Types, NEW first \in Nat \ {0}, NEW last \in forgotten..sent
  PROVE  LET b == [i \in 1..(last + 1 - first) |-> first + i - 1]
         IN  /\ b \in Seq(Updates)
             /\ \A i \in 1..Len(b) : b[i] = b[1] + i - 1
             /\ b # <<>> => b[1] = first
<1> DEFINE n == IF last + 1 - first > 0 THEN last + 1 - first ELSE 0
           b == [i \in 1..n |-> first + i - 1]
<1>1. last \in Nat /\ last <= NumUpdates /\ NumUpdates \in Nat
  BY PollerAssumption DEF Types
<1>2. n \in Nat /\ 1..(last + 1 - first) = 1..n
  BY <1>1
<1>3. \A i \in 1..n : first + i - 1 \in Updates
  BY <1>1 DEF Updates
<1>4. b \in Seq(Updates) /\ Len(b) = n
  BY <1>2, <1>3
<1>5. \A i \in 1..n : b[i] = first + i - 1 /\ b[1] = first
  BY <1>1, <1>2
<1>6. b # <<>> => b[1] = first
  BY <1>2, <1>4, <1>5
<1> QED
  BY <1>2, <1>4, <1>5, <1>6

LEMMA AnswerBatch ==
  ASSUME Types, Answer
  PROVE  /\ batch' \in Seq(Updates)
         /\ \A i \in 1..Len(batch') : batch'[i] = batch'[1] + i - 1
         /\ batch' # <<>> => batch'[1] = forgotten + 1 \/ (offset > 1 /\ batch'[1] = offset - 1)
<1>1. PICK first \in {forgotten + 1} \cup (IF "repeat" \in Faults /\ offset > 1
                                          THEN {offset - 1} ELSE {}),
           last \in forgotten..sent :
         batch' = [i \in 1..(last + 1 - first) |-> first + i - 1]
  BY DEF Answer
<1>2. first \in Nat \ {0} /\ (first = forgotten + 1 \/ (offset > 1 /\ first = offset - 1))
  BY DEF Types
<1>3. first \in Nat \ {0}
  BY <1>2
<1> DEFINE b == [i \in 1..(last + 1 - first) |-> first + i - 1]
<1>4. /\ b \in Seq(Updates) /\ \A i \in 1..Len(b) : b[i] = b[1] + i - 1
      /\ b # <<>> => b[1] = first
  BY <1>3, AnswerIsBatch
<1>5. batch' = b
  BY <1>1
<1> QED
  BY <1>2, <1>4, <1>5

LEMMA AcceptTypes ==
  ASSUME Types, batch # <<>>, Accept
  PROVE  /\ batch' \in Seq(Updates) /\ offset' \in Nat \ {0} /\ tries' \in Nat
         /\ offset' = batch[1] + 1
BY CurrentIsFirst DEF Accept

LEMMA TypesStep ==
  ASSUME Types, BatchInOrder, [Next]_vars
  PROVE  Types'
<1> USE DEF Types
<1>1. CASE Publish \/ RequestFails \/ PauseEnds \/ BatchEnds \/ Offer \/ Consume \/ Stop
          \/ StopSeen \/ Stopped
  BY <1>1, PollerAssumption
  DEF Publish, RequestFails, PauseEnds, BatchEnds, Offer, Consume, Stop, StopSeen, Stopped,
      bot, chronicle
<1>2. CASE Request
  BY <1>2 DEF Request, bot, chronicle
<1>3. CASE Answer
  BY <1>3, AnswerBatch DEF Answer, bot, chronicle
<1>4. CASE Repeated
  BY <1>4, CurrentIsFirst DEF Repeated, Delivering, bot, chronicle
<1>5. CASE PassOver
  BY <1>5, AcceptTypes DEF PassOver, Due, Delivering
<1>6. CASE BeginReaction
  BY <1>6, CurrentIsFirst DEF BeginReaction, Due, Delivering, chronicle
<1>7. CASE RecordReaction
  BY <1>7, AcceptTypes DEF RecordReaction, BatchInOrder
<1>8. CASE RetryReaction \/ GiveUp
  <2>1. batch # <<>> /\ Current \in Updates
    BY <1>8, CurrentIsFirst DEF RetryReaction, GiveUp, Refused, BatchInOrder
  <2>2. failures' \in [Updates -> Nat]
    BY <1>8, <2>1 DEF RetryReaction, GiveUp, Refused
  <2>3. CASE RetryReaction
    BY <2>2, <2>3 DEF RetryReaction, bot
  <2>4. CASE GiveUp
    BY <2>1, <2>2, <2>4, AcceptTypes DEF GiveUp
  <2> QED
    BY <1>8, <2>3, <2>4
<1>9. CASE HandOver
  <2>1. batch # <<>> /\ Current \in Updates
    BY <1>9, CurrentIsFirst DEF HandOver, BatchInOrder
  <2>2. handed' \in Seq(Updates)
    BY <1>9, <2>1 DEF HandOver
  <2> QED
    BY <1>9, <2>1, <2>2, AcceptTypes DEF HandOver
<1>10. CASE Restart
  BY <1>10, EmptySeq DEF Restart
<1>11. CASE UNCHANGED vars
  BY <1>11 DEF vars, bot, chronicle
<1> QED
  BY <1>1, <1>2, <1>3, <1>4, <1>5, <1>6, <1>7, <1>8, <1>9, <1>10, <1>11
  DEF Next, Deliver, Reaction
-------------------------------------------------------------------------------
(* Where an update is accepted, it is the expected one. *)
Accepts == PassOver \/ RecordReaction \/ GiveUp \/ HandOver

LEMMA TailInOrder ==
  ASSUME Types, batch # <<>>, batch' = Tail(batch),
         \A i \in 1..Len(batch) : batch[i] = batch[1] + i - 1
  PROVE  /\ \A i \in 1..Len(batch') : batch'[i] = batch'[1] + i - 1
         /\ batch' # <<>> => batch'[1] = batch[1] + 1
<1>1. /\ batch' \in Seq(Updates) /\ Len(batch') = Len(batch) - 1
      /\ Len(batch) \in Nat \ {0} /\ batch[1] \in Nat
      /\ \A i \in 1..Len(batch') : batch'[i] = batch[i + 1]
  BY CurrentIsFirst
<1>2. \A i \in 1..Len(batch') : batch'[i] = batch[1] + i
  BY <1>1
<1>3. batch' # <<>> => 1 \in 1..Len(batch')
  BY <1>1, EmptySeq
<1>4. batch' # <<>> => batch'[1] = batch[1] + 1
  BY <1>2, <1>3
<1>5. ASSUME NEW i \in 1..Len(batch') PROVE batch'[i] = batch'[1] + i - 1
  <2>1. 1 \in 1..Len(batch')
    BY <1>1
  <2> QED
    BY <1>1, <1>2, <2>1
<1> QED
  BY <1>4, <1>5

LEMMA Accepted ==
  ASSUME Types, BatchInOrder, Accepts
  PROVE  /\ batch # <<>> /\ Current = batch[1] /\ Current \in Updates /\ Current >= offset
         /\ Expected = Current /\ Accept /\ forgotten' = forgotten
         /\ offset' = Current + 1 /\ Expected' = Current + 1
<1>1. batch # <<>> /\ Accept /\ forgotten' = forgotten
  BY DEF Accepts, PassOver, RecordReaction, GiveUp, HandOver, Refused, Due, Delivering,
         BatchInOrder
<1>2. /\ Current = batch[1] /\ Current \in Updates /\ Current \in Nat
  BY <1>1, CurrentIsFirst
<1>3. Current >= offset
  BY <1>2 DEF Accepts, PassOver, RecordReaction, GiveUp, HandOver, Refused, Due, BatchInOrder
<1>4. offset' = Current + 1
  BY <1>1 DEF Accept
<1>5. Current = Expected
  BY <1>1, <1>2, <1>3 DEF BatchInOrder, Types
<1>6. Expected' = Current + 1
  BY <1>1, <1>2, <1>3, <1>4, <1>5 DEF Expected, Types
<1> QED
  BY <1>1, <1>2, <1>3, <1>4, <1>5, <1>6

LEMMA ExpectedStays ==
  ASSUME Types, BatchInOrder, [Next]_vars, ~Accepts, ~Restart
  PROVE  Expected' = Expected /\ offset' = offset
<1>1. CASE Request
  BY <1>1 DEF Request, Expected, Types, BatchInOrder, bot
<1>2. CASE UNCHANGED <<forgotten, offset>>
  BY <1>2 DEF Expected
<1> QED
  BY <1>1, <1>2
  DEF Next, vars, bot, Accepts, Deliver, Reaction, Publish, Answer, RequestFails, PauseEnds,
      BatchEnds, Repeated, BeginReaction, RetryReaction, Refused, Offer, Consume, Stop,
      StopSeen, Stopped

LEMMA OrderStep ==
  ASSUME Types, BatchInOrder, [Next]_vars
  PROVE  BatchInOrder'
<1>1. CASE Accepts
  <2>1. /\ batch # <<>> /\ batch' = Tail(batch) /\ offset' = Expected' /\ Expected' = batch[1] + 1
        /\ offset' > forgotten'
    <3>1. Current \in Nat /\ forgotten \in Nat
      BY <1>1, Accepted DEF Types, Updates
    <3> QED
      BY <1>1, <3>1, Accepted DEF Accept, Expected, Types
  <2>2. pc' = "deliver"
    BY <1>1 DEF Accepts, PassOver, RecordReaction, GiveUp, HandOver, Due, Delivering
  <2> QED
    BY <2>1, <2>2, TailInOrder DEF BatchInOrder
<1>2. CASE Repeated
  <2>1. /\ batch # <<>> /\ batch' = Tail(batch) /\ UNCHANGED <<forgotten, offset, pc>>
        /\ pc = "deliver" /\ batch[1] \in Nat /\ batch[1] < offset
    BY <1>2, CurrentIsFirst DEF Repeated, Due, Delivering, bot, Types
  <2>2. batch' # <<>> => batch'[1] = batch[1] + 1
    BY <2>1, TailInOrder DEF BatchInOrder
  <2>3. offset > forgotten
    BY <2>1, CurrentIsFirst DEF BatchInOrder, Types, Updates
  <2>4. batch' # <<>> => batch'[1] = Expected' \/ batch'[1] < offset'
    <3>1. Expected' = offset /\ offset' = offset
      BY <2>1, <2>3 DEF Expected
    <3>2. batch[1] + 1 = offset \/ batch[1] + 1 < offset
      BY <2>1 DEF Types
    <3> QED
      BY <2>2, <3>1, <3>2
  <2> QED
    BY <2>1, <2>3, <2>4, TailInOrder DEF BatchInOrder
<1>3. CASE Answer
  <2>1. UNCHANGED <<forgotten, offset>> /\ pc' = "deliver"
    BY <1>3 DEF Answer, bot
  <2>2. batch' # <<>> => batch'[1] = Expected \/ batch'[1] < offset
    BY <1>3, AnswerBatch DEF Expected, Types, BatchInOrder
  <2> QED
    BY <1>3, <2>1, <2>2, AnswerBatch DEF BatchInOrder, Expected
<1>4. CASE Restart
  BY <1>4, EmptySeq DEF Restart, BatchInOrder
<1>5. CASE Request
  <2>1. Expected' = Expected /\ offset' = offset
    BY <1>5, ExpectedStays DEF Accepts, Restart, Request, PassOver, RecordReaction, GiveUp,
           HandOver, Refused, Due, Delivering
  <2> QED
    BY <1>5, <2>1 DEF BatchInOrder, Request, Types
<1>6. CASE BeginReaction
  BY <1>6, CurrentIsFirst DEF BeginReaction, Due, Delivering, BatchInOrder, Expected, chronicle
<1>7. CASE Offer
  BY <1>7, CurrentIsFirst DEF Offer, Due, Delivering, BatchInOrder, Expected, bot
<1>8. CASE UNCHANGED <<forgotten, batch, offset, reactionID>> /\ (pc' \notin {"reaction", "offer"} \/ pc' = pc)
  BY <1>8 DEF BatchInOrder, Expected
<1> QED
  BY <1>1, <1>2, <1>3, <1>4, <1>5, <1>6, <1>7, <1>8
  DEF Next, vars, bot, Accepts, Deliver, Reaction, Publish, RequestFails, PauseEnds,
      BatchEnds, RetryReaction, Refused, Consume, Stop, StopSeen, Stopped
-------------------------------------------------------------------------------
(* What precedes an update that is due was handled. *)
LEMMA BelowCurrent ==
  ASSUME Types, BatchInOrder, AllBelowIsHandled, telebot = "running", Accepts
  PROVE  1..(Current - 1) \subseteq handled
<1>1. Current = Expected /\ Current \in Nat /\ offset \in Nat /\ forgotten \in Nat
  BY Accepted DEF Types, Updates
<1>2. CASE offset > forgotten
  BY <1>1, <1>2 DEF Expected, AllBelowIsHandled
<1>3. CASE ~(offset > forgotten)
  <2>1. Current - 1 = forgotten
    BY <1>1, <1>3 DEF Expected
  <2> QED
    BY <2>1 DEF AllBelowIsHandled, ConfirmedWasHandled
<1> QED
  BY <1>2, <1>3

(* A reaction is given up, without a stop, after as many failures as allowed. *)
LEMMA GivenUpIsHandled ==
  ASSUME Types, BatchInOrder, AttemptsAreCounted, GiveUp, telebot = "running"
  PROVE  handled' = handled \cup {Current}
<1>1. /\ Current \in Updates /\ Current = Expected /\ reactionID = Current /\ pc = "reaction"
  BY Accepted DEF Accepts, GiveUp, Refused, BatchInOrder
<1>2. /\ tries \in Nat /\ MaxAttempts \in Nat \ {0} /\ failures \in [Updates -> Nat]
      /\ tries >= MaxAttempts /\ tries <= MaxAttempts
  BY PollerAssumption DEF Types, GiveUp, AttemptsAreCounted
<1>3. failures[Current] >= tries - 1
  BY <1>1, <1>2 DEF AttemptsAreCounted, Ended
<1>4. failures'[Current] = IF failures[Current] > MaxAttempts THEN failures[Current]
                           ELSE failures[Current] + 1
  BY <1>1, <1>2 DEF GiveUp, Refused, Stopping
<1>5. failures'[Current] >= MaxAttempts
  BY <1>1, <1>2, <1>3, <1>4
<1> QED
  BY <1>5 DEF GiveUp

LEMMA HandledStep ==
  ASSUME Types, BatchInOrder, AllBelowIsHandled, AttemptsAreCounted, [Next]_vars
  PROVE  AllBelowIsHandled'
<1>1. handled \subseteq handled'
  BY DEF Next, vars, chronicle, Deliver, Reaction, Publish, Request, Answer, RequestFails,
         PauseEnds, BatchEnds, Repeated, PassOver, BeginReaction, RecordReaction, RetryReaction,
         GiveUp, Offer, HandOver, Consume, Stop, StopSeen, Stopped, Restart
<1>2. CASE Accepts /\ telebot = "running"
  <2>1. handled' = handled \cup {Current}
    BY <1>2, GivenUpIsHandled DEF Accepts, PassOver, RecordReaction, HandOver
  <2>2. offset' = Current + 1 /\ forgotten' = forgotten /\ Current \in Nat
    BY <1>2, Accepted DEF Updates
  <2>3. 1..Current \subseteq handled'
    BY <1>2, <2>1, <2>2, BelowCurrent
  <2> QED
    BY <1>1, <2>2, <2>3 DEF AllBelowIsHandled, ConfirmedWasHandled
<1>3. CASE Accepts /\ telebot # "running"
  BY <1>1, <1>3, Accepted
  DEF Accepts, PassOver, RecordReaction, GiveUp, HandOver, AllBelowIsHandled, ConfirmedWasHandled
<1>4. CASE Request
  <2>1. telebot = "running" /\ 1..(offset - 1) \subseteq handled /\ 1..forgotten \subseteq handled
    BY <1>4 DEF Request, Stopping, AllBelowIsHandled, ConfirmedWasHandled
  <2> QED
    BY <1>1, <1>4, <2>1 DEF Request, AllBelowIsHandled, ConfirmedWasHandled, bot
<1>5. CASE Restart
  BY <1>1, <1>5 DEF Restart, AllBelowIsHandled, ConfirmedWasHandled
<1>6. CASE ~Accepts /\ ~Request /\ ~Restart
  <2>1. offset' = offset
    BY <1>6, ExpectedStays
  <2>2. forgotten' = forgotten /\ (telebot' = "running" => telebot = "running")
    BY <1>6
    DEF Next, vars, Accepts, Deliver, Reaction, Publish, Answer, RequestFails, PauseEnds,
        BatchEnds, Repeated, BeginReaction, RetryReaction, Refused, Offer, Consume, Stop,
        StopSeen, Stopped
  <2> QED
    BY <1>1, <2>1, <2>2 DEF AllBelowIsHandled, ConfirmedWasHandled
<1> QED
  BY <1>2, <1>3, <1>4, <1>5, <1>6
-------------------------------------------------------------------------------
LEMMA HandedStep ==
  ASSUME Types, BatchInOrder, HandedIsBelow, HandedOnceInOrder, [Next]_vars
  PROVE  HandedIsBelow' /\ HandedOnceInOrder'
<1> USE DEF HandedIsBelow, HandedOnceInOrder
<1>1. handed \in Seq(Updates) /\ Len(handed) \in Nat /\ offset \in Nat
      /\ \A i \in 1..Len(handed) : handed[i] \in Nat
  <2>1. handed \in Seq(Updates) /\ offset \in Nat /\ Updates \subseteq Nat
    BY DEF Types, Updates
  <2> QED
    BY <2>1, LenProperties
<1>2. CASE HandOver
  <2>1. offset' = Current + 1 /\ Current >= offset /\ Current \in Nat /\ Current \in Updates
    BY <1>2, Accepted DEF Accepts, Updates
  <2>2. /\ Len(handed') = Len(handed) + 1 /\ handed'[Len(handed) + 1] = Current
        /\ \A i \in 1..Len(handed) : handed'[i] = handed[i]
    BY <1>1, <1>2, <2>1 DEF HandOver
  <2>3. \A i \in 1..Len(handed) : handed'[i] < Current /\ handed'[i] < offset'
    BY <1>1, <2>1, <2>2
  <2>4. HandedIsBelow'
    BY <1>1, <2>1, <2>2, <2>3
  <2>5. ASSUME NEW i \in 1..Len(handed'), NEW j \in 1..Len(handed'), i < j
        PROVE  handed'[i] < handed'[j]
    <3>1. CASE j = Len(handed) + 1
      BY <1>1, <2>2, <2>3, <2>5, <3>1
    <3>2. CASE j \in 1..Len(handed)
      BY <1>1, <2>2, <2>5, <3>2
    <3> QED
      BY <1>1, <2>2, <3>1, <3>2
  <2> QED
    BY <2>4, <2>5
<1>3. CASE Accepts /\ ~HandOver
  <2>1. offset' = Current + 1 /\ Current >= offset /\ Current \in Nat
    BY <1>3, Accepted DEF Updates
  <2>2. handed' = handed
    BY <1>3 DEF Accepts, PassOver, RecordReaction, GiveUp
  <2> QED
    BY <1>1, <2>1, <2>2
<1>4. CASE Restart
  BY <1>4, EmptySeq DEF Restart
<1>5. CASE ~Accepts /\ ~Restart
  <2>1. handed' = handed
    BY <1>5
    DEF Next, vars, chronicle, Accepts, Deliver, Reaction, Publish, Request, Answer,
        RequestFails, PauseEnds, BatchEnds, Repeated, BeginReaction, RetryReaction, Offer,
        Consume, Stop, StopSeen, Stopped
  <2> QED
    BY <1>5, <2>1, ExpectedStays
<1> QED
  BY <1>2, <1>3, <1>4, <1>5
-------------------------------------------------------------------------------
LEMMA BeginsExpected ==
  ASSUME Types, BatchInOrder, BeginReaction
  PROVE  Current \in Updates /\ Current = Expected
BY CurrentIsFirst DEF BeginReaction, Due, Delivering, BatchInOrder, Types

(* The reaction under way is the expected update, and has failed less      *)
(* often than it was tried.                                                *)
LEMMA RefusedAttempt ==
  ASSUME Types, BatchInOrder, AttemptsAreCounted, RetryReaction \/ GiveUp
  PROVE  /\ Current \in Updates /\ Current = Expected /\ reactionID = Current
         /\ failures' \in [Updates -> Nat] /\ failures'[Current] <= tries
         /\ \A u \in Updates : u # Current => failures'[u] = failures[u]
         /\ telebot = "running" => failures'[Current] >= tries
<1>1. /\ pc = "reaction" /\ batch # <<>> /\ batch[1] >= offset /\ reactionID = batch[1]
      /\ failures' = [failures EXCEPT ![Current] = IF Stopping \/ @ > MaxAttempts THEN @ ELSE @ + 1]
  BY DEF RetryReaction, GiveUp, Refused, BatchInOrder
<1>2. Current \in Updates /\ Current = batch[1] /\ Current \in Nat /\ Current = Expected
  BY <1>1, CurrentIsFirst DEF BatchInOrder, Types
<1>3. /\ tries \in Nat /\ failures \in [Updates -> Nat] /\ MaxAttempts \in Nat
      /\ tries >= 1 /\ tries <= MaxAttempts
  BY <1>1, PollerAssumption DEF Types, AttemptsAreCounted
<1>4. failures[Current] <= tries - 1
  BY <1>1, <1>2, <1>3 DEF AttemptsAreCounted, Ended
<1>5. telebot = "running" => failures[Current] >= tries - 1
  BY <1>1, <1>2, <1>3 DEF AttemptsAreCounted, Ended
<1>6. failures'[Current] = IF Stopping THEN failures[Current] ELSE failures[Current] + 1
  BY <1>1, <1>2, <1>3, <1>4
<1>7. failures' \in [Updates -> Nat]
  BY <1>1, <1>2, <1>3
<1>8. \A u \in Updates : u # Current => failures'[u] = failures[u]
  BY <1>1, <1>2, <1>3
<1>9. failures'[Current] <= tries /\ (telebot = "running" => failures'[Current] >= tries)
  BY <1>2, <1>3, <1>4, <1>5, <1>6 DEF Stopping
<1> QED
  BY <1>1, <1>2, <1>7, <1>8, <1>9

LEMMA AttemptsStep ==
  ASSUME Types, BatchInOrder, AttemptsAreCounted, AttemptsAreLimited, [Next]_vars
  PROVE  AttemptsAreCounted' /\ AttemptsAreLimited'
<1>1. /\ tries \in Nat /\ MaxAttempts \in Nat \ {0} /\ failures \in [Updates -> Nat]
      /\ Expected \in Nat /\ Updates \subseteq Nat
  BY PollerAssumption DEF Types, Expected, Updates
<1>2. CASE Accepts
  <2>1. /\ Current \in Updates /\ Current = Expected /\ Expected' = Expected + 1 /\ tries' = 0
        /\ pc' = "deliver"
    BY <1>2, Accepted DEF Accept, Accepts, PassOver, RecordReaction, GiveUp, HandOver, Due, Delivering
  <2>2. /\ failures' \in [Updates -> Nat]
        /\ \A u \in Updates : u # Current => failures'[u] = failures[u]
        /\ failures'[Current] <= MaxAttempts
    <3>1. CASE GiveUp
      BY <1>1, <3>1, RefusedAttempt DEF AttemptsAreCounted
    <3>2. CASE failures' = failures
      BY <1>1, <2>1, <3>2 DEF AttemptsAreLimited
    <3> QED
      BY <1>2, <3>1, <3>2 DEF Accepts, PassOver, RecordReaction, HandOver
  <2>3. \A u \in Updates : u >= Expected' => failures'[u] = 0
    BY <1>1, <2>1, <2>2 DEF AttemptsAreCounted
  <2>4. AttemptsAreLimited'
    BY <2>1, <2>2 DEF AttemptsAreLimited
  <2> QED
    BY <1>1, <2>1, <2>3, <2>4 DEF AttemptsAreCounted
<1>3. CASE RetryReaction
  <2>1. /\ Expected' = Expected /\ UNCHANGED <<tries, reactionID, telebot>> /\ pc' = "pause"
        /\ tries < MaxAttempts
    BY <1>3, ExpectedStays
    DEF RetryReaction, Refused, bot, Accepts, PassOver, RecordReaction, GiveUp, HandOver, Restart,
        Expected
  <2>2. AttemptsAreLimited'
    BY <1>1, <1>3, <2>1, RefusedAttempt DEF AttemptsAreLimited
  <2> QED
    BY <1>1, <1>3, <2>1, <2>2, RefusedAttempt DEF AttemptsAreCounted, Ended
<1>4. CASE BeginReaction
  <2>1. /\ UNCHANGED <<forgotten, offset, failures, telebot>> /\ pc = "deliver" /\ pc' = "reaction"
        /\ reactionID' = Current /\ tries' = IF reactionID = Current THEN tries + 1 ELSE 1
    BY <1>4 DEF BeginReaction, Due, Delivering, chronicle
  <2>2. Expected' = Expected /\ Current \in Updates /\ Current = Expected
    BY <1>4, <2>1, BeginsExpected DEF Expected
  <2>3. tries < MaxAttempts /\ tries' \in Nat /\ tries' >= 1 /\ tries' <= MaxAttempts
    BY <1>1, <2>1 DEF AttemptsAreCounted
  <2>4. failures[Current] > 0 => reactionID = Current /\ failures[Current] <= tries
    BY <2>1, <2>2 DEF AttemptsAreCounted, Ended
  <2>5. telebot = "running" => failures[Current] >= tries' - 1
    BY <1>1, <2>1, <2>2 DEF AttemptsAreCounted, Ended
  <2> QED
    BY <1>1, <2>1, <2>2, <2>3, <2>4, <2>5 DEF AttemptsAreCounted, AttemptsAreLimited, Ended
<1>5. CASE Restart
  BY <1>1, <1>5 DEF Restart, AttemptsAreCounted, AttemptsAreLimited, Ended
<1>6. CASE ~Accepts /\ ~RetryReaction /\ ~BeginReaction /\ ~Restart
  <2>1. /\ UNCHANGED <<failures, tries, reactionID>> /\ (pc' = "reaction" <=> pc = "reaction")
        /\ telebot' = "running" => telebot = "running"
    BY <1>6
    DEF Next, vars, bot, chronicle, Accepts, Deliver, Reaction, Publish, Request, Answer,
        RequestFails, PauseEnds, BatchEnds, Repeated, Offer, Consume, Stop, StopSeen, Stopped,
        Due, Delivering
  <2>2. Expected' = Expected
    BY <1>6, ExpectedStays
  <2> QED
    BY <2>1, <2>2 DEF AttemptsAreCounted, AttemptsAreLimited, Ended
<1> QED
  BY <1>2, <1>3, <1>4, <1>5, <1>6
-------------------------------------------------------------------------------
LEMMA InvInit == Init => Inv
<1> SUFFICES ASSUME Init PROVE Inv
  OBVIOUS
<1>1. Types
  BY TypesInit
<1>2. BatchInOrder /\ HandedIsBelow /\ HandedOnceInOrder
  BY EmptySeq DEF Init, BatchInOrder, HandedIsBelow, HandedOnceInOrder
<1>3. AllBelowIsHandled
  BY DEF Init, AllBelowIsHandled, ConfirmedWasHandled
<1>4. AttemptsAreCounted /\ AttemptsAreLimited
  BY PollerAssumption DEF Init, AttemptsAreCounted, AttemptsAreLimited, Ended, Updates, Expected
<1> QED
  BY <1>1, <1>2, <1>3, <1>4 DEF Inv

LEMMA InvStep == Inv /\ [Next]_vars => Inv'
BY TypesStep, OrderStep, HandledStep, HandedStep, AttemptsStep DEF Inv

LEMMA InvAlways == Spec => []Inv
BY InvInit, InvStep, PTL DEF Spec

(* What the history and the handlers of ordinary updates add leaves the    *)
(* poller's steps as they are: with them it is still the poller of Poller  *)
(* (poller.go, on_reaction.go, history.go).                                *)
THEOREM IntakeIsPolling == IntakeSpec => Spec
<1>1. IntakeInit => Init
  BY DEF IntakeInit
<1>2. [IntakeNext]_intakeVars => [Next]_vars
  <2> SUFFICES ASSUME [IntakeNext]_intakeVars PROVE [Next]_vars
    OBVIOUS
  <2>1. CASE PollerRuns
    BY <2>1 DEF PollerRuns, Next, Deliver, Reaction
  <2>2. CASE HistoryRecords \/ HistoryRefuses
    BY <2>2 DEF HistoryRecords, HistoryRefuses, Next, Deliver, Reaction
  <2>3. CASE HandlerStarts \/ ProcessRestarts
    BY <2>3 DEF HandlerStarts, ProcessRestarts, Next
  <2>4. CASE \E u \in running : HandlerReads(u) \/ HandlerRecords(u)
    BY <2>4 DEF HandlerReads, HandlerRecords
  <2>5. CASE UNCHANGED intakeVars
    BY <2>5 DEF intakeVars, vars
  <2> QED
    BY <2>1, <2>2, <2>3, <2>4, <2>5 DEF IntakeNext
<1> QED
  BY <1>1, <1>2, PTL DEF IntakeSpec, Spec

(* Telegram forgets no update that the bot has not handed on, recorded,    *)
(* passed over or given up after the allowed attempts, whatever fails and  *)
(* whenever the process stops or dies (poller.go: the offset moves behind  *)
(* the update).                                                            *)
THEOREM NoneIsLost == IntakeSpec => []ConfirmedWasHandled
<1>1. Inv => ConfirmedWasHandled
  BY DEF Inv, AllBelowIsHandled
<1> QED
  BY <1>1, InvAlways, IntakeIsPolling, PTL

(* Between two starts telebot gets each update at most once and in order,  *)
(* though batches overlap and are fetched again (poller.go, deliver).      *)
THEOREM NoneIsRepeated == IntakeSpec => []HandedOnceInOrder
<1>1. Inv => HandedOnceInOrder
  BY DEF Inv
<1> QED
  BY <1>1, InvAlways, IntakeIsPolling, PTL

(* The count of attempts belongs to the reaction it counts, through every  *)
(* new fetch, and stops at the limit (poller.go, reactionAttempts).        *)
THEOREM NoneIsTriedForever == IntakeSpec => []AttemptsAreLimited
<1>1. Inv => AttemptsAreLimited
  BY DEF Inv
<1> QED
  BY <1>1, InvAlways, IntakeIsPolling, PTL
-------------------------------------------------------------------------------
(* With the poller, the handlers and their failures around it, the history *)
(* is still the one of ChatHistory, and keeps what was proved of that.     *)
P == INSTANCE ChatHistoryProofs
  WITH Chats <- {Chat}, Messages <- {0} \cup Updates, Reactions <- Updates,
       MaxSize <- WindowSize, Faults <- BufferFaults

(* Only updates are in the channel and with the handlers. *)
Handlers == dest \in Seq(Updates) /\ running \subseteq Updates

LEMMA HandlersInit == IntakeInit => Handlers
BY EmptySeq DEF IntakeInit, Init, Handlers

LEMMA HandlersStep == Inv /\ Handlers /\ [IntakeNext]_intakeVars => Handlers'
<1> SUFFICES ASSUME Inv, Handlers, [IntakeNext]_intakeVars PROVE Handlers'
  OBVIOUS
<1>1. CASE PollerRuns /\ UNCHANGED intake
  <2>1. CASE HandOver
    <3>1. Current \in Updates
      BY <2>1, CurrentIsFirst DEF HandOver, Inv, BatchInOrder
    <3> QED
      BY <1>1, <2>1, <3>1 DEF HandOver, Handlers, intake
  <2>2. CASE ~HandOver
    BY <1>1, <2>2 DEF PollerRuns, intake, Handlers, Publish, Request, Answer, RequestFails, PauseEnds,
        BatchEnds, Repeated, PassOver, BeginReaction, Offer, Stop, StopSeen, Stopped
  <2> QED
    BY <2>1, <2>2
<1>2. CASE HistoryRecords \/ HistoryRefuses
  BY <1>2 DEF HistoryRecords, HistoryRefuses, RecordReaction, RetryReaction, GiveUp, Handlers
<1>3. CASE HandlerStarts
  BY <1>3, HeadTailProperties DEF HandlerStarts, Consume, Handlers
<1>4. CASE ProcessRestarts
  BY <1>4, EmptySeq DEF ProcessRestarts, Restart, Handlers
<1>5. ASSUME NEW u \in running, HandlerReads(u) \/ HandlerRecords(u)
      PROVE  Handlers'
  BY <1>5 DEF HandlerReads, HandlerRecords, Handlers, vars
<1>6. CASE UNCHANGED intakeVars
  BY <1>6 DEF intakeVars, Handlers
<1> QED
  BY <1>1, <1>2, <1>3, <1>4, <1>5, <1>6 DEF IntakeNext

LEMMA HandlersAlways == IntakeSpec => [](Inv /\ Handlers)
BY HandlersInit, HandlersStep, InvAlways, IntakeIsPolling, PTL DEF IntakeSpec

(* What the poller and the handlers do to the history are steps of it      *)
(* (history.go, poller.go): no delivery, failure, retry or restart meets   *)
(* it in any other way.                                                    *)
THEOREM IntakeIsHistory == IntakeSpec => H!HistorySpec
<1>1. IntakeInit => H!HistoryInit
  BY DEF IntakeInit
<1>2. Inv /\ Handlers /\ [IntakeNext]_intakeVars => [H!HistoryNext]_(H!history)
  <2> SUFFICES ASSUME Inv, Handlers, [IntakeNext]_intakeVars PROVE [H!HistoryNext]_(H!history)
    OBVIOUS
  <2>1. CASE HistoryRecords
    <3>1. Current \in Updates /\ Target[Current] \in {0} \cup Updates
      BY <2>1, CurrentIsFirst, IntakeAssumption DEF HistoryRecords, RecordReaction, Inv, BatchInOrder
    <3> QED
      BY <2>1, <3>1 DEF HistoryRecords, H!HistoryNext
  <2>2. CASE HistoryRefuses \/ HandlerStarts \/ UNCHANGED intake \/ UNCHANGED intakeVars
    BY <2>2 DEF HistoryRefuses, HandlerStarts, intake, intakeVars, H!AddReactionFails, H!history
  <2>3. CASE ProcessRestarts
    BY <2>3 DEF ProcessRestarts, H!HistoryNext
  <2>4. ASSUME NEW u \in running, HandlerReads(u) \/ HandlerRecords(u)
        PROVE  H!HistoryNext
    <3>1. u \in {0} \cup Updates /\ 0 \in ({0} \cup Updates) \ {u}
      BY DEF Handlers, Updates
    <3> QED
      BY <2>4, <3>1 DEF HandlerReads, HandlerRecords, H!HistoryNext
  <2> QED
    BY <2>1, <2>2, <2>3, <2>4 DEF IntakeNext
<1> QED
  BY <1>1, <1>2, HandlersAlways, PTL DEF IntakeSpec, H!HistorySpec

-------------------------------------------------------------------------------
(* The two instances of ChatHistory say the same.                          *)
LEMMA SameHistory ==
  /\ H!HistoryInit => P!HistoryInit
  /\ [H!HistoryNext]_(H!history) => [P!HistoryNext]_(P!history)
  /\ P!Entries = H!Entries
  /\ \A s : (P!OnceEach(s) <=> H!OnceEach(s)) /\ (P!KnowsTargets(s) <=> H!KnowsTargets(s))
<1>1. H!HistoryInit => P!HistoryInit
  BY DEF H!HistoryInit, P!HistoryInit
<1>2. [H!HistoryNext]_(H!history) => [P!HistoryNext]_(P!history)
  BY DEF P!Message, P!Reaction, P!IsReaction, P!Trim, P!ResolveTarget,
         P!Recorded, P!Outcomes, P!Read, P!Loads, P!Known, P!LoadedThen,
         P!Persist, P!AddAll, P!Add, P!Get, P!AddReaction, P!HistoryRestart,
         P!HistoryNext, P!history, H!Message, H!Reaction, H!IsReaction,
         H!Trim, H!ResolveTarget, H!Recorded, H!Outcomes, H!Read, H!Loads,
         H!Known, H!LoadedThen, H!Persist, H!AddAll, H!Add, H!Get,
         H!AddReaction, H!HistoryRestart, H!HistoryNext, H!history
<1>3. P!Entries = H!Entries
  BY DEF P!Entries, P!Message, P!Reaction, H!Entries, H!Message, H!Reaction
<1>4. \A s : (P!OnceEach(s) <=> H!OnceEach(s)) /\ (P!KnowsTargets(s) <=> H!KnowsTargets(s))
  BY DEF P!OnceEach, P!KnowsTargets, P!Message, P!IsReaction,
         H!OnceEach, H!KnowsTargets, H!Message, H!IsReaction
<1> QED
  BY <1>1, <1>2, <1>3, <1>4

LEMMA GoodStored ==
  \A s \in Stored : s \in Seq(P!Entries) /\ P!OnceEach(s) /\ P!KnowsTargets(s)
BY SameHistory, IntakeAssumption

LEMMA HistoriesAreGood == IntakeSpec => []P!HInv
<1>1. P!HistoryInit => P!HInv
  BY GoodStored, IntakeAssumption, P!HInit
<1>2. P!HInv /\ [P!HistoryNext]_(P!history) => P!HInv'
  BY GoodStored, IntakeAssumption, P!HStep
<1> QED
  BY <1>1, <1>2, SameHistory, IntakeIsHistory, PTL DEF H!HistorySpec

(* No update is recorded twice while its first record is in the window,    *)
(* though updates are fetched again after failures and restarts            *)
(* (poller.go, history.go).                                                *)
THEOREM IntakeNeverTwice == IntakeSpec => []NoReactionTwice
<1>1. P!HInv => NoReactionTwice
  BY SameHistory DEF P!HInv, P!Good, NoReactionTwice, H!NoReactionTwice, H!Histories
<1> QED
  BY <1>1, HistoriesAreGood, PTL

(* A recorded reaction knows whose message it is about, if that message is *)
(* in the window, in whatever order the poller and the handlers came       *)
(* (poller.go, history.go: resolveTarget).                                 *)
THEOREM IntakeKnowsTargets == IntakeSpec => []ReactionKnowsItsTarget
<1>1. P!HInv => ReactionKnowsItsTarget
  BY SameHistory DEF P!HInv, P!Good, ReactionKnowsItsTarget, H!ReactionKnowsItsTarget, H!Histories
<1> QED
  BY <1>1, HistoriesAreGood, PTL

(* A history that was read is never saved over by an incomplete one, and   *)
(* by a reaction not even while the table cannot be read and the poller    *)
(* tries again (poller.go, history.go: AddReaction refuses).               *)
THEOREM IntakeKeepsHistory == IntakeSpec => SavedHistoryIsKept
<1>1. P!HInv /\ [P!HistoryNext]_(P!history) => [H!SavedIsKept]_(H!history)
  <2>1. P!HInv /\ [P!HistoryNext]_(P!history) => P!SavedIsKept
    BY GoodStored, IntakeAssumption, P!HStep
  <2>2. P!SavedIsKept => H!SavedIsKept
    BY DEF P!SavedIsKept, P!IsReaction, P!Extends, P!Last, P!IsPrefix,
           H!SavedIsKept, H!IsReaction, H!Extends, H!Last, H!IsPrefix
  <2> QED
    BY <2>1, <2>2
<1> QED
  BY <1>1, HistoriesAreGood, SameHistory, IntakeIsHistory, PTL
     DEF H!HistorySpec, SavedHistoryIsKept, H!SavedHistoryIsKept
===============================================================================
