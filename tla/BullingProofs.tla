---------------------------- MODULE BullingProofs -----------------------------
(***************************************************************************)
(* Proofs about the answers to text messages for any messages, chats,      *)
(* users, thresholds, cooldown and faults.                                 *)
(***************************************************************************)
EXTENDS Bulling, FiniteSetTheorems, SequenceTheorems, TLAPS

(* Where a handler can be, and what it remembers there. *)
Plain == [pc : {"unsent", "settings", "cooldown", "skip", "done", "dropped"}]
Counting == [pc : {"count"}, cooling : BOOLEAN, hot : BOOLEAN]
Chosen == [pc : {"react"}, hot : BOOLEAN]
Reacted == [pc : Reacting \cup {"done", "dropped"}, hot : BOOLEAN, since : Nat]
Stages == Plain \cup Counting \cup Chosen \cup Reacted

Sent == [chat : Chats, user : Users, addressed : BOOLEAN, time : 1..MaxTime]

(* A cooldown that is not over is still remembered. *)
CooldownCovers ==
  \A n \in Messages : handling[n] \in Reacted =>
    /\ handling[n].since <= now
    /\ now <= handling[n].since + Cooldown =>
         handling[n].since + Cooldown <= cooldown[Key(n)]

(* Who was just reacted to is seen to be. *)
HotIsCooling ==
  \A m \in Messages : At(m, "count") /\ handling[m].hot => handling[m].cooling

Shape ==
  /\ TypeOK
  /\ handling \in [Messages -> Stages]
  /\ sent \in [Messages -> Sent \cup {{}}]

Inv == Shape /\ CooldownCovers /\ HotIsCooling /\ QuietDuringCooldown

LEMMA StageFields ==
  ASSUME NEW h \in Stages
  PROVE  /\ h.pc \in {"unsent", "settings", "cooldown", "skip", "done", "dropped",
                      "count", "react"} \cup Reacting
         /\ h.pc \in {"unsent", "settings", "cooldown", "skip"} => h = [pc |-> h.pc]
         /\ h.pc = "count" => h \in Counting
         /\ h.pc = "react" => h \in Chosen
         /\ h.pc \in Reacting => h \in Reacted
         /\ h \in Reacted <=> "since" \in DOMAIN h
         /\ h \in Reacted => h.since \in Nat /\ h.hot \in BOOLEAN
BY DEF Stages, Plain, Counting, Chosen, Reacted, Reacting

LEMMA GoKeepsStage ==
  ASSUME NEW h \in Reacted, NEW pc \in Reacting \cup {"done", "dropped"}
  PROVE  /\ [h EXCEPT !.pc = pc] \in Reacted
         /\ [h EXCEPT !.pc = pc].pc = pc
         /\ [h EXCEPT !.pc = pc].since = h.since
         /\ [h EXCEPT !.pc = pc].hot = h.hot
BY DEF Reacted

LEMMA InitInv == Init => Inv
<1> SUFFICES ASSUME Init PROVE Inv
  OBVIOUS
<1>1. handling \in [Messages -> Plain] /\ \A m \in Messages : handling[m].pc = "unsent"
  BY DEF Init, Unsent, Plain
<1>2. \A m \in Messages : handling[m] \notin Reacted
  BY <1>1 DEF Reacted, Reacting
<1>3. TypeOK
  BY <1>1, BullingAssumption DEF Init, TypeOK, At, Reacting, Ended
<1>4. Shape
  BY <1>1, <1>3 DEF Shape, Stages, Init
<1> QED
  BY <1>1, <1>2, <1>4
  DEF Inv, CooldownCovers, HotIsCooling, QuietDuringCooldown, At, Reacting
-------------------------------------------------------------------------------
LEMMA LastOfType ==
  ASSUME NEW s \in Seq(Entries)
  PROVE  Buffer!LastOf(s) \in Seq(Entries)
<1>1. CASE Len(s) > WindowSize
  <2>1. /\ Len(s) \in Nat /\ Len(s) - WindowSize + 1 \in 1..(Len(s) + 1)
        /\ \A i \in (Len(s) - WindowSize + 1)..Len(s) : s[i] \in Entries
    BY <1>1, BullingAssumption
  <2> QED
    BY <1>1, <2>1, SubSeqProperties DEF Buffer!LastOf
<1> QED
  BY <1>1 DEF Buffer!LastOf

LEMMA AddType ==
  ASSUME TypeOK, NEW m \in Messages, sent[m] \in Sent, NEW piece \in Seq(Entries),
         Add(m, piece)
  PROVE  history' \in [Chats -> Seq(Entries)]
<1>1. sent[m].chat \in Chats
  BY DEF Sent
<1>2. history[sent[m].chat] \o piece \in Seq(Entries)
  BY <1>1 DEF TypeOK
<1>3. history' = [history EXCEPT ![sent[m].chat] =
                    Buffer!LastOf(history[sent[m].chat] \o piece)]
  BY DEF Add, Buffer!Record
<1> QED
  BY <1>2, <1>3, LastOfType DEF TypeOK

(* A handler goes on: what does not depend on the cooldowns stays true. *)
LEMMA MoveKeepsRest ==
  ASSUME Inv, NEW m \in Messages, handling[m].pc # "unsent",
         NEW h \in Stages, h.pc # "unsent",
         handling' = [handling EXCEPT ![m] = h],
         UNCHANGED <<now, sent>>,
         cooldown' \in [Chats \X Users -> 0..(MaxTime + Cooldown)],
         history' \in [Chats -> Seq(Entries)],
         msgCount' \in [Chats \X Users -> SUBSET Messages],
         h.pc = "count" /\ h.hot => h.cooling,
         h.pc \in Reacting \cup {"react"} /\ h.hot => sent[m].addressed
  PROVE  Shape' /\ HotIsCooling' /\ QuietDuringCooldown'
<1> USE DEF Inv, Shape
<1>1. /\ handling'[m] = h
      /\ \A n \in Messages \ {m} : handling'[n] = handling[n]
      /\ handling' \in [Messages -> Stages]
  OBVIOUS
<1>2. TypeOK'
  <2>1. sent[m] \in Sent
    BY DEF TypeOK, At, Sent
  <2>2. \A n \in Messages :
          /\ handling'[n].pc \in {"unsent", "settings", "cooldown", "count", "react", "skip"}
                                  \cup Reacting \cup Ended
          /\ handling'[n].pc = "unsent" \/ sent'[n] \in Sent
    BY <1>1, <2>1, StageFields DEF TypeOK, At, Ended, Sent
  <2> QED
    BY <2>2 DEF TypeOK, At, Sent
<1>3. Shape'
  BY <1>1, <1>2
<1>4. HotIsCooling'
  BY <1>1 DEF HotIsCooling, At
<1>5. QuietDuringCooldown'
  BY <1>1 DEF QuietDuringCooldown
<1> QED
  BY <1>3, <1>4, <1>5

(* A handler goes on without touching a cooldown. *)
LEMMA MoveKeepsInv ==
  ASSUME Inv, NEW m \in Messages, handling[m].pc # "unsent",
         NEW h \in Stages, h.pc # "unsent",
         handling' = [handling EXCEPT ![m] = h],
         UNCHANGED <<now, sent, cooldown>>,
         history' \in [Chats -> Seq(Entries)],
         msgCount' \in [Chats \X Users -> SUBSET Messages],
         h \in Reacted => handling[m] \in Reacted /\ h.since = handling[m].since,
         h.pc = "count" /\ h.hot => h.cooling,
         h.pc \in Reacting \cup {"react"} /\ h.hot => sent[m].addressed
  PROVE  Inv'
<1>1. cooldown' \in [Chats \X Users -> 0..(MaxTime + Cooldown)]
  BY DEF Inv, Shape, TypeOK
<1>2. Shape' /\ HotIsCooling' /\ QuietDuringCooldown'
  BY <1>1, MoveKeepsRest
<1>3. /\ handling'[m] = h
      /\ \A n \in Messages \ {m} : handling'[n] = handling[n]
  BY DEF Inv, Shape
<1>4. ASSUME NEW n \in Messages, handling'[n] \in Reacted
      PROVE  handling[n] \in Reacted /\ handling'[n].since = handling[n].since
  BY <1>3, <1>4
<1>5. CooldownCovers /\ UNCHANGED <<now, cooldown>> /\ \A n \in Messages : Key(n)' = Key(n)
  BY DEF Inv, Key
<1>6. CooldownCovers'
  BY <1>4, <1>5 DEF CooldownCovers
<1> QED
  BY <1>2, <1>6 DEF Inv
-------------------------------------------------------------------------------
LEMMA SentType ==
  ASSUME Inv, NEW m \in Messages, handling[m].pc # "unsent"
  PROVE  sent[m] \in Sent /\ Key(m) \in Chats \X Users
BY DEF Inv, Shape, TypeOK, At, Sent, Key

LEMMA TickKeepsInv == Inv /\ Tick => Inv'
<1> SUFFICES ASSUME Inv, Tick PROVE Inv'
  OBVIOUS
<1> USE DEF Inv, Tick
<1>1. TypeOK'
  BY BullingAssumption DEF Shape, TypeOK, At
<1>2. CooldownCovers'
  <2> SUFFICES ASSUME NEW n \in Messages, handling[n] \in Reacted
               PROVE  /\ handling[n].since <= now + 1
                      /\ now + 1 <= handling[n].since + Cooldown =>
                           handling[n].since + Cooldown <= cooldown[Key(n)]
    BY DEF CooldownCovers, Key
  <2> QED
    <3>1. /\ handling[n].since \in Nat /\ Key(n) \in Chats \X Users
          /\ cooldown[Key(n)] \in Nat /\ now \in Nat
      BY StageFields, SentType, BullingAssumption DEF Shape, TypeOK, Reacted, Reacting
    <3> QED
      BY <3>1, BullingAssumption DEF CooldownCovers
<1> QED
  BY <1>1, <1>2 DEF Shape, HotIsCooling, QuietDuringCooldown, At

LEMMA ArriveKeepsInv ==
  ASSUME Inv, NEW m \in Messages, NEW c \in Chats, NEW u \in Users,
         NEW addressed \in BOOLEAN, Arrive(m, c, u, addressed)
  PROVE  Inv'
<1> DEFINE h == [pc |-> "settings"]
<1> USE DEF Inv
<1>0. handling[m] = [pc |-> "unsent"]
  BY StageFields DEF Arrive, At, Shape
<1>1. handling' = [handling EXCEPT ![m] = h] /\ h \in Plain
  <2>1. handling' = [handling EXCEPT ![m] = [handling[m] EXCEPT !.pc = "settings"]]
    BY DEF Arrive, Go
  <2>2. [handling[m] EXCEPT !.pc = "settings"] = h
    BY <1>0
  <2> QED
    BY <2>1, <2>2 DEF Plain
<1>2. sent' = [sent EXCEPT ![m] = sent'[m]] /\ sent'[m] \in Sent
  BY DEF Arrive, Sent, Shape, TypeOK
<1>3. /\ \A n \in Messages \ {m} : handling'[n] = handling[n] /\ sent'[n] = sent[n]
      /\ handling'[m] = h /\ h.pc = "settings" /\ h \notin Reacted
      /\ handling' \in [Messages -> Stages] /\ sent' \in [Messages -> Sent \cup {{}}]
  BY <1>1, <1>2 DEF Shape, Stages, Reacted, Reacting
<1>4. UNCHANGED <<now, cooldown, msgCount, history>>
  BY DEF Arrive
<1>5. TypeOK'
  <2>1. \A n \in Messages :
          /\ handling'[n].pc \in {"unsent", "settings", "cooldown", "count", "react", "skip"}
                                  \cup Reacting \cup Ended
          /\ handling'[n].pc = "unsent" \/ sent'[n] \in Sent
    BY <1>2, <1>3 DEF Shape, TypeOK, At, Sent
  <2> QED
    BY <1>4, <2>1 DEF Shape, TypeOK, At, Sent
<1>6. CooldownCovers'
  BY <1>3, <1>4 DEF CooldownCovers, Key
<1>7. HotIsCooling' /\ QuietDuringCooldown'
  BY <1>3 DEF HotIsCooling, QuietDuringCooldown, At, Reacting
<1> QED
  BY <1>3, <1>5, <1>6, <1>7 DEF Shape

LEMMA ReadSettingsKeepsInv ==
  ASSUME Inv, NEW m \in Messages, ReadSettings(m)
  PROVE  Inv'
<1> DEFINE h == handling'[m]
<1>1. handling[m] = [pc |-> "settings"]
  BY StageFields DEF Inv, Shape, ReadSettings, At
<1>2. handling' = [handling EXCEPT ![m] = h] /\ h \in {[pc |-> "cooldown"], [pc |-> "dropped"]}
  BY <1>1 DEF Inv, Shape, ReadSettings, Go
<1>3. /\ h \in Stages /\ h.pc \in {"cooldown", "dropped"} /\ h \notin Reacted
      /\ handling[m].pc # "unsent"
  BY <1>1, <1>2 DEF Plain, Reacted, Stages
<1>4. UNCHANGED <<now, sent, cooldown, msgCount, history>>
  BY DEF ReadSettings
<1>5. /\ history' \in [Chats -> Seq(Entries)]
      /\ msgCount' \in [Chats \X Users -> SUBSET Messages]
  BY <1>4 DEF Inv, Shape, TypeOK
<1> HIDE DEF h
<1> QED
  BY <1>2, <1>3, <1>4, <1>5, MoveKeepsInv DEF Reacting

LEMMA CountMessageKeepsInv ==
  ASSUME Inv, NEW m \in Messages, CountMessage(m)
  PROVE  Inv'
<1> DEFINE h == handling'[m]
           threshold == Cardinality(Counted(m)) >= ThresholdCount
<1>0. handling[m] \in Counting
  BY StageFields DEF Inv, Shape, CountMessage, At
<1>1. /\ handling[m] \in Counting /\ handling[m].pc = "count"
      /\ handling[m].hot => handling[m].cooling
  BY StageFields DEF Inv, Shape, CountMessage, At, HotIsCooling, Counting
<1>2. /\ handling' = [handling EXCEPT ![m] = h]
      /\ h = IF Reacts(m, threshold) THEN [pc |-> "react", hot |-> handling[m].hot]
                                     ELSE [pc |-> "skip"]
  BY DEF Inv, Shape, CountMessage
<1> HIDE DEF h, threshold
<1>3. /\ h \in Stages /\ h.pc \in {"react", "skip"} /\ h \notin Reacted
      /\ handling[m].pc # "unsent"
  <2>1. CASE Reacts(m, threshold)
    <3>1. h = [pc |-> "react", hot |-> handling[m].hot]
      BY <1>2, <2>1
    <3>2. h \in Chosen /\ h.pc = "react"
      <4>1. \A b \in BOOLEAN : [pc |-> "react", hot |-> b] \in Chosen
        BY DEF Chosen
      <4>2. handling[m].hot \in BOOLEAN
        BY <1>0 DEF Counting
      <4> QED
        BY <3>1, <4>1, <4>2
    <3> QED
      BY <1>1, <3>2 DEF Stages, Reacted, Reacting
  <2>2. CASE ~Reacts(m, threshold)
    BY <1>1, <1>2, <2>2 DEF Stages, Plain, Reacted
  <2> QED
    BY <2>1, <2>2
<1>4. h.pc = "react" /\ h.hot => sent[m].addressed
  <2>1. CASE Reacts(m, threshold)
    <3>1. h.hot = handling[m].hot
      BY <1>2, <2>1
    <3> QED
      BY <1>1, <2>1, <3>1 DEF Reacts
  <2>2. CASE ~Reacts(m, threshold)
    BY <1>2, <2>2
  <2> QED
    BY <2>1, <2>2
<1>6. msgCount' \in [Chats \X Users -> SUBSET Messages]
  <2>1. Counted(m) \subseteq Messages
    BY <1>1, SentType DEF Counted, Inv, Shape, TypeOK
  <2> QED
    BY <2>1 DEF CountMessage, Inv, Shape, TypeOK
<1>7. UNCHANGED <<now, sent, cooldown, history>> /\ history' \in [Chats -> Seq(Entries)]
  BY DEF CountMessage, Inv, Shape, TypeOK
<1> QED
  BY <1>2, <1>3, <1>4, <1>6, <1>7, MoveKeepsInv DEF Reacting

LEMMA CheckCooldownKeepsInv ==
  ASSUME Inv, NEW m \in Messages, CheckCooldown(m)
  PROVE  Inv'
<1> DEFINE k == Key(m)
           h == [pc |-> "count", cooling |-> IsCooldown(k), hot |-> JustReacted(m)]
<1>1. handling[m].pc = "cooldown" /\ k \in Chats \X Users
  BY SentType DEF CheckCooldown, At
<1>2. /\ handling' = [handling EXCEPT ![m] = h]
      /\ UNCHANGED <<now, sent, msgCount, history>>
  BY DEF CheckCooldown
<1>3. cooldown' = [cooldown EXCEPT ![k] = IF IsCooldown(k) THEN cooldown[k] ELSE 0]
  BY DEF CheckCooldown
<1>4. h \in Counting /\ h.pc = "count" /\ h \notin Reacted
  BY DEF Counting, Reacted, Reacting, IsCooldown, JustReacted
<1>5. JustReacted(m) => IsCooldown(k)
  <2> SUFFICES ASSUME NEW n \in Messages, "since" \in DOMAIN handling[n], SameUser(m, n),
                      now <= handling[n].since + Cooldown
               PROVE  now <= cooldown[k]
    BY DEF JustReacted, IsCooldown
  <2>1. handling[n] \in Reacted /\ handling[n].since \in Nat /\ Key(n) = k
    BY StageFields DEF Inv, Shape, SameUser, Key
  <2>2. handling[n].since + Cooldown <= cooldown[k]
    BY <2>1 DEF Inv, CooldownCovers
  <2>3. now \in Nat /\ cooldown[k] \in Nat
    BY <1>1, BullingAssumption DEF Inv, Shape, TypeOK
  <2> QED
    BY <2>1, <2>2, <2>3, BullingAssumption
<1>6. cooldown' \in [Chats \X Users -> 0..(MaxTime + Cooldown)]
  BY <1>1, <1>3, BullingAssumption DEF Inv, Shape, TypeOK
<1>7. CooldownCovers'
  <2> SUFFICES ASSUME NEW n \in Messages, handling'[n] \in Reacted
               PROVE  /\ handling'[n].since <= now
                      /\ now <= handling'[n].since + Cooldown =>
                           handling'[n].since + Cooldown <= cooldown'[Key(n)]
    BY <1>2 DEF CooldownCovers, Key
  <2>1. handling'[n] = handling[n] /\ handling[n] \in Reacted
    BY <1>2, <1>4 DEF Inv, Shape
  <2>2. /\ handling[n].since \in Nat /\ Key(n) \in Chats \X Users
        /\ now \in Nat /\ cooldown[Key(n)] \in Nat
    BY <2>1, StageFields, SentType, BullingAssumption
    DEF Inv, Shape, TypeOK, Reacted, Reacting
  <2>3. /\ handling[n].since <= now
        /\ now <= handling[n].since + Cooldown =>
             handling[n].since + Cooldown <= cooldown[Key(n)]
    BY <2>1 DEF Inv, CooldownCovers
  <2>4. now <= cooldown[Key(n)] => cooldown'[Key(n)] = cooldown[Key(n)]
    BY <1>3, <2>2 DEF IsCooldown, Inv, Shape, TypeOK
  <2> QED
    BY <2>1, <2>2, <2>3, <2>4, BullingAssumption
<1>8. /\ history' \in [Chats -> Seq(Entries)]
      /\ msgCount' \in [Chats \X Users -> SUBSET Messages]
  BY <1>2 DEF Inv, Shape, TypeOK
<1>9. h.hot => h.cooling
  BY <1>5
<1> HIDE DEF h
<1>10. h \in Stages
  BY <1>4 DEF Stages
<1>11. Shape' /\ HotIsCooling' /\ QuietDuringCooldown'
  BY <1>1, <1>2, <1>4, <1>6, <1>8, <1>9, <1>10, MoveKeepsRest DEF Reacting
<1> QED
  BY <1>7, <1>11 DEF Inv

LEMMA SetCooldownKeepsInv ==
  ASSUME Inv, NEW m \in Messages, SetCooldown(m)
  PROVE  Inv'
<1> DEFINE k == Key(m)
           h == [pc |-> "notify", hot |-> handling[m].hot, since |-> now]
<1>0. handling[m] \in Chosen /\ handling[m].pc = "react"
  BY StageFields DEF Inv, Shape, SetCooldown, At
<1>1. k \in Chats \X Users /\ now \in 1..MaxTime
  BY <1>0, SentType DEF Inv, Shape, TypeOK
<1>2. /\ handling' = [handling EXCEPT ![m] = h]
      /\ cooldown' = [cooldown EXCEPT ![k] = now + Cooldown]
      /\ UNCHANGED <<now, sent, msgCount, history>>
  BY DEF SetCooldown
<1>3. h \in Reacted /\ h.pc = "notify" /\ h.since = now
  <2>1. \A b \in BOOLEAN, t \in Nat : [pc |-> "notify", hot |-> b, since |-> t] \in Reacted
    BY DEF Reacted, Reacting
  <2>2. handling[m].hot \in BOOLEAN
    BY <1>0 DEF Chosen
  <2>3. now \in Nat
    BY <1>1, BullingAssumption
  <2> QED
    BY <2>1, <2>2, <2>3
<1>4. h.hot => sent[m].addressed
  BY <1>0 DEF Inv, QuietDuringCooldown
<1>5. cooldown' \in [Chats \X Users -> 0..(MaxTime + Cooldown)]
  BY <1>1, <1>2, BullingAssumption DEF Inv, Shape, TypeOK
<1>6. /\ history' \in [Chats -> Seq(Entries)]
      /\ msgCount' \in [Chats \X Users -> SUBSET Messages]
  BY <1>2 DEF Inv, Shape, TypeOK
<1> HIDE DEF h
<1>7. Shape' /\ HotIsCooling' /\ QuietDuringCooldown'
  BY <1>0, <1>2, <1>3, <1>4, <1>5, <1>6, MoveKeepsRest DEF Stages
<1>8. CooldownCovers'
  <2> SUFFICES ASSUME NEW n \in Messages, handling'[n] \in Reacted
               PROVE  /\ handling'[n].since <= now
                      /\ now <= handling'[n].since + Cooldown =>
                           handling'[n].since + Cooldown <= cooldown'[Key(n)]
    BY <1>2 DEF CooldownCovers, Key
  <2>1. CASE n = m
    <3>1. handling'[n].since = now /\ cooldown'[Key(n)] = now + Cooldown
      BY <1>1, <1>2, <1>3, <2>1 DEF Inv, Shape, TypeOK
    <3> QED
      BY <1>1, <3>1, BullingAssumption
  <2>2. CASE n # m
    <3>1. handling'[n] = handling[n] /\ handling[n] \in Reacted
      BY <1>2, <2>2 DEF Inv, Shape
    <3>2. /\ handling[n].since \in Nat /\ Key(n) \in Chats \X Users
      BY <3>1, StageFields, SentType DEF Inv, Shape, Reacted, Reacting
    <3>3. /\ handling[n].since <= now
          /\ now <= handling[n].since + Cooldown =>
               handling[n].since + Cooldown <= cooldown[Key(n)]
      BY <3>1 DEF Inv, CooldownCovers
    <3>4. \/ Key(n) = k /\ cooldown'[Key(n)] = now + Cooldown
          \/ Key(n) # k /\ cooldown'[Key(n)] = cooldown[Key(n)]
      BY <1>2, <3>2 DEF Inv, Shape, TypeOK
    <3> QED
      BY <1>1, <3>1, <3>2, <3>3, <3>4, BullingAssumption
  <2> QED
    BY <2>1, <2>2
<1> QED
  BY <1>7, <1>8 DEF Inv

LEMMA SkipKeepsInv ==
  ASSUME Inv, NEW m \in Messages, Skip(m)
  PROVE  Inv'
<1> DEFINE h == [pc |-> "done"]
<1>1. handling[m] = [pc |-> "skip"]
  BY StageFields DEF Inv, Shape, Skip, At
<1>2. handling' = [handling EXCEPT ![m] = h]
  <2>1. handling' = [handling EXCEPT ![m] = [handling[m] EXCEPT !.pc = "done"]]
    BY DEF Skip, Go
  <2>2. [handling[m] EXCEPT !.pc = "done"] = h
    BY <1>1
  <2> QED
    BY <2>1, <2>2
<1>3. h \in Stages /\ h \notin Reacted /\ h.pc = "done"
  BY DEF Stages, Plain, Reacted
<1>4. UNCHANGED <<now, sent, cooldown, msgCount>>
  BY DEF Skip
<1>5. history' \in [Chats -> Seq(Entries)]
  <2>1. sent[m] \in Sent /\ <<Message(m)>> \in Seq(Entries)
    BY <1>1, SentType DEF Message, Entries
  <2> QED
    BY <2>1, AddType DEF Skip, Inv, Shape
<1>6. msgCount' \in [Chats \X Users -> SUBSET Messages]
  BY <1>4 DEF Inv, Shape, TypeOK
<1>8. handling[m].pc # "unsent"
  BY <1>1
<1> HIDE DEF h
<1>9. h.pc # "unsent" /\ h.pc # "count" /\ h.pc \notin Reacting \cup {"react"}
  BY <1>3 DEF Reacting
<1> QED
  BY <1>2, <1>3, <1>4, <1>5, <1>6, <1>8, <1>9, MoveKeepsInv

(* A handler that set the cooldown goes on. *)
LEMMA GoReactedKeepsInv ==
  ASSUME Inv, NEW m \in Messages, handling[m].pc \in Reacting,
         NEW pc \in Reacting \cup {"done", "dropped"}, Go(m, pc),
         UNCHANGED <<now, sent, cooldown, msgCount>>,
         history' \in [Chats -> Seq(Entries)]
  PROVE  Inv'
<1> DEFINE h == [handling[m] EXCEPT !.pc = pc]
<1>1. handling[m] \in Reacted
  BY StageFields DEF Inv, Shape
<1>2. /\ h \in Reacted /\ h.pc = pc
      /\ h.since = handling[m].since /\ h.hot = handling[m].hot
  BY <1>1, GoKeepsStage
<1>3. handling' = [handling EXCEPT ![m] = h]
  BY DEF Go
<1>4. handling[m].hot => sent[m].addressed
  BY DEF Inv, QuietDuringCooldown
<1>5. msgCount' \in [Chats \X Users -> SUBSET Messages]
  BY DEF Inv, Shape, TypeOK
<1> HIDE DEF h
<1>6. h.hot => sent[m].addressed
  BY <1>2, <1>4
<1>7. h \in Stages /\ h.pc # "unsent" /\ h.pc # "count" /\ handling[m].pc # "unsent"
  BY <1>2 DEF Stages, Reacting
<1> QED
  BY <1>1, <1>2, <1>3, <1>5, <1>6, <1>7, MoveKeepsInv

LEMMA ReactedStepKeepsInv ==
  ASSUME Inv, NEW m \in Messages,
         Notify(m) \/ SendReply(m) \/ RecordUnanswered(m) \/ RecordExchange(m)
  PROVE  Inv'
<1>1. CASE Notify(m) \/ SendReply(m)
  <2>1. /\ handling[m].pc \in Reacting
        /\ Go(m, "reply") \/ Go(m, "dropped") \/ Go(m, "sent") \/ Go(m, "unanswered")
        /\ UNCHANGED <<now, sent, cooldown, msgCount>> /\ history' = history
    BY <1>1 DEF Notify, SendReply, At, Reacting
  <2>2. history' \in [Chats -> Seq(Entries)]
    BY <2>1 DEF Inv, Shape, TypeOK
  <2>3. {"reply", "dropped", "sent", "unanswered"} \subseteq Reacting \cup {"done", "dropped"}
    BY DEF Reacting
  <2> QED
    BY <2>1, <2>2, <2>3, GoReactedKeepsInv
<1>2. CASE RecordUnanswered(m) \/ RecordExchange(m)
  <2>1. /\ handling[m].pc \in Reacting
        /\ Go(m, "done") \/ Go(m, "answered")
        /\ UNCHANGED <<now, sent, cooldown, msgCount>>
        /\ Add(m, <<Message(m)>>) \/ Add(m, <<Message(m), Reply(m)>>)
    BY <1>2 DEF RecordUnanswered, RecordExchange, At, Reacting
  <2>2. /\ sent[m] \in Sent
        /\ <<Message(m)>> \in Seq(Entries) /\ <<Message(m), Reply(m)>> \in Seq(Entries)
    BY <2>1, SentType DEF Message, Reply, Entries, Reacting
  <2>3. history' \in [Chats -> Seq(Entries)]
    BY <2>1, <2>2, AddType DEF Inv, Shape
  <2>4. {"done", "answered"} \subseteq Reacting \cup {"done", "dropped"}
    BY DEF Reacting
  <2> QED
    BY <2>1, <2>3, <2>4, GoReactedKeepsInv
<1> QED
  BY <1>1, <1>2
-------------------------------------------------------------------------------
LEMMA StepKeepsInv == Inv /\ [Next]_vars => Inv'
<1> SUFFICES ASSUME Inv, [Next]_vars PROVE Inv'
  OBVIOUS
<1>1. CASE Tick
  BY <1>1, TickKeepsInv
<1>2. ASSUME NEW m \in Messages, Handle(m)
      PROVE  Inv'
  BY <1>2, ReadSettingsKeepsInv, CheckCooldownKeepsInv, CountMessageKeepsInv,
     SkipKeepsInv, SetCooldownKeepsInv, ReactedStepKeepsInv DEF Handle
<1>3. ASSUME NEW m \in Messages, NEW c \in Chats, NEW u \in Users,
             NEW addressed \in BOOLEAN, Arrive(m, c, u, addressed)
      PROVE  Inv'
  BY <1>3, ArriveKeepsInv
<1>4. CASE UNCHANGED vars
  <2> USE <1>4 DEF vars, Inv
  <2>1. Shape'
    BY DEF Shape, TypeOK, At
  <2>2. CooldownCovers'
    BY DEF CooldownCovers, Key
  <2>3. HotIsCooling' /\ QuietDuringCooldown'
    BY DEF HotIsCooling, QuietDuringCooldown, At
  <2> QED
    BY <2>1, <2>2, <2>3
<1> QED
  BY <1>1, <1>2, <1>3, <1>4 DEF Next

LEMMA AlwaysInv == Spec => []Inv
BY InitInv, StepKeepsInv, PTL DEF Spec

(* Every variable always has its type, whatever the handlers of the        *)
(* messages (Handler.Handle) do meanwhile.                                 *)
THEOREM TypeCorrect == Spec => []TypeOK
<1>1. Inv => TypeOK
  BY DEF Inv, Shape
<1> QED
  BY <1>1, AlwaysInv, PTL

(* The bot does not react unasked to whom it has just reacted              *)
(* (checkCooldown), asked or not, however the handlers of one user's       *)
(* messages interleave, for every threshold, cooldown and set of faults.   *)
THEOREM AlwaysQuietDuringCooldown == Spec => []QuietDuringCooldown
<1>1. Inv => QuietDuringCooldown
  BY DEF Inv
<1> QED
  BY <1>1, AlwaysInv, PTL

-------------------------------------------------------------------------------
(* Only messages that have come, of the chat and user, are counted. *)
CountsOwn ==
  \A k \in Chats \X Users : \A n \in msgCount[k] :
    handling[n].pc # "unsent" /\ Key(n) = k

LEMMA OwnCounted ==
  ASSUME Inv, CountsOwn, NEW m \in Messages, handling[m].pc # "unsent"
  PROVE  Counted(m) \subseteq
           {n \in Messages : SameUser(m, n) /\ now - sent[n].time <= ThresholdTime}
<1> SUFFICES ASSUME NEW n \in Counted(m)
             PROVE  n \in Messages /\ SameUser(m, n)
  BY DEF Counted
<1>1. Key(m) \in Chats \X Users
  BY SentType
<1>2. n \in Messages /\ handling[n].pc # "unsent" /\ Key(n) = Key(m)
  BY <1>1 DEF Counted, CountsOwn, Inv, Shape, TypeOK
<1> QED
  BY <1>2 DEF SameUser, Key, At

(* A message that has come stays what it is. *)
LEMMA MessagesStay ==
  ASSUME Inv, [Next]_vars, NEW n \in Messages, handling[n].pc # "unsent"
  PROVE  handling'[n].pc # "unsent" /\ sent'[n] = sent[n]
<1> USE DEF Inv, Shape
<1>1. CASE Tick \/ UNCHANGED vars
  BY <1>1 DEF Tick, vars
<1>2. ASSUME NEW m \in Messages, NEW c \in Chats, NEW u \in Users,
             NEW addressed \in BOOLEAN, Arrive(m, c, u, addressed)
      PROVE  handling'[n] = handling[n] /\ sent'[n] = sent[n]
  BY <1>2 DEF Arrive, At, Go
<1>3. ASSUME NEW m \in Messages, Handle(m)
      PROVE  handling'[n].pc # "unsent" /\ sent'[n] = sent[n]
  <2>1. \A x \in Messages, pc \in Reacting \cup Ended \cup {"cooldown"} :
          Go(x, pc) => handling'[n].pc # "unsent"
    <3> SUFFICES ASSUME NEW x \in Messages, NEW pc \in Reacting \cup Ended \cup {"cooldown"},
                        handling' = [handling EXCEPT ![x] = [handling[x] EXCEPT !.pc = pc]]
                 PROVE  handling'[n].pc # "unsent"
      BY DEF Go
    <3>1. CASE x # n
      BY <3>1
    <3>2. CASE x = n
      <4>1. handling'[n] = [handling[n] EXCEPT !.pc = pc]
        BY <3>2
      <4>2. "pc" \in DOMAIN handling[n]
        BY DEF Stages, Plain, Counting, Chosen, Reacted
      <4>3. handling'[n].pc = pc
        BY <4>1, <4>2
      <4> QED
        BY <4>3 DEF Reacting, Ended
    <3> QED
      BY <3>1, <3>2
  <2>2. CASE CheckCooldown(m) \/ CountMessage(m) \/ SetCooldown(m)
    BY <2>2 DEF CheckCooldown, CountMessage, SetCooldown
  <2>3. CASE ReadSettings(m) \/ Skip(m) \/ Notify(m) \/ SendReply(m)
               \/ RecordUnanswered(m) \/ RecordExchange(m)
    <3>1. /\ \E pc \in Reacting \cup Ended \cup {"cooldown"} : Go(m, pc)
          /\ sent' = sent
      BY <2>3 DEF ReadSettings, Skip, Notify, SendReply, RecordUnanswered,
         RecordExchange, Reacting, Ended
    <3> QED
      BY <2>1, <3>1
  <2> QED
    BY <1>3, <2>2, <2>3 DEF Handle
<1> QED
  BY <1>1, <1>2, <1>3 DEF Next

LEMMA StepKeepsCountsOwn == Inv /\ CountsOwn /\ [Next]_vars => CountsOwn'
<1> SUFFICES ASSUME Inv, CountsOwn, [Next]_vars,
                    NEW k \in Chats \X Users, NEW n \in msgCount'[k]
             PROVE  handling'[n].pc # "unsent" /\ Key(n)' = k
  BY DEF CountsOwn
<1>1. msgCount \in [Chats \X Users -> SUBSET Messages]
  BY DEF Inv, Shape, TypeOK
<1>2. n \in Messages /\ handling[n].pc # "unsent" /\ Key(n) = k
  <2>1. CASE \E m \in Messages : CountMessage(m)
    <3>1. PICK m \in Messages : CountMessage(m)
      BY <2>1
    <3>2. handling[m].pc # "unsent" /\ msgCount' = [msgCount EXCEPT ![Key(m)] = Counted(m)]
      BY <3>1 DEF CountMessage, At
    <3>3. CASE k = Key(m)
      <4>1. n \in Counted(m)
        BY <1>1, <3>2, <3>3
      <4> QED
        BY <3>2, <3>3, <4>1, OwnCounted DEF SameUser, Key, At
    <3>4. CASE k # Key(m)
      BY <1>1, <3>2, <3>4 DEF CountsOwn
    <3> QED
      BY <3>3, <3>4
  <2>2. CASE ~(\E m \in Messages : CountMessage(m))
    <3>1. msgCount' = msgCount
      BY <2>2 DEF Next, vars, Tick, Handle, Arrive, ReadSettings, CheckCooldown, Skip,
         SetCooldown, Notify, SendReply, RecordUnanswered, RecordExchange
    <3> QED
      BY <1>1, <3>1 DEF CountsOwn
  <2> QED
    BY <2>1, <2>2
<1> QED
  BY <1>2, MessagesStay DEF Key

LEMMA AlwaysCountsOwn == Spec => []CountsOwn
<1>1. Init => CountsOwn
  BY DEF Init, CountsOwn
<1> QED
  BY <1>1, AlwaysInv, StepKeepsCountsOwn, PTL DEF Spec

(* The messages that provoke the bot (checkThreshold) were all written by  *)
(* the user it answers, in the same chat and no longer than ThresholdTime  *)
(* ago: the counter never holds anything else, and what it holds is only   *)
(* ever fewer messages than were written.                                  *)
THEOREM OnlyTheBusyAreAnswered == Spec => OnlyTheBusyAreBothered
<1> DEFINE Bothered ==
      \A m \in Messages :
        At(m, "count") /\ handling'[m].pc = "react" /\ ~sent[m].addressed =>
          Cardinality({n \in Messages :
              SameUser(m, n) /\ now - sent[n].time <= ThresholdTime}) >= ThresholdCount
<1>1. Inv /\ CountsOwn /\ [Next]_vars => [Bothered]_vars
  <2> SUFFICES ASSUME Inv, CountsOwn, Next, NEW m \in Messages, At(m, "count"),
                      handling'[m].pc = "react", ~sent[m].addressed
               PROVE  Cardinality({n \in Messages :
                        SameUser(m, n) /\ now - sent[n].time <= ThresholdTime})
                          >= ThresholdCount
    OBVIOUS
  <2> DEFINE Busy == {n \in Messages : SameUser(m, n) /\ now - sent[n].time <= ThresholdTime}
  <2>1. CountMessage(m)
    <3>1. handling'[m] # handling[m]
      BY DEF At
    <3>2. ~Tick /\ (\A x \in Messages : Handle(x) => x = m)
      BY <3>1 DEF Tick, Handle, ReadSettings, CheckCooldown, CountMessage, Skip, SetCooldown,
         Notify, SendReply, RecordUnanswered, RecordExchange, Go, Inv, Shape
    <3>3. \A x \in Messages, c \in Chats, u \in Users, a \in BOOLEAN : ~Arrive(x, c, u, a)
      BY <3>1 DEF Arrive, Go, At, Inv, Shape
    <3>4. Handle(m)
      BY <3>2, <3>3 DEF Next
    <3> QED
      BY <3>4 DEF Handle, ReadSettings, CheckCooldown, Skip, SetCooldown, Notify,
         SendReply, RecordUnanswered, RecordExchange, At
  <2>2. Cardinality(Counted(m)) >= ThresholdCount
    <3>1. handling'[m] = IF Reacts(m, Cardinality(Counted(m)) >= ThresholdCount)
                         THEN [pc |-> "react", hot |-> handling[m].hot] ELSE [pc |-> "skip"]
      BY <2>1 DEF CountMessage, Inv, Shape
    <3>2. Reacts(m, Cardinality(Counted(m)) >= ThresholdCount)
      BY <3>1
    <3> QED
      BY <3>2 DEF Reacts
  <2>3. Counted(m) \subseteq Busy
    BY OwnCounted DEF At
  <2>4. IsFiniteSet(Busy)
    BY FS_Subset, BullingAssumption
  <2>5. Cardinality(Counted(m)) <= Cardinality(Busy)
    BY <2>3, <2>4, FS_Subset
  <2>6. Cardinality(Counted(m)) \in Nat /\ Cardinality(Busy) \in Nat
    BY <2>3, <2>4, FS_Subset, FS_CardinalityType
  <2> QED
    BY <2>2, <2>5, <2>6, BullingAssumption
<1> QED
  BY <1>1, AlwaysInv, AlwaysCountsOwn, PTL DEF Spec, OnlyTheBusyAreBothered
-------------------------------------------------------------------------------
(* What a history says of a message is right, whether or not it was        *)
(* answered: HistoryIsComplete without what the window has lost.           *)
Right(m, answered, h) ==
  /\ \A i, j \in 1..Len(h) : h[i] = Message(m) /\ h[j] = Message(m) => i = j
  /\ answered => \A i \in 1..Len(h) : h[i] = Message(m) => i < Len(h) /\ h[i + 1] = Reply(m)
  /\ \A i \in 1..Len(h) : h[i] = Reply(m) => answered /\ (i = 1 \/ h[i - 1] = Message(m))

Holds(m, h) == \E i \in 1..Len(h) : h[i] = Message(m)
Tells(m, h) == \E i \in 1..Len(h) : h[i] \in {Message(m), Reply(m)}

Handled(m) == handling[m].pc \in {"done", "answered"}

(* A history tells only of the messages of its chat that were handled. *)
TellsOfHandled ==
  \A m \in Messages, c \in Chats :
    Tells(m, history[c]) => Handled(m) /\ sent[m].chat = c

Complete ==
  \A m \in Messages : Handled(m) =>
    /\ Right(m, At(m, "answered"), history[sent[m].chat])
    /\ Len(history[sent[m].chat]) < WindowSize => Holds(m, history[sent[m].chat])

HistoryInv == Complete /\ TellsOfHandled

LEMMA EntriesDiffer ==
  \A m, n : /\ Message(m) # Reply(n)
            /\ Message(m) = Message(n) => m = n
            /\ Reply(m) = Reply(n) => m = n
<1> SUFFICES ASSUME NEW m, NEW n
             PROVE  /\ Message(m) # Reply(n)
                    /\ Message(m) = Message(n) => m = n
                    /\ Reply(m) = Reply(n) => m = n
  OBVIOUS
<1>1. /\ Message(m).message = m /\ Message(n).message = n
      /\ Reply(m).reply = m /\ Reply(n).reply = n
      /\ DOMAIN Message(m) = {"message"} /\ DOMAIN Reply(n) = {"reply"}
  BY DEF Message, Reply
<1> QED
  BY <1>1

(* The window shows the end of what it is given, all of it unless it is    *)
(* full.                                                                   *)
LEMMA LastOfIsTheEnd ==
  ASSUME NEW s \in Seq(Entries)
  PROVE  \E k \in 0..Len(s) :
           /\ Len(Buffer!LastOf(s)) = Len(s) - k
           /\ \A i \in 1..(Len(s) - k) : Buffer!LastOf(s)[i] = s[i + k]
           /\ k = 0 \/ Len(s) - k = WindowSize
<1>1. CASE Len(s) > WindowSize
  <2> DEFINE k == Len(s) - WindowSize
  <2>1. k \in 0..Len(s) /\ k + 1 \in Nat /\ k + 1 >= 1 /\ Len(s) - k = WindowSize
    BY <1>1, BullingAssumption
  <2>2. /\ Len(s) \in Nat /\ Buffer!LastOf(s) = SubSeq(s, k + 1, Len(s))
        /\ \A i \in (k + 1)..Len(s) : s[i] \in Entries
    BY <1>1, <2>1, BullingAssumption DEF Buffer!LastOf
  <2>3. /\ Len(Buffer!LastOf(s)) = Len(s) - k
        /\ \A i \in 1..(Len(s) - k) : Buffer!LastOf(s)[i] = s[i + k]
    <3>1. k + 1 <= Len(s) + 1 /\ k + 1 \in 1..(Len(s) + 1)
      BY <2>1, <2>2
    <3>2. Len(SubSeq(s, k + 1, Len(s))) = Len(s) - (k + 1) + 1
      BY <2>1, <2>2, <3>1, BullingAssumption, SubSeqProperties
    <3>3. \A i \in 1..(Len(s) - (k + 1) + 1) :
            SubSeq(s, k + 1, Len(s))[i] = s[k + 1 + i - 1]
      BY <2>1, <2>2, <3>1, BullingAssumption, SubSeqProperties
    <3>4. \A i \in 1..(Len(s) - k) : k + 1 + i - 1 = i + k
      BY <2>1, <2>2
    <3>5. Len(s) - (k + 1) + 1 = Len(s) - k
      BY <2>1, <2>2
    <3> HIDE DEF k
    <3> QED
      BY <2>2, <3>2, <3>3, <3>4, <3>5
  <2> QED
    BY <2>1, <2>3
<1>2. CASE ~(Len(s) > WindowSize)
  <2>1. Buffer!LastOf(s) = s /\ Len(s) \in Nat /\ 0 \in 0..Len(s)
    BY <1>2 DEF Buffer!LastOf
  <2> QED
    BY <2>1
<1> QED
  BY <1>1, <1>2

LEMMA LastOfKeeps ==
  ASSUME NEW s \in Seq(Entries), NEW m \in Messages, NEW a \in BOOLEAN
  PROVE  /\ Right(m, a, s) => Right(m, a, Buffer!LastOf(s))
         /\ Tells(m, Buffer!LastOf(s)) => Tells(m, s)
         /\ Len(Buffer!LastOf(s)) < WindowSize => Buffer!LastOf(s) = s
<1> DEFINE t == Buffer!LastOf(s)
<1>1. PICK k \in 0..Len(s) :
        /\ Len(t) = Len(s) - k
        /\ \A i \in 1..(Len(s) - k) : t[i] = s[i + k]
        /\ k = 0 \/ Len(s) - k = WindowSize
  BY LastOfIsTheEnd
<1>2. Len(s) \in Nat /\ k \in Nat /\ Len(t) \in Nat
  BY <1>1
<1>3. Len(t) < WindowSize => t = s
  BY <1>1, <1>2, BullingAssumption DEF Buffer!LastOf
<1> HIDE DEF t
<1>4. \A i \in 1..Len(t) : i + k \in 1..Len(s) /\ t[i] = s[i + k]
  BY <1>1, <1>2
<1>5. Tells(m, t) => Tells(m, s)
  BY <1>4 DEF Tells
<1>6. ASSUME Right(m, a, s)
      PROVE  Right(m, a, t)
  <2>1. ASSUME NEW i \in 1..Len(t), NEW j \in 1..Len(t), t[i] = Message(m), t[j] = Message(m)
        PROVE  i = j
    <3>0. /\ i + k \in 1..Len(s) /\ s[i + k] = Message(m)
          /\ j + k \in 1..Len(s) /\ s[j + k] = Message(m)
      BY <1>4, <2>1
    <3>1. i + k = j + k
      BY <1>6, <3>0 DEF Right
    <3> QED
      BY <1>2, <3>1
  <2>2. ASSUME a, NEW i \in 1..Len(t), t[i] = Message(m)
        PROVE  i < Len(t) /\ t[i + 1] = Reply(m)
    <3>1. i + k < Len(s) /\ s[i + k + 1] = Reply(m)
      BY <1>4, <1>6, <2>2 DEF Right
    <3>2. i < Len(t) /\ i + 1 \in 1..Len(t) /\ i + 1 + k = i + k + 1
      BY <1>1, <1>2, <3>1
    <3> QED
      BY <1>4, <3>1, <3>2
  <2>3. ASSUME NEW i \in 1..Len(t), t[i] = Reply(m)
        PROVE  a /\ (i = 1 \/ t[i - 1] = Message(m))
    <3>1. a /\ (i + k = 1 \/ s[i + k - 1] = Message(m))
      BY <1>4, <1>6, <2>3 DEF Right
    <3>2. CASE i = 1
      BY <3>1, <3>2
    <3>3. CASE i # 1
      <4>1. i - 1 \in 1..Len(t) /\ i - 1 + k = i + k - 1 /\ i + k # 1
        BY <1>2, <3>3
      <4> QED
        BY <1>4, <3>1, <4>1
    <3> QED
      BY <3>2, <3>3
  <2> QED
    BY <2>1, <2>2, <2>3 DEF Right
<1> QED
  BY <1>3, <1>5, <1>6 DEF t

LEMMA Joined ==
  ASSUME NEW h \in Seq(Entries), NEW p \in Seq(Entries)
  PROVE  /\ h \o p \in Seq(Entries) /\ Len(h \o p) = Len(h) + Len(p)
         /\ \A i \in 1..Len(h) : (h \o p)[i] = h[i]
         /\ \A i \in (Len(h) + 1)..(Len(h) + Len(p)) : (h \o p)[i] = p[i - Len(h)]
BY ConcatProperties

(* Entries about others leave what a history says of a message alone. *)
LEMMA OthersKeep ==
  ASSUME NEW h \in Seq(Entries), NEW p \in Seq(Entries), NEW n \in Messages,
         NEW a \in BOOLEAN, ~Tells(n, p)
  PROVE  /\ Right(n, a, h) => Right(n, a, h \o p)
         /\ Tells(n, h \o p) => Tells(n, h)
         /\ Holds(n, h) => Holds(n, h \o p)
<1> DEFINE s == h \o p
<1>1. /\ Len(h) \in Nat /\ Len(p) \in Nat /\ Len(s) = Len(h) + Len(p)
      /\ \A i \in 1..Len(h) : s[i] = h[i]
      /\ \A i \in (Len(h) + 1)..(Len(h) + Len(p)) : s[i] = p[i - Len(h)]
  BY Joined
<1> HIDE DEF s
<1>2. \A i \in 1..Len(s) : s[i] \in {Message(n), Reply(n)} =>
        i \in 1..Len(h) /\ h[i] = s[i]
  <2> SUFFICES ASSUME NEW i \in 1..Len(s), s[i] \in {Message(n), Reply(n)},
                      i \notin 1..Len(h)
               PROVE  FALSE
    BY <1>1
  <2>1. i \in (Len(h) + 1)..(Len(h) + Len(p)) /\ i - Len(h) \in 1..Len(p)
    BY <1>1
  <2>2. p[i - Len(h)] = s[i]
    BY <1>1, <2>1
  <2> QED
    BY <2>1, <2>2 DEF Tells
<1>3. Tells(n, s) => Tells(n, h)
  BY <1>2 DEF Tells
<1>4. Holds(n, h) => Holds(n, s)
  <2>1. 1..Len(h) \subseteq 1..Len(s)
    BY <1>1
  <2> QED
    BY <1>1, <2>1 DEF Holds
<1>5. ASSUME Right(n, a, h)
      PROVE  Right(n, a, s)
  <2>1. \A i, j \in 1..Len(s) : s[i] = Message(n) /\ s[j] = Message(n) => i = j
    BY <1>2, <1>5 DEF Right
  <2>2. ASSUME a, NEW i \in 1..Len(s), s[i] = Message(n)
        PROVE  i < Len(s) /\ s[i + 1] = Reply(n)
    <3>1. i \in 1..Len(h) /\ i < Len(h) /\ h[i + 1] = Reply(n)
      BY <1>2, <1>5, <2>2 DEF Right
    <3>2. i + 1 \in 1..Len(h) /\ i < Len(s)
      BY <1>1, <3>1
    <3> QED
      BY <1>1, <3>1, <3>2
  <2>3. ASSUME NEW i \in 1..Len(s), s[i] = Reply(n)
        PROVE  a /\ (i = 1 \/ s[i - 1] = Message(n))
    <3>1. i \in 1..Len(h) /\ a /\ (i = 1 \/ h[i - 1] = Message(n))
      BY <1>2, <1>5, <2>3 DEF Right
    <3>2. i = 1 \/ i - 1 \in 1..Len(h)
      BY <1>1, <3>1
    <3> QED
      BY <1>1, <3>1, <3>2
  <2> QED
    BY <2>1, <2>2, <2>3 DEF Right
<1> QED
  BY <1>3, <1>4, <1>5 DEF s

(* What a handler records of its message is right. *)
LEMMA RecordedIsRight ==
  ASSUME NEW h \in Seq(Entries), NEW m \in Messages, NEW a \in BOOLEAN, ~Tells(m, h),
         NEW p, p = IF a THEN <<Message(m), Reply(m)>> ELSE <<Message(m)>>
  PROVE  Right(m, a, h \o p) /\ Holds(m, h \o p)
<1> DEFINE s == h \o p
           l == Len(h)
<1>0. p \in Seq(Entries) /\ Len(p) = (IF a THEN 2 ELSE 1)
  <2>1. Message(m) \in Entries /\ Reply(m) \in Entries
    BY DEF Message, Reply, Entries
  <2>2. CASE a
    BY <2>1, <2>2
  <2>3. CASE ~a
    BY <2>1, <2>3
  <2> QED
    BY <2>2, <2>3
<1>1. /\ l \in Nat /\ Len(s) = l + Len(p)
      /\ \A i \in 1..l : s[i] = h[i]
      /\ \A i \in (l + 1)..(l + Len(p)) : s[i] = p[i - l]
  BY <1>0, Joined
<1>2. s[l + 1] = Message(m) /\ l + 1 \in 1..Len(s)
  <2>1. l + 1 \in (l + 1)..(l + Len(p)) /\ l + 1 - l = 1 /\ p[1] = Message(m)
    BY <1>0, <1>1
  <2> QED
    BY <1>0, <1>1, <2>1
<1>3. a => Len(s) = l + 2 /\ s[l + 2] = Reply(m)
  <2>1. a => /\ l + 2 \in (l + 1)..(l + Len(p)) /\ l + 2 - l = 2 /\ p[2] = Reply(m)
    BY <1>0, <1>1
  <2> QED
    BY <1>0, <1>1, <2>1
<1>4. ~a => Len(s) = l + 1
  BY <1>0, <1>1
<1>5. \A i \in 1..l : s[i] # Message(m) /\ s[i] # Reply(m)
  BY <1>1 DEF Tells
<1> HIDE DEF s, l
<1>6. \A i \in 1..Len(s) : i \in 1..l \/ i = l + 1 \/ (a /\ i = l + 2)
  BY <1>1, <1>3, <1>4
<1>7. \A i \in 1..Len(s) : s[i] = Message(m) => i = l + 1
  BY <1>3, <1>5, <1>6, EntriesDiffer
<1>8. \A i \in 1..Len(s) : s[i] = Reply(m) => a /\ i = l + 2
  BY <1>2, <1>5, <1>6, EntriesDiffer
<1>9. l + 1 + 1 = l + 2 /\ l + 2 - 1 = l + 1 /\ l + 1 < l + 2
  BY <1>1
<1>10. Right(m, a, s)
  BY <1>2, <1>3, <1>7, <1>8, <1>9 DEF Right
<1>11. Holds(m, s)
  BY <1>2 DEF Holds
<1> QED
  BY <1>10, <1>11 DEF s
-------------------------------------------------------------------------------
LEMMA HandledIsRecorded ==
  ASSUME Inv, HistoryInv, NEW m \in Messages, NEW a \in BOOLEAN,
         handling[m].pc \notin {"unsent", "done", "answered"},
         Go(m, IF a THEN "answered" ELSE "done"), sent' = sent,
         Add(m, IF a THEN <<Message(m), Reply(m)>> ELSE <<Message(m)>>)
  PROVE  HistoryInv'
<1> DEFINE p == IF a THEN <<Message(m), Reply(m)>> ELSE <<Message(m)>>
           c == sent[m].chat
           s == history[c] \o p
<1> USE DEF Inv, Shape, HistoryInv
<1>1. /\ c \in Chats /\ history \in [Chats -> Seq(Entries)]
      /\ history' = [history EXCEPT ![c] = Buffer!LastOf(s)]
  BY SentType DEF Sent, TypeOK, Add, Buffer!Record
<1>2. p \in Seq(Entries) /\ s \in Seq(Entries)
  <2>1. Message(m) \in Entries /\ Reply(m) \in Entries
    BY DEF Message, Reply, Entries
  <2>2. p \in Seq(Entries)
    <3>1. CASE a
      BY <2>1, <3>1
    <3>2. CASE ~a
      BY <2>1, <3>2
    <3> QED
      BY <3>1, <3>2
  <2> QED
    BY <1>1, <2>2
<1>3. /\ handling'[m].pc = IF a THEN "answered" ELSE "done"
      /\ \A n \in Messages \ {m} : handling'[n] = handling[n]
  <2>1. handling'[m] = [handling[m] EXCEPT !.pc = IF a THEN "answered" ELSE "done"]
    BY DEF Go
  <2>2. "pc" \in DOMAIN handling[m]
    BY DEF Stages, Plain, Counting, Chosen, Reacted
  <2> QED
    BY <2>1, <2>2 DEF Go
<1>4. \A n \in Messages \ {m} : ~Tells(n, p)
  BY EntriesDiffer DEF Tells
<1>5. ~Tells(m, history[c])
  BY <1>1 DEF TellsOfHandled, Handled
<1>6. Right(m, a, s) /\ Holds(m, s)
  BY <1>1, <1>5, RecordedIsRight
<1> HIDE DEF p, c
<1>7. \A n \in Messages \ {m}, b \in BOOLEAN :
        /\ Right(n, b, history[c]) => Right(n, b, s)
        /\ Tells(n, s) => Tells(n, history[c])
        /\ Holds(n, history[c]) => Holds(n, s)
  BY <1>1, <1>2, <1>4, OthersKeep
<1>9. Len(s) < WindowSize => Len(history[c]) < WindowSize
  <2>1. Len(s) = Len(history[c]) + Len(p)
    BY <1>1, <1>2, Joined
  <2>2. Len(s) \in Nat /\ Len(history[c]) \in Nat /\ Len(p) \in Nat
    BY <1>1, <1>2
  <2> HIDE DEF s
  <2> QED
    BY <2>1, <2>2, BullingAssumption
<1> HIDE DEF s
<1>8. \A n \in Messages, b \in BOOLEAN :
        /\ Right(n, b, s) => Right(n, b, Buffer!LastOf(s))
        /\ Tells(n, Buffer!LastOf(s)) => Tells(n, s)
        /\ Len(Buffer!LastOf(s)) < WindowSize => Buffer!LastOf(s) = s
  BY <1>2, LastOfKeeps
<1>10. TellsOfHandled'
  <2> SUFFICES ASSUME NEW n \in Messages, NEW d \in Chats, Tells(n, history'[d])
               PROVE  Handled(n)' /\ sent[n].chat = d
    BY DEF TellsOfHandled
  <2>1. CASE d # c
    <3>1. Handled(n) /\ sent[n].chat = d
      BY <1>1, <2>1 DEF TellsOfHandled
    <3> QED
      BY <1>3, <3>1 DEF Handled
  <2>2. CASE d = c
    <3>1. n = m \/ Tells(n, history[c])
      BY <1>1, <1>7, <1>8, <2>2
    <3>2. CASE n = m
      BY <1>3, <2>2, <3>2 DEF Handled, c
    <3>3. CASE n # m
      <4>1. Handled(n) /\ sent[n].chat = c
        BY <1>1, <3>1, <3>3 DEF TellsOfHandled
      <4> QED
        BY <1>3, <2>2, <3>3, <4>1 DEF Handled
    <3> QED
      BY <3>2, <3>3
  <2> QED
    BY <2>1, <2>2
<1>11. Complete'
  <2> SUFFICES ASSUME NEW n \in Messages, Handled(n)'
               PROVE  /\ Right(n, At(n, "answered")', history'[sent[n].chat])
                      /\ Len(history'[sent[n].chat]) < WindowSize =>
                            Holds(n, history'[sent[n].chat])
    BY DEF Complete
  <2>1. CASE n = m
    <3>1. history'[sent[n].chat] = Buffer!LastOf(s)
      BY <1>1, <2>1 DEF c
    <3>2. At(n, "answered")' = a
      <4>1. At(n, "answered")' = (handling'[m].pc = "answered")
        BY <2>1 DEF At
      <4>2. CASE a
        BY <1>3, <4>1, <4>2
      <4>3. CASE ~a
        BY <1>3, <4>1, <4>3
      <4> QED
        BY <4>2, <4>3
    <3> QED
      BY <1>6, <1>8, <2>1, <3>1, <3>2
  <2>2. CASE n # m
    <3>1. handling'[n] = handling[n] /\ Handled(n) /\ At(n, "answered") \in BOOLEAN
      BY <1>3, <2>2 DEF Handled, At
    <3>2. /\ Right(n, At(n, "answered"), history[sent[n].chat])
          /\ Len(history[sent[n].chat]) < WindowSize => Holds(n, history[sent[n].chat])
      BY <3>1 DEF Complete
    <3>3. sent[n].chat \in Chats
      BY <3>1, SentType DEF Handled, Sent
    <3>4. CASE sent[n].chat # c
      BY <1>1, <3>1, <3>2, <3>3, <3>4 DEF At
    <3>5. CASE sent[n].chat = c
      <4>1. history'[sent[n].chat] = Buffer!LastOf(s)
        BY <1>1, <3>5
      <4>2. Right(n, At(n, "answered"), Buffer!LastOf(s))
        BY <1>7, <1>8, <2>2, <3>1, <3>2, <3>5
      <4>3. Len(Buffer!LastOf(s)) < WindowSize => Holds(n, Buffer!LastOf(s))
        BY <1>7, <1>8, <1>9, <2>2, <3>1, <3>2, <3>5
      <4> QED
        BY <3>1, <4>1, <4>2, <4>3 DEF At
    <3> QED
      BY <3>4, <3>5
  <2> QED
    BY <2>1, <2>2
<1> QED
  BY <1>10, <1>11

(* Whoever goes on without recording leaves the histories alone. *)
LEMMA OthersKeepHistory ==
  ASSUME Inv, HistoryInv, [Next]_vars, history' = history,
         \A n \in Messages : Handled(n) \/ Handled(n)' => handling'[n] = handling[n]
  PROVE  HistoryInv'
<1>1. \A n \in Messages : Handled(n) => Handled(n)' /\ sent'[n] = sent[n]
  BY MessagesStay DEF Handled
<1>2. \A n \in Messages : Handled(n)' => Handled(n) /\ At(n, "answered")' = At(n, "answered")
  BY DEF Handled, At
<1>3. TellsOfHandled'
  BY <1>1 DEF HistoryInv, TellsOfHandled
<1>4. Complete'
  <2> SUFFICES ASSUME NEW n \in Messages, Handled(n)'
               PROVE  /\ Right(n, At(n, "answered")', history'[sent'[n].chat])
                      /\ Len(history'[sent'[n].chat]) < WindowSize =>
                            Holds(n, history'[sent'[n].chat])
    BY DEF Complete
  <2> QED
    BY <1>1, <1>2 DEF HistoryInv, Complete
<1> QED
  BY <1>3, <1>4 DEF HistoryInv

LEMMA StepKeepsHistory == Inv /\ HistoryInv /\ [Next]_vars => HistoryInv'
<1> SUFFICES ASSUME Inv, HistoryInv, [Next]_vars PROVE HistoryInv'
  OBVIOUS
<1> DEFINE Quiet ==
      /\ history' = history
      /\ \A n \in Messages : Handled(n) \/ Handled(n)' => handling'[n] = handling[n]
<1>1. CASE Tick \/ UNCHANGED vars
  BY <1>1, OthersKeepHistory DEF Tick, vars
<1>2. ASSUME NEW m \in Messages, NEW c \in Chats, NEW u \in Users,
             NEW addressed \in BOOLEAN, Arrive(m, c, u, addressed)
      PROVE  HistoryInv'
  <2>1. handling[m].pc = "unsent" /\ handling'[m] = [handling[m] EXCEPT !.pc = "settings"]
    BY <1>2 DEF Arrive, At, Go, Inv, Shape
  <2>2. handling'[m].pc = "settings"
    BY <2>1 DEF Inv, Shape, Stages, Plain, Counting, Chosen, Reacted
  <2>3. Quiet
    BY <1>2, <2>1, <2>2 DEF Arrive, Go, Handled, Inv, Shape
  <2> QED
    BY <2>3, OthersKeepHistory
<1>3. ASSUME NEW m \in Messages, Skip(m) \/ RecordUnanswered(m)
      PROVE  HistoryInv'
  <2>1. /\ handling[m].pc \notin {"unsent", "done", "answered"}
        /\ Go(m, IF FALSE THEN "answered" ELSE "done") /\ sent' = sent
        /\ Add(m, IF FALSE THEN <<Message(m), Reply(m)>> ELSE <<Message(m)>>)
    BY <1>3 DEF Skip, RecordUnanswered, At
  <2> QED
    BY <2>1, HandledIsRecorded
<1>4. ASSUME NEW m \in Messages, RecordExchange(m)
      PROVE  HistoryInv'
  <2>1. /\ handling[m].pc \notin {"unsent", "done", "answered"}
        /\ Go(m, IF TRUE THEN "answered" ELSE "done") /\ sent' = sent
        /\ Add(m, IF TRUE THEN <<Message(m), Reply(m)>> ELSE <<Message(m)>>)
    BY <1>4 DEF RecordExchange, At
  <2> QED
    BY <2>1, HandledIsRecorded
<1>5. ASSUME NEW m \in Messages,
             ReadSettings(m) \/ Notify(m) \/ SendReply(m)
      PROVE  HistoryInv'
  <2>1. PICK pc \in {"cooldown", "dropped", "reply", "sent", "unanswered"} : Go(m, pc)
    BY <1>5 DEF ReadSettings, Notify, SendReply
  <2>2. handling'[m] = [handling[m] EXCEPT !.pc = pc] /\ "pc" \in DOMAIN handling[m]
    BY <2>1 DEF Go, Inv, Shape, Stages, Plain, Counting, Chosen, Reacted
  <2>3. ~Handled(m)' /\ ~Handled(m)
    BY <1>5, <2>2 DEF Handled, ReadSettings, Notify, SendReply, At
  <2>4. Quiet
    BY <1>5, <2>1, <2>3 DEF ReadSettings, Notify, SendReply, Go
  <2> QED
    BY <2>4, OthersKeepHistory
<1>6. ASSUME NEW m \in Messages,
             CheckCooldown(m) \/ CountMessage(m) \/ SetCooldown(m)
      PROVE  HistoryInv'
  <2>1. ~Handled(m)' /\ ~Handled(m)
    <3>1. handling'[m].pc \in {"count", "react", "skip", "notify"}
      BY <1>6 DEF CheckCooldown, CountMessage, SetCooldown, Inv, Shape
    <3> QED
      BY <1>6, <3>1 DEF Handled, CheckCooldown, CountMessage, SetCooldown, At
  <2>2. Quiet
    BY <1>6, <2>1 DEF CheckCooldown, CountMessage, SetCooldown, Inv, Shape
  <2> QED
    BY <2>2, OthersKeepHistory
<1> QED
  BY <1>1, <1>2, <1>3, <1>4, <1>5, <1>6 DEF Next, Handle

LEMMA AlwaysHistoryInv == Spec => []HistoryInv
<1>1. Init => HistoryInv
  BY DEF Init, HistoryInv, Complete, TellsOfHandled, Tells, Handled, Unsent
<1> QED
  BY <1>1, AlwaysInv, StepKeepsHistory, PTL DEF Spec

(* A message that was handled is in its chat's history once, its reply     *)
(* behind it, for every window size: as long as the window is not full it  *)
(* has everything, and what it loses then it loses from its beginning.     *)
(* The handlers of one chat record their exchanges in any order            *)
(* (Handler.Handle, history.Add).                                          *)
THEOREM HistoryStaysComplete == Spec => []HistoryIsComplete
<1>1. HistoryInv => HistoryIsComplete
  BY DEF HistoryInv, Complete, Handled, Right, Holds, HistoryIsComplete
<1> QED
  BY <1>1, AlwaysHistoryInv, PTL
===============================================================================
