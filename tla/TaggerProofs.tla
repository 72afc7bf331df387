----------------------------- MODULE TaggerProofs -----------------------------
(***************************************************************************)
(* Proofs about the tagger for any chats, users, number of handler         *)
(* goroutines and faults: its jobs, its members against Telegram's events, *)
(* and the registry that keeps the members over their table.               *)
(***************************************************************************)
EXTENDS TaggerTelegram, TaggerUsers, FiniteSetTheorems, SequenceTheorems, TLAPS

(* Fresh finds a number that nobody holds: 0..Cardinality(S) has one more  *)
(* element than S.                                                         *)
LEMMA FreshIsFresh ==
  ASSUME NEW S, IsFiniteSet(S)
  PROVE  Fresh(S) \in Nat /\ Fresh(S) \notin S
<1>1. Cardinality(S) \in Nat
  BY FS_CardinalityType
<1>2. /\ IsFiniteSet(0..Cardinality(S))
      /\ Cardinality(0..Cardinality(S)) = Cardinality(S) + 1
  BY <1>1, FS_Interval
<1>3. ~(0..Cardinality(S) \subseteq S)
  BY <1>1, <1>2, FS_Subset
<1>4. PICK n \in 0..Cardinality(S) : n \notin S
  BY <1>3
<1> QED
  BY <1>1, <1>4 DEF Fresh

LEMMA SnapshotStampsFinite ==
  ASSUME NEW c, NEW field \in {"present", "removed"}
  PROVE  IsFiniteSet({e[field] : e \in Snapshots(c)})
<1> DEFINE A == {t \in Slots : slots[t].pc \in Checking /\ slots[t].chat = c}
           f == [s \in A |-> slots[s].epoch[field]]
           T == {f[s] : s \in A}
<1>1. IsFiniteSet(A)
  BY FS_Subset, SlotsAssumption
<1>2. f \in Surjection(A, T)
  BY DEF Surjection
<1>3. IsFiniteSet(T)
  <2> HIDE DEF f, T
  <2> QED BY <1>1, <1>2, FS_Surjection
<1>4. IsFiniteSet(T \cup {attempt.epoch[field]})
  BY <1>3, FS_AddElement
<1>5. {e[field] : e \in Snapshots(c)} \subseteq T \cup {attempt.epoch[field]}
  BY DEF Snapshots
<1> HIDE DEF T
<1> QED
  BY <1>4, <1>5, FS_Subset
-------------------------------------------------------------------------------
(* What the sender holds is a job with a token, and never gives it up      *)
(* except at its start and its end.                                        *)
TokenOK == attempt.pc # "idle" => attempt.token # NoJob
Inv == TypeOK /\ OneJobPerChat /\ TokenOK

SameJob ==
  /\ attempt'.pc = "idle" <=> attempt.pc = "idle"
  /\ attempt.pc # "idle" => attempt'.chat = attempt.chat /\ attempt'.token = attempt.token

LEMMA TaskFields ==
  ASSUME NEW t \in Tasks
  PROVE  /\ t.pc \in {"idle", "adding", "observe"} \cup Checking
         /\ t.pc = "idle" <=> t = Idle
         /\ t.pc \in Checking => t.chat \in Chats /\ t.user \in Users /\ t.epoch \in Epochs
         /\ t.pc = "observe" => t.chat \in Chats /\ t.user \in Users
         /\ t.pc = "adding" =>
              t.chat \in Chats /\ t.todo \in SUBSET Users /\ t.user \in Users \cup {NoUser}
BY DEF Tasks, Idle, Checking

LEMMA AttemptFields ==
  ASSUME NEW a \in Attempts
  PROVE  /\ a.pc \in {"idle", "select", "finish"} \cup Targeted
         /\ a.pc = "idle" <=> a = Idle
         /\ a.pc # "idle" => a.chat \in Chats /\ a.token \in Nat
         /\ a.pc \in Targeted => a.user \in Users /\ a.epoch \in Epochs
BY DEF Attempts, Idle, Targeted

(* The tokens of one chat are few, so a new one can be found. *)
LEMMA NewTokenIsNew ==
  ASSUME Inv, NEW c \in Chats
  PROVE  /\ NewToken(c) \in Nat \ {NoJob}
         /\ \A j \in queue : j.chat = c => j.token # NewToken(c)
         /\ attempt.pc # "idle" /\ attempt.chat = c => attempt.token # NewToken(c)
<1>1. LiveTokens(c) \subseteq {NoJob, jobs[c], attempt.token}
  BY DEF Inv, OneJobPerChat, LiveTokens
<1>2. IsFiniteSet({NoJob, jobs[c], attempt.token})
  <2>1. IsFiniteSet({} \cup {NoJob})
    BY FS_EmptySet, FS_AddElement
  <2>2. IsFiniteSet(({} \cup {NoJob}) \cup {jobs[c]})
    BY <2>1, FS_AddElement
  <2>3. IsFiniteSet((({} \cup {NoJob}) \cup {jobs[c]}) \cup {attempt.token})
    BY <2>2, FS_AddElement
  <2>4. (({} \cup {NoJob}) \cup {jobs[c]}) \cup {attempt.token} = {NoJob, jobs[c], attempt.token}
    OBVIOUS
  <2> QED
    BY <2>3, <2>4
<1>3. IsFiniteSet(LiveTokens(c))
  BY <1>1, <1>2, FS_Subset
<1>4. NewToken(c) \in Nat /\ NewToken(c) \notin LiveTokens(c)
  BY <1>3, FreshIsFresh DEF NewToken
<1> QED
  BY <1>4 DEF LiveTokens

(* MarkPresent and MarkRemoved keep the type and leave every snapshot of   *)
(* the chat behind.                                                        *)
LEMMA MarkPresentMarks ==
  ASSUME TypeOK, NEW c \in Chats, MarkPresent(c)
  PROVE  /\ epochs' \in [Chats -> Epochs]
         /\ \A d \in Chats : epochs'[d].removed = epochs[d].removed
         /\ \A d \in Chats \ {c} : epochs'[d] = epochs[d]
         /\ \A e \in Snapshots(c) : epochs'[c].present # e.present
<1> DEFINE S == {e.present : e \in Snapshots(c)}
<1>1. Fresh(S) \in Nat /\ Fresh(S) \notin S
  <2>1. IsFiniteSet({e["present"] : e \in Snapshots(c)})
    BY SnapshotStampsFinite
  <2> QED
    BY <2>1, FreshIsFresh
<1>2. epochs' = [epochs EXCEPT ![c].present = Fresh(S)]
  BY DEF MarkPresent
<1>3. epochs \in [Chats -> Epochs]
  BY DEF TypeOK
<1>4. \A e \in Snapshots(c) : Fresh(S) # e.present
  BY <1>1
<1> HIDE DEF S
<1> QED
  BY <1>1, <1>2, <1>3, <1>4 DEF Epochs

LEMMA MarkRemovedMarks ==
  ASSUME TypeOK, NEW c \in Chats, MarkRemoved(c)
  PROVE  /\ epochs' \in [Chats -> Epochs]
         /\ \A d \in Chats : epochs'[d].present = epochs[d].present
         /\ \A d \in Chats \ {c} : epochs'[d] = epochs[d]
         /\ \A e \in Snapshots(c) : epochs'[c].removed # e.removed
<1> DEFINE S == {e.removed : e \in Snapshots(c)}
<1>1. Fresh(S) \in Nat /\ Fresh(S) \notin S
  <2>1. IsFiniteSet({e["removed"] : e \in Snapshots(c)})
    BY SnapshotStampsFinite
  <2> QED
    BY <2>1, FreshIsFresh
<1>2. epochs' = [epochs EXCEPT ![c].removed = Fresh(S)]
  BY DEF MarkRemoved
<1>3. epochs \in [Chats -> Epochs]
  BY DEF TypeOK
<1>4. \A e \in Snapshots(c) : Fresh(S) # e.removed
  BY <1>1
<1> HIDE DEF S
<1> QED
  BY <1>1, <1>2, <1>3, <1>4 DEF Epochs
-------------------------------------------------------------------------------
TaggerTypeOK ==
  /\ known \in [Chats -> SUBSET (Users \ Bots)]
  /\ jobs \in [Chats -> Nat]
  /\ queue \in SUBSET [chat : Chats, token : Nat]
  /\ epochs \in [Chats -> Epochs]

LEMMA AddUserKeepsJobs ==
  ASSUME Inv, SameJob, NEW c \in Chats, NEW u \in Users, NEW ok \in BOOLEAN,
         AddUserLocked(c, u, ok)
  PROVE  TaggerTypeOK' /\ OneJobPerChat'
<1> USE DEF TaggerTypeOK, NoJob
<1>1. CASE UNCHANGED tagger
  <2>1. TaggerTypeOK'
    BY <1>1 DEF Inv, TypeOK, tagger
  <2>2. OneJobPerChat'
    BY <1>1 DEF Inv, OneJobPerChat, SameJob, tagger, JobCurrent, Job
  <2> QED
    BY <2>1, <2>2
<1>2. CASE /\ u \notin Bots /\ MarkPresent(c)
           /\ UNCHANGED <<known, jobs, queue>>
  <2>1. TaggerTypeOK'
    BY <1>2, MarkPresentMarks DEF Inv, TypeOK
  <2>2. OneJobPerChat'
    BY <1>2 DEF Inv, OneJobPerChat, SameJob, JobCurrent, Job
  <2> QED
    BY <2>1, <2>2
<1>3. CASE /\ u \notin Bots /\ MarkPresent(c)
           /\ known' = [known EXCEPT ![c] = @ \cup {u}]
           /\ ScheduleLocked(c)
  <2>1. known' \in [Chats -> SUBSET (Users \ Bots)] /\ epochs' \in [Chats -> Epochs]
    BY <1>3, MarkPresentMarks DEF Inv, TypeOK
  <2>2. known'[c] # {} /\ \A d \in Chats \ {c} : known'[d] = known[d]
    BY <1>3 DEF Inv, TypeOK
  <2>3. CASE jobs[c] # NoJob /\ UNCHANGED <<jobs, queue>>
    <3>1. jobs' \in [Chats -> Nat] /\ queue' \in SUBSET [chat : Chats, token : Nat]
      BY <2>3 DEF Inv, TypeOK
    <3>2. OneJobPerChat'
      BY <2>2, <2>3 DEF Inv, OneJobPerChat, SameJob, JobCurrent, Job
    <3> QED
      BY <2>1, <3>1, <3>2
  <2>4. CASE /\ jobs[c] = NoJob
             /\ jobs' = [jobs EXCEPT ![c] = NewToken(c)]
             /\ queue' = queue \cup {Job(c, NewToken(c))}
    <3> DEFINE t == NewToken(c)
    <3>1. /\ t \in Nat \ {NoJob}
          /\ attempt.pc # "idle" /\ attempt.chat = c => attempt.token # t
      BY NewTokenIsNew
    <3>2. jobs' \in [Chats -> Nat] /\ jobs'[c] = t /\ \A d \in Chats \ {c} : jobs'[d] = jobs[d]
      BY <2>4, <3>1 DEF Inv, TypeOK
    <3>3. queue' = queue \cup {[chat |-> c, token |-> t]}
      BY <2>4 DEF Job
    <3>4. queue' \in SUBSET [chat : Chats, token : Nat]
      BY <3>1, <3>3 DEF Inv, TypeOK
    <3>5. \A j \in queue : j.chat # c
      BY <2>4 DEF Inv, OneJobPerChat
    <3>6. attempt.pc # "idle" => attempt.chat \in Chats
      BY AttemptFields DEF Inv, TypeOK
    <3> HIDE DEF t
    <3>7. OneJobPerChat'
      BY <2>2, <3>1, <3>2, <3>3, <3>5, <3>6 DEF Inv, TypeOK, OneJobPerChat, SameJob, JobCurrent, Job
    <3> QED
      BY <2>1, <3>2, <3>4, <3>7
  <2> QED
    BY <1>3, <2>2, <2>3, <2>4 DEF ScheduleLocked
<1> QED
  BY <1>1, <1>2, <1>3 DEF AddUserLocked

LEMMA UnscheduleKeepsJobs ==
  ASSUME Inv, SameJob, NEW c \in Chats,
         known' \in [Chats -> SUBSET (Users \ Bots)], known'[c] = {},
         \A d \in Chats \ {c} : known'[d] = known[d],
         UnscheduleLocked(c)
  PROVE  /\ jobs' \in [Chats -> Nat] /\ jobs'[c] = NoJob
         /\ queue' \in SUBSET [chat : Chats, token : Nat]
         /\ OneJobPerChat'
<1>1. /\ jobs' \in [Chats -> Nat] /\ jobs'[c] = NoJob
      /\ \A d \in Chats \ {c} : jobs'[d] = jobs[d]
  BY DEF UnscheduleLocked, Inv, TypeOK, NoJob
<1>2. queue' \subseteq queue /\ \A j \in queue : j \in queue' <=> j.chat # c
  BY DEF UnscheduleLocked, Inv, TypeOK, OneJobPerChat
<1>3. attempt.pc # "idle" => attempt.chat \in Chats
  BY AttemptFields DEF Inv, TypeOK
<1>4. OneJobPerChat'
  BY <1>1, <1>2, <1>3 DEF Inv, TypeOK, TokenOK, OneJobPerChat, SameJob, JobCurrent, Job
<1> QED
  BY <1>1, <1>2, <1>4 DEF Inv, TypeOK

LEMMA RemoveUserKeepsJobs ==
  ASSUME Inv, SameJob, NEW c \in Chats, NEW u \in Users, NEW ok \in BOOLEAN,
         RemoveUserLocked(c, u, ok)
  PROVE  /\ TaggerTypeOK' /\ OneJobPerChat'
         /\ known'[c] = {} => jobs'[c] = NoJob
<1> USE DEF TaggerTypeOK
<1>1. epochs' \in [Chats -> Epochs]
  BY MarkRemovedMarks DEF RemoveUserLocked, Inv
<1>2. CASE UNCHANGED <<known, jobs, queue>>
  <2>1. TaggerTypeOK'
    BY <1>1, <1>2 DEF Inv, TypeOK
  <2>2. OneJobPerChat'
    BY <1>2 DEF Inv, OneJobPerChat, SameJob, JobCurrent, Job
  <2> QED
    BY <2>1, <2>2 DEF OneJobPerChat
<1>3. CASE known' = [known EXCEPT ![c] = @ \ {u}] /\ known'[c] = {} /\ UnscheduleLocked(c)
  <2>1. /\ known' \in [Chats -> SUBSET (Users \ Bots)]
        /\ \A d \in Chats \ {c} : known'[d] = known[d]
    BY <1>3 DEF Inv, TypeOK
  <2> QED
    BY <1>1, <1>3, <2>1, UnscheduleKeepsJobs
<1>4. CASE /\ known' = [known EXCEPT ![c] = @ \ {u}] /\ known'[c] # {}
           /\ UNCHANGED <<jobs, queue>>
  <2>1. /\ known' \in [Chats -> SUBSET (Users \ Bots)]
        /\ \A d \in Chats : known'[d] = {} <=> known[d] = {}
    BY <1>4 DEF Inv, TypeOK
  <2>2. TaggerTypeOK'
    BY <1>1, <1>4, <2>1 DEF Inv, TypeOK
  <2>3. OneJobPerChat'
    BY <1>4, <2>1 DEF Inv, OneJobPerChat, SameJob, JobCurrent, Job
  <2> QED
    BY <1>4, <2>2, <2>3
<1> QED
  BY <1>2, <1>3, <1>4 DEF RemoveUserLocked

LEMMA ForgetChatKeepsJobs ==
  ASSUME Inv, SameJob, NEW c \in Chats, NEW ok \in BOOLEAN, ForgetChat(c, ok)
  PROVE  /\ TaggerTypeOK' /\ OneJobPerChat'
         /\ known'[c] = {} => jobs'[c] = NoJob
<1> USE DEF TaggerTypeOK
<1>1. epochs' \in [Chats -> Epochs]
  BY MarkRemovedMarks DEF ForgetChat, Inv
<1>2. CASE UNCHANGED <<known, jobs, queue>>
  <2>1. TaggerTypeOK'
    BY <1>1, <1>2 DEF Inv, TypeOK
  <2>2. OneJobPerChat'
    BY <1>2 DEF Inv, OneJobPerChat, SameJob, JobCurrent, Job
  <2> QED
    BY <2>1, <2>2 DEF OneJobPerChat
<1>3. CASE known' = [known EXCEPT ![c] = {}] /\ UnscheduleLocked(c)
  <2>1. /\ known' \in [Chats -> SUBSET (Users \ Bots)] /\ known'[c] = {}
        /\ \A d \in Chats \ {c} : known'[d] = known[d]
    BY <1>3 DEF Inv, TypeOK
  <2> QED
    BY <1>1, <2>1, <1>3, UnscheduleKeepsJobs
<1> QED
  BY <1>2, <1>3 DEF ForgetChat
-------------------------------------------------------------------------------
RestTypeOK ==
  /\ slots \in [Slots -> Tasks]
  /\ attempt \in Attempts
  /\ outlived \in SUBSET (Slots \cup {Sender})

LEMMA RunningOnType ==
  ASSUME NEW c
  PROVE  RunningOn(c) \subseteq Slots \cup {Sender}
BY DEF RunningOn

(* A step that leaves the registry, the jobs, the queue and the epochs     *)
(* alone and keeps the sender's hold on its job.                           *)
LEMMA QuietStepKeepsJobs ==
  ASSUME Inv, SameJob, UNCHANGED tagger
  PROVE  TaggerTypeOK' /\ OneJobPerChat'
<1>1. TaggerTypeOK'
  BY DEF TaggerTypeOK, Inv, TypeOK, tagger
<1>2. OneJobPerChat'
  BY DEF Inv, OneJobPerChat, SameJob, tagger, JobCurrent, Job
<1> QED
  BY <1>1, <1>2

LEMMA InitInv == Init => Inv
<1> SUFFICES ASSUME Init PROVE Inv
  OBVIOUS
<1> USE DEF Init, NoJob, Idle, NoNews
<1>1. TypeOK
  BY DEF TypeOK, Epochs, Tasks, Attempts
<1>2. OneJobPerChat /\ TokenOK
  BY DEF OneJobPerChat, TokenOK
<1> QED
  BY <1>1, <1>2 DEF Inv

LEMMA ThenObserveType ==
  ASSUME NEW c \in Chats, NEW u \in Users \cup {NoUser}
  PROVE  ThenObserve(c, u) \in Tasks
BY DEF ThenObserve, Tasks, Idle

LEMMA AfterOneType ==
  ASSUME NEW c \in Chats, NEW u, NEW todo \in SUBSET Users, NEW v \in Users \cup {NoUser}
  PROVE  AfterOne(c, u, todo, v) \in Tasks
<1>1. [pc |-> "adding", chat |-> c, todo |-> todo \ {u}, user |-> v] \in Tasks
  BY DEF Tasks
<1> QED
  BY <1>1, ThenObserveType DEF AfterOne

LEMMA OccupyType ==
  ASSUME slots \in [Slots -> Tasks], NEW t \in Tasks, Occupy(t)
  PROVE  slots' \in [Slots -> Tasks]
BY DEF Occupy

(* One case per handler: the jobs by the lemma about the section it runs,  *)
(* the rest by its own assignments.                                        *)
LEMMA EventsKeepInv ==
  ASSUME Inv, NEW c \in Chats, Events(c) \/ HandleBotRemoved(c)
  PROVE  Inv'
<1>1. attempt' = attempt
  BY DEF Events, HandleBotRemoved, HandleMessage, HandleLeft, HandleJoin
<1>2. SameJob /\ TokenOK'
  BY <1>1 DEF SameJob, Inv, TokenOK
<1>3. slots \in [Slots -> Tasks] /\ attempt' \in Attempts
      /\ outlived \in SUBSET (Slots \cup {Sender}) /\ epochs \in [Chats -> Epochs]
  BY <1>1 DEF Inv, TypeOK
<1>4. ASSUME TaggerTypeOK', OneJobPerChat', slots' \in [Slots -> Tasks],
             outlived' \in SUBSET (Slots \cup {Sender})
      PROVE  Inv'
  BY <1>2, <1>3, <1>4 DEF Inv, TypeOK, TaggerTypeOK
<1>5. ASSUME NEW u \in Users, NEW s \in Slots, HandleMessage(s, c, u)
      PROVE  Inv'
  <2>1. [pc |-> "asked", chat |-> c, user |-> u, epoch |-> epochs[c]] \in Tasks
    BY <1>3 DEF Tasks, Checking
  <2>2. slots' \in [Slots -> Tasks] /\ outlived' = outlived /\ UNCHANGED tagger
    BY <1>3, <1>5, <2>1 DEF HandleMessage, tagger
  <2> QED
    BY <1>2, <1>3, <1>4, <2>2, QuietStepKeepsJobs
<1>6. ASSUME NEW u \in Users, NEW v \in Users \cup {NoUser}, HandleLeft(c, u, v)
      PROVE  Inv'
  <2>1. PICK ok \in BOOLEAN : RemoveUserLocked(c, u, ok)
    BY <1>6 DEF HandleLeft, StoreOutcomes
  <2>2. TaggerTypeOK' /\ OneJobPerChat'
    BY <1>2, <2>1, RemoveUserKeepsJobs
  <2>3. slots' \in [Slots -> Tasks]
    <3>1. (IF v = u THEN Idle ELSE ThenObserve(c, v)) \in Tasks
      BY ThenObserveType DEF Tasks
    <3> QED
      BY <1>3, <1>6, <3>1, OccupyType DEF HandleLeft
  <2>4. outlived' \in SUBSET (Slots \cup {Sender})
    BY <1>3, <1>6, RunningOnType DEF HandleLeft, Outliving
  <2> QED
    BY <1>4, <2>2, <2>3, <2>4
<1>7. ASSUME NEW u \in Users, NEW joined \in SUBSET Users, NEW w \in Users \cup {NoUser},
             HandleJoin(c, joined, w, u)
      PROVE  Inv'
  <2>1. PICK ok \in BOOLEAN : AddUserLocked(c, u, ok)
    BY <1>7 DEF HandleJoin, StoreOutcomes
  <2>2. TaggerTypeOK' /\ OneJobPerChat'
    BY <1>2, <2>1, AddUserKeepsJobs
  <2>3. slots' \in [Slots -> Tasks]
    <3>1. AfterOne(c, u, joined, IF w \in joined THEN NoUser ELSE w) \in Tasks
      BY AfterOneType
    <3> QED
      BY <1>3, <1>7, <3>1, OccupyType DEF HandleJoin
  <2> QED
    BY <1>3, <1>4, <1>7, <2>2, <2>3 DEF HandleJoin
<1>8. CASE HandleBotRemoved(c)
  <2>1. PICK ok \in BOOLEAN : ForgetChat(c, ok)
    BY <1>8 DEF HandleBotRemoved, StoreOutcomes
  <2>2. TaggerTypeOK' /\ OneJobPerChat'
    BY <1>2, <2>1, ForgetChatKeepsJobs
  <2>3. outlived' \in SUBSET (Slots \cup {Sender})
    BY <1>3, <1>8, RunningOnType DEF HandleBotRemoved, Outliving
  <2> QED
    BY <1>3, <1>4, <1>8, <2>2, <2>3 DEF HandleBotRemoved
<1> QED
  BY <1>5, <1>6, <1>7, <1>8 DEF Events

LEMMA ObservationKeepsInv ==
  ASSUME Inv, NEW s \in Slots, Observation(s)
  PROVE  Inv'
<1> DEFINE t == slots[s]
<1>1. attempt' = attempt
  BY DEF Observation, BeginObserve, ObserveFinish, MemberAnswers, AddJoined
<1>2. SameJob /\ TokenOK'
  BY <1>1 DEF SameJob, Inv, TokenOK
<1>3. /\ slots \in [Slots -> Tasks] /\ attempt' \in Attempts /\ t \in Tasks
      /\ outlived \in SUBSET (Slots \cup {Sender}) /\ epochs \in [Chats -> Epochs]
  BY <1>1 DEF Inv, TypeOK
<1>4. ASSUME TaggerTypeOK', OneJobPerChat', slots' \in [Slots -> Tasks],
             outlived' \in SUBSET (Slots \cup {Sender})
      PROVE  Inv'
  BY <1>2, <1>3, <1>4 DEF Inv, TypeOK, TaggerTypeOK
<1>5. CASE BeginObserve(s)
  <2>1. t.chat \in Chats /\ t.user \in Users
    BY <1>3, <1>5, TaskFields DEF BeginObserve
  <2>2. [pc |-> "asked", chat |-> t.chat, user |-> t.user, epoch |-> epochs[t.chat]] \in Tasks
    BY <1>3, <2>1 DEF Tasks, Checking
  <2>3. slots' \in [Slots -> Tasks] /\ outlived' = outlived /\ UNCHANGED tagger
    BY <1>3, <1>5, <2>2 DEF BeginObserve, tagger
  <2> QED
    BY <1>2, <1>3, <1>4, <2>3, QuietStepKeepsJobs
<1>6. ASSUME NEW v \in Verdicts, MemberAnswers(s, v)
      PROVE  Inv'
  <2>1. t.chat \in Chats /\ t.user \in Users /\ t.epoch \in Epochs
        /\ t \in [pc : Checking, chat : Chats, user : Users, epoch : Epochs]
    BY <1>3, <1>6, TaskFields DEF MemberAnswers, Checking, Tasks, Idle
  <2>2. v \in {"present", "gone", "unknown"}
    BY DEF Verdicts, MembershipOf
  <2>3. v # "unknown" => [t EXCEPT !.pc = v] \in Tasks
    BY <2>1, <2>2 DEF Tasks, Checking
  <2>4. Idle \in Tasks
    BY DEF Tasks
  <2>5. slots' \in [Slots -> Tasks] /\ outlived' \subseteq outlived /\ UNCHANGED tagger
    BY <1>3, <1>6, <2>3, <2>4 DEF MemberAnswers, tagger
  <2> QED
    BY <1>2, <1>3, <1>4, <2>5, QuietStepKeepsJobs
<1>7. CASE ObserveFinish(s)
  <2>1. t.chat \in Chats /\ t.user \in Users /\ t.epoch \in Epochs
    BY <1>3, <1>7, TaskFields DEF ObserveFinish, Checking
  <2>2. slots' \in [Slots -> Tasks]
    BY <1>3, <1>7 DEF ObserveFinish, Tasks
  <2>3. CASE UNCHANGED tagger /\ outlived' = outlived \ {s}
    BY <1>2, <1>3, <1>4, <2>2, <2>3, QuietStepKeepsJobs
  <2>4. ASSUME NEW ok \in BOOLEAN, AddUserLocked(t.chat, t.user, ok), outlived' = outlived \ {s}
        PROVE  Inv'
    BY <1>2, <1>3, <1>4, <2>1, <2>2, <2>4, AddUserKeepsJobs
  <2>5. ASSUME NEW ok \in BOOLEAN, RemoveUserLocked(t.chat, t.user, ok),
               outlived' = Outliving(t.chat) \ {s}
        PROVE  Inv'
    <3>1. TaggerTypeOK' /\ OneJobPerChat'
      BY <1>2, <2>1, <2>5, RemoveUserKeepsJobs
    <3>2. outlived' \in SUBSET (Slots \cup {Sender})
      BY <1>3, <2>5, RunningOnType DEF Outliving
    <3> QED
      BY <1>4, <2>2, <3>1, <3>2
  <2> QED
    BY <1>7, <2>3, <2>4, <2>5 DEF ObserveFinish, StoreOutcomes
<1>8. ASSUME NEW u \in Users, AddJoined(s, u)
      PROVE  Inv'
  <2>1. t.chat \in Chats /\ t.todo \in SUBSET Users /\ t.user \in Users \cup {NoUser}
    BY <1>3, <1>8, TaskFields DEF AddJoined
  <2>2. PICK ok \in BOOLEAN : AddUserLocked(t.chat, u, ok)
    BY <1>8 DEF AddJoined, StoreOutcomes
  <2>3. TaggerTypeOK' /\ OneJobPerChat'
    BY <1>2, <2>1, <2>2, AddUserKeepsJobs
  <2>4. AfterOne(t.chat, u, t.todo, t.user) \in Tasks
    BY <2>1, AfterOneType
  <2>5. slots' \in [Slots -> Tasks] /\ outlived' = outlived
    BY <1>3, <1>8, <2>4 DEF AddJoined
  <2> QED
    BY <1>3, <1>4, <2>3, <2>5
<1> QED
  BY <1>5, <1>6, <1>7, <1>8 DEF Observation
LEMMA FinishedType ==
  ASSUME Inv, attempt.pc # "idle"
  PROVE  /\ Finished \in Attempts
         /\ attempt' = Finished => SameJob /\ TokenOK'
<1>1. attempt.chat \in Chats /\ attempt.token \in Nat /\ attempt.token # NoJob
  BY AttemptFields DEF Inv, TypeOK, TokenOK
<1>2. Finished \in Attempts
  BY <1>1 DEF Finished, Attempts
<1>3. attempt' = Finished => SameJob /\ TokenOK'
  BY <1>1 DEF Finished, SameJob, TokenOK
<1> QED
  BY <1>2, <1>3

LEMMA AttemptKeepsInv ==
  ASSUME Inv, Attempt
  PROVE  Inv'
<1> DEFINE c == attempt.chat
<1>1. /\ slots' = slots /\ slots \in [Slots -> Tasks] /\ attempt \in Attempts
      /\ outlived \in SUBSET (Slots \cup {Sender}) /\ epochs \in [Chats -> Epochs]
  BY DEF Attempt, SelectTarget, CandidateAnswers, DropGoneCandidate, CanSend, Send, FinishJob,
         Inv, TypeOK
<1>2. attempt.pc # "idle" /\ c \in Chats /\ attempt.token \in Nat
  <2>1. attempt.pc # "idle"
    BY DEF Attempt, SelectTarget, CandidateAnswers, DropGoneCandidate, CanSend, Send, FinishJob
  <2> QED
    BY <1>1, <2>1, AttemptFields
<1>3. attempt.token # NoJob
  BY <1>2 DEF Inv, TokenOK
<1>4. ASSUME attempt' \in Attempts, SameJob, UNCHANGED <<known, jobs, queue, epochs, outlived>>
      PROVE  Inv'
  <2>1. TaggerTypeOK' /\ OneJobPerChat'
    BY <1>4, QuietStepKeepsJobs DEF tagger
  <2>2. TokenOK'
    BY <1>2, <1>3, <1>4 DEF SameJob, TokenOK
  <2> QED
    BY <1>1, <1>4, <2>1, <2>2 DEF Inv, TypeOK, TaggerTypeOK
<1>5. ASSUME attempt' = Finished, UNCHANGED <<known, jobs, queue, epochs, outlived>>
      PROVE  Inv'
  BY <1>2, <1>4, <1>5, FinishedType
<1>6. ASSUME NEW p \in Targeted, attempt.pc \in Targeted, attempt' = [attempt EXCEPT !.pc = p],
             UNCHANGED <<known, jobs, queue, epochs, outlived>>
      PROVE  Inv'
  <2>1. attempt \in [pc : Targeted, chat : Chats, token : Nat, user : Users, epoch : Epochs]
    BY <1>1, <1>6 DEF Attempts, Idle, Targeted
  <2>2. attempt' \in Attempts
    BY <1>6, <2>1 DEF Attempts
  <2>3. SameJob
    BY <1>6, <2>1 DEF SameJob, Targeted
  <2> QED
    BY <1>4, <1>6, <2>2, <2>3
<1>7. CASE SelectTarget
  <2>1. ASSUME NEW u \in known[c],
               attempt' = [pc |-> "check", chat |-> c, token |-> attempt.token,
                           user |-> u, epoch |-> epochs[c]]
        PROVE  attempt' \in Attempts /\ SameJob
    <3>1. u \in Users /\ epochs[c] \in Epochs
      BY <1>1, <1>2 DEF Inv, TypeOK
    <3>2. attempt' \in Attempts
      BY <1>2, <2>1, <3>1 DEF Attempts, Targeted
    <3>3. SameJob
      BY <1>2, <2>1 DEF SameJob
    <3> QED
      BY <3>2, <3>3
  <2> QED
    BY <1>4, <1>5, <1>7, <2>1 DEF SelectTarget
<1>8. ASSUME NEW v \in Verdicts, CandidateAnswers(v)
      PROVE  Inv'
  <2>1. v \in {"present", "gone", "unknown"}
    BY DEF Verdicts, MembershipOf
  <2> QED
    BY <1>5, <1>6, <1>8, <2>1 DEF CandidateAnswers, Targeted
<1>9. CASE DropGoneCandidate
  <2>1. attempt' = Finished /\ attempt.user \in Users
    BY <1>1, <1>9, AttemptFields DEF DropGoneCandidate, Targeted
  <2>2. SameJob /\ TokenOK' /\ attempt' \in Attempts
    BY <1>2, <2>1, FinishedType
  <2>3. CASE UNCHANGED <<known, jobs, queue, epochs, outlived>>
    BY <1>5, <2>1, <2>3
  <2>4. ASSUME NEW ok \in BOOLEAN, RemoveUserLocked(c, attempt.user, ok), outlived' = Outliving(c)
        PROVE  Inv'
    <3>1. TaggerTypeOK' /\ OneJobPerChat'
      BY <1>2, <2>1, <2>2, <2>4, RemoveUserKeepsJobs
    <3>2. outlived' \in SUBSET (Slots \cup {Sender})
      BY <1>1, <2>4, RunningOnType DEF Outliving
    <3> QED
      BY <1>1, <2>2, <3>1, <3>2 DEF Inv, TypeOK, TaggerTypeOK
  <2> QED
    BY <1>9, <2>3, <2>4 DEF DropGoneCandidate, StoreOutcomes
<1>10. CASE CanSend
  BY <1>5, <1>6, <1>10 DEF CanSend, Targeted
<1>11. CASE Send
  BY <1>5, <1>11 DEF Send
<1>12. CASE FinishJob
  <2>1. attempt' = Idle /\ attempt' \in Attempts /\ TokenOK'
        /\ outlived' \in SUBSET (Slots \cup {Sender})
        /\ known' = known /\ epochs' = epochs
    BY <1>1, <1>12 DEF FinishJob, Attempts, TokenOK, Idle
  <2>2. ASSUME jobs' \in [Chats -> Nat], queue' \in SUBSET [chat : Chats, token : Nat],
               OneJobPerChat'
        PROVE  Inv'
    BY <1>1, <2>1, <2>2 DEF Inv, TypeOK
  <2>3. CASE ~JobCurrent /\ UNCHANGED <<jobs, queue>>
    <3>1. OneJobPerChat'
      BY <2>1, <2>3 DEF Inv, OneJobPerChat, JobCurrent, Job, Idle
    <3> QED
      BY <2>2, <2>3, <3>1 DEF Inv, TypeOK
  <2>4. CASE /\ JobCurrent
             /\ jobs' = [jobs EXCEPT ![c] = IF known[c] = {} THEN NoJob ELSE NewToken(c)]
             /\ queue' = queue \cup {Job(c, NewToken(c)) : k \in known[c]}
    <3> DEFINE t == NewToken(c)
    <3>1. t \in Nat \ {NoJob}
      BY <1>2, NewTokenIsNew
    <3>2. known[c] # {} /\ \A j \in queue : j.chat # c
      BY <1>2, <1>3, <2>4 DEF Inv, OneJobPerChat, JobCurrent
    <3>3. queue' = queue \cup {[chat |-> c, token |-> t]}
      BY <2>4, <3>2 DEF Job
    <3> HIDE DEF t
    <3>4. jobs' \in [Chats -> Nat] /\ jobs'[c] = t /\ \A d \in Chats \ {c} : jobs'[d] = jobs[d]
      BY <1>2, <2>4, <3>1, <3>2 DEF Inv, TypeOK, t
    <3>5. queue' \in SUBSET [chat : Chats, token : Nat]
      BY <1>2, <3>1, <3>3 DEF Inv, TypeOK
    <3>6. OneJobPerChat'
      BY <1>2, <2>1, <3>1, <3>2, <3>3, <3>4
         DEF Inv, TypeOK, OneJobPerChat, JobCurrent, Job, Idle
    <3> QED
      BY <2>2, <3>4, <3>5, <3>6
  <2> QED
    BY <1>12, <2>3, <2>4 DEF FinishJob
<1> QED
  BY <1>7, <1>8, <1>9, <1>10, <1>11, <1>12 DEF Attempt

LEMMA TakeDueKeepsInv ==
  ASSUME Inv, NEW c \in Chats, TakeDue(c)
  PROVE  Inv'
<1>1. PICK j \in queue : j.chat = c /\ queue' = queue \ {j}
        /\ jobs' = (IF known[c] = {} THEN [jobs EXCEPT ![c] = NoJob] ELSE jobs)
        /\ attempt' = (IF known[c] = {} THEN Idle
                       ELSE [pc |-> "select", chat |-> c, token |-> j.token])
  BY DEF TakeDue
<1>2. j.token \in Nat /\ j.token # NoJob /\ jobs[c] = j.token /\ known[c] # {}
  BY <1>1 DEF Inv, TypeOK, OneJobPerChat
<1>3. jobs' = jobs /\ attempt' = [pc |-> "select", chat |-> c, token |-> j.token]
  BY <1>1, <1>2
<1>4. UNCHANGED <<known, epochs, slots, outlived>> /\ attempt = Idle
  BY DEF TakeDue
<1>5. attempt' \in Attempts /\ TokenOK'
  BY <1>2, <1>3 DEF Attempts, TokenOK
<1>6. TypeOK'
  BY <1>1, <1>3, <1>4, <1>5 DEF Inv, TypeOK
<1>7. OneJobPerChat'
  <2>1. \A i \in queue : i.chat = c => i = j
    BY <1>1 DEF Inv, TypeOK, OneJobPerChat
  <2> QED
    BY <1>1, <1>2, <1>3, <1>4, <2>1 DEF Inv, TypeOK, OneJobPerChat, JobCurrent, Job, Idle
<1> QED
  BY <1>5, <1>6, <1>7 DEF Inv

LEMMA RestartKeepsInv ==
  ASSUME Inv, Restart
  PROVE  Inv'
<1>1. known' = known /\ attempt' = Idle /\ outlived' = {}
  BY DEF Restart
<1>2. jobs' = [d \in Chats |-> IF known[d] = {} THEN NoJob ELSE 1]
      /\ queue' = {Job(d, 1) : d \in {e \in Chats : known[e] # {}}}
  BY DEF Restart
<1>3. TypeOK'
  <2>1. epochs' \in [Chats -> Epochs] /\ slots' \in [Slots -> Tasks]
    BY DEF Restart, Epochs, NoNews, Tasks
  <2>2. attempt' \in Attempts
    BY <1>1 DEF Attempts
  <2>3. jobs' \in [Chats -> Nat] /\ queue' \in SUBSET [chat : Chats, token : Nat]
    BY <1>2 DEF Job, NoJob
  <2> QED
    BY <1>1, <2>1, <2>2, <2>3 DEF Inv, TypeOK
<1>4. OneJobPerChat' /\ TokenOK'
  <2>1. attempt'.pc = "idle"
    BY <1>1 DEF Idle
  <2>2. \A d \in Chats : /\ jobs'[d] = IF known[d] = {} THEN 0 ELSE 1
                         /\ known[d] # {} => Job(d, 1) \in queue'
    BY <1>2 DEF NoJob
  <2>3. \A j \in queue' : j.chat \in Chats /\ known[j.chat] # {} /\ j.token = 1
    BY <1>2 DEF Job
  <2>4. \A d \in Chats : known'[d] # {} <=> jobs'[d] # 0
    BY <1>1, <2>2
  <2>5. \A d \in Chats : jobs'[d] # 0 => Job(d, jobs'[d]) \in queue'
    BY <2>2
  <2>6. \A j \in queue' : j.token # 0 /\ jobs'[j.chat] = j.token
    BY <2>2, <2>3
  <2> QED
    BY <2>1, <2>4, <2>5, <2>6 DEF OneJobPerChat, TokenOK, NoJob, Job
<1> QED
  BY <1>3, <1>4 DEF Inv

LEMMA StepKeepsInv == Inv /\ [Next]_vars => Inv'
<1> SUFFICES ASSUME Inv, [Next]_vars PROVE Inv'
  OBVIOUS
<1>1. CASE UNCHANGED vars
  BY <1>1 DEF vars, Inv, TypeOK, OneJobPerChat, TokenOK, JobCurrent, Job
<1>2. CASE Next
  BY <1>2, EventsKeepInv, ObservationKeepsInv, AttemptKeepsInv, TakeDueKeepsInv, RestartKeepsInv
     DEF Next
<1> QED
  BY <1>1, <1>2

(* Every variable keeps its type. *)
THEOREM TypeCorrect == Spec => []TypeOK
<1>1. Inv => TypeOK
  BY DEF Inv
<1> QED
  BY <1>1, InitInv, StepKeepsInv, PTL DEF Spec

(* A chat has exactly one job while it has known members, waiting or in    *)
(* the sender's hands, and none otherwise: for any number of chats, users  *)
(* and handler goroutines, with the table failing and the process dying.   *)
THEOREM AlwaysOneJobPerChat == Spec => []OneJobPerChat
<1>1. Inv => OneJobPerChat
  BY DEF Inv
<1> QED
  BY <1>1, InitInv, StepKeepsInv, PTL DEF Spec
-------------------------------------------------------------------------------
(* Why what outlives the emptying of its chat has no effect: its epoch is  *)
(* out of date for a presence, and for an absence as soon as the chat has  *)
(* members again; and its job is not the chat's.                           *)
Renewed(c, e) == known[c] = {} \/ epochs[c].present # e.present

OutlivedInv ==
  /\ \A s \in Slots : s \in outlived =>
       /\ slots[s].pc \in Checking
       /\ epochs[slots[s].chat].removed # slots[s].epoch.removed
       /\ Renewed(slots[s].chat, slots[s].epoch)
  /\ Sender \in outlived =>
       /\ attempt.pc # "idle" /\ ~JobCurrent
       /\ attempt.pc \in Targeted => Renewed(attempt.chat, attempt.epoch)

(* A section makes no snapshot current again and no lost job the chat's.   *)
KeepsStale ==
  /\ \A d \in Chats : \A e \in Snapshots(d) :
       /\ epochs[d].removed # e.removed => epochs'[d].removed # e.removed
       /\ Renewed(d, e) => known'[d] = {} \/ epochs'[d].present # e.present
  /\ attempt.pc # "idle" /\ ~JobCurrent => jobs'[attempt.chat] # attempt.token

(* The section emptied c: every snapshot of c is left behind. *)
LeavesBehind(c) ==
  known'[c] = {} => \A e \in Snapshots(c) : epochs'[c].removed # e.removed

LEMMA HoldFields ==
  ASSUME Inv
  PROVE  attempt.pc # "idle" =>
           attempt.chat \in Chats /\ attempt.token \in Nat \ {NoJob}
BY AttemptFields DEF Inv, TypeOK, TokenOK

LEMMA QuietStepKeepsStale ==
  ASSUME Inv, UNCHANGED tagger
  PROVE  KeepsStale
BY DEF KeepsStale, Renewed, tagger, JobCurrent

LEMMA AddUserKeepsStale ==
  ASSUME Inv, NEW c \in Chats, NEW u \in Users, NEW ok \in BOOLEAN, AddUserLocked(c, u, ok)
  PROVE  KeepsStale
<1>1. CASE UNCHANGED tagger
  BY <1>1, QuietStepKeepsStale
<1>2. CASE /\ MarkPresent(c)
           /\ \/ UNCHANGED <<known, jobs, queue>>
              \/ known' = [known EXCEPT ![c] = @ \cup {u}] /\ ScheduleLocked(c)
  <2>1. /\ \A d \in Chats : epochs'[d].removed = epochs[d].removed
        /\ \A d \in Chats \ {c} : epochs'[d] = epochs[d]
        /\ \A e \in Snapshots(c) : epochs'[c].present # e.present
    <3>1. TypeOK /\ MarkPresent(c)
      BY <1>2 DEF Inv
    <3> QED
      BY <3>1, MarkPresentMarks
  <2>2. \A d \in Chats \ {c} : known'[d] = known[d]
    BY <1>2 DEF Inv, TypeOK
  <2>3. attempt.pc # "idle" /\ ~JobCurrent => jobs'[attempt.chat] # attempt.token
    <3>1. UNCHANGED jobs \/ jobs' = [jobs EXCEPT ![c] = NewToken(c)]
      BY <1>2 DEF ScheduleLocked
    <3> QED
      BY <3>1, HoldFields, NewTokenIsNew DEF Inv, TypeOK, JobCurrent
  <2> QED
    BY <2>1, <2>2, <2>3 DEF KeepsStale, Renewed
<1> QED
  BY <1>1, <1>2 DEF AddUserLocked

LEMMA RemovalKeepsStale ==
  ASSUME Inv, NEW c \in Chats, MarkRemoved(c),
         known' \in [Chats -> SUBSET (Users \ Bots)], known'[c] \subseteq known[c],
         \A d \in Chats \ {c} : known'[d] = known[d],
         UNCHANGED jobs \/ UnscheduleLocked(c)
  PROVE  KeepsStale /\ LeavesBehind(c)
<1>1. /\ \A d \in Chats : epochs'[d].present = epochs[d].present
      /\ \A d \in Chats \ {c} : epochs'[d] = epochs[d]
      /\ \A e \in Snapshots(c) : epochs'[c].removed # e.removed
  BY MarkRemovedMarks DEF Inv
<1>2. \A d \in Chats : known[d] = {} => known'[d] = {}
  OBVIOUS
<1>3. attempt.pc # "idle" /\ ~JobCurrent => jobs'[attempt.chat] # attempt.token
  BY HoldFields DEF UnscheduleLocked, Inv, TypeOK, JobCurrent
<1>4. \A d \in Chats : \A e \in Snapshots(d) :
         /\ epochs[d].removed # e.removed => epochs'[d].removed # e.removed
         /\ Renewed(d, e) => known'[d] = {} \/ epochs'[d].present # e.present
  BY <1>1, <1>2 DEF Renewed
<1> QED
  BY <1>1, <1>3, <1>4 DEF KeepsStale, LeavesBehind

LEMMA RemoveUserKeepsStale ==
  ASSUME Inv, NEW c \in Chats, NEW u, NEW ok, RemoveUserLocked(c, u, ok)
  PROVE  KeepsStale /\ LeavesBehind(c)
<1>1. /\ known' \in [Chats -> SUBSET (Users \ Bots)] /\ known'[c] \subseteq known[c]
      /\ \A d \in Chats \ {c} : known'[d] = known[d]
  BY DEF RemoveUserLocked, Inv, TypeOK
<1> QED
  BY <1>1, RemovalKeepsStale DEF RemoveUserLocked

LEMMA ForgetChatKeepsStale ==
  ASSUME Inv, NEW c \in Chats, NEW ok, ForgetChat(c, ok)
  PROVE  KeepsStale /\ LeavesBehind(c)
<1>1. /\ known' \in [Chats -> SUBSET (Users \ Bots)] /\ known'[c] \subseteq known[c]
      /\ \A d \in Chats \ {c} : known'[d] = known[d]
  BY DEF ForgetChat, Inv, TypeOK
<1> QED
  BY <1>1, RemovalKeepsStale DEF ForgetChat
(* Who is in outlived after a step, and with which snapshot: it was there  *)
(* before, or the step has just emptied its chat.                          *)
SlotOutlives(s) ==
  /\ slots'[s].pc \in Checking /\ slots[s].pc \in Checking
  /\ slots'[s].chat = slots[s].chat /\ slots'[s].epoch = slots[s].epoch
  /\ \/ s \in outlived
     \/ /\ known'[slots[s].chat] = {}
        /\ LeavesBehind(slots[s].chat)

SenderOutlives ==
  /\ SameJob /\ attempt.pc # "idle"
  /\ attempt'.pc \in Targeted => attempt.pc \in Targeted /\ attempt'.epoch = attempt.epoch
  /\ Sender \in outlived \/ known'[attempt.chat] = {}

LEMMA OutlivedStep ==
  ASSUME Inv, Inv', OutlivedInv, KeepsStale,
         \A s \in Slots : s \in outlived' => SlotOutlives(s),
         Sender \in outlived' => SenderOutlives
  PROVE  OutlivedInv'
<1>1. ASSUME NEW s \in Slots, s \in outlived'
      PROVE  /\ slots'[s].pc \in Checking
             /\ epochs'[slots'[s].chat].removed # slots'[s].epoch.removed
             /\ \/ known'[slots'[s].chat] = {}
                \/ epochs'[slots'[s].chat].present # slots'[s].epoch.present
  <2> DEFINE t == slots[s]
  <2>1. t.chat \in Chats /\ t.epoch \in Snapshots(t.chat) /\ t.pc \in Checking
        /\ slots'[s].pc \in Checking /\ slots'[s].chat = t.chat /\ slots'[s].epoch = t.epoch
    BY <1>1, TaskFields DEF SlotOutlives, Snapshots, Inv, TypeOK
  <2>2. CASE s \in outlived
    BY <2>1, <2>2 DEF OutlivedInv, KeepsStale
  <2>3. CASE known'[t.chat] = {} /\ LeavesBehind(t.chat)
    BY <2>1, <2>3 DEF LeavesBehind
  <2> QED
    BY <1>1, <2>2, <2>3 DEF SlotOutlives
<1>2. ASSUME Sender \in outlived'
      PROVE  /\ attempt'.pc # "idle" /\ jobs'[attempt'.chat] # attempt'.token
             /\ attempt'.pc \in Targeted =>
                  \/ known'[attempt'.chat] = {}
                  \/ epochs'[attempt'.chat].present # attempt'.epoch.present
  <2>1. /\ attempt'.pc # "idle" /\ attempt'.chat = attempt.chat /\ attempt'.token = attempt.token
        /\ attempt.pc # "idle" /\ attempt.chat \in Chats /\ attempt.token # NoJob
    BY <1>2, HoldFields DEF SenderOutlives, SameJob
  <2>2. attempt'.pc \in Targeted =>
          attempt'.epoch = attempt.epoch /\ attempt.epoch \in Snapshots(attempt.chat)
                                        /\ attempt.pc \in Targeted
    BY <1>2 DEF SenderOutlives, Snapshots
  <2>3. CASE Sender \in outlived
    BY <2>1, <2>2, <2>3 DEF OutlivedInv, KeepsStale
  <2>4. CASE known'[attempt.chat] = {}
    <3>1. jobs'[attempt.chat] = NoJob
      BY <2>1, <2>4 DEF Inv, OneJobPerChat
    <3> QED
      BY <2>1, <2>4, <3>1
  <2> QED
    BY <1>2, <2>3, <2>4 DEF SenderOutlives
<1> QED
  BY <1>1, <1>2 DEF OutlivedInv, Renewed, JobCurrent

(* The history after a section that may have emptied c. *)
LEMMA OutlivingMembers ==
  ASSUME NEW c, LeavesBehind(c)
  PROVE  /\ \A s \in Slots : s \in Outliving(c) =>
              \/ s \in outlived
              \/ /\ slots[s].pc \in Checking /\ slots[s].chat = c
                 /\ known'[slots[s].chat] = {} /\ LeavesBehind(slots[s].chat)
         /\ Sender \in Outliving(c) =>
              \/ Sender \in outlived
              \/ attempt.pc # "idle" /\ known'[attempt.chat] = {}
BY SlotsAssumption DEF Outliving, RunningOn

(* A step of a handler: the checks that are still outlived go on.          *)
LEMMA HandlersKeepOutlived ==
  ASSUME Inv, Inv', OutlivedInv, KeepsStale, attempt' = attempt,
         NEW c \in Chats,
         outlived' \subseteq outlived \/ (LeavesBehind(c) /\ outlived' \subseteq Outliving(c)),
         \A s \in Slots : slots[s].pc \in Checking /\ s \in outlived' =>
           slots'[s] = slots[s] \/ \E v \in Checking : slots'[s] = [slots[s] EXCEPT !.pc = v]
  PROVE  OutlivedInv'
<1>1. ASSUME NEW s \in Slots, s \in outlived'
      PROVE  SlotOutlives(s)
  <2>3. slots[s] \in Tasks
    BY DEF Inv, TypeOK
  <2>4. ASSUME slots[s].pc \in Checking
        PROVE  /\ slots'[s].pc \in Checking
               /\ slots'[s].chat = slots[s].chat /\ slots'[s].epoch = slots[s].epoch
    <3>1. slots[s] \in [pc : Checking, chat : Chats, user : Users, epoch : Epochs]
      BY <2>3, <2>4 DEF Tasks, Idle, Checking
    <3>2. CASE slots'[s] = slots[s]
      BY <2>4, <3>2
    <3>3. ASSUME NEW v \in Checking, slots'[s] = [slots[s] EXCEPT !.pc = v]
          PROVE  /\ slots'[s].pc \in Checking
                 /\ slots'[s].chat = slots[s].chat /\ slots'[s].epoch = slots[s].epoch
      BY <3>1, <3>3
    <3> QED
      BY <1>1, <2>4, <3>2, <3>3
  <2>1. CASE s \in outlived
    BY <2>1, <2>4 DEF OutlivedInv, SlotOutlives
  <2>2. CASE s \notin outlived
    BY <1>1, <2>2, <2>4, OutlivingMembers DEF SlotOutlives
  <2> QED
    BY <2>1, <2>2
<1>2. ASSUME Sender \in outlived'
      PROVE  SenderOutlives
  <2>1. attempt.pc # "idle" /\ (Sender \in outlived \/ known'[attempt.chat] = {})
    BY <1>2, OutlivingMembers DEF OutlivedInv
  <2> QED
    BY <2>1 DEF SenderOutlives, SameJob
<1> QED
  BY <1>1, <1>2, OutlivedStep

LEMMA EventsKeepOutlived ==
  ASSUME Inv, Inv', OutlivedInv, NEW c \in Chats, Events(c) \/ HandleBotRemoved(c)
  PROVE  OutlivedInv'
<1>1. \A s \in Slots : slots[s].pc \in Checking => slots'[s] = slots[s]
  <2>1. \/ UNCHANGED slots
        \/ \E r \in Slots : slots[r] = Idle /\ \E task : slots' = [slots EXCEPT ![r] = task]
    <3>1. ASSUME NEW task, Occupy(task)
          PROVE  \/ UNCHANGED slots
                 \/ \E r \in Slots : slots[r] = Idle /\ \E k : slots' = [slots EXCEPT ![r] = k]
      BY <3>1 DEF Occupy
    <3>2. \/ UNCHANGED slots
          \/ \E task : Occupy(task)
          \/ \E r \in Slots, u \in Users : HandleMessage(r, c, u)
      BY DEF Events, HandleLeft, HandleJoin, HandleBotRemoved
    <3>3. ASSUME NEW r \in Slots, NEW u \in Users, HandleMessage(r, c, u)
          PROVE  slots[r] = Idle /\ \E k : slots' = [slots EXCEPT ![r] = k]
      BY <3>3 DEF HandleMessage
    <3> QED
      BY <3>1, <3>2, <3>3
  <2> QED
    BY <2>1 DEF Idle, Checking, Inv, TypeOK
<1>2. attempt' = attempt
  BY DEF Events, HandleBotRemoved, HandleMessage, HandleLeft, HandleJoin
<1>3. /\ KeepsStale
      /\ outlived' \subseteq outlived \/ (LeavesBehind(c) /\ outlived' \subseteq Outliving(c))
  <2>1. ASSUME NEW u \in Users, NEW s \in Slots, HandleMessage(s, c, u)
        PROVE  KeepsStale /\ outlived' = outlived
    BY <2>1, QuietStepKeepsStale DEF HandleMessage, tagger
  <2>2. ASSUME NEW u \in Users, NEW v, HandleLeft(c, u, v)
        PROVE  KeepsStale /\ LeavesBehind(c) /\ outlived' = Outliving(c)
    BY <2>2, RemoveUserKeepsStale DEF HandleLeft
  <2>3. ASSUME NEW u \in Users, NEW joined, NEW w, HandleJoin(c, joined, w, u)
        PROVE  KeepsStale /\ outlived' = outlived
    BY <2>3, AddUserKeepsStale DEF HandleJoin, StoreOutcomes
  <2>4. CASE HandleBotRemoved(c)
    BY <2>4, ForgetChatKeepsStale DEF HandleBotRemoved
  <2> QED
    BY <2>1, <2>2, <2>3, <2>4 DEF Events
<1> QED
  BY <1>1, <1>2, <1>3, HandlersKeepOutlived

LEMMA ObservationKeepsOutlived ==
  ASSUME Inv, Inv', OutlivedInv, NEW s \in Slots, Observation(s)
  PROVE  OutlivedInv'
<1> DEFINE t == slots[s]
<1>1. attempt' = attempt /\ \A p \in Slots \ {s} : slots'[p] = slots[p]
  BY DEF Observation, BeginObserve, ObserveFinish, MemberAnswers, AddJoined, Inv, TypeOK
<1>2. t \in Tasks /\ t.pc # "idle" /\ t.chat \in Chats
  <2>1. t \in Tasks /\ t.pc # "idle"
    BY DEF Observation, BeginObserve, ObserveFinish, MemberAnswers, AddJoined, Inv, TypeOK
  <2> QED
    BY <2>1, TaskFields
<1>3. ASSUME KeepsStale,
             \/ outlived' \subseteq outlived
             \/ LeavesBehind(t.chat) /\ outlived' \subseteq Outliving(t.chat),
             \/ s \notin outlived' \/ t.pc \notin Checking
             \/ \E v \in Checking : slots'[s] = [t EXCEPT !.pc = v]
      PROVE  OutlivedInv'
  BY <1>1, <1>2, <1>3, HandlersKeepOutlived
<1>4. CASE BeginObserve(s)
  BY <1>3, <1>4, QuietStepKeepsStale DEF BeginObserve, Checking, tagger
<1>5. ASSUME NEW v \in Verdicts, MemberAnswers(s, v)
      PROVE  OutlivedInv'
  <2>1. v = "unknown" \/ v \in Checking
    BY DEF Verdicts, MembershipOf, Checking
  <2>2. slots \in [Slots -> Tasks]
    BY DEF Inv, TypeOK
  <2>3. \/ s \notin outlived'
        \/ \E w \in Checking : slots'[s] = [t EXCEPT !.pc = w]
    BY <1>5, <2>1, <2>2 DEF MemberAnswers
  <2>4. KeepsStale /\ outlived' \subseteq outlived
    BY <1>5, QuietStepKeepsStale DEF MemberAnswers, tagger
  <2> QED
    BY <1>3, <2>3, <2>4
<1>6. CASE ObserveFinish(s)
  <2>1. s \notin outlived'
    BY <1>6 DEF ObserveFinish
  <2>2. CASE UNCHANGED tagger /\ outlived' = outlived \ {s}
    BY <1>3, <2>1, <2>2, QuietStepKeepsStale
  <2>3. ASSUME NEW ok \in BOOLEAN, AddUserLocked(t.chat, t.user, ok), outlived' = outlived \ {s},
               t.pc = "present"
        PROVE  OutlivedInv'
    BY <1>2, <1>3, <2>1, <2>3, TaskFields, AddUserKeepsStale DEF Checking
  <2>4. ASSUME NEW ok \in BOOLEAN, RemoveUserLocked(t.chat, t.user, ok),
               outlived' = Outliving(t.chat) \ {s}
        PROVE  OutlivedInv'
    BY <1>2, <1>3, <2>1, <2>4, RemoveUserKeepsStale
  <2> QED
    BY <1>6, <2>2, <2>3, <2>4 DEF ObserveFinish, StoreOutcomes
<1>7. ASSUME NEW u \in Users, AddJoined(s, u)
      PROVE  OutlivedInv'
  <2>1. KeepsStale
    BY <1>2, <1>7, AddUserKeepsStale DEF AddJoined, StoreOutcomes
  <2> QED
    BY <1>3, <1>7, <2>1 DEF AddJoined, Checking
<1> QED
  BY <1>4, <1>5, <1>6, <1>7 DEF Observation

LEMMA AttemptKeepsOutlived ==
  ASSUME Inv, Inv', OutlivedInv, Attempt
  PROVE  OutlivedInv'
<1> DEFINE c == attempt.chat
<1>1. slots' = slots
  BY DEF Attempt, SelectTarget, CandidateAnswers, DropGoneCandidate, CanSend, Send, FinishJob
<1>2. attempt.pc # "idle" /\ attempt \in Attempts /\ c \in Chats
  <2>1. attempt.pc # "idle"
    BY DEF Attempt, SelectTarget, CandidateAnswers, DropGoneCandidate, CanSend, Send, FinishJob
  <2> QED
    BY <2>1, AttemptFields DEF Inv, TypeOK
(* Enough for every step of the attempt but its last. *)
<1>3. ASSUME KeepsStale, SameJob,
             outlived' = outlived \/ (LeavesBehind(c) /\ outlived' = Outliving(c)),
             Sender \in outlived /\ attempt'.pc \in Targeted =>
               attempt.pc \in Targeted /\ attempt'.epoch = attempt.epoch,
             outlived' # outlived => attempt'.pc \notin Targeted
      PROVE  OutlivedInv'
  <2>1. ASSUME NEW s \in Slots, s \in outlived'
        PROVE  SlotOutlives(s)
    <3>1. CASE s \in outlived
      BY <1>1, <3>1 DEF OutlivedInv, SlotOutlives
    <3>2. CASE s \notin outlived
      BY <1>1, <1>3, <2>1, <3>2, OutlivingMembers DEF SlotOutlives
    <3> QED
      BY <3>1, <3>2
  <2>2. ASSUME Sender \in outlived'
        PROVE  SenderOutlives
    BY <1>2, <1>3, <2>2, OutlivingMembers DEF SenderOutlives
  <2> QED
    BY <1>3, <2>1, <2>2, OutlivedStep
<1>4. ASSUME attempt' = Finished, UNCHANGED <<known, jobs, queue, epochs, outlived>>
      PROVE  OutlivedInv'
  <2>1. SameJob /\ attempt'.pc \notin Targeted
    BY <1>2, <1>4, FinishedType DEF Finished, Targeted
  <2> QED
    BY <1>3, <1>4, <2>1, QuietStepKeepsStale DEF tagger
<1>5. ASSUME NEW p \in Targeted, attempt.pc \in Targeted, attempt' = [attempt EXCEPT !.pc = p],
             UNCHANGED <<known, jobs, queue, epochs, outlived>>
      PROVE  OutlivedInv'
  <2>1. attempt \in [pc : Targeted, chat : Chats, token : Nat, user : Users, epoch : Epochs]
    BY <1>2, <1>5 DEF Attempts, Idle, Targeted
  <2>2. SameJob /\ attempt'.epoch = attempt.epoch
    BY <1>5, <2>1 DEF SameJob, Targeted
  <2> QED
    BY <1>3, <1>5, <2>2, QuietStepKeepsStale DEF tagger
<1>6. CASE SelectTarget
  <2>1. ASSUME JobCurrent, NEW u, UNCHANGED <<known, jobs, queue, epochs, outlived>>,
               attempt' = [pc |-> "check", chat |-> c, token |-> attempt.token,
                           user |-> u, epoch |-> epochs[c]]
        PROVE  OutlivedInv'
    <3>1. SameJob
      BY <1>2, <2>1 DEF SameJob
    <3>2. Sender \notin outlived
      BY <2>1 DEF OutlivedInv
    <3> QED
      BY <1>3, <2>1, <3>1, <3>2, QuietStepKeepsStale DEF tagger
  <2> QED
    BY <1>4, <1>6, <2>1 DEF SelectTarget
<1>7. ASSUME NEW v \in Verdicts, CandidateAnswers(v)
      PROVE  OutlivedInv'
  <2>1. v \in {"present", "gone", "unknown"}
    BY DEF Verdicts, MembershipOf
  <2> QED
    BY <1>4, <1>5, <1>7, <2>1 DEF CandidateAnswers, Targeted
<1>8. CASE DropGoneCandidate
  <2>1. attempt' = Finished /\ SameJob /\ attempt'.pc \notin Targeted
    BY <1>2, <1>8, FinishedType DEF DropGoneCandidate, Finished, Targeted
  <2>2. CASE UNCHANGED <<known, jobs, queue, epochs, outlived>>
    BY <1>4, <2>1, <2>2
  <2>3. ASSUME NEW ok \in BOOLEAN, RemoveUserLocked(c, attempt.user, ok), outlived' = Outliving(c)
        PROVE  OutlivedInv'
    BY <1>2, <1>3, <2>1, <2>3, RemoveUserKeepsStale
  <2> QED
    BY <1>8, <2>2, <2>3 DEF DropGoneCandidate, StoreOutcomes
<1>9. CASE CanSend \/ Send
  BY <1>4, <1>5, <1>9 DEF CanSend, Send, Targeted
<1>10. CASE FinishJob
  <2>1. KeepsStale
    <3>1. UNCHANGED <<known, epochs>>
      BY <1>10 DEF FinishJob
    <3>2. ~JobCurrent => jobs' = jobs
      BY <1>10 DEF FinishJob
    <3> QED
      BY <3>1, <3>2 DEF KeepsStale, Renewed, JobCurrent
  <2>2. outlived' = outlived \ {Sender}
    BY <1>10 DEF FinishJob
  <2>3. \A s \in Slots : s \in outlived' => SlotOutlives(s)
    BY <1>1, <2>2 DEF OutlivedInv, SlotOutlives
  <2> QED
    BY <2>1, <2>2, <2>3, OutlivedStep
<1> QED
  BY <1>4, <1>6, <1>7, <1>8, <1>9, <1>10 DEF Attempt

LEMMA OutlivedIsInvariant == Spec => [](Inv /\ OutlivedInv)
<1>1. Init => Inv /\ OutlivedInv
  BY InitInv DEF Init, OutlivedInv
<1>2. Inv /\ OutlivedInv /\ [Next]_vars => (Inv /\ OutlivedInv)'
  <2> SUFFICES ASSUME Inv, OutlivedInv, [Next]_vars
               PROVE  OutlivedInv' /\ Inv'
    OBVIOUS
  <2>1. Inv'
    BY StepKeepsInv
  <2>2. CASE UNCHANGED vars
    BY <2>1, <2>2 DEF vars, OutlivedInv, Renewed, JobCurrent
  <2>3. ASSUME NEW c \in Chats, TakeDue(c)
        PROVE  OutlivedInv'
    <3>1. UNCHANGED <<known, epochs, slots, outlived>> /\ Sender \notin outlived
      BY <2>3 DEF TakeDue, OutlivedInv, Idle
    <3> QED
      BY <3>1 DEF OutlivedInv, Renewed
  <2>4. CASE Restart
    BY <2>1, <2>4 DEF Restart, OutlivedInv
  <2> QED
    BY <2>1, <2>2, <2>3, <2>4, EventsKeepOutlived, ObservationKeepsOutlived, AttemptKeepsOutlived
       DEF Next
<1> QED
  BY <1>1, <1>2, PTL DEF Spec

(* What a check or an attempt that outlives the emptying of its chat does. *)
LEMMA OutlivedHasNoEffect ==
  ASSUME Inv, OutlivedInv, [Next]_vars
  PROVE  /\ \A p \in outlived \ {Sender} : slots'[p] # slots[p] => known' = known
         /\ Sender \in outlived /\ attempt' # attempt =>
              known' = known /\ attempt'.pc # "send"
<1>0. slots \in [Slots -> Tasks] /\ outlived \subseteq Slots \cup {Sender}
      /\ known \in [Chats -> SUBSET (Users \ Bots)] /\ attempt \in Attempts
  BY DEF Inv, TypeOK
<1>1. ASSUME NEW c \in Chats, NEW u, NEW ok, RemoveUserLocked(c, u, ok), known[c] = {}
      PROVE  known' = known
  BY <1>0, <1>1 DEF RemoveUserLocked
<1>2. ASSUME NEW p \in Slots, p \in outlived, slots'[p] # slots[p]
      PROVE  known' = known
  <2>1. slots[p].pc \in Checking /\ slots[p].chat \in Chats
    BY <1>0, <1>2, TaskFields DEF OutlivedInv
  <2>2. ASSUME ObserveFinish(p)
        PROVE  known' = known
    <3>1. CASE slots[p].pc = "present"
      BY <1>2, <2>2, <3>1 DEF ObserveFinish, OutlivedInv, Outdates, tagger
    <3>2. CASE slots[p].pc = "gone"
      <4>1. CASE UNCHANGED tagger
        BY <4>1 DEF tagger
      <4>2. ASSUME ~Outdates(epochs[slots[p].chat], slots[p].epoch, "gone"),
                   NEW ok, RemoveUserLocked(slots[p].chat, slots[p].user, ok)
            PROVE  known' = known
        <5>1. known[slots[p].chat] = {}
          BY <1>2, <4>2 DEF OutlivedInv, Outdates, Renewed
        <5> QED
          BY <1>1, <2>1, <4>2, <5>1
      <4> QED
        BY <2>2, <3>2, <4>1, <4>2 DEF ObserveFinish
    <3> QED
      BY <2>2, <3>1, <3>2 DEF ObserveFinish
  <2>3. ASSUME NEW c \in Chats, Events(c) \/ HandleBotRemoved(c)
        PROVE  FALSE
    <3>1. ASSUME NEW task, Occupy(task)
          PROVE  FALSE
      BY <1>0, <1>2, <2>1, <3>1 DEF Occupy, Idle, Checking
    <3>2. ASSUME NEW r \in Slots, NEW u \in Users, HandleMessage(r, c, u)
          PROVE  FALSE
      BY <1>0, <1>2, <2>1, <3>2 DEF HandleMessage, Idle, Checking
    <3> QED
      BY <1>2, <2>3, <3>1, <3>2 DEF Events, HandleLeft, HandleJoin, HandleBotRemoved
  <2>4. ASSUME NEW s \in Slots, Observation(s)
        PROVE  known' = known
    <3>1. s = p
      BY <1>0, <1>2, <2>4
         DEF Observation, BeginObserve, ObserveFinish, MemberAnswers, AddJoined
    <3>2. ~AddJoined(s, slots[s].user) /\ slots[s].pc # "adding"
      BY <2>1, <3>1 DEF AddJoined, Checking
    <3> QED
      BY <2>2, <2>4, <3>1, <3>2 DEF Observation, BeginObserve, MemberAnswers, AddJoined
  <2>5. CASE Attempt \/ (\E c \in Chats : TakeDue(c)) \/ UNCHANGED vars
    BY <1>2, <2>5 DEF Attempt, SelectTarget, CandidateAnswers, DropGoneCandidate, CanSend, Send,
       FinishJob, TakeDue, vars
  <2>6. CASE Restart
    BY <2>6 DEF Restart
  <2> QED
    BY <2>3, <2>4, <2>5, <2>6 DEF Next
<1>3. ASSUME Sender \in outlived, attempt' # attempt
      PROVE  known' = known /\ attempt'.pc # "send"
  <2>1. attempt.pc # "idle" /\ ~JobCurrent /\ attempt.chat \in Chats
    BY <1>0, <1>3, AttemptFields DEF OutlivedInv
  <2>2. CASE DropGoneCandidate
    <3>1. attempt'.pc = "finish"
      BY <2>2 DEF DropGoneCandidate, Finished
    <3>2. CASE UNCHANGED known
      BY <3>1, <3>2
    <3>3. ASSUME ~Outdates(epochs[attempt.chat], attempt.epoch, "gone"),
                 NEW ok, RemoveUserLocked(attempt.chat, attempt.user, ok)
          PROVE  known' = known
      <4>1. known[attempt.chat] = {}
        BY <1>3, <2>2, <3>3 DEF OutlivedInv, Outdates, Renewed, DropGoneCandidate, Targeted
      <4> QED
        BY <1>1, <2>1, <3>3, <4>1
    <3> QED
      BY <2>2, <3>1, <3>2, <3>3 DEF DropGoneCandidate
  <2>3. CASE SelectTarget \/ CanSend \/ Send \/ FinishJob
    BY <2>1, <2>3 DEF SelectTarget, CanSend, Send, FinishJob, Finished, Idle
  <2>4. ASSUME NEW v \in Verdicts, CandidateAnswers(v)
        PROVE  known' = known /\ attempt'.pc # "send"
    <3>1. v \in {"present", "gone", "unknown"}
      BY DEF Verdicts, MembershipOf
    <3>2. attempt \in [pc : Targeted, chat : Chats, token : Nat, user : Users, epoch : Epochs]
      BY <1>0, <2>4 DEF CandidateAnswers, Attempts, Idle, Targeted
    <3> QED
      BY <2>4, <3>1, <3>2 DEF CandidateAnswers, Finished
  <2>5. ASSUME NEW c \in Chats, Events(c) \/ HandleBotRemoved(c)
        PROVE  FALSE
    BY <1>3, <2>5 DEF Events, HandleMessage, HandleLeft, HandleJoin, HandleBotRemoved
  <2>6. ASSUME NEW s \in Slots, Observation(s)
        PROVE  FALSE
    BY <1>3, <2>6 DEF Observation, BeginObserve, ObserveFinish, MemberAnswers, AddJoined
  <2>7. CASE (\E c \in Chats : TakeDue(c)) \/ UNCHANGED vars
    BY <1>3, <2>1, <2>7 DEF TakeDue, vars, Idle
  <2>8. CASE Restart
    BY <2>8 DEF Restart, Idle
  <2> QED
    BY <2>2, <2>3, <2>4, <2>5, <2>6, <2>7, <2>8 DEF Next, Attempt
<1> QED
  BY <1>0, <1>2, <1>3

(* What began before a chat was emptied changes nothing in the registry    *)
(* and clears no ping for sending, in any execution.                       *)
THEOREM EmptiedChatIsLeftAlone == Spec => EmptiedChatStartsAfresh
<1>1. Inv /\ OutlivedInv /\ [Next]_vars =>
        [/\ \A p \in outlived \ {Sender} : slots'[p] # slots[p] => known' = known
         /\ Sender \in outlived /\ attempt' # attempt =>
              known' = known /\ attempt'.pc # "send"]_vars
  BY OutlivedHasNoEffect
<1> QED
  BY <1>1, OutlivedIsInvariant, PTL DEF Spec, EmptiedChatStartsAfresh
-------------------------------------------------------------------------------
(* The tagger under the events that Telegram sends. *)
EventTypes == [kind : {"join", "left"}, chat : Chats, users : SUBSET Users] \cup {NoEvent}

TelegramTypeOK ==
  /\ inChat \in [Chats -> SUBSET Users]
  /\ log \in Seq(EventTypes)
  /\ told \in [Chats -> [Users -> BOOLEAN]]

(* An answer that no news has outdated does not contradict the event that  *)
(* was handled last.                                                       *)
ToldPresent(c, u) == told[c][u] /\ u \in inChat[c]
ToldGone(c, u) == told[c][u] /\ u \notin inChat[c]

GoneHolds(t) ==
  t.pc = "gone" /\ epochs[t.chat].present = t.epoch.present => ~ToldPresent(t.chat, t.user)

PresentHolds(t) ==
  t.pc = "present" /\ epochs[t.chat].removed = t.epoch.removed => ~ToldGone(t.chat, t.user)

AnswersHold ==
  /\ \A s \in Slots : GoneHolds(slots[s]) /\ PresentHolds(slots[s])
  /\ GoneHolds(attempt)

TelegramInv == TelegramTypeOK /\ AnswersHold /\ NoForgottenMember /\ NoGhostMember

(* A step that outdates what every running check knows of c. *)
PresentNews(c) == \A e \in Snapshots(c) : epochs'[c].present # e.present
RemovedNews(c) == \A e \in Snapshots(c) : epochs'[c].removed # e.removed

StampsMove ==
  \A c \in Chats :
    /\ epochs'[c].present = epochs[c].present \/ PresentNews(c)
    /\ epochs'[c].removed = epochs[c].removed \/ RemovedNews(c)

JoinsAreNews ==
  \A c \in Chats, u \in Users :
    ToldPresent(c, u)' => ToldPresent(c, u) \/ PresentNews(c)

DeparturesAreNews ==
  \A c \in Chats, u \in Users :
    ToldGone(c, u)' => ToldGone(c, u) \/ RemovedNews(c)

(* What a handler call is about. *)
LEMMA EventFields ==
  ASSUME TelegramTypeOK, NEW e \in 1..Len(log), log[e].kind \in {"join", "left"}
  PROVE  log[e].chat \in Chats /\ log[e].users \in SUBSET Users
<1>1. log[e] \in EventTypes
  BY DEF TelegramTypeOK
<1> QED
  BY <1>1 DEF EventTypes, NoEvent

LEMMA TelegramStepIsStep == TelegramTypeOK /\ TNext => [Next]_vars
<1> SUFFICES ASSUME TelegramTypeOK, TNext PROVE [Next]_vars
  OBVIOUS
<1>1. CASE \E c \in Chats :
             \/ \E users \in SUBSET Users : UsersJoin(c, users)
             \/ \E u \in Users : UserLeaves(c, u)
  BY <1>1 DEF UsersJoin, UserLeaves
<1>2. CASE \E c \in Chats, u \in Users, s \in Slots : HandleMessage(s, c, u)
  BY <1>2 DEF Next, Events
<1>3. ASSUME NEW e \in 1..Len(log), NEW u \in Users, NEW sender \in Users \cup {NoUser},
             JoinHandled(e, sender, u)
      PROVE  Next
  <2>1. log[e].chat \in Chats /\ log[e].users \in SUBSET Users
    BY <1>3, EventFields DEF JoinHandled, CallBegins
  <2>2. Events(log[e].chat)
    BY <1>3, <2>1 DEF Events, JoinHandled
  <2> QED
    BY <2>1, <2>2 DEF Next
<1>4. ASSUME NEW e \in 1..Len(log), NEW u \in Users, NEW sender \in Users \cup {NoUser},
             LeftHandled(e, u, sender)
      PROVE  Next
  <2>1. log[e].chat \in Chats
    BY <1>4, EventFields DEF LeftHandled, CallBegins
  <2>2. Events(log[e].chat)
    BY <1>4, <2>1 DEF Events, LeftHandled
  <2> QED
    BY <2>1, <2>2 DEF Next
<1>5. CASE \E s \in Slots :
             \/ BeginObserve(s) \/ ObserveFinish(s)
             \/ \E u \in Users : JoinContinues(s, u)
             \/ \E v \in Verdicts : MemberAnswers(s, v)
  BY <1>5 DEF Next, Observation, JoinContinues
<1>6. CASE \E c \in Chats : BotRemovalHandled(c) \/ TakeDue(c)
  BY <1>6 DEF Next, BotRemovalHandled
<1>7. CASE \/ SelectTarget \/ DropGoneCandidate \/ CanSend \/ Send \/ FinishJob
           \/ \E v \in Verdicts : CandidateAnswers(v)
  BY <1>7 DEF Next, Attempt
<1>8. CASE RestartAmongEvents
  BY <1>8 DEF Next, RestartAmongEvents
<1> QED
  BY <1>1, <1>2, <1>3, <1>4, <1>5, <1>6, <1>7, <1>8 DEF TNext

LEMMA AddUserTells ==
  ASSUME Inv, NEW c \in Chats, NEW u \in Users, NEW ok, AddUserLocked(c, u, ok)
  PROVE  /\ StampsMove
         /\ known' = known \/ known' = [known EXCEPT ![c] = @ \cup {u}]
         /\ u \in known'[c] => PresentNews(c)
<1>1. known \in [Chats -> SUBSET (Users \ Bots)]
  BY DEF Inv, TypeOK
<1>2. CASE u \in Bots /\ UNCHANGED tagger
  BY <1>1, <1>2 DEF StampsMove, tagger
<1>3. CASE u \notin Bots /\ MarkPresent(c)
  <2>1. PresentNews(c) /\ StampsMove
    BY <1>3, MarkPresentMarks DEF Inv, StampsMove, PresentNews
  <2> QED
    BY <1>3, <2>1 DEF AddUserLocked
<1> QED
  BY <1>2, <1>3 DEF AddUserLocked

LEMMA RemovalTells ==
  ASSUME Inv, NEW c \in Chats, NEW u, NEW ok, RemoveUserLocked(c, u, ok) \/ ForgetChat(c, ok)
  PROVE  /\ StampsMove /\ RemovedNews(c)
         /\ \A d \in Chats : known'[d] \subseteq known[d]
         /\ \A d \in Chats \ {c} : known'[d] = known[d]
<1>1. MarkRemoved(c)
  BY DEF RemoveUserLocked, ForgetChat
<1>2. RemovedNews(c) /\ StampsMove
  BY <1>1, MarkRemovedMarks DEF Inv, StampsMove, RemovedNews
<1>3. known \in [Chats -> SUBSET (Users \ Bots)]
  BY DEF Inv, TypeOK
<1> QED
  BY <1>2, <1>3 DEF RemoveUserLocked, ForgetChat

LEMMA AnswersSurvive ==
  ASSUME Inv, AnswersHold, StampsMove, JoinsAreNews, DeparturesAreNews,
         \A s \in Slots :
           slots'[s] = slots[s] \/ (GoneHolds(slots[s])' /\ PresentHolds(slots[s])'),
         attempt' = attempt \/ GoneHolds(attempt)'
  PROVE  AnswersHold'
<1>1. ASSUME NEW s \in Slots, slots'[s] = slots[s]
      PROVE  GoneHolds(slots[s])' /\ PresentHolds(slots[s])'
  <2> DEFINE t == slots[s]
  <2>1. SUFFICES ASSUME t.pc \in {"gone", "present"}
                 PROVE  GoneHolds(slots[s])' /\ PresentHolds(slots[s])'
    BY <1>1 DEF GoneHolds, PresentHolds
  <2>2. t.chat \in Chats /\ t.user \in Users
    BY <2>1, TaskFields DEF Inv, TypeOK, Checking
  <2>3. t.epoch \in Snapshots(t.chat)
    BY <2>1 DEF Snapshots, Checking
  <2>4. GoneHolds(t) /\ PresentHolds(t)
    BY DEF AnswersHold
  <2>5. GoneHolds(slots[s])'
    BY <1>1, <2>2, <2>3, <2>4 DEF GoneHolds, StampsMove, JoinsAreNews, PresentNews, ToldPresent
  <2>6. PresentHolds(slots[s])'
    BY <1>1, <2>2, <2>3, <2>4 DEF PresentHolds, StampsMove, DeparturesAreNews, RemovedNews, ToldGone
  <2> QED
    BY <2>5, <2>6
<1>2. ASSUME attempt' = attempt, attempt.pc = "gone"
      PROVE  GoneHolds(attempt)'
  <2>1. attempt.chat \in Chats /\ attempt.user \in Users
    BY <1>2, AttemptFields DEF Inv, TypeOK, Targeted
  <2>2. attempt.epoch \in Snapshots(attempt.chat)
    BY <1>2 DEF Snapshots, Targeted
  <2>3. GoneHolds(attempt)
    BY DEF AnswersHold
  <2> QED
    BY <1>2, <2>1, <2>2, <2>3 DEF GoneHolds, StampsMove, JoinsAreNews, PresentNews, ToldPresent
<1>3. attempt' = attempt => GoneHolds(attempt)'
  BY <1>2 DEF GoneHolds
<1> QED
  BY <1>1, <1>3 DEF AnswersHold

(* The steps of the tagger that are not about an event. *)
LEMMA UneventfulStep ==
  ASSUME Inv, TelegramInv, UNCHANGED telegram, StampsMove,
         \A s \in Slots :
           \/ slots'[s] = slots[s]
           \/ GoneHolds(slots[s])' /\ PresentHolds(slots[s])',
         attempt' = attempt \/ GoneHolds(attempt)',
         NoForgottenMember', NoGhostMember'
  PROVE  TelegramInv'
<1>1. JoinsAreNews /\ DeparturesAreNews
  BY DEF JoinsAreNews, DeparturesAreNews, ToldPresent, ToldGone, telegram
<1>2. AnswersHold'
  BY <1>1, AnswersSurvive DEF TelegramInv
<1>3. TelegramTypeOK'
  BY DEF TelegramInv, TelegramTypeOK, telegram
<1> QED
  BY <1>2, <1>3 DEF TelegramInv

LEMMA QuietTelegramStep ==
  ASSUME Inv, TelegramInv, UNCHANGED telegram, UNCHANGED <<known, epochs>>,
         \A s \in Slots :
           \/ slots'[s] = slots[s]
           \/ GoneHolds(slots[s])' /\ PresentHolds(slots[s])',
         attempt' = attempt \/ GoneHolds(attempt)'
  PROVE  TelegramInv'
<1>1. StampsMove
  BY DEF StampsMove
<1>2. NoForgottenMember' /\ NoGhostMember'
  BY DEF TelegramInv, NoForgottenMember, NoGhostMember, telegram
<1> QED
  BY <1>1, <1>2, UneventfulStep
-------------------------------------------------------------------------------
LEMMA ChecksKeepTelegram ==
  ASSUME Inv, TelegramInv, UNCHANGED telegram, NEW s \in Slots,
         \/ \E c \in Chats, u \in Users : HandleMessage(s, c, u)
         \/ BeginObserve(s)
         \/ \E v \in Verdicts : MemberAnswers(s, v) /\ v \in Truth(slots[s].chat, slots[s].user)
  PROVE  TelegramInv'
<1> DEFINE t == slots[s]
<1>1. slots \in [Slots -> Tasks]
  BY DEF Inv, TypeOK
<1>2. UNCHANGED <<known, epochs, attempt>>
  BY DEF HandleMessage, BeginObserve, MemberAnswers
<1>3. \A r \in Slots \ {s} : slots'[r] = slots[r]
  BY <1>1 DEF HandleMessage, BeginObserve, MemberAnswers
<1>4. ASSUME GoneHolds(slots[s])', PresentHolds(slots[s])'
      PROVE  TelegramInv'
  BY <1>2, <1>3, <1>4, QuietTelegramStep
<1>5. ASSUME slots'[s].pc \in {"asked", "idle"}
      PROVE  TelegramInv'
  BY <1>4, <1>5 DEF GoneHolds, PresentHolds
<1>6. CASE (\E c \in Chats, u \in Users : HandleMessage(s, c, u)) \/ BeginObserve(s)
  BY <1>1, <1>5, <1>6 DEF HandleMessage, BeginObserve
<1>7. ASSUME NEW v \in Verdicts, MemberAnswers(s, v), v \in Truth(t.chat, t.user)
      PROVE  TelegramInv'
  <2>1. CASE v = "unknown"
    BY <1>1, <1>5, <1>7, <2>1 DEF MemberAnswers, Idle
  <2>2. CASE v # "unknown"
    <3>1. t.pc = "asked" /\ slots'[s] = [t EXCEPT !.pc = v]
      BY <1>1, <1>7, <2>2 DEF MemberAnswers
    <3>2. t \in [pc : Checking, chat : Chats, user : Users, epoch : Epochs]
      BY <1>1, <3>1 DEF Tasks, Idle
    <3>3. /\ slots'[s].pc = v /\ slots'[s].chat = t.chat /\ slots'[s].user = t.user
          /\ t.chat \in Chats /\ t.user \in Users
      BY <3>1, <3>2
    <3>4. v = IF t.user \in inChat[t.chat] THEN "present" ELSE "gone"
      BY <1>7, <2>2 DEF Truth
    <3>5. GoneHolds(slots[s])'
      BY <3>3, <3>4 DEF GoneHolds, ToldPresent, telegram
    <3>6. PresentHolds(slots[s])'
      BY <3>3, <3>4 DEF PresentHolds, ToldGone, telegram
    <3> QED
      BY <1>4, <3>3, <3>4, <3>5, <3>6
  <2> QED
    BY <2>1, <2>2
<1> QED
  BY <1>6, <1>7

(* A member is not believed gone while its join is the latest news, nor    *)
(* present once its departure is.                                          *)
LEMMA ObserveFinishKeepsTelegram ==
  ASSUME Inv, TelegramInv, UNCHANGED telegram, NEW s \in Slots, ObserveFinish(s)
  PROVE  TelegramInv'
<1> DEFINE t == slots[s]
<1>1. slots \in [Slots -> Tasks] /\ known \in [Chats -> SUBSET (Users \ Bots)]
  BY DEF Inv, TypeOK
<1>2. /\ attempt' = attempt /\ slots'[s] = Idle
      /\ \A r \in Slots \ {s} : slots'[r] = slots[r]
  BY <1>1 DEF ObserveFinish
<1>3. t.pc \in {"present", "gone"} /\ t.chat \in Chats /\ t.user \in Users
  BY <1>1, TaskFields DEF ObserveFinish, Checking
<1>4. \A r \in Slots :
        \/ slots'[r] = slots[r]
        \/ GoneHolds(slots[r])' /\ PresentHolds(slots[r])'
  BY <1>2 DEF Idle, GoneHolds, PresentHolds
<1>5. CASE UNCHANGED tagger
  BY <1>2, <1>4, <1>5, QuietTelegramStep DEF tagger
<1>6. ASSUME t.pc = "present", ~Outdates(epochs[t.chat], t.epoch, "present"),
             NEW ok, AddUserLocked(t.chat, t.user, ok)
      PROVE  TelegramInv'
  <2>1. StampsMove /\ (known' = known \/ known' = [known EXCEPT ![t.chat] = @ \cup {t.user}])
    BY <1>3, <1>6, AddUserTells
  <2>2. PresentHolds(t)
    BY DEF TelegramInv, AnswersHold
  <2>3. ~ToldGone(t.chat, t.user)
    BY <1>6, <2>2 DEF PresentHolds, Outdates
  <2>4. NoForgottenMember' /\ NoGhostMember'
    BY <1>1, <1>3, <2>1, <2>3
       DEF TelegramInv, NoForgottenMember, NoGhostMember, ToldGone, telegram
  <2> QED
    BY <1>2, <1>4, <2>1, <2>4, UneventfulStep
<1>7. ASSUME t.pc = "gone", ~Outdates(epochs[t.chat], t.epoch, "gone"),
             NEW ok, RemoveUserLocked(t.chat, t.user, ok)
      PROVE  TelegramInv'
  <2>1. StampsMove
    BY <1>3, <1>7, RemovalTells
  <2>2. known' = known \/ known' = [known EXCEPT ![t.chat] = @ \ {t.user}]
    BY <1>7 DEF RemoveUserLocked
  <2>3. GoneHolds(t)
    BY DEF TelegramInv, AnswersHold
  <2>4. ~ToldPresent(t.chat, t.user)
    BY <1>7, <2>3 DEF GoneHolds, Outdates
  <2>5. NoForgottenMember' /\ NoGhostMember'
    BY <1>1, <1>3, <2>2, <2>4
       DEF TelegramInv, NoForgottenMember, NoGhostMember, ToldPresent, telegram
  <2> QED
    BY <1>2, <1>4, <2>1, <2>5, UneventfulStep
<1> QED
  BY <1>5, <1>6, <1>7 DEF ObserveFinish

LEMMA SenderKeepsTelegram ==
  ASSUME Inv, TelegramInv, UNCHANGED telegram,
         \/ SelectTarget \/ DropGoneCandidate \/ CanSend \/ Send \/ FinishJob
         \/ \E c \in Chats : TakeDue(c)
         \/ \E v \in Verdicts : CandidateAnswers(v) /\ v \in Truth(attempt.chat, attempt.user)
  PROVE  TelegramInv'
<1> DEFINE c == attempt.chat
           u == attempt.user
<1>1. attempt \in Attempts /\ known \in [Chats -> SUBSET (Users \ Bots)]
  BY DEF Inv, TypeOK
<1>2. slots' = slots
  BY DEF SelectTarget, DropGoneCandidate, CanSend, Send, FinishJob, TakeDue, CandidateAnswers
<1>3. ASSUME UNCHANGED <<known, epochs>>, attempt'.pc # "gone"
      PROVE  TelegramInv'
  BY <1>2, <1>3, QuietTelegramStep DEF GoneHolds
<1>4. CASE SelectTarget \/ CanSend \/ Send \/ FinishJob \/ \E d \in Chats : TakeDue(d)
  <2>1. UNCHANGED <<known, epochs>>
    BY <1>4 DEF SelectTarget, CanSend, Send, FinishJob, TakeDue
  <2>2. attempt'.pc # "gone"
    BY <1>1, <1>4 DEF SelectTarget, CanSend, Send, FinishJob, TakeDue, Finished, Idle, Attempts, Targeted
  <2> QED
    BY <1>3, <2>1, <2>2
<1>5. ASSUME NEW v \in Verdicts, CandidateAnswers(v), v \in Truth(c, u)
      PROVE  TelegramInv'
  <2>1. UNCHANGED <<known, epochs>> /\ v \in {"present", "gone", "unknown"}
    BY <1>5 DEF CandidateAnswers, Verdicts, MembershipOf
  <2>2. attempt \in [pc : Targeted, chat : Chats, token : Nat, user : Users, epoch : Epochs]
    BY <1>1, <1>5 DEF CandidateAnswers, Attempts, Idle
  <2>3. CASE v # "gone"
    <3>1. attempt'.pc # "gone"
      BY <1>5, <2>1, <2>2, <2>3 DEF CandidateAnswers, Finished
    <3> QED
      BY <1>3, <2>1, <3>1
  <2>4. CASE v = "gone"
    <3>1. attempt'.chat = c /\ attempt'.user = u /\ c \in Chats /\ u \in Users
      BY <1>5, <2>2, <2>4 DEF CandidateAnswers
    <3>2. u \notin inChat[c]
      BY <1>5, <2>4 DEF Truth
    <3>3. GoneHolds(attempt)'
      BY <3>1, <3>2 DEF GoneHolds, ToldPresent, telegram
    <3> QED
      BY <1>2, <2>1, <3>3, QuietTelegramStep
  <2> QED
    BY <2>3, <2>4
<1>6. CASE DropGoneCandidate
  <2>1. attempt'.pc # "gone" /\ attempt.pc = "gone"
    BY <1>6 DEF DropGoneCandidate, Finished
  <2>2. c \in Chats /\ u \in Users
    BY <1>1, <2>1, AttemptFields DEF Targeted
  <2>3. ASSUME ~Outdates(epochs[c], attempt.epoch, "gone"), NEW ok, RemoveUserLocked(c, u, ok)
        PROVE  TelegramInv'
    <3>1. StampsMove
      BY <2>2, <2>3, RemovalTells
    <3>2. known' = known \/ known' = [known EXCEPT ![c] = @ \ {u}]
      BY <2>3 DEF RemoveUserLocked
    <3>3. GoneHolds(attempt)
      BY DEF TelegramInv, AnswersHold
    <3>4. ~ToldPresent(c, u)
      BY <2>1, <2>3, <3>3 DEF GoneHolds, Outdates
    <3>5. NoForgottenMember' /\ NoGhostMember'
      BY <1>1, <2>2, <3>2, <3>4
         DEF TelegramInv, NoForgottenMember, NoGhostMember, ToldPresent, telegram
    <3> QED
      BY <1>2, <2>1, <3>1, <3>5, UneventfulStep DEF GoneHolds
  <2> QED
    BY <1>3, <1>6, <2>1, <2>3 DEF DropGoneCandidate
<1> QED
  BY <1>4, <1>5, <1>6
-------------------------------------------------------------------------------
(* The section of a join adds its user and makes every older answer stale. *)
LEMMA JoinSection ==
  ASSUME Inv, TelegramInv, NEW c \in Chats, NEW u \in Users, NEW ok, AddUserLocked(c, u, ok),
         JoinTold(c, u), UNCHANGED <<inChat, log, attempt>>,
         \A s \in Slots : slots'[s] = slots[s] \/ slots'[s].pc \notin {"gone", "present"}
  PROVE  TelegramInv'
<1>1. /\ StampsMove
      /\ known' = known \/ known' = [known EXCEPT ![c] = @ \cup {u}]
      /\ u \in known'[c] => PresentNews(c)
  BY AddUserTells
<1>2. TelegramTypeOK /\ known \in [Chats -> SUBSET (Users \ Bots)]
  BY DEF TelegramInv, Inv, TypeOK
<1>3. /\ told' \in [Chats -> [Users -> BOOLEAN]]
      /\ told'[c][u] <=> (u \in inChat[c] /\ u \in known'[c])
      /\ \A d \in Chats, w \in Users : d # c \/ w # u => told'[d][w] = told[d][w]
  BY <1>2 DEF JoinTold, TelegramTypeOK
<1>4. TelegramTypeOK'
  BY <1>2, <1>3 DEF TelegramTypeOK
<1>5. JoinsAreNews /\ DeparturesAreNews
  BY <1>1, <1>3 DEF JoinsAreNews, DeparturesAreNews, ToldPresent, ToldGone
<1>6. AnswersHold'
  <2>1. \A s \in Slots :
          slots'[s] = slots[s] \/ (GoneHolds(slots[s])' /\ PresentHolds(slots[s])')
    BY DEF GoneHolds, PresentHolds
  <2> QED
    BY <1>1, <1>5, <2>1, AnswersSurvive DEF TelegramInv
<1>7. NoForgottenMember'
  BY <1>1, <1>2, <1>3 DEF TelegramInv, NoForgottenMember
<1>8. NoGhostMember'
  BY <1>1, <1>2, <1>3 DEF TelegramInv, NoGhostMember
<1> QED
  BY <1>4, <1>6, <1>7, <1>8 DEF TelegramInv

(* The section of a departure, or of the bot's own, likewise. *)
LEMMA RemovalSection ==
  ASSUME Inv, TelegramInv, NEW c \in Chats, NEW u, NEW ok,
         RemoveUserLocked(c, u, ok) \/ ForgetChat(c, ok),
         UNCHANGED <<inChat, log, attempt>>, told' \in [Chats -> [Users -> BOOLEAN]],
         \A w \in Users :
           \/ told'[c][w] = told[c][w] /\ (w \in known[c] => w \in known'[c])
           \/ told'[c][w] => w \notin inChat[c] /\ w \notin known'[c],
         \A d \in Chats \ {c} : told'[d] = told[d],
         \A s \in Slots : slots'[s] = slots[s] \/ slots'[s].pc \notin {"gone", "present"}
  PROVE  TelegramInv'
<1>1. /\ StampsMove /\ RemovedNews(c)
      /\ \A d \in Chats : known'[d] \subseteq known[d]
      /\ \A d \in Chats \ {c} : known'[d] = known[d]
  BY RemovalTells
<1>2. JoinsAreNews /\ DeparturesAreNews
  BY <1>1 DEF JoinsAreNews, DeparturesAreNews, ToldPresent, ToldGone
<1>3. AnswersHold'
  <2>1. \A s \in Slots :
          slots'[s] = slots[s] \/ (GoneHolds(slots[s])' /\ PresentHolds(slots[s])')
    BY DEF GoneHolds, PresentHolds
  <2> QED
    BY <1>1, <1>2, <2>1, AnswersSurvive DEF TelegramInv
<1>4. TelegramTypeOK'
  BY DEF TelegramInv, TelegramTypeOK
<1>5. NoForgottenMember' /\ NoGhostMember'
  BY <1>1 DEF TelegramInv, NoForgottenMember, NoGhostMember
<1> QED
  BY <1>3, <1>4, <1>5 DEF TelegramInv

(* Who moves is no longer told of. *)
LEMMA MoveKeepsInv ==
  ASSUME Inv, TelegramInv, NEW c \in Chats, NEW users, UNCHANGED vars, Moved(c, users),
         inChat' \in [Chats -> SUBSET Users], log' \in Seq(EventTypes),
         \A d \in Chats, w \in Users :
           d # c \/ w \notin users => (w \in inChat'[d] <=> w \in inChat[d])
  PROVE  TelegramInv'
<1>1. UNCHANGED <<known, epochs, slots, attempt>>
  BY DEF vars
<1>2. /\ told' \in [Chats -> [Users -> BOOLEAN]]
      /\ \A d \in Chats, w \in Users :
           told'[d][w] => told[d][w] /\ (w \in inChat'[d] <=> w \in inChat[d])
  BY DEF Moved, TelegramInv, TelegramTypeOK
<1>3. StampsMove /\ JoinsAreNews /\ DeparturesAreNews
  BY <1>1, <1>2 DEF StampsMove, JoinsAreNews, DeparturesAreNews, ToldPresent, ToldGone
<1>4. AnswersHold'
  BY <1>1, <1>3, AnswersSurvive DEF TelegramInv
<1>5. NoForgottenMember' /\ NoGhostMember'
  BY <1>1, <1>2 DEF TelegramInv, NoForgottenMember, NoGhostMember
<1> QED
  BY <1>2, <1>4, <1>5 DEF TelegramInv, TelegramTypeOK

LEMMA TelegramAloneKeepsInv ==
  ASSUME Inv, TelegramInv, NEW c \in Chats,
         \/ \E users \in SUBSET Users : UsersJoin(c, users)
         \/ \E u \in Users : UserLeaves(c, u)
  PROVE  TelegramInv'
<1>1. inChat \in [Chats -> SUBSET Users] /\ log \in Seq(EventTypes)
  BY DEF TelegramInv, TelegramTypeOK
<1>2. ASSUME NEW event \in EventTypes, MayTell(event)
      PROVE  log' \in Seq(EventTypes)
  <2>1. PICK e \in {event, NoEvent} : log' = Append(log, e)
    BY <1>2 DEF MayTell
  <2> QED
    BY <1>1, <1>2, <2>1 DEF EventTypes
<1>3. ASSUME NEW users \in SUBSET Users, UsersJoin(c, users)
      PROVE  TelegramInv'
  <2>1. [kind |-> "join", chat |-> c, users |-> users] \in EventTypes
    BY DEF EventTypes
  <2>2. log' \in Seq(EventTypes)
    BY <1>2, <1>3, <2>1 DEF UsersJoin
  <2>3. inChat' = [inChat EXCEPT ![c] = @ \cup users]
    BY <1>3 DEF UsersJoin
  <2>4. /\ inChat' \in [Chats -> SUBSET Users]
        /\ \A d \in Chats, w \in Users :
             d # c \/ w \notin users => (w \in inChat'[d] <=> w \in inChat[d])
    BY <1>1, <2>3
  <2> QED
    BY <1>3, <2>2, <2>4, MoveKeepsInv DEF UsersJoin
<1>4. ASSUME NEW u \in Users, UserLeaves(c, u)
      PROVE  TelegramInv'
  <2>1. [kind |-> "left", chat |-> c, users |-> {u}] \in EventTypes
    BY DEF EventTypes
  <2>2. log' \in Seq(EventTypes)
    BY <1>2, <1>4, <2>1 DEF UserLeaves
  <2>3. inChat' = [inChat EXCEPT ![c] = @ \ {u}]
    BY <1>4 DEF UserLeaves
  <2>4. /\ inChat' \in [Chats -> SUBSET Users]
        /\ \A d \in Chats, w \in Users :
             d # c \/ w \notin {u} => (w \in inChat'[d] <=> w \in inChat[d])
    BY <1>1, <2>3
  <2> QED
    BY <1>4, <2>2, <2>4, MoveKeepsInv DEF UserLeaves
<1> QED
  BY <1>3, <1>4

LEMMA OccupiedSlots ==
  ASSUME slots \in [Slots -> Tasks], NEW task, Occupy(task),
         task.pc \in {"idle", "observe", "adding"}
  PROVE  \A s \in Slots : slots'[s] = slots[s] \/ slots'[s].pc \notin {"gone", "present"}
BY DEF Occupy

LEMMA JoinsKeepTelegram ==
  ASSUME Inv, TelegramInv, NEW e \in 1..Len(log), NEW u \in Users,
         NEW sender, JoinHandled(e, sender, u)
  PROVE  TelegramInv'
<1> DEFINE c == log[e].chat
           joined == log[e].users
           task == AfterOne(c, u, joined, IF sender \in joined THEN NoUser ELSE sender)
<1>1. PICK ok \in BOOLEAN : AddUserLocked(c, u, ok)
  BY DEF JoinHandled, HandleJoin, StoreOutcomes
<1>2. UNCHANGED <<inChat, log, attempt>> /\ Occupy(task) /\ JoinTold(c, u)
  BY DEF JoinHandled, HandleJoin, CallBegins
<1>3. c \in Chats
  BY EventFields DEF JoinHandled, CallBegins, TelegramInv
<1>4. task.pc \in {"idle", "observe", "adding"}
  BY DEF AfterOne, ThenObserve, Idle
<1>5. slots \in [Slots -> Tasks]
  BY DEF Inv, TypeOK
<1> HIDE DEF task
<1>6. \A s \in Slots : slots'[s] = slots[s] \/ slots'[s].pc \notin {"gone", "present"}
  BY <1>2, <1>4, <1>5, OccupiedSlots
<1> QED
  BY <1>1, <1>2, <1>3, <1>6, JoinSection

LEMMA JoinContinuesKeepsTelegram ==
  ASSUME Inv, TelegramInv, NEW s \in Slots, NEW u \in Users, JoinContinues(s, u)
  PROVE  TelegramInv'
<1> DEFINE c == slots[s].chat
           task == AfterOne(c, u, slots[s].todo, slots[s].user)
<1>1. PICK ok \in BOOLEAN : AddUserLocked(c, u, ok)
  BY DEF JoinContinues, AddJoined, StoreOutcomes
<1>2. /\ UNCHANGED <<inChat, log, attempt>> /\ slots[s].pc = "adding" /\ JoinTold(c, u)
      /\ slots' = [slots EXCEPT ![s] = task]
  BY DEF JoinContinues, AddJoined
<1>3. slots \in [Slots -> Tasks]
  BY DEF Inv, TypeOK
<1>4. c \in Chats
  BY <1>2, <1>3, TaskFields
<1>5. task.pc \in {"idle", "observe", "adding"}
  BY DEF AfterOne, ThenObserve, Idle
<1> HIDE DEF task
<1>6. \A r \in Slots : slots'[r] = slots[r] \/ slots'[r].pc \notin {"gone", "present"}
  BY <1>2, <1>3, <1>5
<1> QED
  BY <1>1, <1>2, <1>4, <1>6, JoinSection

LEMMA DeparturesKeepTelegram ==
  ASSUME Inv, TelegramInv, NEW e \in 1..Len(log), NEW u \in Users,
         NEW sender, LeftHandled(e, u, sender)
  PROVE  TelegramInv'
<1> DEFINE c == log[e].chat
           task == IF sender = u THEN Idle ELSE ThenObserve(c, sender)
<1>1. PICK ok \in BOOLEAN : RemoveUserLocked(c, u, ok)
  BY DEF LeftHandled, HandleLeft, StoreOutcomes
<1>2. UNCHANGED <<inChat, log, attempt>> /\ Occupy(task) /\ LeftTold(c, u)
  BY DEF LeftHandled, HandleLeft, CallBegins
<1>3. c \in Chats
  BY EventFields DEF LeftHandled, CallBegins, TelegramInv
<1>4. /\ slots \in [Slots -> Tasks] /\ known \in [Chats -> SUBSET (Users \ Bots)]
      /\ TelegramTypeOK
  BY DEF TelegramInv, Inv, TypeOK
<1>5. /\ told' \in [Chats -> [Users -> BOOLEAN]]
      /\ told'[c][u] => u \notin inChat[c] /\ u \notin known'[c]
      /\ \A w \in Users \ {u} : told'[c][w] = told[c][w]
      /\ \A d \in Chats \ {c} : told'[d] = told[d]
  BY <1>2, <1>3, <1>4 DEF LeftTold, TelegramTypeOK
<1>6. \A w \in Users \ {u} : w \in known[c] => w \in known'[c]
  BY <1>1, <1>3, <1>4 DEF RemoveUserLocked
<1>7. task.pc \in {"idle", "observe", "adding"}
  BY DEF ThenObserve, Idle
<1> HIDE DEF task
<1>8. \A s \in Slots : slots'[s] = slots[s] \/ slots'[s].pc \notin {"gone", "present"}
  BY <1>2, <1>4, <1>7, OccupiedSlots
<1>9. \A w \in Users :
        \/ told'[c][w] = told[c][w] /\ (w \in known[c] => w \in known'[c])
        \/ told'[c][w] => w \notin inChat[c] /\ w \notin known'[c]
  BY <1>5, <1>6
<1> QED
  BY <1>1, <1>2, <1>3, <1>5, <1>8, <1>9, RemovalSection

LEMMA BotRemovalKeepsTelegram ==
  ASSUME Inv, TelegramInv, NEW c \in Chats, BotRemovalHandled(c)
  PROVE  TelegramInv'
<1>1. PICK ok \in BOOLEAN : ForgetChat(c, ok)
  BY DEF BotRemovalHandled, HandleBotRemoved, StoreOutcomes
<1>2. UNCHANGED <<inChat, log, attempt, slots>>
  BY DEF BotRemovalHandled, HandleBotRemoved
<1>3. TelegramTypeOK
  BY DEF TelegramInv
<1>4. /\ told' \in [Chats -> [Users -> BOOLEAN]]
      /\ \A w \in Users :
           told'[c][w] = IF known'[c] = {} THEN w \notin inChat[c] ELSE told[c][w]
      /\ \A d \in Chats \ {c} : told'[d] = told[d]
  BY <1>3 DEF BotRemovalHandled, TelegramTypeOK
<1>5. known'[c] = known[c] \/ known'[c] = {}
  BY <1>1 DEF ForgetChat, Inv, TypeOK
<1> QED
  BY <1>1, <1>2, <1>4, <1>5, RemovalSection

LEMMA RestartKeepsTelegram ==
  ASSUME Inv, TelegramInv, RestartAmongEvents
  PROVE  TelegramInv'
<1>1. /\ UNCHANGED <<known, inChat, told>> /\ attempt' = Idle
      /\ slots' = [s \in Slots |-> Idle]
  BY DEF RestartAmongEvents, Restart
<1>2. log' \in Seq(EventTypes)
  <2>1. PICK confirmed \in 0..Len(log) :
          log' = [e \in 1..Len(log) |-> IF e <= confirmed THEN NoEvent ELSE log[e]]
    BY DEF RestartAmongEvents
  <2>2. log \in Seq(EventTypes) /\ NoEvent \in EventTypes
    BY DEF TelegramInv, TelegramTypeOK, EventTypes
  <2>3. \A e \in 1..Len(log) : log[e] \in EventTypes
    BY <2>2
  <2>4. log' \in [1..Len(log) -> EventTypes]
    BY <2>1, <2>2, <2>3
  <2> QED
    BY <2>2, <2>4
<1>3. TelegramTypeOK'
  BY <1>1, <1>2 DEF TelegramInv, TelegramTypeOK
<1>4. AnswersHold'
  BY <1>1 DEF AnswersHold, GoneHolds, PresentHolds, Idle
<1>5. NoForgottenMember' /\ NoGhostMember'
  BY <1>1 DEF TelegramInv, NoForgottenMember, NoGhostMember
<1> QED
  BY <1>3, <1>4, <1>5 DEF TelegramInv

LEMMA TelegramIsInvariant == TSpec => [](Inv /\ TelegramInv)
<1>1. TInit => Inv /\ TelegramInv
  <2> SUFFICES ASSUME TInit PROVE Inv /\ TelegramInv
    OBVIOUS
  <2>1. Inv
    BY InitInv DEF TInit
  <2>2. TelegramTypeOK
    BY DEF TInit, TelegramTypeOK
  <2>3. AnswersHold
    BY DEF TInit, Init, AnswersHold, GoneHolds, PresentHolds, Idle
  <2>4. NoForgottenMember /\ NoGhostMember
    BY DEF TInit, Init, NoForgottenMember, NoGhostMember
  <2> QED
    BY <2>1, <2>2, <2>3, <2>4 DEF TelegramInv
<1>2. Inv /\ TelegramInv /\ [TNext]_allVars => (Inv /\ TelegramInv)'
  <2> SUFFICES ASSUME Inv, TelegramInv, [TNext]_allVars
               PROVE  Inv' /\ TelegramInv'
    OBVIOUS
  <2>1. CASE UNCHANGED allVars
    <3>1. UNCHANGED vars /\ UNCHANGED telegram
      BY <2>1 DEF allVars, vars, telegram
    <3> QED
      BY <3>1, StepKeepsInv, QuietTelegramStep DEF vars
  <2>2. CASE TNext
    <3>1. Inv'
      BY <2>2, TelegramStepIsStep, StepKeepsInv DEF TelegramInv
    <3>2. TelegramInv'
      BY <2>2, TelegramAloneKeepsInv, ChecksKeepTelegram, ObserveFinishKeepsTelegram,
         SenderKeepsTelegram, JoinsKeepTelegram, JoinContinuesKeepsTelegram,
         DeparturesKeepTelegram, BotRemovalKeepsTelegram, RestartKeepsTelegram
         DEF TNext
    <3> QED
      BY <3>1, <3>2
  <2> QED
    BY <2>1, <2>2
<1> QED
  BY <1>1, <1>2, PTL DEF TSpec

(* on_join.go, membership.go: a member whom the event handled last rightly *)
(* calls present is known until it moves or a later call says otherwise,   *)
(* whatever answers, calls about others, table errors and crashes come in  *)
(* between, and however late and often the calls run.                      *)
THEOREM MembersAreNeverForgotten == TSpec => []NoForgottenMember
<1>1. Inv /\ TelegramInv => NoForgottenMember
  BY DEF TelegramInv
<1> QED
  BY <1>1, TelegramIsInvariant, PTL

(* on_left.go, membership.go: a user whom the event handled last rightly   *)
(* calls gone is unknown until it moves or a later call says otherwise:    *)
(* no answer about the time before brings it back.                         *)
THEOREM GhostsNeverReturn == TSpec => []NoGhostMember
<1>1. Inv /\ TelegramInv => NoGhostMember
  BY DEF TelegramInv
<1> QED
  BY <1>1, TelegramIsInvariant, PTL
-------------------------------------------------------------------------------
(* The registry.  Its lists are always those of the captions in memory,    *)
(* also while the table is ahead of both.                                  *)
Captions == [Chats -> [Users -> Authors \cup {NoAuthor}]]

Distinct(list) == \A i, j \in 1..Len(list) : list[i] = list[j] => i = j

Listed(c) == ToSet(chats[c]) = Members(authors, c) /\ Distinct(chats[c])

(* How far the table is ahead: by the change that holds the lock. *)
AheadByAdd ==
  \E c \in Chats, u \in Users, a \in Authors :
    /\ call = [op |-> "add", chat |-> c, user |-> u, author |-> a]
    /\ stored = [authors EXCEPT ![c][u] = a]

AheadByRemove ==
  \E c \in Chats, u \in Users :
    /\ call = [op |-> "remove", chat |-> c, user |-> u]
    /\ authors[c][u] # NoAuthor
    /\ stored = [authors EXCEPT ![c][u] = NoAuthor]

AheadByRemoveChat ==
  \E c \in Chats :
    /\ call = [op |-> "removeChat", chat |-> c]
    /\ stored = [authors EXCEPT ![c] = NoMembers]

RegistryTypes ==
  stored \in Captions /\ authors \in Captions /\ chats \in [Chats -> Seq(Users)]

RegistryInv ==
  /\ RegistryTypes
  /\ \A c \in Chats : Listed(c)
  /\ (call = NoCall /\ authors = stored) \/ AheadByAdd \/ AheadByRemove \/ AheadByRemoveChat

(* InOrder lists what it is given, once each: the ranks of the elements    *)
(* are as many as the places.                                              *)
LEMMA InOrderLists ==
  ASSUME NEW S \in SUBSET Users
  PROVE  InOrder(S) \in Seq(Users) /\ ToSet(InOrder(S)) = S /\ Distinct(InOrder(S))
<1>b. PICK below : below = [u \in S |-> {v \in S : v < u}]
  OBVIOUS
<1>r. PICK rank : rank = [u \in S |-> Cardinality(below[u]) + 1]
  OBVIOUS
<1>n. PICK n : n = Cardinality(S)
  OBVIOUS
<1>1. IsFiniteSet(S) /\ n \in Nat /\ \A u \in S : u \in Nat
  BY <1>n, UserIdsAssumption, FS_Subset, FS_CardinalityType
<1>2. ASSUME NEW u \in S
      PROVE  /\ IsFiniteSet(below[u]) /\ Cardinality(below[u]) \in Nat
             /\ rank[u] = Cardinality(below[u]) + 1 /\ rank[u] \in 1..n
  <2>1. below[u] \subseteq S /\ u \notin below[u]
    BY <1>1, <1>b
  <2>2. /\ IsFiniteSet(below[u]) /\ Cardinality(below[u]) \in Nat
        /\ Cardinality(below[u]) <= n /\ Cardinality(below[u]) # n
    BY <1>n, <1>1, <2>1, FS_Subset, FS_CardinalityType
  <2>3. rank[u] = Cardinality(below[u]) + 1
    BY <1>r
  <2> QED
    BY <1>1, <2>2, <2>3
<1>3. ASSUME NEW u \in S, NEW w \in S, u < w
      PROVE  rank[u] < rank[w]
  <2>1. \A v \in S : v < u => v < w
    BY <1>1, <1>3
  <2>2. below[u] \subseteq below[w] /\ u \in below[w] /\ u \notin below[u]
    BY <1>1, <1>3, <1>b, <2>1
  <2>3. /\ Cardinality(below[u]) <= Cardinality(below[w])
        /\ Cardinality(below[u]) # Cardinality(below[w])
    BY <1>2, <2>2, FS_Subset
  <2> QED
    BY <1>2, <2>3
<1>4. ASSUME NEW u \in S, NEW w \in S, rank[u] = rank[w]
      PROVE  u = w
  <2>1. u \in Nat /\ w \in Nat /\ rank[u] \in Nat /\ rank[w] \in Nat
    BY <1>1, <1>2
  <2>2. ~(u < w) /\ ~(w < u)
    BY <1>3, <1>4, <2>1
  <2> QED
    BY <2>1, <2>2
<1>5. rank \in Injection(S, 1..n)
  BY <1>2, <1>4, <1>r DEF Injection, IsInjective
<1>6. rank \in Surjection(S, 1..n)
  <2>1. IsFiniteSet(1..n) /\ Cardinality(1..n) = n
    BY <1>1, FS_Interval
  <2> QED
    BY <1>n, <1>5, <2>1, FS_Injection
<1>s. PICK s : s = InOrder(S)
  OBVIOUS
<1>7. s = [i \in 1..n |-> CHOOSE u \in S : Cardinality({v \in S : v < u}) = i - 1]
  BY <1>n, <1>s DEF InOrder
<1>8. ASSUME NEW i \in 1..n
      PROVE  s[i] \in S /\ rank[s[i]] = i
  <2>1. PICK w \in S : rank[w] = i
    BY <1>6 DEF Surjection
  <2>2. \A u \in S : below[u] = {v \in S : v < u}
    BY <1>b
  <2>3. Cardinality(below[w]) = i - 1
    BY <1>2, <2>1
  <2>4. s[i] \in S /\ Cardinality({v \in S : v < s[i]}) = i - 1
    BY <1>7, <2>2, <2>3
  <2>5. Cardinality(below[s[i]]) = i - 1
    BY <2>2, <2>4
  <2> QED
    BY <1>2, <2>4, <2>5
<1>9. s \in Seq(Users) /\ Len(s) = n /\ DOMAIN s = 1..n
  <2>1. s \in [1..n -> Users]
    BY <1>7, <1>8
  <2> QED
    BY <1>1, <2>1
<1>10. ToSet(s) = S
  BY <1>2, <1>4, <1>8, <1>9 DEF ToSet
<1>11. Distinct(s)
  BY <1>8, <1>9 DEF Distinct
<1> QED
  BY <1>s, <1>9, <1>10, <1>11

(* Appending and removing leave a list of the right members. *)
LEMMA AppendLists ==
  ASSUME NEW s \in Seq(Users), Distinct(s), NEW u \in Users, u \notin ToSet(s)
  PROVE  /\ Append(s, u) \in Seq(Users) /\ Distinct(Append(s, u))
         /\ ToSet(Append(s, u)) = ToSet(s) \cup {u}
<1>n. PICK n \in Nat : n = Len(s)
  OBVIOUS
<1>t. PICK t : t = Append(s, u)
  OBVIOUS
<1>1. /\ t \in Seq(Users) /\ Len(t) = n + 1 /\ t[n + 1] = u
      /\ \A i \in 1..n : t[i] = s[i]
      /\ DOMAIN t = 1..(n + 1) /\ DOMAIN s = 1..n
  BY <1>n, <1>t
<1>2. \A i \in 1..(n + 1) : i \in 1..n \/ i = n + 1
  OBVIOUS
<1>3. \A i \in 1..n : i \in 1..(n + 1)
  OBVIOUS
<1>4. n + 1 \in 1..(n + 1)
  OBVIOUS
<1>5. ToSet(t) = ToSet(s) \cup {u}
  BY <1>1, <1>2, <1>3, <1>4, Zenon DEF ToSet
<1>6. \A i \in 1..n : s[i] # u
  BY <1>1 DEF ToSet
<1>7. Distinct(t)
  BY <1>n, <1>1, <1>2, <1>6 DEF Distinct
<1> QED
  BY <1>t, <1>1, <1>5, <1>7

LEMMA SwapRemoveLists ==
  ASSUME NEW s \in Seq(Users), Distinct(s), NEW u \in ToSet(s)
  PROVE  /\ SwapRemove(s, u) \in Seq(Users) /\ Distinct(SwapRemove(s, u))
         /\ ToSet(SwapRemove(s, u)) = ToSet(s) \ {u}
<1>n. PICK n \in Nat : n = Len(s)
  OBVIOUS
<1>t. PICK t : t = SwapRemove(s, u)
  OBVIOUS
<1>1. DOMAIN s = 1..n /\ \A i \in 1..n : s[i] \in Users
  BY <1>n
<1>2. PICK k \in 1..n : s[k] = u
  BY <1>1 DEF ToSet
<1>3. n - 1 \in Nat /\ n \in 1..n /\ \A i \in 1..(n - 1) : i \in 1..n
  BY <1>2
<1>4. /\ t = [i \in 1..(n - 1) |-> IF s[i] = u THEN s[n] ELSE s[i]]
      /\ t \in Seq(Users) /\ Len(t) = n - 1 /\ DOMAIN t = 1..(n - 1)
  BY <1>n, <1>t, <1>1, <1>3 DEF SwapRemove
<1>5. \A i \in 1..(n - 1) : t[i] = IF i = k THEN s[n] ELSE s[i]
  BY <1>n, <1>2, <1>3, <1>4 DEF Distinct
<1>6. Distinct(t)
  BY <1>n, <1>3, <1>4, <1>5 DEF Distinct
<1>7. ASSUME NEW i \in 1..(n - 1)
      PROVE  t[i] \in ToSet(s) \ {u}
  <2>1. PICK j \in 1..n : t[i] = s[j] /\ j # k
    BY <1>2, <1>3, <1>5
  <2>2. s[j] # u
    BY <1>n, <1>2, <2>1 DEF Distinct
  <2> QED
    BY <1>1, <2>1, <2>2 DEF ToSet
<1>8. ASSUME NEW v \in ToSet(s) \ {u}
      PROVE  \E i \in 1..(n - 1) : t[i] = v
  <2>1. PICK j \in 1..n : s[j] = v
    BY <1>1 DEF ToSet
  <2>2. j # k
    BY <1>2, <2>1
  <2>3. CASE j = n
    <3>1. k \in 1..(n - 1)
      BY <2>2, <2>3
    <3> QED
      BY <1>5, <2>1, <2>3, <3>1
  <2>4. CASE j # n
    <3>1. j \in 1..(n - 1)
      BY <2>4
    <3> QED
      BY <1>5, <2>1, <2>2, <3>1
  <2> QED
    BY <2>3, <2>4
<1>9. ToSet(t) = ToSet(s) \ {u}
  <2>1. ToSet(t) = {t[i] : i \in 1..(n - 1)}
    BY <1>4 DEF ToSet
  <2> QED
    BY <1>7, <1>8, <2>1
<1> QED
  BY <1>t, <1>4, <1>6, <1>9
-------------------------------------------------------------------------------
LEMMA RegistryStarts == RegistryInit => RegistryInv
<1> SUFFICES ASSUME RegistryInit PROVE RegistryInv
  OBVIOUS
<1>1. NoMembers \in [Users -> Authors \cup {NoAuthor}] /\ \A u \in Users : NoMembers[u] = NoAuthor
  BY DEF NoMembers
<1>2. RegistryTypes
  BY <1>1 DEF RegistryInit, RegistryTypes, Captions
<1>3. ASSUME NEW c \in Chats PROVE Listed(c)
  <2>1. Members(authors, c) = {}
    BY <1>1 DEF RegistryInit, Members
  <2>2. chats[c] = <<>> /\ ToSet(chats[c]) = {}
    BY DEF RegistryInit, ToSet
  <2> QED
    BY <2>1, <2>2 DEF Listed, Distinct
<1> QED
  BY <1>2, <1>3 DEF RegistryInit, RegistryInv

(* A change that only writes to the table leaves memory as it is. *)
LEMMA BeginsKeepMemory ==
  ASSUME RegistryInv, UNCHANGED <<authors, chats>>
  PROVE  /\ authors' \in Captions /\ chats' \in [Chats -> Seq(Users)]
         /\ \A c \in Chats : Listed(c)'
BY DEF RegistryInv, RegistryTypes, Listed, Members

LEMMA AddBeginsKeeps ==
  ASSUME RegistryInv, NEW c \in Chats, NEW u \in Users, NEW a \in Authors, AddBegins(c, u, a)
  PROVE  RegistryInv'
<1>1. /\ authors' = authors /\ chats' = chats /\ call = NoCall /\ stored = authors
      /\ authors \in Captions /\ stored \in Captions
  BY DEF AddBegins, RegistryInv, RegistryTypes, AheadByAdd, AheadByRemove, AheadByRemoveChat, NoCall
<1>2. /\ authors' \in Captions /\ chats' \in [Chats -> Seq(Users)]
      /\ \A d \in Chats : Listed(d)'
  BY <1>1, BeginsKeepMemory
<1>3. CASE WriteFails
  BY <1>1, <1>2, <1>3 DEF WriteFails, RegistryInv, RegistryTypes
<1>4. CASE /\ Upsert(c, u, a)
           /\ call' = [op |-> "add", chat |-> c, user |-> u, author |-> a]
  <2>1. stored' = [authors EXCEPT ![c][u] = a]
    BY <1>1, <1>4 DEF Upsert
  <2>2. stored' \in Captions
    BY <1>1, <2>1 DEF Captions
  <2>3. AheadByAdd'
    BY <1>1, <1>4, <2>1 DEF AheadByAdd
  <2> QED
    BY <1>2, <2>2, <2>3 DEF RegistryInv, RegistryTypes
<1> QED
  BY <1>3, <1>4 DEF AddBegins

LEMMA RemoveBeginsKeeps ==
  ASSUME RegistryInv, NEW c \in Chats, NEW u \in Users, RemoveBegins(c, u)
  PROVE  RegistryInv'
<1>1. /\ authors' = authors /\ chats' = chats /\ call = NoCall /\ stored = authors
      /\ authors \in Captions /\ stored \in Captions /\ authors[c][u] # NoAuthor
  BY DEF RemoveBegins, RegistryInv, RegistryTypes, AheadByAdd, AheadByRemove, AheadByRemoveChat, NoCall
<1>2. /\ authors' \in Captions /\ chats' \in [Chats -> Seq(Users)]
      /\ \A d \in Chats : Listed(d)'
  BY <1>1, BeginsKeepMemory
<1>3. CASE WriteFails
  BY <1>1, <1>2, <1>3 DEF WriteFails, RegistryInv, RegistryTypes
<1>4. CASE /\ Delete(c, u)
           /\ call' = [op |-> "remove", chat |-> c, user |-> u]
  <2>1. stored' = [authors EXCEPT ![c][u] = NoAuthor]
    BY <1>1, <1>4 DEF Delete
  <2>2. stored' \in Captions
    BY <1>1, <2>1 DEF Captions
  <2>3. AheadByRemove'
    BY <1>1, <1>4, <2>1 DEF AheadByRemove
  <2> QED
    BY <1>2, <2>2, <2>3 DEF RegistryInv, RegistryTypes
<1> QED
  BY <1>3, <1>4 DEF RemoveBegins

LEMMA RemoveChatBeginsKeeps ==
  ASSUME RegistryInv, NEW c \in Chats, RemoveChatBegins(c)
  PROVE  RegistryInv'
<1>1. /\ authors' = authors /\ chats' = chats /\ call = NoCall /\ stored = authors
      /\ authors \in Captions /\ stored \in Captions
  BY DEF RemoveChatBegins, RegistryInv, RegistryTypes, AheadByAdd, AheadByRemove, AheadByRemoveChat, NoCall
<1>2. /\ authors' \in Captions /\ chats' \in [Chats -> Seq(Users)]
      /\ \A d \in Chats : Listed(d)'
  BY <1>1, BeginsKeepMemory
<1>3. CASE WriteFails
  BY <1>1, <1>2, <1>3 DEF WriteFails, RegistryInv, RegistryTypes
<1>4. CASE DeleteChat(c) /\ call' = [op |-> "removeChat", chat |-> c]
  <2>1. stored' = [authors EXCEPT ![c] = NoMembers]
    BY <1>1, <1>4 DEF DeleteChat
  <2>2. stored' \in Captions
    BY <1>1, <2>1 DEF Captions, NoMembers
  <2>3. AheadByRemoveChat'
    BY <1>1, <1>4, <2>1 DEF AheadByRemoveChat, NoMembers
  <2> QED
    BY <1>2, <2>2, <2>3 DEF RegistryInv, RegistryTypes
<1> QED
  BY <1>3, <1>4 DEF RemoveChatBegins

(* Memory takes over what the table holds; the other chats' lists stay. *)
LEMMA OthersStayListed ==
  ASSUME RegistryInv, NEW c \in Chats,
         \A d \in Chats \ {c} : authors'[d] = authors[d] /\ chats'[d] = chats[d],
         Listed(c)'
  PROVE  \A d \in Chats : Listed(d)'
<1> SUFFICES ASSUME NEW d \in Chats, d # c PROVE Listed(d)'
  OBVIOUS
<1> QED
  BY DEF RegistryInv, Listed, Members

LEMMA AddEndsKeeps ==
  ASSUME RegistryInv, AddEnds
  PROVE  RegistryInv'
<1>1. PICK c \in Chats, u \in Users, a \in Authors :
        /\ call = [op |-> "add", chat |-> c, user |-> u, author |-> a]
        /\ stored = [authors EXCEPT ![c][u] = a]
  BY DEF AddEnds, RegistryInv, AheadByAdd, AheadByRemove, AheadByRemoveChat, NoCall
<1>2. /\ chats' = IF authors[c][u] = NoAuthor
                  THEN [chats EXCEPT ![c] = Append(@, u)] ELSE chats
      /\ authors' = [authors EXCEPT ![c][u] = a]
      /\ call' = NoCall /\ stored' = stored
  BY <1>1 DEF AddEnds
<1>3. /\ stored \in Captions /\ authors \in Captions /\ chats \in [Chats -> Seq(Users)]
      /\ Listed(c) /\ chats[c] \in Seq(Users)
  BY DEF RegistryInv, RegistryTypes
<1>4. authors' = stored' /\ authors' \in Captions
  BY <1>1, <1>2, <1>3
<1>5. \A d \in Chats \ {c} : authors'[d] = authors[d] /\ chats'[d] = chats[d]
  BY <1>2, <1>3 DEF Captions
<1>6. a # NoAuthor
  BY AuthorsAssumption
<1>7. /\ authors'[c][u] = a
      /\ \A v \in Users \ {u} : authors'[c][v] = authors[c][v]
  BY <1>2, <1>3 DEF Captions
<1>8. Members(authors, c)' = Members(authors, c) \cup {u}
  BY <1>6, <1>7 DEF Members
<1>9. CASE authors[c][u] = NoAuthor
  <2>1. chats'[c] = Append(chats[c], u) /\ chats' = [chats EXCEPT ![c] = Append(chats[c], u)]
    BY <1>2, <1>3, <1>9
  <2>2. u \notin ToSet(chats[c])
    BY <1>3, <1>9 DEF Listed, Members
  <2>3. /\ Append(chats[c], u) \in Seq(Users) /\ Distinct(Append(chats[c], u))
        /\ ToSet(Append(chats[c], u)) = ToSet(chats[c]) \cup {u}
    BY <1>3, <2>2, AppendLists DEF Listed
  <2>4. chats' \in [Chats -> Seq(Users)]
    BY <1>3, <2>1, <2>3
  <2>5. Listed(c)'
    BY <1>3, <1>8, <2>1, <2>3 DEF Listed
  <2> QED
    BY <1>2, <1>3, <1>4, <1>5, <2>4, <2>5, OthersStayListed DEF RegistryInv, RegistryTypes
<1>10. CASE authors[c][u] # NoAuthor
  <2>1. chats' = chats
    BY <1>2, <1>10
  <2>2. Members(authors, c)' = Members(authors, c)
    BY <1>8, <1>10 DEF Members
  <2>3. Listed(c)'
    BY <1>3, <2>1, <2>2 DEF Listed
  <2> QED
    BY <1>2, <1>3, <1>4, <1>5, <2>1, <2>3, OthersStayListed DEF RegistryInv, RegistryTypes
<1> QED
  BY <1>9, <1>10

LEMMA RemoveEndsKeeps ==
  ASSUME RegistryInv, RemoveEnds
  PROVE  RegistryInv'
<1>1. PICK c \in Chats, u \in Users :
        /\ call = [op |-> "remove", chat |-> c, user |-> u]
        /\ authors[c][u] # NoAuthor
        /\ stored = [authors EXCEPT ![c][u] = NoAuthor]
  BY DEF RemoveEnds, RegistryInv, AheadByAdd, AheadByRemove, AheadByRemoveChat, NoCall
<1>2. /\ authors' = [authors EXCEPT ![c][u] = NoAuthor]
      /\ chats' = [chats EXCEPT ![c] = SwapRemove(chats[c], u)]
      /\ call' = NoCall /\ stored' = stored
  BY <1>1 DEF RemoveEnds
<1>3. /\ stored \in Captions /\ authors \in Captions /\ chats \in [Chats -> Seq(Users)]
      /\ Listed(c) /\ chats[c] \in Seq(Users)
  BY DEF RegistryInv, RegistryTypes
<1>4. authors' = stored' /\ authors' \in Captions
  BY <1>1, <1>2, <1>3
<1>5. \A d \in Chats \ {c} : authors'[d] = authors[d] /\ chats'[d] = chats[d]
  BY <1>2, <1>3 DEF Captions
<1>6. /\ authors'[c][u] = NoAuthor
      /\ \A v \in Users \ {u} : authors'[c][v] = authors[c][v]
  BY <1>2, <1>3 DEF Captions
<1>7. Members(authors, c)' = Members(authors, c) \ {u}
  BY <1>6 DEF Members
<1>8. u \in ToSet(chats[c])
  BY <1>1, <1>3 DEF Listed, Members
<1>9. /\ SwapRemove(chats[c], u) \in Seq(Users) /\ Distinct(SwapRemove(chats[c], u))
      /\ ToSet(SwapRemove(chats[c], u)) = ToSet(chats[c]) \ {u}
  BY <1>3, <1>8, SwapRemoveLists DEF Listed
<1>10. chats'[c] = SwapRemove(chats[c], u) /\ chats' \in [Chats -> Seq(Users)]
  BY <1>2, <1>3, <1>9
<1>11. Listed(c)'
  BY <1>3, <1>7, <1>9, <1>10 DEF Listed
<1> QED
  BY <1>2, <1>3, <1>4, <1>5, <1>10, <1>11, OthersStayListed DEF RegistryInv, RegistryTypes

LEMMA RemoveChatEndsKeeps ==
  ASSUME RegistryInv, RemoveChatEnds
  PROVE  RegistryInv'
<1>1. PICK c \in Chats :
        /\ call = [op |-> "removeChat", chat |-> c]
        /\ stored = [authors EXCEPT ![c] = NoMembers]
  BY DEF RemoveChatEnds, RegistryInv, AheadByAdd, AheadByRemove, AheadByRemoveChat, NoCall
<1>2. /\ authors' = [authors EXCEPT ![c] =
           [u \in Users |-> IF u \in ToSet(chats[c]) THEN NoAuthor ELSE authors[c][u]]]
      /\ chats' = [chats EXCEPT ![c] = <<>>]
      /\ call' = NoCall /\ stored' = stored
  BY <1>1 DEF RemoveChatEnds
<1>3. /\ stored \in Captions /\ authors \in Captions /\ chats \in [Chats -> Seq(Users)]
      /\ Listed(c)
  BY DEF RegistryInv, RegistryTypes
(* The list is the chat's: whoever it names is deleted, nobody is missed. *)
<1>4. [u \in Users |-> IF u \in ToSet(chats[c]) THEN NoAuthor ELSE authors[c][u]] = NoMembers
  BY <1>3 DEF Listed, Members, NoMembers
<1>5. authors' = stored' /\ authors' \in Captions
  BY <1>1, <1>2, <1>3, <1>4
<1>6. \A d \in Chats \ {c} : authors'[d] = authors[d] /\ chats'[d] = chats[d]
  BY <1>2, <1>3 DEF Captions
<1>7. chats' \in [Chats -> Seq(Users)] /\ chats'[c] = <<>> /\ authors'[c] = NoMembers
  BY <1>2, <1>3, <1>4 DEF Captions
<1>8. Members(authors, c)' = {}
  BY <1>7 DEF Members, NoMembers
<1>9. ToSet(<<>>) = {} /\ Distinct(<<>>)
  BY DEF ToSet, Distinct
<1>10. Listed(c)'
  BY <1>7, <1>8, <1>9 DEF Listed
<1> QED
  BY <1>2, <1>3, <1>5, <1>6, <1>7, <1>10, OthersStayListed DEF RegistryInv, RegistryTypes

LEMMA RegistryRestartKeeps ==
  ASSUME RegistryInv, RegistryRestart
  PROVE  RegistryInv'
<1>1. stored \in Captions /\ authors' = stored /\ stored' = stored /\ call' = NoCall
  BY DEF RegistryInv, RegistryTypes, RegistryRestart
<1>2. ASSUME NEW c \in Chats
      PROVE  /\ chats'[c] = InOrder(Members(stored, c))
             /\ Members(stored, c) \in SUBSET Users
             /\ Members(authors, c)' = Members(stored, c)
  BY <1>1 DEF RegistryRestart, Members
<1>3. ASSUME NEW c \in Chats
      PROVE  chats'[c] \in Seq(Users) /\ Listed(c)'
  <2>1. /\ InOrder(Members(stored, c)) \in Seq(Users)
        /\ ToSet(InOrder(Members(stored, c))) = Members(stored, c)
        /\ Distinct(InOrder(Members(stored, c)))
    BY <1>2, InOrderLists
  <2> QED
    BY <1>2, <2>1 DEF Listed
<1>4. chats' \in [Chats -> Seq(Users)]
  <2>1. chats' = [c \in Chats |-> chats'[c]]
    BY DEF RegistryRestart
  <2> QED
    BY <1>3, <2>1
<1> QED
  BY <1>1, <1>3, <1>4 DEF RegistryInv, RegistryTypes

LEMMA RegistryStep == RegistryInv /\ [RegistryNext]_registry => RegistryInv'
<1> SUFFICES ASSUME RegistryInv, [RegistryNext]_registry PROVE RegistryInv'
  OBVIOUS
<1>1. ASSUME NEW c \in Chats, NEW u \in Users, NEW a \in Authors, AddBegins(c, u, a)
      PROVE  RegistryInv'
  BY <1>1, AddBeginsKeeps
<1>2. ASSUME NEW c \in Chats, NEW u \in Users, RemoveBegins(c, u)
      PROVE  RegistryInv'
  BY <1>2, RemoveBeginsKeeps
<1>3. ASSUME NEW c \in Chats, RemoveChatBegins(c)
      PROVE  RegistryInv'
  BY <1>3, RemoveChatBeginsKeeps
<1>4. CASE AddEnds
  BY <1>4, AddEndsKeeps
<1>5. CASE RemoveEnds
  BY <1>5, RemoveEndsKeeps
<1>6. CASE RemoveChatEnds
  BY <1>6, RemoveChatEndsKeeps
<1>7. CASE RegistryRestart
  BY <1>7, RegistryRestartKeeps
<1>8. CASE UNCHANGED registry
  BY <1>8 DEF registry, RegistryInv, RegistryTypes, Listed, Members,
              AheadByAdd, AheadByRemove, AheadByRemoveChat
<1> QED
  BY <1>1, <1>2, <1>3, <1>4, <1>5, <1>6, <1>7, <1>8 DEF RegistryNext

(* Registry.Add, Remove, RemoveChat and New: whoever takes the lock finds   *)
(* in memory what the table holds, each member once in its chat's list,     *)
(* however many statements failed and wherever the process died.            *)
THEOREM MemoryIsAlwaysTheTable == RegistrySpec => []MemoryIsTheTable
<1>1. RegistryInv => MemoryIsTheTable
  <2> SUFFICES ASSUME RegistryInv, call = NoCall
               PROVE  /\ authors = stored
                      /\ \A c \in Chats : Listed(c)
    BY DEF MemoryIsTheTable, Listed, Distinct
  <2> QED
    BY DEF RegistryInv, AheadByAdd, AheadByRemove, AheadByRemoveChat, NoCall
<1> QED
  BY <1>1, RegistryStarts, RegistryStep, PTL DEF RegistrySpec

(* Both maps show the same members. *)
LEMMA SeenIsMemory == RegistryInv => Seen = authors
<1> SUFFICES ASSUME RegistryInv PROVE Seen = authors
  OBVIOUS
<1>1. authors \in Captions /\ \A c \in Chats : ToSet(chats[c]) = Members(authors, c)
  BY DEF RegistryInv, RegistryTypes, Listed
<1>2. \A c \in Chats, u \in Users :
        (IF u \in ToSet(chats[c]) THEN authors[c][u] ELSE NoAuthor) = authors[c][u]
  BY <1>1 DEF Members
<1>3. /\ authors = [c \in Chats |-> authors[c]]
      /\ \A c \in Chats : authors[c] = [u \in Users |-> authors[c][u]]
  BY <1>1 DEF Captions
<1> QED
  BY <1>2, <1>3, Zenon DEF Seen

(* While a call is under way, the table holds what it will have done. *)
LEMMA TableIsAhead ==
  RegistryInv /\ call # NoCall => call \in Table!Calls /\ Table!After(call) = stored
<1> SUFFICES ASSUME RegistryInv, call # NoCall
             PROVE  call \in Table!Calls /\ Table!After(call) = stored
  OBVIOUS
<1>1. Seen = authors /\ authors \in Captions /\ stored \in Captions
  BY SeenIsMemory DEF RegistryInv, RegistryTypes
<1>2. Table!After(call) =
        [c \in Chats |-> [u \in Users |->
           IF Table!Concerns(call, c, u) THEN Table!Outcome(call) ELSE authors[c][u]]]
  BY <1>1 DEF Table!After
<1>3. ASSUME \A d \in Chats, w \in Users : stored[d][w] =
               IF Table!Concerns(call, d, w) THEN Table!Outcome(call) ELSE authors[d][w]
      PROVE  Table!After(call) = stored
  <2>1. stored = [d \in Chats |-> [w \in Users |-> stored[d][w]]]
    BY <1>1 DEF Captions
  <2> QED
    BY <1>2, <1>3, <2>1, Zenon
<1>4. CASE AheadByAdd
  <2>1. PICK c \in Chats, u \in Users, a \in Authors :
          /\ call = [op |-> "add", chat |-> c, user |-> u, author |-> a]
          /\ stored = [authors EXCEPT ![c][u] = a]
    BY <1>4 DEF AheadByAdd
  <2>2. call.op = "add" /\ call.chat = c /\ call.user = u /\ call.author = a
    BY <2>1
  <2>3. \A d \in Chats, w \in Users :
          stored[d][w] = IF d = c /\ w = u THEN a ELSE authors[d][w]
    BY <1>1, <2>1 DEF Captions
  <2>4. \A d \in Chats, w \in Users : stored[d][w] =
          IF Table!Concerns(call, d, w) THEN Table!Outcome(call) ELSE authors[d][w]
    BY <2>2, <2>3 DEF Table!Concerns, Table!Outcome
  <2> QED
    BY <1>3, <2>1, <2>4 DEF Table!Calls
<1>5. CASE AheadByRemove
  <2>1. PICK c \in Chats, u \in Users :
          /\ call = [op |-> "remove", chat |-> c, user |-> u]
          /\ stored = [authors EXCEPT ![c][u] = NoAuthor]
    BY <1>5 DEF AheadByRemove
  <2>2. call.op = "remove" /\ call.chat = c /\ call.user = u
    BY <2>1
  <2>3. \A d \in Chats, w \in Users :
          stored[d][w] = IF d = c /\ w = u THEN NoAuthor ELSE authors[d][w]
    BY <1>1, <2>1 DEF Captions
  <2>4. \A d \in Chats, w \in Users : stored[d][w] =
          IF Table!Concerns(call, d, w) THEN Table!Outcome(call) ELSE authors[d][w]
    BY <2>2, <2>3 DEF Table!Concerns, Table!Outcome
  <2> QED
    BY <1>3, <2>1, <2>4 DEF Table!Calls
<1>6. CASE AheadByRemoveChat
  <2>1. PICK c \in Chats :
          /\ call = [op |-> "removeChat", chat |-> c]
          /\ stored = [authors EXCEPT ![c] = NoMembers]
    BY <1>6 DEF AheadByRemoveChat
  <2>2. call.op = "removeChat" /\ call.chat = c
    BY <2>1
  <2>3. \A d \in Chats, w \in Users :
          stored[d][w] = IF d = c THEN NoAuthor ELSE authors[d][w]
    BY <1>1, <2>1 DEF Captions, NoMembers
  <2>4. \A d \in Chats, w \in Users : stored[d][w] =
          IF Table!Concerns(call, d, w) THEN Table!Outcome(call) ELSE authors[d][w]
    BY <2>2, <2>3 DEF Table!Concerns, Table!Outcome
  <2> QED
    BY <1>3, <2>1, <2>4 DEF Table!Calls
<1> QED
  BY <1>4, <1>5, <1>6 DEF RegistryInv

(* The end of a call, or a restart, shows what the table holds. *)
LEMMA TableIsShown ==
  ASSUME RegistryInv, RegistryInv', UNCHANGED stored, call' = NoCall
  PROVE  [Table!TableNext]_<<Seen, call>>
<1>0. (RegistryInv => Seen = authors)'
  BY SeenIsMemory, PTL
<1>1. Seen = authors /\ Seen' = authors'
  BY <1>0, SeenIsMemory
<1>2. authors' = stored
  BY DEF RegistryInv, AheadByAdd, AheadByRemove, AheadByRemoveChat, NoCall
<1>3. CASE call = NoCall
  <2>1. authors = stored
    BY <1>3 DEF RegistryInv, AheadByAdd, AheadByRemove, AheadByRemoveChat, NoCall
  <2> QED
    BY <1>1, <1>2, <1>3, <2>1
<1>4. CASE call # NoCall
  <2>1. Seen' = Table!After(call)
    BY <1>1, <1>2, <1>4, TableIsAhead
  <2>2. Table!End
    BY <1>4, <2>1 DEF Table!End, Table!None, NoCall
  <2> QED
    BY <2>2 DEF Table!TableNext
<1> QED
  BY <1>3, <1>4

(* A call that begins shows nothing; one that fails does nothing. *)
LEMMA NothingIsShown ==
  ASSUME RegistryInv, RegistryInv', UNCHANGED <<authors, chats>>,
         call' = call \/ call = NoCall
  PROVE  [Table!TableNext]_<<Seen, call>>
<1>1. Seen' = Seen
  BY DEF Seen
<1>2. CASE call' = call
  BY <1>1, <1>2
<1>3. CASE call = NoCall /\ call' # NoCall
  <2>0. (RegistryInv /\ call # NoCall => call \in Table!Calls /\ Table!After(call) = stored)'
    BY TableIsAhead, PTL
  <2>1. call' \in Table!Calls
    <3>1. (call # NoCall)' /\ RegistryInv'
      BY <1>3 DEF NoCall
    <3> QED
      BY <2>0, <3>1
  <2>2. Table!Begin(call')
    BY <1>1, <1>3 DEF Table!Begin, Table!None, NoCall
  <2> QED
    BY <2>1, <2>2 DEF Table!TableNext
<1> QED
  BY <1>2, <1>3

(* registry.go: two maps in memory over a table that is written first look  *)
(* like one table that is changed by whole calls: nothing of a call is seen *)
(* before its end, a refused statement has no effect, and a process that    *)
(* dies between the statement and memory comes back with the call done and  *)
(* nothing else changed.                                                    *)
THEOREM RegistryIsATable == RegistrySpec => ImplementsTable
<1>1. RegistryInit => Table!TableInit
  <2> SUFFICES ASSUME RegistryInit PROVE Table!TableInit
    OBVIOUS
  <2>1. Seen = authors
    BY RegistryStarts, SeenIsMemory
  <2> QED
    BY <2>1 DEF RegistryInit, NoMembers, NoCall, Table!TableInit, Table!None
<1>2. RegistryInv /\ RegistryInv' /\ [RegistryNext]_registry => [Table!TableNext]_<<Seen, call>>
  <2> SUFFICES ASSUME RegistryInv, RegistryInv', [RegistryNext]_registry
               PROVE  [Table!TableNext]_<<Seen, call>>
    OBVIOUS
  <2>1. CASE \/ \E c \in Chats, u \in Users, a \in Authors : AddBegins(c, u, a)
             \/ \E c \in Chats, u \in Users : RemoveBegins(c, u)
             \/ \E c \in Chats : RemoveChatBegins(c)
             \/ UNCHANGED registry
    <3>1. UNCHANGED <<authors, chats>> /\ (call' = call \/ call = NoCall)
      BY <2>1 DEF AddBegins, RemoveBegins, RemoveChatBegins, registry
    <3> QED
      BY <3>1, NothingIsShown
  <2>2. CASE AddEnds \/ RemoveEnds \/ RemoveChatEnds \/ RegistryRestart
    <3>1. UNCHANGED stored /\ call' = NoCall
      BY <2>2 DEF AddEnds, RemoveEnds, RemoveChatEnds, RegistryRestart
    <3> QED
      BY <3>1, TableIsShown
  <2> QED
    BY <2>1, <2>2 DEF RegistryNext
<1> QED
  BY <1>1, <1>2, RegistryStarts, RegistryStep, PTL DEF RegistrySpec, ImplementsTable, Table!TableSpec
===============================================================================
