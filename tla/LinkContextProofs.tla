--------------------------- MODULE LinkContextProofs ---------------------------
(***************************************************************************)
(* Proofs about the enrichment of links and the loader under it, for any   *)
(* links, hosts, servers, budgets and limits and any finite number of      *)
(* calls, photos and loads, and about the parser of heads, for pages of    *)
(* any length.                                                             *)
(***************************************************************************)
EXTENDS LinkContext, LinkPreview, FiniteSetTheorems, FunctionTheorems, SequenceTheorems, TLAPS

Pcs == {"page", "image", "slot", "describe", "answer", "described", "end", "over"}
Jobs == [pc : Pcs, link : Links, fields : SUBSET {"text", "preview"}]
Listed == {l \in Links : jobs[l] # NoJob}

Types ==
  /\ job \in [Calls -> {NotStarted} \cup Jobs]
  /\ jobs \in [Links -> Calls \cup {NoJob}]
  /\ calls = [w \in Calls |-> calls[w]]
  /\ photos \in [Photos -> {"idle", "describe", "answer"}]
  /\ visionSlots \in Nat
  /\ phase \in {"open", "closing", "closed"}

NewHasNoJob == \A w \in Calls : New(w) => job[w] = NotStarted

(* The list holds the jobs that run, each under its link. *)
RunningIsListed ==
  /\ \A j \in Running : jobs[job[j].link] = j
  /\ \A l \in Listed : jobs[l] \in Running /\ job[jobs[l]].link = l

Inv ==
  /\ Types /\ NewHasNoJob /\ RunningIsListed
  /\ ClosedIsQuiet /\ SlotsAreHeld /\ JobsAreLimited

LEMMA Finite == IsFiniteSet(Running) /\ IsFiniteSet(Describing) /\ IsFiniteSet(Pictured)
<1>1. Running \subseteq Calls /\ Describing \subseteq Calls /\ Pictured \subseteq Photos
  BY DEF Running, Describing, Pictured
<1> QED
  BY <1>1, LinkContextAssumption, FS_Subset

LEMMA Counts ==
  /\ Cardinality(Running) \in Nat
  /\ Cardinality(Describing) \in Nat /\ Cardinality(Pictured) \in Nat
BY Finite, FS_CardinalityType

LEMMA RunningHasLink ==
  ASSUME Types, NEW j \in Calls
  PROVE  /\ j \in Running <=> job[j] \in Jobs /\ job[j].pc # "over"
         /\ job[j].pc # "none" => job[j] \in Jobs /\ job[j].pc \in Pcs /\ job[j].link \in Links
BY DEF Types, Running, Over, NotStarted, Jobs, Pcs

LEMMA RunningIsUnderLink ==
  ASSUME Inv, NEW j \in Running
  PROVE  /\ j \in Calls /\ j # NoJob /\ job[j] \in Jobs
         /\ job[j].link \in Listed /\ job[j].link \in Links /\ jobs[job[j].link] = j
<1>1. j \in Calls /\ j # NoJob
  BY LinkContextAssumption DEF Running
<1>2. job[j] \in Jobs /\ job[j].link \in Links
  BY <1>1, RunningHasLink DEF Inv, Jobs
<1>3. jobs[job[j].link] = j
  BY DEF Inv, RunningIsListed
<1> QED
  BY <1>1, <1>2, <1>3 DEF Listed

LEMMA ListedAreRunning == Inv => Cardinality(Listed) = Cardinality(Running)
<1> SUFFICES ASSUME Inv PROVE Cardinality(Listed) = Cardinality(Running)
  OBVIOUS
<1> DEFINE f == [j \in Running |-> job[j].link]
<1>1. f \in [Running -> Listed]
  BY RunningIsUnderLink
<1>2. \A j, k \in Running : f[j] = f[k] => j = k
  BY DEF Inv, RunningIsListed
<1>3. \A l \in Listed : \E j \in Running : f[j] = l
  BY DEF Inv, RunningIsListed
<1>4. f \in Bijection(Running, Listed)
  BY <1>1, <1>2, <1>3 DEF Bijection, Injection, Surjection, IsInjective
<1> HIDE DEF f
<1>5. ExistsBijection(Running, Listed)
  BY <1>4 DEF ExistsBijection
<1> QED
  BY <1>5, Finite, FS_Bijection

LEMMA InvInit == Init => Inv
<1> SUFFICES ASSUME Init PROVE Inv
  OBVIOUS
<1>1. Types /\ NewHasNoJob
  BY DEF Init, Types, NewHasNoJob, New
<1>2. Running = {} /\ Listed = {} /\ Describing = {} /\ Pictured = {}
  BY DEF Init, Running, Over, NotStarted, Listed, Describing, Pictured
<1>3. RunningIsListed /\ ClosedIsQuiet
  BY <1>2 DEF RunningIsListed, ClosedIsQuiet
<1>4. SlotsAreHeld /\ JobsAreLimited
  BY <1>2, FS_EmptySet, LinkContextAssumption DEF SlotsAreHeld, JobsAreLimited, Init
<1> QED
  BY <1>1, <1>3, <1>4 DEF Inv
-------------------------------------------------------------------------------
(* A step that leaves the jobs, their list and the slots as they are. *)
LEMMA JobsStay ==
  ASSUME Inv, UNCHANGED <<job, jobs, phase, visionSlots, photos>>,
         calls' = [w \in Calls |-> calls'[w]],
         \A w \in Calls : New(w)' => New(w)
  PROVE  Inv'
<1>1. Running' = Running /\ Describing' = Describing /\ Pictured' = Pictured /\ Listed' = Listed
  BY DEF Running, Over, Describing, Pictured, Listed
<1> QED
  BY <1>1 DEF Inv, Types, NewHasNoJob, RunningIsListed, ClosedIsQuiet, SlotsAreHeld, JobsAreLimited

(* A job that goes on. *)
LEMMA JobGoesOn ==
  ASSUME Inv, NEW j \in Calls, NEW next \in Pcs \ {"over"}, NEW fields \in SUBSET {"text", "preview"},
         job[j].pc \in Pcs \ {"over"},
         Goes(j, next, fields),
         UNCHANGED <<calls, jobs, phase, photos>>,
         visionSlots' \in Nat
  PROVE  /\ Types' /\ NewHasNoJob' /\ RunningIsListed' /\ ClosedIsQuiet' /\ JobsAreLimited'
         /\ Pictured' = Pictured
         /\ Describing' = IF next \in {"describe", "answer"} THEN Describing \cup {j}
                          ELSE Describing \ {j}
<1>1. job[j] \in Jobs /\ job[j] # NotStarted /\ j \in Running
  BY RunningHasLink DEF Inv, Types, NotStarted, Pcs
<1>2. /\ job'[j] \in Jobs /\ job'[j].pc = next /\ job'[j].link = job[j].link
      /\ \A k \in Calls : k # j => job'[k] = job[k]
      /\ job' \in [Calls -> {NotStarted} \cup Jobs]
  BY <1>1 DEF Inv, Types, Jobs, Goes
<1>3. Running' = Running
  BY <1>1, <1>2 DEF Running, Over, Pcs
<1>4. Types'
  BY <1>2 DEF Inv, Types
<1>5. NewHasNoJob'
  BY <1>1, <1>2 DEF Inv, NewHasNoJob, New
<1>6. RunningIsListed'
  BY <1>2, <1>3 DEF Inv, RunningIsListed, Listed, Running
<1>7. ClosedIsQuiet' /\ JobsAreLimited'
  BY <1>3 DEF Inv, ClosedIsQuiet, JobsAreLimited
<1>8. Pictured' = Pictured
  BY DEF Pictured
<1>9. Describing' = IF next \in {"describe", "answer"} THEN Describing \cup {j} ELSE Describing \ {j}
  BY <1>2 DEF Describing
<1> QED
  BY <1>4, <1>5, <1>6, <1>7, <1>8, <1>9

LEMMA StartStep ==
  ASSUME Inv, NEW w \in Calls, NEW l \in Links, NEW c \in Chats, Start(w, l, c)
  PROVE  Inv'
<1> DEFINE new == [pc |-> "page", link |-> l, fields |-> {}]
<1>1. /\ New(w) /\ phase = "open" /\ jobs[l] = NoJob /\ ~JobsAreMany
      /\ jobs' = [jobs EXCEPT ![l] = w] /\ job' = [job EXCEPT ![w] = new]
      /\ calls' = [calls EXCEPT ![w] = [pc |-> "waiting", link |-> l, job |-> w]]
      /\ UNCHANGED <<phase, visionSlots, photos>>
  BY DEF Start, Miss, Waits
<1>2. new \in Jobs /\ new.pc = "page" /\ new.link = l
  BY DEF Jobs, Pcs
<1> HIDE DEF new
<1>3. job[w] = NotStarted /\ job[w].pc = "none"
  BY <1>1 DEF Inv, NewHasNoJob, NotStarted
<1>4. /\ job'[w] = new /\ \A k \in Calls : k # w => job'[k] = job[k]
      /\ job' \in [Calls -> {NotStarted} \cup Jobs]
      /\ jobs'[l] = w /\ \A m \in Links : m # l => jobs'[m] = jobs[m]
      /\ jobs' \in [Links -> Calls \cup {NoJob}]
  BY <1>1, <1>2 DEF Inv, Types
<1>5. Running' = Running \cup {w} /\ w \notin Running
  BY <1>2, <1>3, <1>4 DEF Running, Over
<1>6. Types'
  <2>1. calls' = [v \in Calls |-> calls'[v]]
    <3>1. calls = [v \in Calls |-> calls[v]]
      BY DEF Inv, Types
    <3> QED
      BY <1>1, <3>1
  <2> QED
    BY <1>1, <1>4, <2>1 DEF Inv, Types
<1>7. NewHasNoJob'
  BY <1>1, <1>4 DEF Inv, Types, NewHasNoJob, New
<1>8. RunningIsListed'
  <2>1. \A j \in Running : job[j].link \in Links /\ job[j].link # l /\ j # w
    BY <1>1, <1>5, RunningIsUnderLink
  <2>2. \A m \in Listed' : m = l \/ (m \in Listed /\ m # l)
    BY <1>4 DEF Listed
  <2>3. \A m \in Listed : m # l => jobs'[m] \in Running /\ jobs'[m] # w /\ job[jobs[m]].link = m
    BY <1>4, <1>5 DEF Inv, RunningIsListed, Listed
  <2>4. \A j \in Running : j \in Calls
    BY DEF Running
  <2>5. \A j \in Running' : jobs'[job'[j].link] = j
    BY <1>2, <1>4, <1>5, <2>1, <2>4 DEF Inv, RunningIsListed
  <2>6. \A m \in Listed' : jobs'[m] \in Running' /\ job'[jobs'[m]].link = m
    BY <1>2, <1>4, <1>5, <2>2, <2>3, <2>4 DEF Listed
  <2> QED
    BY <2>5, <2>6 DEF RunningIsListed
<1>9. ClosedIsQuiet'
  BY <1>1 DEF ClosedIsQuiet
<1>10. SlotsAreHeld'
  <2>1. Describing' = Describing /\ Pictured' = Pictured
    BY <1>1, <1>2, <1>3, <1>4 DEF Describing, Pictured
  <2> QED
    BY <1>1, <2>1 DEF Inv, SlotsAreHeld
<1>11. JobsAreLimited'
  <2>1. Cardinality(Running) < MaxJobs
    BY <1>1, ListedAreRunning, Counts, LinkContextAssumption DEF JobsAreMany, Listed
  <2>2. Cardinality(Running') = Cardinality(Running) + 1
    BY <1>5, Finite, FS_AddElement
  <2> QED
    BY <2>1, <2>2, Counts, LinkContextAssumption DEF JobsAreLimited
<1> QED
  BY <1>6, <1>7, <1>8, <1>9, <1>10, <1>11 DEF Inv

LEMMA FinishStep ==
  ASSUME Inv, NEW j \in Calls, Finish(j)
  PROVE  Inv'
<1> DEFINE l == job[j].link
<1>1. /\ job[j].pc \in {"end", "described"}
      /\ Goes(j, "over", Result(j))
      /\ jobs' = [jobs EXCEPT ![l] = NoJob]
      /\ UNCHANGED <<calls, phase, visionSlots, photos>>
  BY DEF Finish, Finishing
<1>2. job[j] \in Jobs /\ job[j] # NotStarted /\ j \in Running /\ l \in Links
  BY <1>1, RunningHasLink DEF Inv, Types, NotStarted, Pcs
<1>3. Result(j) \in SUBSET {"text", "preview"}
  BY <1>2 DEF Result, Jobs
<1>4. /\ job'[j] \in Jobs /\ job'[j].pc = "over"
      /\ \A k \in Calls : k # j => job'[k] = job[k]
      /\ job' \in [Calls -> {NotStarted} \cup Jobs]
  BY <1>1, <1>2, <1>3 DEF Inv, Types, Jobs, Pcs, Goes
<1> HIDE DEF l
<1>5. /\ jobs'[l] = NoJob /\ \A m \in Links : m # l => jobs'[m] = jobs[m]
      /\ jobs' \in [Links -> Calls \cup {NoJob}]
  BY <1>1, <1>2 DEF Inv, Types
<1>6. Running' = Running \ {j}
  BY <1>4 DEF Running, Over
<1>7. Types'
  BY <1>1, <1>4, <1>5 DEF Inv, Types
<1>8. NewHasNoJob'
  BY <1>1, <1>2, <1>4 DEF Inv, NewHasNoJob, New
<1>9. RunningIsListed'
  <2>1. jobs[l] = j /\ \A k \in Running : k # j => job[k].link # l /\ job[k].link \in Links
    BY <1>2, RunningIsUnderLink DEF l
  <2>2. \A m \in Listed' : m \in Listed /\ m # l
    BY <1>5 DEF Listed
  <2>3. \A m \in Listed : m # l => jobs[m] \in Running /\ jobs[m] # j /\ job[jobs[m]].link = m
    BY DEF Inv, RunningIsListed, l
  <2>4. \A k \in Running : k \in Calls
    BY DEF Running
  <2>5. \A k \in Running' : jobs'[job'[k].link] = k
    BY <1>4, <1>5, <1>6, <2>1, <2>4 DEF Inv, RunningIsListed
  <2>6. \A m \in Listed' : jobs'[m] \in Running' /\ job'[jobs'[m]].link = m
    BY <1>4, <1>5, <1>6, <2>2, <2>3, <2>4 DEF Listed
  <2> QED
    BY <2>5, <2>6 DEF RunningIsListed
<1>10. ClosedIsQuiet'
  BY <1>1, <1>6 DEF Inv, ClosedIsQuiet
<1>11. SlotsAreHeld'
  <2>1. Describing' = Describing /\ Pictured' = Pictured
    BY <1>1, <1>4 DEF Describing, Pictured
  <2> QED
    BY <1>1, <2>1 DEF Inv, SlotsAreHeld
<1>12. JobsAreLimited'
  <2>1. Cardinality(Running') = Cardinality(Running) - 1
    BY <1>2, <1>6, Finite, FS_RemoveElement
  <2> QED
    BY <2>1, Counts, LinkContextAssumption DEF Inv, JobsAreLimited
<1> QED
  BY <1>7, <1>8, <1>9, <1>10, <1>11, <1>12 DEF Inv
-------------------------------------------------------------------------------
(* A job that goes on without taking or giving back a slot. *)
LEMMA JobGoesOnAlone ==
  ASSUME Inv, NEW j \in Calls, NEW next \in Pcs \ {"over"}, NEW fields \in SUBSET {"text", "preview"},
         job[j].pc \in Pcs \ {"over"},
         job[j].pc \in {"describe", "answer"} <=> next \in {"describe", "answer"},
         Goes(j, next, fields), UNCHANGED <<calls, jobs, phase, photos, visionSlots>>
  PROVE  Inv'
<1>1. visionSlots' \in Nat
  BY DEF Inv, Types
<1>2. Describing' = Describing
  BY <1>1, JobGoesOn DEF Describing
<1> QED
  BY <1>1, <1>2, JobGoesOn DEF Inv, SlotsAreHeld

LEMMA SlotTaken ==
  ASSUME Inv, NEW j \in Calls, AcquireSlot(j)
  PROVE  Inv'
<1>1. /\ job[j].pc = "slot" /\ visionSlots < MaxVision /\ visionSlots' = visionSlots + 1
      /\ Goes(j, "describe", job[j].fields) /\ UNCHANGED <<calls, jobs, phase, photos>>
  BY DEF AcquireSlot, JobAt
<1>2. job[j] \in Jobs /\ job[j].fields \in SUBSET {"text", "preview"}
  BY <1>1, RunningHasLink DEF Inv, Jobs
<1>3. visionSlots' \in Nat
  BY <1>1 DEF Inv, Types
<1>4. j \notin Describing
  BY <1>1 DEF Describing
<1>5. Describing' = Describing \cup {j} /\ Pictured' = Pictured
  BY <1>1, <1>2, <1>3, JobGoesOn DEF Pcs
<1>6. Cardinality(Describing') = Cardinality(Describing) + 1
  BY <1>4, <1>5, Finite, FS_AddElement
<1>7. SlotsAreHeld'
  BY <1>1, <1>5, <1>6, Counts, LinkContextAssumption DEF Inv, Types, SlotsAreHeld
<1> QED
  BY <1>1, <1>2, <1>3, <1>7, JobGoesOn DEF Inv, Pcs

LEMMA SlotGivenBack ==
  ASSUME Inv, NEW j \in Calls, NEW next \in {"described", "end"},
         job[j].pc \in {"describe", "answer"}, visionSlots' = visionSlots - 1,
         Goes(j, next, job[j].fields), UNCHANGED <<calls, jobs, phase, photos>>
  PROVE  Inv'
<1>1. j \in Describing
  BY DEF Describing
<1>2. job[j] \in Jobs /\ job[j].fields \in SUBSET {"text", "preview"}
  BY RunningHasLink DEF Inv, Jobs
<1>3. Cardinality(Describing \ {j}) = Cardinality(Describing) - 1 /\ Cardinality(Describing) # 0
  BY <1>1, Finite, FS_RemoveElement, FS_EmptySet
<1>4. visionSlots' \in Nat
  BY <1>3, Counts DEF Inv, Types, SlotsAreHeld
<1>5. Describing' = Describing \ {j} /\ Pictured' = Pictured
  BY <1>2, <1>4, JobGoesOn DEF Pcs
<1>6. SlotsAreHeld'
  BY <1>3, <1>5, Counts, LinkContextAssumption DEF Inv, Types, SlotsAreHeld
<1> QED
  BY <1>2, <1>4, <1>6, JobGoesOn DEF Inv, Pcs

LEMMA JobStepStep ==
  ASSUME Inv, NEW j \in Calls, JobStep(j)
  PROVE  Inv'
<1>1. job[j].pc # "none" => job[j] \in Jobs /\ job[j].fields \in SUBSET {"text", "preview"}
  BY RunningHasLink DEF Inv, Jobs
<1>2. CASE LoadPage(j) \/ LoadImage(j) \/ LoadFails(j) \/ GiveUpSlot(j)
  <2>1. CASE LoadPage(j)
    <3>1. PICK fields \in SUBSET {"text"}, next \in {"image", "end"} : Goes(j, next, fields)
      BY <2>1 DEF LoadPage
    <3> QED
      BY <2>1, <3>1, JobGoesOnAlone DEF LoadPage, JobAt, Pcs
  <2>2. CASE LoadImage(j)
    <3>1. PICK next \in {"slot", "end"} : Goes(j, next, job[j].fields)
      BY <2>2 DEF LoadImage
    <3> QED
      BY <1>1, <2>2, <3>1, JobGoesOnAlone DEF LoadImage, JobAt, Pcs
  <2>3. CASE LoadFails(j)
    BY <1>1, <2>3, JobGoesOnAlone DEF LoadFails, Pcs
  <2>4. CASE GiveUpSlot(j)
    BY <1>1, <2>4, JobGoesOnAlone DEF GiveUpSlot, JobAt, Pcs
  <2> QED
    BY <1>2, <2>1, <2>2, <2>3, <2>4
<1>3. CASE Describe(j)
  <2>1. CASE Goes(j, "answer", job[j].fields) /\ UNCHANGED visionSlots
    BY <1>1, <1>3, <2>1, JobGoesOnAlone DEF Describe, JobAt, Pcs
  <2>2. CASE Goes(j, "end", job[j].fields) /\ visionSlots' = visionSlots - 1
    BY <1>3, <2>2, SlotGivenBack DEF Describe, JobAt
  <2> QED
    BY <1>3, <2>1, <2>2 DEF Describe
<1>4. CASE DescriptionEnds(j)
  <2>1. PICK next \in {"described", "end"} : Goes(j, next, job[j].fields)
    BY <1>4 DEF DescriptionEnds
  <2> QED
    BY <1>4, <2>1, SlotGivenBack DEF DescriptionEnds, JobAt
<1> QED
  BY <1>2, <1>3, <1>4, SlotTaken, FinishStep DEF JobStep

LEMMA PhotoStep ==
  ASSUME Inv, NEW p \in Photos, Photo(p)
  PROVE  Inv'
<1>1. UNCHANGED <<calls, job, jobs, phase>>
  BY DEF Photo, PhotoBegins, PhotoContinues, PhotoEnds
<1>2. /\ Running' = Running /\ Describing' = Describing
      /\ NewHasNoJob' /\ RunningIsListed' /\ ClosedIsQuiet' /\ JobsAreLimited'
  <2>1. Running' = Running /\ Describing' = Describing /\ Listed' = Listed
    BY <1>1 DEF Running, Over, Describing, Listed
  <2> QED
    BY <1>1, <2>1 DEF Inv, NewHasNoJob, New, RunningIsListed, ClosedIsQuiet, JobsAreLimited
<1>3. photos' \in [Photos -> {"idle", "describe", "answer"}]
  BY DEF Inv, Types, Photo, PhotoBegins, PhotoContinues, PhotoEnds
<1>4. SlotsAreHeld' /\ visionSlots' \in Nat
  <2>1. CASE PhotoBegins(p)
    <3>1. p \notin Pictured /\ Pictured' = Pictured \cup {p}
      BY <2>1 DEF PhotoBegins, Pictured, Inv, Types
    <3>2. Cardinality(Pictured') = Cardinality(Pictured) + 1
      BY <3>1, Finite, FS_AddElement
    <3> QED
      BY <1>2, <2>1, <3>2, Counts, LinkContextAssumption DEF PhotoBegins, Inv, Types, SlotsAreHeld
  <2>2. CASE PhotoContinues(p)
    <3>1. Pictured' = Pictured
      BY <2>2 DEF PhotoContinues, Pictured, Inv, Types
    <3> QED
      BY <1>2, <2>2, <3>1 DEF PhotoContinues, Inv, Types, SlotsAreHeld
  <2>3. CASE PhotoEnds(p)
    <3>1. p \in Pictured /\ Pictured' = Pictured \ {p}
      BY <2>3 DEF PhotoEnds, Pictured, Inv, Types
    <3>2. Cardinality(Pictured') = Cardinality(Pictured) - 1 /\ Cardinality(Pictured) # 0
      BY <3>1, Finite, FS_RemoveElement, FS_EmptySet
    <3> QED
      BY <1>2, <2>3, <3>2, Counts, LinkContextAssumption DEF PhotoEnds, Inv, Types, SlotsAreHeld
  <2> QED
    BY <2>1, <2>2, <2>3 DEF Photo
<1>5. Types'
  BY <1>1, <1>3, <1>4 DEF Inv, Types
<1> QED
  BY <1>2, <1>4, <1>5 DEF Inv

LEMMA CallReturns ==
  ASSUME Inv, NEW w \in Calls, NEW r, r.pc # "new", calls' = [calls EXCEPT ![w] = r],
         UNCHANGED <<job, jobs, phase, visionSlots, photos>>
  PROVE  Inv'
<1>1. calls = [v \in Calls |-> calls[v]]
  BY DEF Inv, Types
<1>2. /\ calls' = [v \in Calls |-> calls'[v]]
      /\ \A v \in Calls : New(v)' => New(v)
  BY <1>1 DEF New
<1> QED
  BY <1>2, JobsStay

LEMMA InvStep == Inv /\ [Next]_vars => Inv'
<1> SUFFICES ASSUME Inv, [Next]_vars PROVE Inv'
  OBVIOUS
<1>1. CASE UNCHANGED <<calls, job, jobs, phase, visionSlots, photos>>
  BY <1>1, JobsStay DEF Inv, Types, New
<1>2. ASSUME NEW w \in Calls, NEW l \in Links, Enrich(w, l)
      PROVE  Inv'
  <2>1. CASE HitReturns(w, l) \/ ClosedReturns(w, l)
    BY <2>1, CallReturns DEF HitReturns, ClosedReturns, Returned
  <2>2. CASE Share(w, l)
    BY <2>2, CallReturns DEF Share, Waits
  <2>3. ASSUME NEW c \in Chats, Refuse(w, l, c) PROVE Inv'
    BY <2>3, CallReturns DEF Refuse, Returned
  <2> QED
    BY <1>2, <2>1, <2>2, <2>3, StartStep DEF Enrich
<1>3. ASSUME NEW w \in Calls, Return(w)
      PROVE  Inv'
  BY <1>3, CallReturns DEF Return, Returned
<1>4. CASE Close \/ CloseReturns
  <2>1. /\ Running' = Running /\ Listed' = Listed
        /\ Describing' = Describing /\ Pictured' = Pictured
    BY <1>4 DEF Close, CloseReturns, Running, Over, Listed, Describing, Pictured
  <2>2. Types' /\ NewHasNoJob'
    BY <1>4 DEF Inv, Types, NewHasNoJob, New, Close, CloseReturns
  <2>3. ClosedIsQuiet'
    BY <1>4, <2>1 DEF ClosedIsQuiet, Close, CloseReturns
  <2> QED
    BY <1>4, <2>1, <2>2, <2>3 DEF Inv, RunningIsListed, SlotsAreHeld, JobsAreLimited, Close, CloseReturns
<1>5. (\E w \in Calls : Redirect(w)) \/ (\E l \in Links : Expire(l)) \/ (\E b \in Budgets : Refill(b))
        => UNCHANGED <<calls, job, jobs, phase, visionSlots, photos>>
  BY DEF Redirect, Expire, Refill
<1> QED
  BY <1>1, <1>2, <1>3, <1>4, <1>5, JobStepStep, PhotoStep DEF Next, vars

LEMMA InvAlways == Spec => []Inv
BY InvInit, InvStep, PTL DEF Spec

(* However many calls meet one link, one job loads it, whatever becomes of *)
(* the results in the cache (enricher.go: jobs).                           *)
THEOREM AlwaysOneJobPerLink == Spec => []OneJobPerLink
<1>1. Inv => OneJobPerLink
  BY RunningIsUnderLink DEF OneJobPerLink
<1> QED
  BY <1>1, InvAlways, PTL

(* When Close has returned no job runs, nor will one (enricher.go: Close). *)
THEOREM AlwaysQuietWhenClosed == Spec => []ClosedIsQuiet
BY InvAlways, PTL DEF Inv
-------------------------------------------------------------------------------
Fields == SUBSET {"text", "preview"}
Results == [link : Links, fields : Fields, expired : BOOLEAN]
CallStates ==
  [pc : {"new"}] \cup [pc : {"waiting"}, link : Links, job : Calls]
    \cup [pc : {"returned"}, link : Links, fields : Fields, job : Calls \cup {NoJob}]

(* A job for the link is over and has found just this. *)
Found(l, fields) ==
  \E k \in Calls : JobAt(k, "over") /\ job[k].link = l /\ job[k].fields = fields

(* The cache is a map from links to what was found of them, in order. *)
CacheInv ==
  /\ cache \in Seq(Results) /\ Len(cache) <= CacheSize
  /\ \A i, k \in 1..Len(cache) : cache[i].link = cache[k].link => i = k
  /\ \A i \in 1..Len(cache) : Found(cache[i].link, cache[i].fields)

Waited(w) ==
  job[calls[w].job].pc # "none" /\ calls[w].link = job[calls[w].job].link

(* A call waits for a job of its link, and has returned a part of what the *)
(* job has found, or all that an earlier job did.                          *)
CallsInv ==
  /\ calls \in [Calls -> CallStates]
  /\ \A w \in Calls :
       /\ calls[w].pc = "waiting" => Waited(w)
       /\ calls[w].pc = "returned" =>
            IF calls[w].job = NoJob
            THEN calls[w].fields # {} => Found(calls[w].link, calls[w].fields)
            ELSE Waited(w) /\ calls[w].fields \subseteq job[calls[w].job].fields

NewPagesAreEmpty == \A j \in Calls : JobAt(j, "page") => job[j].fields = {}

ResultInv == CacheInv /\ CallsInv /\ NewPagesAreEmpty

LEMMA RemovedAt ==
  ASSUME NEW S, NEW s \in Seq(S), NEW i \in 1..Len(s)
  PROVE  /\ RemoveAt(s, i) \in Seq(S) /\ Len(RemoveAt(s, i)) = Len(s) - 1
         /\ \A k \in 1..(Len(s) - 1) :
              RemoveAt(s, i)[k] = IF k < i THEN s[k] ELSE s[k + 1]
<1> DEFINE a == SubSeq(s, 1, i - 1)
           b == SubSeq(s, i + 1, Len(s))
           n == Len(s)
<1>0. n \in Nat /\ i \in Nat /\ i <= n /\ 1 <= i /\ \A k \in 1..n : s[k] \in S
  BY LenProperties, ElementOfSeq
<1>1. a \in Seq(S) /\ Len(a) = i - 1 /\ \A k \in 1..(i - 1) : a[k] = s[k]
  <2>1. i - 1 \in 0..n /\ 1 \in 1..(n + 1)
    BY <1>0
  <2>2. Len(a) = (i - 1) - 1 + 1 \/ (i - 1 = 0 /\ Len(a) = 0)
    BY <1>0, <2>1, SubSeqProperties
  <2>3. \A k \in 1..(i - 1) : a[k] = s[k]
    BY <1>0, <2>1, SubSeqProperties
  <2>4. a \in Seq(S)
    BY <1>0, <2>1, SubSeqProperties
  <2> QED
    BY <1>0, <2>2, <2>3, <2>4
<1>2. b \in Seq(S) /\ Len(b) = n - i /\ \A k \in 1..(n - i) : b[k] = s[i + k]
  <2>1. i + 1 \in 1..(n + 1) /\ n \in i..n
    BY <1>0
  <2>2. Len(b) = n - i
    BY <1>0, <2>1, SubSeqProperties
  <2>3. \A k \in 1..(n - i) : b[k] = s[i + 1 + k - 1] /\ i + 1 + k - 1 = i + k
    BY <1>0, <2>1, <2>2, SubSeqProperties
  <2>4. b \in Seq(S)
    BY <1>0, <2>1, SubSeqProperties
  <2> QED
    BY <2>2, <2>3, <2>4
<1>3. RemoveAt(s, i) = a \o b
  BY DEF RemoveAt
<1> HIDE DEF a, b
<1>4. /\ a \o b \in Seq(S) /\ Len(a \o b) = Len(a) + Len(b)
      /\ \A k \in 1..Len(a) : (a \o b)[k] = a[k]
      /\ \A k \in (Len(a) + 1)..(Len(a) + Len(b)) : (a \o b)[k] = b[k - Len(a)]
  <2>1. /\ a \o b \in Seq(S) /\ Len(a \o b) = Len(a) + Len(b)
        /\ \A k \in 1..(Len(a) + Len(b)) :
             (a \o b)[k] = IF k <= Len(a) THEN a[k] ELSE b[k - Len(a)]
    BY <1>1, <1>2, ConcatProperties
  <2>2. Len(a) \in Nat /\ Len(b) \in Nat
    BY <1>1, <1>2
  <2> QED
    BY <2>1, <2>2
<1>5. ASSUME NEW k \in 1..(n - 1)
      PROVE  (a \o b)[k] = IF k < i THEN s[k] ELSE s[k + 1]
  <2>1. CASE k < i
    <3>1. k \in 1..(i - 1) /\ k \in 1..Len(a)
      BY <1>0, <1>1, <2>1
    <3> QED
      BY <1>1, <1>4, <2>1, <3>1
  <2>2. CASE ~(k < i)
    <3>1. /\ k \in (Len(a) + 1)..(Len(a) + Len(b)) /\ k - Len(a) \in 1..(n - i)
          /\ i + (k - Len(a)) = k + 1
      BY <1>0, <1>1, <1>2, <2>2
    <3>2. b[k - Len(a)] = s[i + (k - Len(a))]
      BY <1>2, <3>1
    <3> QED
      BY <1>4, <2>2, <3>1, <3>2
  <2> QED
    BY <2>1, <2>2
<1> QED
  BY <1>0, <1>1, <1>2, <1>3, <1>4, <1>5

(* Without(l) is the cache, in order, but for what it had of the link. *)
LEMMA WithoutIsRest ==
  ASSUME cache \in Seq(Results), NEW l,
         \A i, k \in 1..Len(cache) : cache[i].link = cache[k].link => i = k
  PROVE  /\ Without(l) \in Seq(Results) /\ Len(Without(l)) <= Len(cache)
         /\ Positions(l) # {} => Len(Without(l)) = Len(cache) - 1
         /\ \A k \in 1..Len(Without(l)) :
              /\ Without(l)[k].link # l
              /\ \E i \in 1..Len(cache) : Without(l)[k] = cache[i]
         /\ \A i, k \in 1..Len(Without(l)) :
              Without(l)[i].link = Without(l)[k].link => i = k
<1> DEFINE n == Len(cache)
<1>0. n \in Nat
  OBVIOUS
<1>1. CASE Positions(l) = {}
  BY <1>0, <1>1 DEF Without, Positions
<1>2. CASE Positions(l) # {}
  <2> DEFINE p == Position(l)
             s == RemoveAt(cache, p)
  <2>1. p \in 1..n /\ cache[p].link = l /\ Without(l) = s
    BY <1>2 DEF Position, Positions, Without
  <2> HIDE DEF p
  <2>2. /\ s \in Seq(Results) /\ Len(s) = n - 1
        /\ \A k \in 1..(n - 1) : s[k] = IF k < p THEN cache[k] ELSE cache[k + 1]
    BY <2>1, RemovedAt
  <2> DEFINE from(k) == IF k < p THEN k ELSE k + 1
  <2>3. \A k \in 1..(n - 1) : from(k) \in 1..n /\ from(k) # p /\ s[k] = cache[from(k)]
    BY <1>0, <2>1, <2>2
  <2>4. \A i, k \in 1..(n - 1) : from(i) = from(k) => i = k
    BY <1>0, <2>1
  <2> HIDE DEF from, s
  <2>5. \A k \in 1..(n - 1) : s[k].link # l
    BY <2>1, <2>3
  <2>6. \A i, k \in 1..(n - 1) : s[i].link = s[k].link => i = k
    BY <2>3, <2>4
  <2> QED
    BY <1>0, <2>1, <2>2, <2>3, <2>5, <2>6
<1> QED
  BY <1>1, <1>2

(* A result goes to the front of the others, and the last one gives way. *)
LEMMA FrontIsFirst ==
  ASSUME NEW e \in Results, NEW s \in Seq(Results), NEW n \in Nat, n <= Len(s) + 1,
         \A k \in 1..Len(s) : s[k].link # e.link,
         \A i, k \in 1..Len(s) : s[i].link = s[k].link => i = k
  PROVE  LET t == SubSeq(<<e>> \o s, 1, n) IN
         /\ t \in Seq(Results) /\ Len(t) = n
         /\ \A i \in 1..n : t[i] = e \/ \E k \in 1..Len(s) : t[i] = s[k]
         /\ \A i, k \in 1..n : t[i].link = t[k].link => i = k
<1> DEFINE all == <<e>> \o s
           t == SubSeq(all, 1, n)
<1>1. /\ all \in Seq(Results) /\ Len(all) = Len(s) + 1 /\ Len(s) \in Nat
      /\ all[1] = e /\ \A i \in 2..(Len(s) + 1) : all[i] = s[i - 1]
  <2>1. <<e>> \in Seq(Results) /\ Len(<<e>>) = 1 /\ <<e>>[1] = e /\ Len(s) \in Nat
    OBVIOUS
  <2>2. /\ all \in Seq(Results) /\ Len(all) = 1 + Len(s)
        /\ \A i \in 1..(1 + Len(s)) : all[i] = IF i <= 1 THEN <<e>>[i] ELSE s[i - 1]
    BY <2>1, ConcatProperties
  <2> HIDE DEF all
  <2> QED
    BY <2>1, <2>2
<1> HIDE DEF all
<1>2. t \in Seq(Results) /\ Len(t) = n /\ \A i \in 1..n : t[i] = all[i]
  <2>1. 1 \in 1..(Len(all) + 1) /\ n \in 0..Len(all)
    BY <1>1
  <2>2. t \in Seq(Results) /\ Len(t) = n /\ \A i \in 1..n : t[i] = all[1 + i - 1]
    BY <1>1, <2>1, SubSeqProperties
  <2> QED
    BY <2>2
<1> HIDE DEF t
<1>3. \A i \in 1..n : i = 1 \/ (i - 1 \in 1..Len(s) /\ t[i] = s[i - 1])
  BY <1>1, <1>2
<1>4. 1 \in 1..n => t[1] = e
  BY <1>1, <1>2
<1>5. \A i \in 1..n : t[i] = e \/ \E k \in 1..Len(s) : t[i] = s[k]
  BY <1>3, <1>4
<1>6. ASSUME NEW i \in 1..n, NEW k \in 1..n, t[i].link = t[k].link
      PROVE  i = k
  <2>3. \A j \in 1..n : j # 1 => t[j].link # e.link
    <3> SUFFICES ASSUME NEW j \in 1..n, j # 1
                 PROVE  t[j].link # e.link
      OBVIOUS
    <3>1. PICK c : c = j - 1
      OBVIOUS
    <3>2. c \in 1..Len(s) /\ t[j] = s[c]
      BY <1>3, <3>1
    <3> QED
      BY <3>2
  <2>1. CASE i = 1 \/ k = 1
    <3>1. t[1] = e
      BY <1>4, <2>1
    <3> QED
      BY <1>6, <2>1, <2>3, <3>1
  <2>2. CASE i # 1 /\ k # 1
    <3> DEFINE a == i - 1
               b == k - 1
    <3>1. a \in 1..Len(s) /\ b \in 1..Len(s) /\ s[a].link = s[b].link
      BY <1>3, <1>6, <2>2
    <3>2. a = b => i = k
      OBVIOUS
    <3> HIDE DEF a, b
    <3> QED
      BY <3>1, <3>2
  <2> QED
    BY <2>1, <2>2
<1> QED
  BY <1>2, <1>5, <1>6 DEF t, all
-------------------------------------------------------------------------------
(* A job keeps its link and what it has found, and does not change when it *)
(* is over.                                                                *)
JobsGrow ==
  \A j \in Calls :
    /\ job[j].pc # "none" => /\ job'[j].pc # "none" /\ job'[j].link = job[j].link
                              /\ job[j].fields \subseteq job'[j].fields
    /\ JobAt(j, "over") => job'[j] = job[j]

LEMMA GoesGrows ==
  ASSUME Types, NEW j \in Calls, NEW next, NEW fields, next # "none",
         job[j].pc \notin {"none", "over"}, job[j].fields \subseteq fields, Goes(j, next, fields)
  PROVE  JobsGrow
<1>1. /\ job'[j] = [pc |-> next, link |-> job[j].link, fields |-> fields]
      /\ \A k \in Calls : k # j => job'[k] = job[k]
  BY DEF Types, Goes
<1> QED
  BY <1>1 DEF JobsGrow, JobAt

LEMMA JobStepGrows ==
  ASSUME Inv, NewPagesAreEmpty, NEW j \in Calls, JobStep(j)
  PROVE  JobsGrow /\ NewPagesAreEmpty'
<1>1. /\ job[j].pc \notin {"none", "over"}
      /\ \E next \in Pcs \ {"page"} : \E fields :
           job[j].fields \subseteq fields /\ Goes(j, next, fields)
  <2>1. CASE LoadPage(j)
    <3>1. job[j].pc = "page" /\ job[j].fields = {}
      BY <2>1 DEF LoadPage, JobAt, NewPagesAreEmpty
    <3>2. PICK fields \in SUBSET {"text"}, next \in {"image", "end"} : Goes(j, next, fields)
      BY <2>1 DEF LoadPage
    <3> QED
      BY <3>1, <3>2 DEF Pcs
  <2>2. CASE Finish(j)
    <3>1. job[j].fields \subseteq Result(j)
      BY DEF Result
    <3> QED
      BY <2>2, <3>1 DEF Finish, Finishing, Pcs
  <2>3. CASE LoadImage(j) \/ LoadFails(j) \/ AcquireSlot(j) \/ GiveUpSlot(j)
              \/ Describe(j) \/ DescriptionEnds(j)
    <3>1. /\ job[j].pc \notin {"none", "over"}
          /\ \E next \in Pcs \ {"page"} : Goes(j, next, job[j].fields)
      BY <2>3 DEF LoadImage, LoadFails, AcquireSlot, GiveUpSlot, Describe, DescriptionEnds,
         JobAt, Pcs
    <3> QED
      BY <3>1
  <2> QED
    BY <2>1, <2>2, <2>3 DEF JobStep
<1>2. PICK next \in Pcs \ {"page"} : \E fields :
        job[j].fields \subseteq fields /\ Goes(j, next, fields)
  BY <1>1
<1>6. PICK fields : job[j].fields \subseteq fields /\ Goes(j, next, fields)
  BY <1>2
<1>3. next # "none"
  BY DEF Pcs
<1>4. JobsGrow
  BY <1>1, <1>3, <1>6, GoesGrows DEF Inv
<1>5. NewPagesAreEmpty'
  <2>1. job'[j].pc = next /\ \A k \in Calls : k # j => job'[k] = job[k]
    BY <1>6 DEF Inv, Types, Goes
  <2> QED
    BY <2>1 DEF NewPagesAreEmpty, JobAt
<1> QED
  BY <1>4, <1>5

LEMMA StepGrows == Inv /\ NewPagesAreEmpty /\ [Next]_vars => JobsGrow /\ NewPagesAreEmpty'
<1> SUFFICES ASSUME Inv, NewPagesAreEmpty, [Next]_vars PROVE JobsGrow /\ NewPagesAreEmpty'
  OBVIOUS
<1>1. CASE job' = job
  BY <1>1 DEF JobsGrow, NewPagesAreEmpty, JobAt
<1>2. ASSUME NEW w \in Calls, NEW l \in Links, NEW c \in Chats, Start(w, l, c)
      PROVE  JobsGrow /\ NewPagesAreEmpty'
  <2>1. job[w].pc = "none" /\ job' = [job EXCEPT ![w] = [pc |-> "page", link |-> l, fields |-> {}]]
    BY <1>2 DEF Start, Miss, Inv, NewHasNoJob, NotStarted
  <2> QED
    BY <2>1 DEF JobsGrow, NewPagesAreEmpty, JobAt, Inv, Types
<1>3. CASE \E w \in Calls : JobStep(w)
  BY <1>3, JobStepGrows
<1>4. job' = job \/ (\E w \in Calls : JobStep(w))
        \/ \E w \in Calls, l \in Links, c \in Chats : Start(w, l, c)
  BY DEF Next, vars, Return, Redirect, Enrich, HitReturns, Share, ClosedReturns, Refuse,
     Photo, PhotoBegins, PhotoContinues, PhotoEnds, Expire, Refill, Close, CloseReturns
<1> QED
  BY <1>1, <1>2, <1>3, <1>4

FoundNow(l, fields) ==
  \E k \in Calls : job'[k].pc = "over" /\ job'[k].link = l /\ job'[k].fields = fields

LEMMA FoundStays ==
  JobsGrow => \A l, fields : Found(l, fields) => FoundNow(l, fields)
BY DEF JobsGrow, Found, FoundNow, JobAt

LEMMA CachedIsThere ==
  ASSUME NEW l, Hit(l)
  PROVE  Position(l) \in 1..Len(cache) /\ Cached(l).link = l /\ Positions(l) # {}
BY DEF Hit, Position, Positions, Cached

LEMMA CacheIsRight ==
  ASSUME cache' \in Seq(Results), Len(cache') <= CacheSize,
         \A i, k \in 1..Len(cache') : cache'[i].link = cache'[k].link => i = k,
         \A i \in 1..Len(cache') : FoundNow(cache'[i].link, cache'[i].fields)
  PROVE  CacheInv'
BY DEF CacheInv, Found, FoundNow, JobAt

(* What the cache holds after a step is what it held, in another order or  *)
(* marked as expired, or what the job has found that ends.                 *)
LEMMA CacheStep ==
  ASSUME Inv, ResultInv, [Next]_vars
  PROVE  CacheInv'
<1> USE DEF ResultInv
<1>0. /\ \A l, fields : Found(l, fields) => FoundNow(l, fields)
      /\ Len(cache) \in Nat /\ Len(cache) <= CacheSize /\ cache \in Seq(Results)
      /\ \A i \in 1..Len(cache) :
           cache[i] \in Results /\ FoundNow(cache[i].link, cache[i].fields)
  BY StepGrows, FoundStays, ElementOfSeq DEF CacheInv
<1>1. CASE cache' = cache
  BY <1>0, <1>1, CacheIsRight DEF CacheInv
<1>2. ASSUME NEW l \in Links, cache' = Without(l)
      PROVE  CacheInv'
  <2>1. /\ cache' \in Seq(Results) /\ Len(cache') <= Len(cache) /\ Len(cache') \in Nat
        /\ \A k \in 1..Len(cache') : \E i \in 1..Len(cache) : cache'[k] = cache[i]
        /\ \A i, k \in 1..Len(cache') : cache'[i].link = cache'[k].link => i = k
    BY <1>2, WithoutIsRest DEF CacheInv
  <2>2. \A k \in 1..Len(cache') : FoundNow(cache'[k].link, cache'[k].fields)
    BY <1>0, <2>1 DEF CacheInv
  <2>3. Len(cache') <= CacheSize
    BY <1>0, <2>1, LinkContextAssumption DEF CacheInv
  <2> QED
    BY <2>1, <2>2, <2>3, CacheIsRight
<1> DEFINE Fronted(e, n) ==
      /\ e \in Results /\ n \in Nat /\ n <= CacheSize /\ n <= Len(Without(e.link)) + 1
      /\ FoundNow(e.link, e.fields)
      /\ cache' = SubSeq(<<e>> \o Without(e.link), 1, n)
<1>3. ASSUME NEW e, NEW n, Fronted(e, n)
      PROVE  CacheInv'
  <2> DEFINE s == Without(e.link)
  <2>1. /\ s \in Seq(Results)
        /\ \A k \in 1..Len(s) :
             s[k].link # e.link /\ \E i \in 1..Len(cache) : s[k] = cache[i]
        /\ \A i, k \in 1..Len(s) : s[i].link = s[k].link => i = k
    BY WithoutIsRest DEF CacheInv
  <2>2. e \in Results /\ n \in Nat /\ n <= Len(s) + 1 /\ cache' = SubSeq(<<e>> \o s, 1, n)
    BY <1>3
  <2> HIDE DEF s
  <2> DEFINE t == SubSeq(<<e>> \o s, 1, n)
  <2>4. /\ t \in Seq(Results) /\ Len(t) = n
        /\ \A i \in 1..n : t[i] = e \/ \E k \in 1..Len(s) : t[i] = s[k]
        /\ \A i, k \in 1..n : t[i].link = t[k].link => i = k
    <3>1. s \in Seq(Results) /\ e \in Results /\ n \in Nat /\ n <= Len(s) + 1
      BY <2>1, <2>2
    <3>2. \A k \in 1..Len(s) : s[k].link # e.link
      BY <2>1
    <3>3. \A i, k \in 1..Len(s) : s[i].link = s[k].link => i = k
      BY <2>1
    <3> QED
      BY <3>1, <3>2, <3>3, FrontIsFirst, Zenon
  <2>5. cache' = t
    BY <2>2
  <2> HIDE DEF t
  <2>6. \A k \in 1..Len(s) : FoundNow(s[k].link, s[k].fields)
    BY <1>0, <2>1
  <2>3. \A i \in 1..n : FoundNow(cache'[i].link, cache'[i].fields)
    <3> SUFFICES ASSUME NEW i \in 1..n PROVE FoundNow(t[i].link, t[i].fields)
      BY <2>5
    <3>1. CASE t[i] = e
      <4>1. FoundNow(e.link, e.fields)
        BY <1>3
      <4> QED
        BY <3>1, <4>1
    <3>2. CASE t[i] # e
      <4>1. PICK k \in 1..Len(s) : t[i] = s[k]
        BY <2>4, <3>2
      <4> QED
        BY <2>6, <4>1
    <3> QED
      BY <3>1, <3>2
  <2> QED
    BY <1>3, <2>3, <2>4, <2>5, CacheIsRight
<1>4. ASSUME NEW w \in Calls, NEW l \in Links, HitReturns(w, l)
      PROVE  CacheInv'
  <2> DEFINE e == Cached(l)
             s == Without(l)
  <2>1. /\ Position(l) \in 1..Len(cache) /\ e = cache[Position(l)] /\ e.link = l
        /\ Positions(l) # {} /\ cache' = <<e>> \o s
    BY <1>4, CachedIsThere DEF HitReturns, Cached
  <2>2. e \in Results /\ FoundNow(e.link, e.fields)
    BY <1>0, <2>1
  <2>3. s \in Seq(Results) /\ Len(s) = Len(cache) - 1
    BY <2>1, WithoutIsRest DEF CacheInv
  <2> HIDE DEF e, s
  <2>4. <<e>> \o s \in Seq(Results) /\ Len(<<e>> \o s) = Len(cache)
    BY <1>0, <2>2, <2>3
  <2>5. <<e>> \o s = SubSeq(<<e>> \o s, 1, Len(cache))
    BY <1>0, <2>4
  <2>6. /\ Len(cache) <= Len(Without(e.link)) + 1
        /\ cache' = SubSeq(<<e>> \o Without(e.link), 1, Len(cache))
    BY <1>0, <2>1, <2>3, <2>5 DEF s
  <2>7. Fronted(e, Len(cache))
    BY <1>0, <2>2, <2>6
  <2> HIDE DEF Fronted
  <2> QED
    BY <1>3, <2>7
<1>5. ASSUME NEW l \in Links, Expire(l)
      PROVE  CacheInv'
  <2> DEFINE mark(i) == IF cache[i].link = l THEN [cache[i] EXCEPT !.expired = TRUE] ELSE cache[i]
  <2>1. cache' = [i \in 1..Len(cache) |-> mark(i)]
    BY <1>5 DEF Expire
  <2>2. \A i \in 1..Len(cache) :
          mark(i) \in Results /\ mark(i).link = cache[i].link /\ mark(i).fields = cache[i].fields
    <3> SUFFICES ASSUME NEW i \in 1..Len(cache)
                 PROVE  /\ mark(i) \in Results /\ mark(i).link = cache[i].link
                        /\ mark(i).fields = cache[i].fields
      OBVIOUS
    <3>1. cache[i] \in Results
      BY <1>0
    <3>2. \A r \in Results : /\ [r EXCEPT !.expired = TRUE] \in Results
                             /\ [r EXCEPT !.expired = TRUE].link = r.link
                             /\ [r EXCEPT !.expired = TRUE].fields = r.fields
      BY DEF Results
    <3> QED
      BY <3>1, <3>2
  <2> HIDE DEF mark
  <2>3. cache' \in Seq(Results) /\ Len(cache') = Len(cache) /\ \A i \in 1..Len(cache) : cache'[i] = mark(i)
    BY <1>0, <2>1, <2>2, IsASeq
  <2> QED
    BY <1>0, <2>2, <2>3, CacheIsRight DEF CacheInv
<1>6. ASSUME NEW j \in Calls, Finish(j)
      PROVE  CacheInv'
  <2> DEFINE e == [link |-> job[j].link, fields |-> Result(j), expired |-> FALSE]
             s == Without(job[j].link)
  <2>1. /\ cache' = SubSeq(<<e>> \o s, 1, IF Len(<<e>> \o s) > CacheSize THEN CacheSize
                                            ELSE Len(<<e>> \o s))
        /\ Goes(j, "over", Result(j)) /\ job[j] \in Jobs
    BY <1>6, RunningHasLink DEF Finish, Finishing, Put, Inv
  <2>2. e \in Results /\ e.link = job[j].link
    BY <2>1 DEF Results, Result, Jobs, Fields
  <2>3. FoundNow(e.link, e.fields)
    BY <2>1 DEF Goes, Inv, Types, FoundNow
  <2>4. s \in Seq(Results)
    BY WithoutIsRest DEF CacheInv
  <2> HIDE DEF e, s
  <2>5. Len(<<e>> \o s) = Len(s) + 1 /\ Len(s) \in Nat
    BY <2>2, <2>4
  <2>6. PICK n \in Nat : /\ n <= CacheSize /\ n <= Len(s) + 1
                         /\ cache' = SubSeq(<<e>> \o s, 1, n)
    BY <2>1, <2>5, LinkContextAssumption
  <2>7. Fronted(e, n)
    BY <2>2, <2>3, <2>6 DEF s
  <2> HIDE DEF Fronted
  <2> QED
    BY <1>3, <2>7
<1>7. \/ cache' = cache
      \/ \E l \in Links : cache' = Without(l) \/ Expire(l)
      \/ \E w \in Calls, l \in Links : HitReturns(w, l)
      \/ \E j \in Calls : Finish(j)
  <2>1. ASSUME NEW w \in Calls, NEW l \in Links, Enrich(w, l)
        PROVE  HitReturns(w, l) \/ cache' = Without(l) \/ cache' = cache
    BY <2>1 DEF Enrich, Share, Miss, Start, ClosedReturns, Refuse
  <2>2. ASSUME NEW j \in Calls, JobStep(j)
        PROVE  Finish(j) \/ cache' = cache
    BY <2>2 DEF JobStep, LoadPage, LoadImage, LoadFails, AcquireSlot, GiveUpSlot,
       Describe, DescriptionEnds
  <2>3. ASSUME NEW w \in Calls, Return(w) \/ Redirect(w)
        PROVE  cache' = cache
    BY <2>3 DEF Return, Redirect
  <2>4. ASSUME NEW p \in Photos, Photo(p)
        PROVE  cache' = cache
    BY <2>4 DEF Photo, PhotoBegins, PhotoContinues, PhotoEnds
  <2>5. ASSUME NEW b \in Budgets, Refill(b)
        PROVE  cache' = cache
    BY <2>5 DEF Refill
  <2>6. CASE Close \/ CloseReturns \/ UNCHANGED vars
    BY <2>6 DEF Close, CloseReturns, vars
  <2> QED
    BY <2>1, <2>2, <2>3, <2>4, <2>5, <2>6 DEF Next
<1> QED
  BY <1>1, <1>2, <1>4, <1>5, <1>6, <1>7

(* What CallsInv says of one call, with the jobs as they are and as they   *)
(* are next.                                                               *)
CallIsRight(call) ==
  /\ call.pc = "waiting" => job[call.job].pc # "none" /\ call.link = job[call.job].link
  /\ call.pc = "returned" =>
       IF call.job = NoJob
       THEN call.fields # {} => Found(call.link, call.fields)
       ELSE /\ job[call.job].pc # "none" /\ call.link = job[call.job].link
            /\ call.fields \subseteq job[call.job].fields

CallIsRightNow(call) ==
  /\ call.pc = "waiting" => job'[call.job].pc # "none" /\ call.link = job'[call.job].link
  /\ call.pc = "returned" =>
       IF call.job = NoJob
       THEN call.fields # {} => FoundNow(call.link, call.fields)
       ELSE /\ job'[call.job].pc # "none" /\ call.link = job'[call.job].link
            /\ call.fields \subseteq job'[call.job].fields

LEMMA CallIsFine ==
  CallsInv <=> calls \in [Calls -> CallStates] /\ \A w \in Calls : CallIsRight(calls[w])
BY DEF CallsInv, CallIsRight, Waited

LEMMA RightStaysRight ==
  ASSUME JobsGrow, NEW call \in CallStates, CallIsRight(call)
  PROVE  CallIsRightNow(call)
<1>1. /\ call.pc = "waiting" => call.job \in Calls
      /\ call.pc = "returned" /\ call.job # NoJob => call.job \in Calls
  BY DEF CallStates
<1>2. call.pc = "waiting" => job'[call.job].pc # "none" /\ call.link = job'[call.job].link
  BY <1>1 DEF JobsGrow, CallIsRight
<1>3. CASE call.pc = "returned" /\ call.job = NoJob
  BY <1>2, <1>3, FoundStays DEF CallIsRight, CallIsRightNow
<1>4. CASE call.pc = "returned" /\ call.job # NoJob
  <2>1. /\ job[call.job].pc # "none" /\ call.link = job[call.job].link
        /\ call.fields \subseteq job[call.job].fields
    BY <1>4 DEF CallIsRight
  <2>2. /\ job'[call.job].pc # "none" /\ job'[call.job].link = job[call.job].link
        /\ job[call.job].fields \subseteq job'[call.job].fields
    BY <1>1, <1>4, <2>1 DEF JobsGrow
  <2> QED
    BY <1>2, <1>4, <2>1, <2>2 DEF CallIsRightNow
<1> QED
  BY <1>2, <1>3, <1>4 DEF CallIsRightNow

LEMMA OneCallChanges ==
  ASSUME CallsInv, JobsGrow, NEW w \in Calls, NEW call \in CallStates,
         calls' = [calls EXCEPT ![w] = call], CallIsRightNow(call)
  PROVE  CallsInv'
<1>1. calls' \in [Calls -> CallStates] /\ \A v \in Calls : CallIsRightNow(calls'[v])
  BY CallIsFine, RightStaysRight DEF CallsInv
<1>2. \A v \in Calls :
        /\ calls'[v].pc = "waiting" => Waited(v)'
        /\ calls'[v].pc = "returned" =>
             IF calls'[v].job = NoJob
             THEN calls'[v].fields # {} => FoundNow(calls'[v].link, calls'[v].fields)
             ELSE Waited(v)' /\ calls'[v].fields \subseteq job'[calls'[v].job].fields
  BY <1>1 DEF CallIsRightNow, Waited
<1> QED
  BY <1>1, <1>2 DEF CallsInv, Found, FoundNow, JobAt

LEMMA CallsStay ==
  ASSUME CallsInv, JobsGrow, calls' = calls
  PROVE  CallsInv'
<1>1. calls' \in [Calls -> CallStates] /\ \A v \in Calls : CallIsRightNow(calls'[v])
  BY CallIsFine, RightStaysRight DEF CallsInv
<1>2. \A v \in Calls :
        /\ calls'[v].pc = "waiting" => Waited(v)'
        /\ calls'[v].pc = "returned" =>
             IF calls'[v].job = NoJob
             THEN calls'[v].fields # {} => FoundNow(calls'[v].link, calls'[v].fields)
             ELSE Waited(v)' /\ calls'[v].fields \subseteq job'[calls'[v].job].fields
  BY <1>1 DEF CallIsRightNow, Waited
<1> QED
  BY <1>1, <1>2 DEF CallsInv, Found, FoundNow, JobAt

LEMMA CallsStep ==
  ASSUME Inv, ResultInv, [Next]_vars
  PROVE  CallsInv'
<1>0. /\ JobsGrow /\ CallsInv /\ CacheInv
      /\ \A l, fields : Found(l, fields) => FoundNow(l, fields)
  BY StepGrows, FoundStays DEF ResultInv
<1>1. CASE calls' = calls
  BY <1>0, <1>1, CallsStay
<1>2. ASSUME NEW w \in Calls, NEW l \in Links, HitReturns(w, l)
      PROVE  CallsInv'
  <2> DEFINE e == Cached(l)
             call == [pc |-> "returned", link |-> l, fields |-> e.fields, job |-> NoJob]
  <2>1. Position(l) \in 1..Len(cache) /\ e = cache[Position(l)] /\ e.link = l
    BY <1>2, CachedIsThere DEF HitReturns, Cached
  <2> HIDE DEF e
  <2>2. e \in Results /\ FoundNow(l, e.fields)
    BY <1>0, <2>1, ElementOfSeq DEF CacheInv
  <2>3. call \in CallStates /\ CallIsRightNow(call)
    BY <2>2 DEF CallStates, CallIsRightNow, Results
  <2>4. calls' = [calls EXCEPT ![w] = call]
    BY <1>2 DEF HitReturns, Returned, e
  <2> HIDE DEF call
  <2> QED
    BY <1>0, <2>3, <2>4, OneCallChanges
<1>3. ASSUME NEW w \in Calls, NEW l \in Links,
             Returned(w, l, {}, NoJob)
      PROVE  CallsInv'
  <2> DEFINE call == [pc |-> "returned", link |-> l, fields |-> {}, job |-> NoJob]
  <2>1. call \in CallStates /\ CallIsRightNow(call)
    BY DEF CallStates, CallIsRightNow, Fields
  <2>2. calls' = [calls EXCEPT ![w] = call]
    BY <1>3 DEF Returned
  <2> HIDE DEF call
  <2> QED
    BY <1>0, <2>1, <2>2, OneCallChanges
<1>4. ASSUME NEW w \in Calls, NEW l \in Links, NEW j \in Calls,
             Waits(w, l, j), job'[j].pc # "none", job'[j].link = l
      PROVE  CallsInv'
  <2> DEFINE call == [pc |-> "waiting", link |-> l, job |-> j]
  <2>1. call \in CallStates /\ CallIsRightNow(call)
    BY <1>4 DEF CallStates, CallIsRightNow
  <2>2. calls' = [calls EXCEPT ![w] = call]
    BY <1>4 DEF Waits
  <2> HIDE DEF call
  <2> QED
    BY <1>0, <2>1, <2>2, OneCallChanges
<1>5. ASSUME NEW w \in Calls, NEW l \in Links, Share(w, l)
      PROVE  CallsInv'
  <2>1. jobs[l] \in Running /\ job[jobs[l]].link = l /\ job' = job /\ Waits(w, l, jobs[l])
    BY <1>5 DEF Share, Inv, RunningIsListed, Listed
  <2>2. jobs[l] \in Calls /\ job[jobs[l]].pc # "none"
    BY <2>1 DEF Running, Over
  <2> QED
    BY <1>4, <2>1, <2>2
<1>6. ASSUME NEW w \in Calls, NEW l \in Links, NEW c \in Chats, Start(w, l, c)
      PROVE  CallsInv'
  <2>1. job'[w].pc # "none" /\ job'[w].link = l /\ Waits(w, l, w)
    BY <1>6 DEF Start, Inv, Types
  <2> QED
    BY <1>4, <2>1
<1>7. ASSUME NEW w \in Calls, Return(w)
      PROVE  CallsInv'
  <2> DEFINE j == calls[w].job
             call == [pc |-> "returned", link |-> calls[w].link, fields |-> job[j].fields, job |-> j]
  <2>1. j \in Calls /\ calls[w].link \in Links /\ job[j].pc # "none" /\ calls[w].link = job[j].link
    BY <1>0, <1>7 DEF Return, CallsInv, CallStates, Waited
  <2>2. job[j].fields \in Fields /\ job' = job /\ calls' = [calls EXCEPT ![w] = call]
    BY <1>7, <2>1, RunningHasLink DEF Return, Returned, Inv, Jobs, Fields
  <2> HIDE DEF j
  <2>3. j # NoJob
    BY <2>1, LinkContextAssumption
  <2>4. call \in CallStates /\ CallIsRightNow(call)
    BY <2>1, <2>2, <2>3 DEF CallStates, CallIsRightNow
  <2> HIDE DEF call
  <2> QED
    BY <1>0, <2>2, <2>4, OneCallChanges
<1>8. ASSUME NEW w \in Calls, NEW l \in Links, Enrich(w, l)
      PROVE  CallsInv'
  BY <1>2, <1>3, <1>5, <1>6, <1>8 DEF Enrich, ClosedReturns, Refuse
<1>9. ASSUME NEW j \in Calls, JobStep(j) \/ Redirect(j)
      PROVE  calls' = calls
  BY <1>9 DEF JobStep, LoadPage, LoadImage, LoadFails, AcquireSlot, GiveUpSlot,
     Describe, DescriptionEnds, Finish, Redirect
<1>10. ASSUME NEW p \in Photos, Photo(p)
       PROVE  calls' = calls
  BY <1>10 DEF Photo, PhotoBegins, PhotoContinues, PhotoEnds
<1>11. (\E l \in Links : Expire(l)) \/ (\E b \in Budgets : Refill(b))
         \/ Close \/ CloseReturns \/ UNCHANGED vars => calls' = calls
  BY DEF Expire, Refill, Close, CloseReturns, vars
<1> QED
  BY <1>1, <1>7, <1>8, <1>9, <1>10, <1>11 DEF Next

LEMMA ResultInvAlways == Spec => []ResultInv
<1>1. Init => ResultInv
  <2> SUFFICES ASSUME Init PROVE ResultInv
    OBVIOUS
  <2>1. CacheInv
    BY LinkContextAssumption DEF Init, CacheInv
  <2>2. CallsInv /\ NewPagesAreEmpty
    BY DEF Init, CallsInv, CallStates, NewPagesAreEmpty, JobAt, NotStarted
  <2> QED
    BY <2>1, <2>2 DEF ResultInv
<1>2. Inv /\ ResultInv /\ [Next]_vars => ResultInv'
  BY CacheStep, CallsStep, StepGrows DEF ResultInv
<1> QED
  BY <1>1, <1>2, InvAlways, PTL DEF Spec

(* Slots are neither lost nor taken twice, no more jobs run than are       *)
(* allowed and the cache never outgrows its size (enricher.go:             *)
(* visionSlots, maxConcurrentJobs; cache.go: maxCacheEntries).             *)
THEOREM LimitsAreAlwaysKept == Spec => []LimitsAreKept
<1>1. Inv /\ ResultInv => LimitsAreKept
  BY DEF Inv, ResultInv, CacheInv, LimitsAreKept
<1> QED
  BY <1>1, InvAlways, ResultInvAlways, PTL

(* Whatever a call returns, at its time or too early, and whatever the     *)
(* cache keeps was loaded for the same link, and what is cached is all     *)
(* that was found (enricher.go: start, run; cache.go).                     *)
THEOREM ResultsAlwaysBelong == Spec => []ResultsBelongToTheLink
<1>1. ResultInv => ResultsBelongToTheLink
  BY DEF ResultInv, CacheInv, CallsInv, Waited, Found, ResultsBelongToTheLink
<1> QED
  BY <1>1, ResultInvAlways, PTL
-------------------------------------------------------------------------------
(* What holds at first and from each number to the next holds at the end. *)
LEMMA FromEachToTheNext ==
  ASSUME NEW N \in Nat, NEW S, 0 \in S, \A n \in 0..(N - 1) : n \in S => n + 1 \in S
  PROVE  \A n \in 0..N : n \in S
<1> SUFFICES ASSUME NEW n \in 0..N, n \notin S PROVE FALSE
  OBVIOUS
<1> DEFINE A == {k \in 0..n : k \notin S}
           f == [k \in A |-> k - 1]
<1>1. IsFiniteSet(A)
  <2>1. IsFiniteSet(0..n) /\ A \subseteq 0..n
    BY FS_Interval
  <2> HIDE DEF A
  <2> QED
    BY <2>1, FS_Subset
<1>2. \A k \in A : k - 1 \in A
  <2> SUFFICES ASSUME NEW k \in A PROVE k - 1 \in A
    OBVIOUS
  <2>1. k \in Nat /\ k # 0 /\ k <= n /\ k \notin S
    OBVIOUS
  <2>2. k - 1 \in 0..(N - 1) /\ k - 1 \in 0..n /\ (k - 1) + 1 = k
    BY <2>1
  <2> QED
    BY <2>1, <2>2
<1>3. f \in Injection(A, A)
  BY <1>2 DEF Injection, IsInjective
<1>4. n \in A /\ n + 1 \notin A
  OBVIOUS
<1>5. f \in Surjection(A, A)
  <2> HIDE DEF A, f
  <2> QED
    BY <1>1, <1>3, FS_Injection
<1>6. PICK k \in A : f[k] = n
  <2> HIDE DEF A, f
  <2> QED
    BY <1>4, <1>5 DEF Surjection
<1>7. k = n + 1
  BY <1>6
<1> QED
  BY <1>4, <1>7

(* A set of positions has a first one. *)
LEMMA FirstOf ==
  ASSUME NEW N \in Nat, NEW I \in SUBSET (1..N), I # {}
  PROVE  Min(I) \in I /\ \A i \in I : Min(I) <= i
<1> DEFINE S == {n \in 0..N : \A i \in I : i > n}
<1>1. ASSUME \A i \in I : \E j \in I : j < i
      PROVE  FALSE
  <2>1. 0 \in S
    OBVIOUS
  <2>2. ASSUME NEW n \in 0..(N - 1), n \in S
        PROVE  n + 1 \in S
    <3>1. ASSUME NEW i \in I
          PROVE  i > n + 1
      <4>1. PICK j \in I : j < i
        BY <1>1
      <4> QED
        BY <2>2, <4>1
    <3> QED
      BY <3>1
  <2>3. \A n \in 0..N : n \in S
    <3> HIDE DEF S
    <3> QED
      BY <2>1, <2>2, FromEachToTheNext
  <2>4. N \in S
    BY <2>3
  <2>5. PICK i \in I : i \in 1..N
    OBVIOUS
  <2>6. i > N
    BY <2>4
  <2> QED
    BY <2>5, <2>6
<1>2. PICK i \in I : \A j \in I : ~(j < i)
  BY <1>1
<1>3. \E k \in I : \A j \in I : k <= j
  BY <1>2
<1> QED
  BY <1>3 DEF Min

(* If no reason is the first then no check fails. *)
LEMMA ChecksPass ==
  ASSUME NEW N \in Nat, NEW checks, DOMAIN checks = 1..N, FirstReason(checks) = NoReason
  PROVE  \A i \in 1..N : checks[i] = NoReason
<1>1. PICK failed : failed = {i \in DOMAIN checks : checks[i] # NoReason}
  OBVIOUS
<1>2. failed \in SUBSET (1..N)
  BY <1>1
<1>3. failed # {} => FirstReason(checks) = checks[Min(failed)] /\ Min(failed) \in failed
  BY <1>1, <1>2, FirstOf DEF FirstReason
<1>4. failed = {}
  BY <1>1, <1>3
<1> QED
  BY <1>1, <1>4
-------------------------------------------------------------------------------
(* The loader.  A load is at its phases in turn; what it holds, has sent   *)
(* and was charged is told by where it is.                                 *)
Stages == {"idle", "waiting", "resolving", "admitting", "sending", "requesting", "reading", "ended"}

LoaderTypes ==
  /\ world \in Worlds
  /\ stage \in [Asked -> Stages]
  /\ redirects \in [Asked -> Nat]
  /\ \A l \in Asked : redirects[l] <= MaxRedirects
  /\ target = [l \in Asked |-> target[l]]
  /\ address = [l \in Asked |-> address[l]]
  /\ slots \in Nat
  /\ charged \in [WebHosts -> Nat]
  /\ sent = [l \in Asked |-> sent[l]]
  /\ \A l \in Asked : IsList(sent[l])

(* A hop sends one request at most. *)
HopsAreCounted ==
  \A l \in Asked :
    /\ stage[l] = "idle" => Len(sent[l]) = 0
    /\ Len(sent[l]) <= redirects[l] + (IF stage[l] \in {"requesting", "reading", "ended"} THEN 1 ELSE 0)

(* What was resolved is still what is asked for when it is sent. *)
ResolvedIsAsked ==
  \A l \in Asked : stage[l] \in {"admitting", "sending"} => PublicOf(target[l].host, address[l])

(* Once over https, always over https. *)
StaysSecure ==
  \A l \in Asked : \A i \in DOMAIN sent[l] :
    sent[l][i].target.scheme = "https" => target[l].scheme = "https"

RequestsAreFinite == \A h \in WebHosts : IsFiniteSet(RequestsTo(h))

LoaderInv ==
  /\ LoaderTypes /\ HopsAreCounted /\ ResolvedIsAsked /\ StaysSecure /\ RequestsAreFinite
  /\ SlotsAreCounted /\ AddressesArePublic /\ NeverDowngraded /\ ChargesAreCounted

LEMMA AskedIsFinite == LoaderTypes => IsFiniteSet(Asked)
BY WorldsAssumption DEF LoaderTypes, Asked

LEMMA HoldersAreFinite ==
  ASSUME LoaderTypes
  PROVE  /\ IsFiniteSet(Holders) /\ Cardinality(Holders) \in Nat
         /\ \A h : IsFiniteSet(SendingTo(h)) /\ Cardinality(SendingTo(h)) \in Nat
<1>1. IsFiniteSet(Asked) /\ Holders \subseteq Asked /\ \A h : SendingTo(h) \subseteq Asked
  BY AskedIsFinite DEF Holders, SendingTo
<1> QED
  BY <1>1, FS_Subset, FS_CardinalityType

(* A load that takes or releases its slot on its way is counted right. *)
LEMMA SlotsFollow ==
  ASSUME LoaderTypes, SlotsAreCounted, NEW l \in Asked, NEW next \in Stages, GoesTo(l, next),
         UNCHANGED world, slots' <= MaxConcurrent,
         \/ stage[l] \in Holding /\ next \in Holding /\ slots' = slots
         \/ stage[l] \notin Holding /\ next \notin Holding /\ slots' = slots
         \/ stage[l] \in Holding /\ next \notin Holding /\ slots' = slots - 1
         \/ stage[l] \notin Holding /\ next \in Holding /\ slots' = slots + 1
  PROVE  slots' \in Nat /\ SlotsAreCounted'
<1>1. /\ Asked' = Asked /\ stage'[l] = next
      /\ \A m \in Asked : m # l => stage'[m] = stage[m]
  BY DEF GoesTo, LoaderTypes, Asked
<1>2. Holders' = IF next \in Holding THEN Holders \cup {l} ELSE Holders \ {l}
  BY <1>1 DEF Holders
<1>3. l \in Holders <=> stage[l] \in Holding
  BY DEF Holders
<1>4. /\ IsFiniteSet(Holders) /\ Cardinality(Holders) \in Nat
      /\ slots = Cardinality(Holders)
  BY HoldersAreFinite DEF SlotsAreCounted
<1>5. /\ Cardinality(Holders \cup {l}) = IF l \in Holders THEN slots ELSE slots + 1
      /\ Cardinality(Holders \ {l}) = IF l \in Holders THEN slots - 1 ELSE slots
      /\ IsFiniteSet(Holders \ {l})
  BY <1>4, FS_AddElement, FS_RemoveElement
<1>7. Cardinality(Holders \ {l}) \in Nat
  BY <1>5, FS_CardinalityType
<1>6. slots' \in Nat /\ slots' = Cardinality(Holders')
  BY <1>2, <1>3, <1>4, <1>5, <1>7
<1> QED
  BY <1>6 DEF SlotsAreCounted

(* Without a request the history of the requests is what it was. *)
LEMMA HistoryStays ==
  ASSUME UNCHANGED <<world, sent>>
  PROVE  /\ Asked' = Asked /\ WebHosts' = WebHosts /\ \A h : RequestsTo(h)' = RequestsTo(h)
         /\ AddressesArePublic => AddressesArePublic'
         /\ NeverDowngraded => NeverDowngraded'
         /\ \A host, a : PublicOf(host, a)' <=> PublicOf(host, a)
<1>1. Asked' = Asked /\ WebHosts' = WebHosts
  BY DEF Asked, WebHosts
<1>2. Requests' = Requests /\ \A r : RequestAt(r)' = RequestAt(r)
  BY <1>1 DEF Requests, RequestAt
<1>3. \A h : RequestsTo(h)' = RequestsTo(h)
  BY <1>2 DEF RequestsTo
<1>4. \A host : Lookup(host)' = Lookup(host)
  BY DEF Lookup
<1>5. \A host, a : PublicOf(host, a)' <=> PublicOf(host, a)
  BY <1>4 DEF PublicOf
<1>6. AddressesArePublic => AddressesArePublic'
  BY <1>2, <1>5 DEF AddressesArePublic
<1>7. NeverDowngraded => NeverDowngraded'
  BY <1>1 DEF NeverDowngraded
<1> QED
  BY <1>1, <1>3, <1>5, <1>6, <1>7

(* A step of one load that neither charges nor sends: what has to be shown *)
(* of it is about its own next phase, target and address.                  *)
LEMMA QuietStep ==
  ASSUME LoaderInv, NEW l \in Asked, NEW next \in Stages \ {"idle", "sending"},
         stage[l] # "sending", GoesTo(l, next), slots' <= MaxConcurrent,
         \/ stage[l] \in Holding /\ next \in Holding /\ slots' = slots
         \/ stage[l] \notin Holding /\ next \notin Holding /\ slots' = slots
         \/ stage[l] \in Holding /\ next \notin Holding /\ slots' = slots - 1
         \/ stage[l] \notin Holding /\ next \in Holding /\ slots' = slots + 1,
         UNCHANGED <<world, sent, charged>>,
         target' = [target EXCEPT ![l] = target'[l]],
         address' = [address EXCEPT ![l] = address'[l]],
         redirects' = [redirects EXCEPT ![l] = redirects'[l]],
         redirects'[l] \in Nat, redirects'[l] <= MaxRedirects,
         Len(sent[l]) <= redirects'[l] + (IF next \in {"requesting", "reading", "ended"} THEN 1 ELSE 0),
         next = "admitting" => PublicOf(target'[l].host, address'[l]),
         \A i \in DOMAIN sent[l] :
           sent[l][i].target.scheme = "https" => target'[l].scheme = "https"
  PROVE  LoaderInv'
<1>1. /\ Asked' = Asked /\ WebHosts' = WebHosts /\ \A h : RequestsTo(h)' = RequestsTo(h)
      /\ AddressesArePublic' /\ NeverDowngraded'
      /\ \A host, b : PublicOf(host, b)' <=> PublicOf(host, b)
  BY HistoryStays DEF LoaderInv
<1>2. LoaderTypes /\ SlotsAreCounted
  BY DEF LoaderInv
<1>3. slots' \in Nat /\ SlotsAreCounted'
  BY <1>2, SlotsFollow
<1>4. /\ stage'[l] = next
      /\ \A m \in Asked : m # l => /\ stage'[m] = stage[m] /\ target'[m] = target[m]
                                   /\ address'[m] = address[m] /\ redirects'[m] = redirects[m]
      /\ stage' \in [Asked -> Stages] /\ redirects' \in [Asked -> Nat]
      /\ target' = [m \in Asked |-> target'[m]] /\ address' = [m \in Asked |-> address'[m]]
  BY <1>2 DEF LoaderTypes, GoesTo
<1>5. LoaderTypes'
  BY <1>1, <1>2, <1>3, <1>4 DEF LoaderTypes
<1>6. HopsAreCounted'
  <2>1. /\ next # "idle"
        /\ Len(sent'[l]) <= redirects'[l] + (IF next \in {"requesting", "reading", "ended"} THEN 1 ELSE 0)
    OBVIOUS
  <2>2. \A m \in Asked : m # l =>
          sent'[m] = sent[m] /\ stage'[m] = stage[m] /\ redirects'[m] = redirects[m]
    BY <1>4
  <2>3. HopsAreCounted
    BY DEF LoaderInv
  <2> QED
    BY <1>1, <1>4, <2>1, <2>2, <2>3 DEF HopsAreCounted
<1>7. ResolvedIsAsked'
  BY <1>1, <1>4 DEF LoaderInv, ResolvedIsAsked
<1>8. StaysSecure'
  BY <1>1, <1>4 DEF LoaderInv, StaysSecure
<1>9. RequestsAreFinite'
  BY <1>1 DEF LoaderInv, RequestsAreFinite
<1>10. \A h : SendingTo(h)' = SendingTo(h)
  BY <1>1, <1>4 DEF SendingTo
<1>11. ChargesAreCounted'
  BY <1>1, <1>10 DEF LoaderInv, ChargesAreCounted
<1> QED
  BY <1>1, <1>3, <1>5, <1>6, <1>7, <1>8, <1>9, <1>11 DEF LoaderInv

(* A load that fails where nothing was charged for a request yet to come.  *)
LEMMA FailureKeeps ==
  ASSUME LoaderInv, NEW l \in Asked, NEW reason, stage[l] \notin {"sending", "ended"},
         Fails(l, reason), UNCHANGED <<world, target, redirects, address, charged, sent>>
  PROVE  LoaderInv'
<1>1. LoaderTypes /\ SlotsAreCounted
  BY DEF LoaderInv
<1>2. /\ GoesTo(l, "ended") /\ "ended" \in Stages \ {"idle", "sending"} /\ "ended" \notin Holding
      /\ slots' = IF stage[l] \in Holding THEN slots - 1 ELSE slots
  BY DEF Fails, Stages, Holding
<1>3. slots' <= MaxConcurrent
  BY <1>1, <1>2, LinkPreviewAssumption DEF LoaderTypes, SlotsAreCounted
<1>4. /\ target' = [target EXCEPT ![l] = target'[l]] /\ target'[l] = target[l]
      /\ address' = [address EXCEPT ![l] = address'[l]]
      /\ redirects' = [redirects EXCEPT ![l] = redirects'[l]]
      /\ redirects'[l] = redirects[l] /\ redirects[l] \in Nat /\ redirects[l] <= MaxRedirects
  BY <1>1 DEF LoaderTypes
<1>5. Len(sent[l]) \in Nat /\ Len(sent[l]) <= redirects[l] + 1
  BY <1>1, <1>4 DEF LoaderInv, LoaderTypes, HopsAreCounted, IsList
<1>6. \A i \in DOMAIN sent[l] : sent[l][i].target.scheme = "https" => target'[l].scheme = "https"
  BY <1>4 DEF LoaderInv, StaysSecure
<1> QED
  BY <1>2, <1>3, <1>4, <1>5, <1>6, QuietStep

(* If a response is not refused, no check failed: FirstReason would have   *)
(* found the reason of the first that did, and every check has one.        *)
LEMMA FollowedIsAllowed ==
  ASSUME NEW l, NEW r, StatusRefusal(l, r) = NoReason
  PROVE  /\ ~(redirects[l] >= MaxRedirects)
         /\ target[l].scheme = "https" =>
              ResolvedURL(target[l], r.location).target.scheme = "https"
<1>1. PICK next : next = ResolvedURL(target[l], r.location)
  OBVIOUS
<1>2. PICK checks : checks = <<
        Check(r.status \notin RedirectStatus, "http_status"),
        Check(redirects[l] >= MaxRedirects, "redirect_limit"),
        Check(r.location = NoWord \/ References[r.location].kind = "bad", "redirect_url"),
        next.reason,
        Check(target[l].scheme = "https" /\ next.target.scheme # "https", "https_downgrade")>>
  OBVIOUS
<1>3. FirstReason(checks) = NoReason
  BY <1>1, <1>2 DEF StatusRefusal
<1>4. /\ DOMAIN checks = 1..5
      /\ redirects[l] >= MaxRedirects => checks[2] # NoReason
      /\ target[l].scheme = "https" /\ next.target.scheme # "https" => checks[5] # NoReason
  BY <1>2 DEF Check, NoReason
<1>5. checks[2] = NoReason /\ checks[5] = NoReason
  <2>1. \A i \in 1..5 : checks[i] = NoReason
    BY <1>3, <1>4, ChecksPass
  <2> QED
    BY <2>1
<1> QED
  BY <1>1, <1>4, <1>5

LEMMA FetchKeeps ==
  ASSUME LoaderInv, NEW l \in Asked, Fetch(l)
  PROVE  LoaderInv'
<1>1. LoaderTypes /\ SlotsAreCounted /\ stage[l] = "idle"
  BY DEF LoaderInv, Fetch
<1>2. PICK parsed : parsed = ParseURL(world.asks[l].url)
  OBVIOUS
<1>3. CASE parsed.reason # NoReason
  <2>1. Fails(l, parsed.reason) /\ UNCHANGED <<world, target, redirects, address, charged, sent>>
    BY <1>2, <1>3 DEF Fetch
  <2> QED
    BY <1>1, <2>1, FailureKeeps
<1>4. CASE parsed.reason = NoReason
  <2>1. /\ GoesTo(l, "waiting") /\ target' = [target EXCEPT ![l] = parsed.target]
        /\ UNCHANGED <<world, slots, redirects, address, charged, sent>>
    BY <1>2, <1>4 DEF Fetch
  <2>2. /\ target' = [target EXCEPT ![l] = target'[l]]
        /\ address' = [address EXCEPT ![l] = address'[l]]
        /\ redirects' = [redirects EXCEPT ![l] = redirects'[l]]
        /\ redirects'[l] = redirects[l] /\ redirects[l] \in Nat /\ redirects[l] <= MaxRedirects
        /\ slots' <= MaxConcurrent
    BY <1>1, <2>1 DEF LoaderTypes, SlotsAreCounted
  <2>3. Len(sent[l]) = 0 /\ sent[l] = [i \in 1..Len(sent[l]) |-> sent[l][i]]
    BY <1>1 DEF LoaderInv, LoaderTypes, HopsAreCounted, IsList
  <2>4. \A i \in DOMAIN sent[l] : FALSE
    BY <2>3
  <2>5. "waiting" \in Stages \ {"idle", "sending"} /\ "waiting" \notin Holding /\ stage[l] \notin Holding
    BY <1>1 DEF Stages, Holding
  <2>6. Len(sent[l]) <= redirects'[l] + (IF "waiting" \in {"requesting", "reading", "ended"} THEN 1 ELSE 0)
    BY <2>2, <2>3
  <2>7. slots' = slots
    BY <2>1
  <2> QED
    BY <1>1, <2>1, <2>2, <2>4, <2>5, <2>6, <2>7, QuietStep
<1> QED
  BY <1>3, <1>4

(* What the hop knows when it goes on without a new target. *)
LEMMA GoesOn ==
  ASSUME LoaderInv, NEW l \in Asked, NEW next \in Stages \ {"idle", "sending"},
         stage[l] \in {"waiting", "resolving", "requesting", "reading"},
         stage[l] \in {"requesting", "reading"} => next \in {"requesting", "reading", "ended"},
         GoesTo(l, next), slots' <= MaxConcurrent,
         \/ stage[l] \in Holding /\ next \in Holding /\ slots' = slots
         \/ stage[l] \in Holding /\ next \notin Holding /\ slots' = slots - 1
         \/ stage[l] \notin Holding /\ next \in Holding /\ slots' = slots + 1,
         UNCHANGED <<world, sent, charged, target, redirects>>,
         address' = [address EXCEPT ![l] = address'[l]],
         next = "admitting" => PublicOf(target[l].host, address'[l])
  PROVE  LoaderInv'
<1>1. LoaderTypes
  BY DEF LoaderInv
<1>2. /\ target' = [target EXCEPT ![l] = target'[l]] /\ target'[l] = target[l]
      /\ redirects' = [redirects EXCEPT ![l] = redirects'[l]]
      /\ redirects'[l] = redirects[l] /\ redirects[l] \in Nat /\ redirects[l] <= MaxRedirects
  BY <1>1 DEF LoaderTypes
<1>3. Len(sent[l]) <= redirects'[l] + (IF next \in {"requesting", "reading", "ended"} THEN 1 ELSE 0)
  BY <1>1, <1>2 DEF LoaderInv, LoaderTypes, HopsAreCounted, IsList
<1>4. \A i \in DOMAIN sent[l] : sent[l][i].target.scheme = "https" => target'[l].scheme = "https"
  BY <1>2 DEF LoaderInv, StaysSecure
<1> QED
  BY <1>2, <1>3, <1>4, QuietStep

LEMMA HopStepsKeep ==
  ASSUME LoaderInv, NEW l \in Asked,
         \/ TakeSlot(l) \/ Cancelled(l) \/ RequestFails(l) \/ Refused(l)
         \/ BodyFound(l) \/ ReadPage(l) \/ ReadImage(l)
  PROVE  LoaderInv'
<1>1. LoaderTypes /\ SlotsAreCounted /\ slots \in Nat /\ slots <= MaxConcurrent
  BY DEF LoaderInv, LoaderTypes, SlotsAreCounted
<1>2. CASE UNCHANGED address
  <2>1. address' = [address EXCEPT ![l] = address'[l]]
    BY <1>1, <1>2 DEF LoaderTypes
  <2>2. CASE TakeSlot(l)
    <3>1. /\ stage[l] = "waiting" /\ GoesTo(l, "resolving") /\ slots' = slots + 1 /\ slots < MaxConcurrent
          /\ UNCHANGED <<world, sent, charged, target, redirects>>
      BY <2>2 DEF TakeSlot
    <3>2. "resolving" \in Stages \ {"idle", "sending"} /\ "resolving" \in Holding /\ "waiting" \notin Holding
      BY DEF Stages, Holding
    <3>3. slots' <= MaxConcurrent
      BY <1>1, <3>1, LinkPreviewAssumption
    <3> QED
      BY <2>1, <3>1, <3>2, <3>3, GoesOn
  <2>3. CASE BodyFound(l)
    <3>1. /\ stage[l] = "requesting" /\ GoesTo(l, "reading") /\ slots' = slots
          /\ UNCHANGED <<world, sent, charged, target, redirects>>
      BY <2>3 DEF BodyFound
    <3>2. "reading" \in Stages \ {"idle", "sending"} /\ "reading" \in Holding /\ "requesting" \in Holding
      BY DEF Stages, Holding
    <3> QED
      BY <1>1, <2>1, <3>1, <3>2, GoesOn
  <2>4. CASE ReadPage(l) \/ ReadImage(l)
    <3>1. /\ stage[l] = "reading" /\ GoesTo(l, "ended") /\ slots' = slots - 1
          /\ UNCHANGED <<world, sent, charged, target, redirects>>
      BY <2>4 DEF ReadPage, ReadImage, Returns
    <3>2. "ended" \in Stages \ {"idle", "sending"} /\ "ended" \notin Holding /\ "reading" \in Holding
      BY DEF Stages, Holding
    <3>3. slots' <= MaxConcurrent
      BY <1>1, <3>1, LinkPreviewAssumption
    <3> QED
      BY <2>1, <3>1, <3>2, <3>3, GoesOn
  <2>5. CASE Cancelled(l) \/ RequestFails(l) \/ Refused(l)
    <3>1. PICK reason : Fails(l, reason)
      BY <2>5 DEF Cancelled, RequestFails, Refused
    <3>2. /\ stage[l] \in {"waiting", "requesting"}
          /\ UNCHANGED <<world, target, redirects, address, charged, sent>>
      BY <2>5 DEF Cancelled, RequestFails, Refused
    <3> QED
      BY <3>1, <3>2, FailureKeeps
  <2> QED
    BY <2>2, <2>3, <2>4, <2>5
<1>3. UNCHANGED address
  BY DEF TakeSlot, Cancelled, RequestFails, Refused, BodyFound, ReadPage, ReadImage, Returns
<1> QED
  BY <1>2, <1>3

LEMMA ResolveKeeps ==
  ASSUME LoaderInv, NEW l \in Asked, Resolve(l)
  PROVE  LoaderInv'
<1>1. LoaderTypes /\ SlotsAreCounted /\ stage[l] = "resolving"
  BY DEF LoaderInv, Resolve
<1>2. PICK addresses \in Lookup(target[l].host) :
        \/ /\ addresses = <<>> /\ Fails(l, "dns") /\ UNCHANGED address
        \/ /\ \E a \in Range(addresses) : ~PublicAddress(a)
           /\ Fails(l, "blocked_address") /\ UNCHANGED address
        \/ /\ addresses # <<>> /\ \A a \in Range(addresses) : PublicAddress(a)
           /\ address' = [address EXCEPT ![l] = Unmap(addresses[1])]
           /\ GoesTo(l, "admitting") /\ UNCHANGED <<slots, result>>
  BY DEF Resolve
<1>3. UNCHANGED <<world, target, redirects, charged, sent>>
  BY DEF Resolve
<1>4. CASE \E reason : Fails(l, reason) /\ UNCHANGED address
  BY <1>1, <1>3, <1>4, FailureKeeps
<1>5. CASE /\ addresses # <<>> /\ \A a \in Range(addresses) : PublicAddress(a)
           /\ address' = [address EXCEPT ![l] = Unmap(addresses[1])]
           /\ GoesTo(l, "admitting") /\ UNCHANGED <<slots, result>>
  <2>1. address'[l] = Unmap(addresses[1]) /\ address' = [address EXCEPT ![l] = address'[l]]
    BY <1>1, <1>5 DEF LoaderTypes
  <2>2. PublicOf(target[l].host, address'[l])
    BY <1>5, <2>1 DEF PublicOf
  <2>3. "admitting" \in Stages \ {"idle", "sending"} /\ "admitting" \in Holding /\ "resolving" \in Holding
    BY DEF Stages, Holding
  <2>4. slots' <= MaxConcurrent /\ slots' = slots
    BY <1>1, <1>5 DEF SlotsAreCounted
  <2> QED
    BY <1>1, <1>3, <1>5, <2>1, <2>2, <2>3, <2>4, GoesOn
<1> QED
  BY <1>2, <1>4, <1>5

LEMMA RedirectedKeeps ==
  ASSUME LoaderInv, NEW l \in Asked, Redirected(l)
  PROVE  LoaderInv'
<1>1. LoaderTypes /\ SlotsAreCounted /\ stage[l] = "requesting"
  BY DEF LoaderInv, Redirected
<1>2. PICK r : /\ ResponseRefusal(l, r) = NoReason /\ r.status # 200
               /\ target' = [target EXCEPT ![l] = ResolvedURL(target[l], r.location).target]
  BY DEF Redirected
<1>3. /\ redirects' = [redirects EXCEPT ![l] = redirects[l] + 1] /\ slots' = slots - 1
      /\ GoesTo(l, "waiting") /\ UNCHANGED <<world, address, charged, sent>>
  BY DEF Redirected
<1>4. StatusRefusal(l, r) = NoReason
  BY <1>2 DEF ResponseRefusal, NoReason
<1>5. /\ ~(redirects[l] >= MaxRedirects)
      /\ target[l].scheme = "https" => ResolvedURL(target[l], r.location).target.scheme = "https"
  BY <1>4, FollowedIsAllowed
<1>6. /\ target' = [target EXCEPT ![l] = target'[l]]
      /\ target'[l] = ResolvedURL(target[l], r.location).target
      /\ address' = [address EXCEPT ![l] = address'[l]]
      /\ redirects' = [redirects EXCEPT ![l] = redirects'[l]]
      /\ redirects'[l] = redirects[l] + 1 /\ redirects[l] \in Nat
  BY <1>1, <1>2, <1>3 DEF LoaderTypes
<1>7. redirects'[l] \in Nat /\ redirects'[l] <= MaxRedirects /\ slots' <= MaxConcurrent
  BY <1>1, <1>3, <1>5, <1>6, LinkPreviewAssumption DEF LoaderTypes, SlotsAreCounted
<1>8. Len(sent[l]) <= redirects'[l]
  BY <1>1, <1>6 DEF LoaderInv, LoaderTypes, HopsAreCounted, IsList
<1>9. \A i \in DOMAIN sent[l] : sent[l][i].target.scheme = "https" => target'[l].scheme = "https"
  BY <1>5, <1>6 DEF LoaderInv, StaysSecure
<1>10. "waiting" \in Stages \ {"idle", "sending"} /\ "waiting" \notin Holding /\ "requesting" \in Holding
  BY DEF Stages, Holding
<1>11. Len(sent[l]) <= redirects'[l] + (IF "waiting" \in {"requesting", "reading", "ended"} THEN 1 ELSE 0)
  BY <1>7, <1>8
<1> QED
  BY <1>1, <1>3, <1>6, <1>7, <1>9, <1>10, <1>11, QuietStep

LEMMA ChargeKeeps ==
  ASSUME LoaderInv, NEW l \in Asked, Charge(l)
  PROVE  LoaderInv'
<1>1. LoaderTypes /\ stage[l] = "admitting"
  BY DEF LoaderInv, Charge
<1>2. UNCHANGED <<world, target, redirects, address, sent>>
  BY DEF Charge
<1>3. CASE Fails(l, "http_quota") /\ UNCHANGED charged
  BY <1>1, <1>2, <1>3, FailureKeeps
<1>4. CASE /\ charged' = [charged EXCEPT ![target[l].host] = @ + 1]
           /\ GoesTo(l, "sending") /\ UNCHANGED slots
  <2>1. /\ Asked' = Asked /\ WebHosts' = WebHosts /\ \A h : RequestsTo(h)' = RequestsTo(h)
        /\ AddressesArePublic' /\ NeverDowngraded'
        /\ \A host, b : PublicOf(host, b)' <=> PublicOf(host, b)
    BY <1>2, HistoryStays DEF LoaderInv
  <2>2. /\ stage'[l] = "sending" /\ stage' \in [Asked -> Stages]
        /\ \A m \in Asked : m # l => stage'[m] = stage[m]
    BY <1>1, <1>4 DEF GoesTo, LoaderTypes, Stages
  <2>3. /\ "sending" \in Stages /\ "sending" \in Holding /\ "admitting" \in Holding
        /\ SlotsAreCounted /\ slots' = slots /\ slots' <= MaxConcurrent
    BY <1>4 DEF Stages, Holding, LoaderInv, SlotsAreCounted
  <2>4. SlotsAreCounted' /\ slots' \in Nat
    BY <1>1, <1>2, <1>4, <2>3, SlotsFollow
  <2>5. charged' \in [WebHosts -> Nat]
    <3>1. CASE target[l].host \in WebHosts
      BY <1>1, <1>4, <3>1 DEF LoaderTypes
    <3>2. CASE target[l].host \notin WebHosts
      <4>1. charged' = charged
        BY <1>1, <1>4, <3>2 DEF LoaderTypes
      <4> QED
        BY <1>1, <4>1 DEF LoaderTypes
    <3> QED
      BY <3>1, <3>2
  <2>6. LoaderTypes'
    BY <1>1, <1>2, <2>1, <2>2, <2>4, <2>5 DEF LoaderTypes
  <2>7. HopsAreCounted' /\ ResolvedIsAsked' /\ StaysSecure' /\ RequestsAreFinite'
    BY <1>1, <1>2, <2>1, <2>2
       DEF LoaderInv, HopsAreCounted, ResolvedIsAsked, StaysSecure, RequestsAreFinite
  <2>8. ASSUME NEW h \in WebHosts
        PROVE  Cardinality(RequestsTo(h)) + Cardinality(SendingTo(h)') = charged'[h]
    <3>1. /\ Cardinality(RequestsTo(h)) + Cardinality(SendingTo(h)) = charged[h]
          /\ IsFiniteSet(RequestsTo(h)) /\ charged[h] \in Nat
      BY <1>1 DEF LoaderInv, LoaderTypes, ChargesAreCounted, RequestsAreFinite
    <3>2. /\ Cardinality(RequestsTo(h)) \in Nat
          /\ IsFiniteSet(SendingTo(h)) /\ Cardinality(SendingTo(h)) \in Nat
      BY <1>1, <3>1, HoldersAreFinite, FS_CardinalityType
    <3>3. CASE target[l].host = h
      <4>1. SendingTo(h)' = SendingTo(h) \cup {l} /\ l \notin SendingTo(h)
        BY <1>1, <1>2, <2>1, <2>2, <3>3 DEF SendingTo
      <4>2. Cardinality(SendingTo(h) \cup {l}) = Cardinality(SendingTo(h)) + 1
        BY <3>2, <4>1, FS_AddElement
      <4>3. charged'[h] = charged[h] + 1
        BY <1>1, <1>4, <3>3 DEF LoaderTypes
      <4> QED
        BY <3>1, <3>2, <4>1, <4>2, <4>3
    <3>4. CASE target[l].host # h
      <4>1. SendingTo(h)' = SendingTo(h)
        BY <1>1, <1>2, <2>1, <2>2, <3>4 DEF SendingTo
      <4>2. charged'[h] = charged[h]
        BY <1>1, <1>4, <3>4 DEF LoaderTypes
      <4> QED
        BY <3>1, <4>1, <4>2
    <3> QED
      BY <3>3, <3>4
  <2>9. ChargesAreCounted'
    BY <2>1, <2>8 DEF ChargesAreCounted
  <2> QED
    BY <2>1, <2>4, <2>6, <2>7, <2>9 DEF LoaderInv
<1> QED
  BY <1>3, <1>4 DEF Charge

(* What a request adds to the history. *)
LEMMA SendAdds ==
  ASSUME LoaderTypes, NEW l \in Asked, Send(l), NEW n, n = Len(sent[l])
  PROVE  /\ Asked' = Asked /\ WebHosts' = WebHosts
         /\ n \in Nat /\ DOMAIN sent[l] = 1..n /\ DOMAIN sent'[l] = 1..(n + 1) /\ Len(sent'[l]) = n + 1
         /\ IsList(sent'[l])
         /\ sent'[l][n + 1].target = target[l] /\ sent'[l][n + 1].address = address[l]
         /\ \A i \in 1..n : sent'[l][i] = sent[l][i]
         /\ \A m \in Asked : m # l => sent'[m] = sent[m]
         /\ sent' = [m \in Asked |-> sent'[m]]
<1>1. PICK e : e = [target |-> target[l], address |-> address[l]]
  OBVIOUS
<1>2. PICK s : s = sent[l]
  OBVIOUS
<1>3. n \in Nat /\ s = [i \in 1..n |-> s[i]] /\ n = Len(s)
  BY <1>2 DEF LoaderTypes, IsList
<1>4. PICK S : S = {s[i] : i \in 1..n} \cup {e}
  OBVIOUS
<1>5. s \in [1..n -> S] /\ e \in S
  BY <1>3, <1>4
<1>6. s \in Seq(S)
  BY <1>3, <1>5
<1>q. PICK q : q = Append(s, e)
  OBVIOUS
<1>7. q \in Seq(S) /\ Len(q) = n + 1 /\ q[n + 1] = e /\ \A i \in 1..n : q[i] = s[i]
  BY <1>3, <1>5, <1>6, <1>q, AppendProperties
<1>8. sent' = [sent EXCEPT ![l] = Append(s, e)] /\ UNCHANGED world
  BY <1>1, <1>2 DEF Send
<1>9. /\ sent'[l] = q /\ sent' = [m \in Asked |-> sent'[m]]
      /\ \A m \in Asked : m # l => sent'[m] = sent[m]
  BY <1>8, <1>q DEF LoaderTypes
<1>10. Asked' = Asked /\ WebHosts' = WebHosts
  BY <1>8 DEF Asked, WebHosts
<1>11. DOMAIN s = 1..n /\ DOMAIN q = 1..(n + 1) /\ IsList(q)
  <2>1. DOMAIN s = 1..n
    BY <1>3
  <2>2. DOMAIN q = 1..Len(q) /\ q = [i \in 1..Len(q) |-> q[i]] /\ Len(q) \in Nat
    BY <1>7
  <2> QED
    BY <1>7, <2>1, <2>2 DEF IsList
<1>12. e.target = target[l] /\ e.address = address[l]
  BY <1>1
<1> QED
  BY <1>2, <1>3, <1>7, <1>9, <1>10, <1>11, <1>12

LEMMA SendKeeps ==
  ASSUME LoaderInv, NEW l \in Asked, Send(l)
  PROVE  LoaderInv'
<1>1. LoaderTypes /\ stage[l] = "sending" /\ SlotsAreCounted
  BY DEF LoaderInv, Send
<1>2. /\ GoesTo(l, "requesting")
      /\ UNCHANGED <<world, target, redirects, address, slots, charged>>
  BY DEF Send
<1>3. PICK n : n = Len(sent[l])
  OBVIOUS
<1>4. /\ Asked' = Asked /\ WebHosts' = WebHosts
      /\ n \in Nat /\ DOMAIN sent[l] = 1..n /\ DOMAIN sent'[l] = 1..(n + 1) /\ Len(sent'[l]) = n + 1
      /\ IsList(sent'[l])
      /\ sent'[l][n + 1].target = target[l] /\ sent'[l][n + 1].address = address[l]
      /\ \A i \in 1..n : sent'[l][i] = sent[l][i]
      /\ \A m \in Asked : m # l => sent'[m] = sent[m]
      /\ sent' = [m \in Asked |-> sent'[m]]
  BY <1>1, <1>3, SendAdds
<1>5. /\ stage'[l] = "requesting" /\ stage' \in [Asked -> Stages]
      /\ \A m \in Asked : m # l => stage'[m] = stage[m]
  BY <1>1, <1>2 DEF GoesTo, LoaderTypes, Stages
<1>6. /\ "requesting" \in Stages /\ "requesting" \in Holding /\ "sending" \in Holding
      /\ slots' = slots /\ slots' <= MaxConcurrent
  BY <1>1, <1>2 DEF Stages, Holding, SlotsAreCounted
<1>7. SlotsAreCounted' /\ slots' \in Nat
  BY <1>1, <1>2, <1>6, SlotsFollow
<1>8. \A m \in Asked : IsList(sent'[m])
  BY <1>1, <1>4 DEF LoaderTypes
<1>9. LoaderTypes'
  <2>1. \A m \in Asked : IsList(sent[m])'
    BY <1>8, Zenon DEF IsList
  <2> QED
    BY <1>1, <1>2, <1>4, <1>5, <1>7, <2>1 DEF LoaderTypes
<1>10. HopsAreCounted'
  <2>1. n + 1 <= redirects[l] + 1 /\ redirects[l] \in Nat
    BY <1>1, <1>3, <1>4 DEF LoaderInv, LoaderTypes, HopsAreCounted
  <2>2. /\ stage'[l] = "requesting" /\ Len(sent'[l]) <= redirects'[l] + 1
        /\ UNCHANGED redirects
    BY <1>2, <1>4, <1>5, <2>1
  <2>3. \A m \in Asked : m # l => sent'[m] = sent[m] /\ stage'[m] = stage[m]
    BY <1>4, <1>5
  <2>4. HopsAreCounted
    BY DEF LoaderInv
  <2> QED
    BY <1>4, <2>2, <2>3, <2>4 DEF HopsAreCounted
<1>11. \A host, b : PublicOf(host, b)' <=> PublicOf(host, b)
  BY <1>2 DEF PublicOf, Lookup
<1>12. ResolvedIsAsked'
  BY <1>2, <1>4, <1>5, <1>11 DEF LoaderInv, ResolvedIsAsked
<1>13. \A i \in 1..(n + 1) : i \in 1..n \/ i = n + 1
  BY <1>4
<1>14. StaysSecure'
  <2>1. \A i \in 1..n : sent[l][i].target.scheme = "https" => target[l].scheme = "https"
    BY <1>4 DEF LoaderInv, StaysSecure
  <2>2. \A i \in DOMAIN sent'[l] : sent'[l][i].target.scheme = "https" => target'[l].scheme = "https"
    BY <1>2, <1>4, <1>13, <2>1
  <2>3. \A m \in Asked : m # l =>
          \A i \in DOMAIN sent'[m] : sent'[m][i].target.scheme = "https" => target'[m].scheme = "https"
    BY <1>2, <1>4 DEF LoaderInv, StaysSecure
  <2> QED
    BY <1>4, <2>2, <2>3 DEF StaysSecure
<1>15. NeverDowngraded'
  <2>1. \A i, j \in 1..n : i < j /\ sent[l][i].target.scheme = "https" => sent[l][j].target.scheme = "https"
    BY <1>4 DEF LoaderInv, NeverDowngraded
  <2>2. \A i \in 1..n : sent[l][i].target.scheme = "https" => target[l].scheme = "https"
    BY <1>4 DEF LoaderInv, StaysSecure
  <2>3. ASSUME NEW i \in 1..(n + 1), NEW j \in 1..(n + 1), i < j, sent'[l][i].target.scheme = "https"
        PROVE  sent'[l][j].target.scheme = "https"
    <3>1. i \in 1..n
      BY <1>4, <2>3
    <3> QED
      BY <1>4, <1>13, <2>1, <2>2, <2>3, <3>1
  <2>4. \A m \in Asked : m # l => \A i, j \in DOMAIN sent'[m] :
          i < j /\ sent'[m][i].target.scheme = "https" => sent'[m][j].target.scheme = "https"
    BY <1>4 DEF LoaderInv, NeverDowngraded
  <2> QED
    BY <1>4, <2>3, <2>4 DEF NeverDowngraded
(* The new request joins the others. *)
<1>16. PICK new : new = <<l, n + 1>>
  OBVIOUS
<1>17. ASSUME NEW r
       PROVE  /\ r \in Requests' <=> r \in Requests \/ r = new
              /\ r \in Requests => RequestAt(r)' = RequestAt(r) /\ r # new
  <2>1. r \in Requests <=> \E m \in Asked : \E i \in DOMAIN sent[m] : r = <<m, i>>
    BY DEF Requests
  <2>2. r \in Requests' <=> \E m \in Asked : \E i \in DOMAIN sent'[m] : r = <<m, i>>
    BY <1>4 DEF Requests
  <2>3. ASSUME NEW m \in Asked, NEW i \in DOMAIN sent[m], r = <<m, i>>
        PROVE  i \in DOMAIN sent'[m] /\ RequestAt(r)' = RequestAt(r) /\ r # new
    <3>0. RequestAt(r) = sent[m][i] /\ RequestAt(r)' = sent'[m][i]
      BY <2>3 DEF RequestAt
    <3>1. CASE m = l
      <4>1. i \in 1..n /\ i \in 1..(n + 1) /\ i # n + 1
        BY <1>4, <3>1
      <4> QED
        BY <1>4, <1>16, <2>3, <3>0, <3>1, <4>1
    <3>2. CASE m # l
      BY <1>4, <1>16, <2>3, <3>0, <3>2
    <3> QED
      BY <3>1, <3>2
  <2>4. ASSUME NEW m \in Asked, NEW i \in DOMAIN sent'[m], r = <<m, i>>
        PROVE  r = new \/ i \in DOMAIN sent[m]
    <3>1. CASE m = l
      BY <1>4, <1>13, <1>16, <2>4, <3>1
    <3>2. CASE m # l
      BY <1>4, <2>4, <3>2
    <3> QED
      BY <3>1, <3>2
  <2>5. n + 1 \in DOMAIN sent'[l]
    BY <1>4
  <2>6. r = new => r \in Requests'
    BY <1>16, <2>2, <2>5
  <2>7. r \in Requests => r \in Requests' /\ RequestAt(r)' = RequestAt(r) /\ r # new
    BY <2>1, <2>2, <2>3
  <2>8. r \in Requests' => r = new \/ r \in Requests
    BY <2>1, <2>2, <2>4
  <2> QED
    BY <2>6, <2>7, <2>8
<1>18. RequestAt(new)'.target = target[l] /\ RequestAt(new)'.address = address[l]
  BY <1>4, <1>16 DEF RequestAt
<1>19. AddressesArePublic'
  <2>1. PublicOf(target[l].host, address[l])
    BY <1>1 DEF LoaderInv, ResolvedIsAsked
  <2>2. \A r \in Requests : PublicOf(RequestAt(r).target.host, RequestAt(r).address)
    BY DEF LoaderInv, AddressesArePublic
  <2>3. ASSUME NEW r \in Requests'
        PROVE  PublicOf(RequestAt(r)'.target.host, RequestAt(r)'.address)
    BY <1>17, <1>18, <2>1, <2>2
  <2>4. ASSUME NEW r \in Requests'
        PROVE  PublicOf(RequestAt(r).target.host, RequestAt(r).address)'
    BY <1>2, <2>3 DEF PublicOf, Lookup
  <2> QED
    BY <2>4 DEF AddressesArePublic
<1>20. ASSUME NEW h \in WebHosts
       PROVE  /\ IsFiniteSet(RequestsTo(h)')
              /\ Cardinality(RequestsTo(h)') + Cardinality(SendingTo(h)') = charged'[h]
  <2>1. /\ Cardinality(RequestsTo(h)) + Cardinality(SendingTo(h)) = charged[h]
        /\ IsFiniteSet(RequestsTo(h)) /\ charged'[h] = charged[h]
    BY <1>2 DEF LoaderInv, ChargesAreCounted, RequestsAreFinite
  <2>2. /\ Cardinality(RequestsTo(h)) \in Nat
        /\ IsFiniteSet(SendingTo(h)) /\ Cardinality(SendingTo(h)) \in Nat
    BY <1>1, <2>1, HoldersAreFinite, FS_CardinalityType
  <2>3. CASE target[l].host = h
    <3>1. RequestsTo(h)' = RequestsTo(h) \cup {new} /\ new \notin RequestsTo(h)
      BY <1>17, <1>18, <2>3 DEF RequestsTo
    <3>2. SendingTo(h)' = SendingTo(h) \ {l} /\ l \in SendingTo(h)
      BY <1>1, <1>2, <1>4, <1>5, <2>3 DEF SendingTo
    <3>3. /\ IsFiniteSet(RequestsTo(h) \cup {new})
          /\ Cardinality(RequestsTo(h) \cup {new}) = Cardinality(RequestsTo(h)) + 1
          /\ Cardinality(SendingTo(h) \ {l}) = Cardinality(SendingTo(h)) - 1
      BY <2>1, <2>2, <3>1, <3>2, FS_AddElement, FS_RemoveElement
    <3> QED
      BY <2>1, <2>2, <3>1, <3>2, <3>3
  <2>4. CASE target[l].host # h
    <3>1. RequestsTo(h)' = RequestsTo(h)
      BY <1>17, <1>18, <2>4 DEF RequestsTo
    <3>2. SendingTo(h)' = SendingTo(h)
      BY <1>1, <1>2, <1>4, <1>5, <2>4 DEF SendingTo
    <3> QED
      BY <2>1, <3>1, <3>2
  <2> QED
    BY <2>3, <2>4
<1>21. RequestsAreFinite' /\ ChargesAreCounted'
  BY <1>4, <1>20 DEF RequestsAreFinite, ChargesAreCounted
<1> QED
  BY <1>7, <1>9, <1>10, <1>12, <1>14, <1>15, <1>19, <1>21 DEF LoaderInv

LEMMA LoaderStarts == LoaderInit => LoaderInv
<1> SUFFICES ASSUME LoaderInit PROVE LoaderInv
  OBVIOUS
<1>1. \A l \in Asked : sent[l] = <<>> /\ stage[l] = "idle" /\ redirects[l] = 0
  BY DEF LoaderInit
<1>2. \A l \in Asked : Len(sent[l]) = 0 /\ DOMAIN sent[l] = {} /\ IsList(sent[l])
  BY <1>1 DEF IsList
<1>3. LoaderTypes
  BY <1>1, <1>2, LinkPreviewAssumption DEF LoaderInit, LoaderTypes, Stages
<1>4. Requests = {} /\ \A h : RequestsTo(h) = {} /\ SendingTo(h) = {}
  BY <1>1, <1>2 DEF Requests, RequestsTo, SendingTo
<1>5. Holders = {}
  BY <1>1 DEF Holders, Holding
<1>6. SlotsAreCounted /\ RequestsAreFinite /\ ChargesAreCounted
  <2>1. IsFiniteSet({}) /\ Cardinality({}) = 0
    BY FS_EmptySet
  <2>2. SlotsAreCounted
    BY <1>5, <2>1, LinkPreviewAssumption DEF LoaderInit, SlotsAreCounted
  <2>3. RequestsAreFinite
    BY <1>4, <2>1 DEF RequestsAreFinite
  <2>4. ChargesAreCounted
    <3>1. \A h \in WebHosts : charged[h] = 0
      BY DEF LoaderInit
    <3> QED
      BY <1>4, <2>1, <3>1 DEF ChargesAreCounted
  <2> QED
    BY <2>2, <2>3, <2>4
<1>7. AddressesArePublic /\ NeverDowngraded /\ StaysSecure
  BY <1>2, <1>4 DEF AddressesArePublic, NeverDowngraded, StaysSecure
<1>8. HopsAreCounted /\ ResolvedIsAsked
  BY <1>1, <1>2 DEF HopsAreCounted, ResolvedIsAsked
<1> QED
  BY <1>3, <1>6, <1>7, <1>8 DEF LoaderInv

LEMMA LoaderStep == LoaderInv /\ [LoaderNext]_loader => LoaderInv'
<1> SUFFICES ASSUME LoaderInv, [LoaderNext]_loader PROVE LoaderInv'
  OBVIOUS
<1>1. CASE LoaderNext
  <2>1. PICK l \in Asked :
          \/ Fetch(l) \/ TakeSlot(l) \/ Cancelled(l) \/ Resolve(l) \/ Charge(l) \/ Send(l)
          \/ RequestFails(l) \/ Refused(l) \/ Redirected(l) \/ BodyFound(l)
          \/ ReadPage(l) \/ ReadImage(l)
    BY <1>1 DEF LoaderNext
  <2> QED
    BY <2>1, FetchKeeps, HopStepsKeep, ResolveKeeps, ChargeKeeps, SendKeeps, RedirectedKeeps
<1>2. CASE UNCHANGED loader
  <2>1. /\ UNCHANGED <<world, stage, target, redirects, address, slots, charged, sent>>
    BY <1>2 DEF loader
  <2>2. /\ Asked' = Asked /\ WebHosts' = WebHosts /\ \A h : RequestsTo(h)' = RequestsTo(h)
        /\ AddressesArePublic' /\ NeverDowngraded'
        /\ \A host, b : PublicOf(host, b)' <=> PublicOf(host, b)
    BY <2>1, HistoryStays DEF LoaderInv
  <2>3. /\ LoaderTypes' /\ HopsAreCounted' /\ ResolvedIsAsked' /\ StaysSecure' /\ RequestsAreFinite'
    BY <2>1, <2>2
       DEF LoaderInv, LoaderTypes, HopsAreCounted, ResolvedIsAsked, StaysSecure, RequestsAreFinite
  <2>4. SlotsAreCounted' /\ ChargesAreCounted'
    BY <2>1, <2>2 DEF LoaderInv, SlotsAreCounted, ChargesAreCounted, Holders, SendingTo
  <2> QED
    BY <2>2, <2>3, <2>4 DEF LoaderInv
<1> QED
  BY <1>1, <1>2

(* Loader.hop, resolve, fetch and closeResponse: slots are neither lost    *)
(* nor held twice, and every request that any load ever makes is one that  *)
(* its host's public addresses, the scheme it began with, the limit of     *)
(* redirects and the budget allow, whatever servers and names answer.      *)
THEOREM RequestsAreAlwaysAllowed == LoaderSpec => []RequestsAreAllowed
<1>1. LoaderInv => RequestsAreAllowed
  <2> SUFFICES ASSUME LoaderInv PROVE HopsAreLimited
    BY DEF LoaderInv, RequestsAreAllowed
  <2>1. ASSUME NEW l \in Asked
        PROVE  Len(sent[l]) <= MaxRedirects + 1
    <3>1. /\ Len(sent[l]) \in Nat /\ redirects[l] \in Nat /\ redirects[l] <= MaxRedirects
          /\ Len(sent[l]) <= redirects[l] + (IF stage[l] \in {"requesting", "reading", "ended"} THEN 1 ELSE 0)
      BY DEF LoaderInv, LoaderTypes, HopsAreCounted, IsList
    <3> QED
      BY <3>1, LinkPreviewAssumption
  <2> QED
    BY <2>1 DEF HopsAreLimited
<1> QED
  BY <1>1, LoaderStarts, LoaderStep, PTL DEF LoaderSpec
-------------------------------------------------------------------------------
(* The parser after each of the first m tokens. *)
After(f, tokens, m) ==
  f = [i \in 0..m |-> IF i = 0 THEN NewParser ELSE Consume(f[i - 1], tokens[i])]

LEMMA AfterExists ==
  ASSUME NEW tokens, NEW N \in Nat, N = Len(tokens)
  PROVE  \E after : After(after, tokens, N) /\ Parsed(tokens) = after[N]
<1> DEFINE S == {m \in 0..N : \E f : After(f, tokens, m)}
<1>1. 0 \in S
  <2>1. PICK f : f = [i \in 0..0 |-> NewParser]
    OBVIOUS
  <2>2. After(f, tokens, 0)
    BY <2>1 DEF After
  <2> QED
    BY <2>2
<1>2. ASSUME NEW m \in 0..(N - 1), m \in S
      PROVE  m + 1 \in S
  <2>1. PICK f : After(f, tokens, m)
    BY <1>2
  <2>2. PICK g : g = [i \in 0..(m + 1) |-> IF i = m + 1 THEN Consume(f[m], tokens[m + 1]) ELSE f[i]]
    OBVIOUS
  <2>3. \A i \in 0..m : g[i] = f[i] /\ f[i] = IF i = 0 THEN NewParser ELSE Consume(f[i - 1], tokens[i])
    BY <2>1, <2>2 DEF After
  <2>4. g[m + 1] = Consume(g[m], tokens[m + 1])
    BY <2>2, <2>3
  <2>5. ASSUME NEW i \in 0..(m + 1)
        PROVE  g[i] = IF i = 0 THEN NewParser ELSE Consume(g[i - 1], tokens[i])
    <3>1. CASE i = m + 1
      <4>1. i # 0 /\ i - 1 = m
        BY <3>1
      <4> QED
        BY <2>4, <3>1, <4>1
    <3>2. CASE i \in 0..m /\ i # 0
      <4>1. i - 1 \in 0..m
        BY <3>2
      <4> QED
        BY <2>3, <3>2, <4>1
    <3>3. CASE i = 0
      <4>1. i \in 0..m
        BY <3>3
      <4> QED
        BY <2>3, <3>3, <4>1
    <3> QED
      BY <3>1, <3>2, <3>3
  <2>6. g = [i \in 0..(m + 1) |-> g[i]]
    BY <2>2
  <2>7. After(g, tokens, m + 1)
    BY <2>5, <2>6 DEF After
  <2> QED
    BY <2>7
<1>3. \A m \in 0..N : m \in S
  <2> HIDE DEF S
  <2> QED
    BY <1>1, <1>2, FromEachToTheNext
<1>4. PICK f : After(f, tokens, N)
  <2>1. N \in S
    BY <1>3
  <2> QED
    BY <2>1
<1>5. PICK after : after = CHOOSE g : After(g, tokens, N)
  OBVIOUS
<1>6. After(after, tokens, N)
  BY <1>4, <1>5
<1>7. Parsed(tokens) = after[N]
  BY <1>5 DEF Parsed, After
<1> QED
  BY <1>6, <1>7

-------------------------------------------------------------------------------
(* The four fields, what is kept of a value in each, and where. *)
HeadFields == {"og:title", "og:description", "og:image", "base"}
Kept(field, v) ==
  CASE field = "og:title" -> LimitRunes(v, MaxTitleRunes)
    [] field = "og:description" -> LimitRunes(v, MaxDescriptionRunes)
    [] field = "og:image" -> v
    [] field = "base" -> v.word
KeptIn(p, field) ==
  CASE field = "og:title" -> p.title
    [] field = "og:description" -> p.description
    [] field = "og:image" -> p.image
    [] field = "base" -> p.baseRef

IsParser(p) ==
  /\ p = [title |-> p.title, description |-> p.description, image |-> p.image, baseRef |-> p.baseRef,
          rawElement |-> p.rawElement, templateDepth |-> p.templateDepth,
          started |-> p.started, ended |-> p.ended]
  /\ p.templateDepth \in Nat /\ p.started \in BOOLEAN /\ p.ended \in BOOLEAN

LEMMA NoValueIsValue == IsValue(NoValue) /\ NoValue.word = NoWord
BY DEF NoValue, IsValue, NoWord

LEMMA AttributeType ==
  ASSUME NEW t, IsToken(t), NEW name
  PROVE  IsValue(FirstAttribute(t, name))
<1>1. PICK found : found = {i \in DOMAIN t.attrs : t.attrs[i].key = name}
  OBVIOUS
<1>2. CASE found = {}
  BY <1>1, <1>2, NoValueIsValue DEF FirstAttribute
<1>3. CASE found # {}
  <2>1. /\ Len(t.attrs) \in Nat /\ DOMAIN t.attrs = 1..Len(t.attrs)
        /\ \A i \in 1..Len(t.attrs) : IsValue(t.attrs[i].value)
    BY DEF IsToken, IsList
  <2>2. found \in SUBSET (1..Len(t.attrs))
    BY <1>1, <2>1
  <2>3. Min(found) \in found
    BY <1>3, <2>1, <2>2, FirstOf
  <2>4. IsValue(t.attrs[Min(found)].value)
    BY <2>1, <2>2, <2>3
  <2> QED
    BY <1>1, <1>3, <2>4 DEF FirstAttribute
<1> QED
  BY <1>2, <1>3

LEMMA LimitFacts ==
  ASSUME NEW v, IsValue(v), NEW most \in Nat
  PROVE  /\ LimitRunes(v, most).word = v.word
         /\ LimitRunes(NoValue, most) = NoValue
<1>1. LimitRunes(v, most).word = v.word
  BY DEF LimitRunes, IsValue
<1>2. LimitRunes(NoValue, most) = NoValue
  BY DEF LimitRunes, NoValue
<1> QED
  BY <1>1, <1>2

LEMMA KeptFacts ==
  ASSUME NEW field \in HeadFields, NEW v, IsValue(v)
  PROVE  Kept(field, v) = Kept(field, NoValue) => v.word = NoWord
<1>1. CASE field = "base"
  BY <1>1, NoValueIsValue DEF Kept
<1>2. CASE field = "og:image"
  BY <1>2, NoValueIsValue DEF Kept
<1>3. CASE field = "og:title"
  BY <1>3, NoValueIsValue, LimitFacts, HeadParserAssumption DEF Kept
<1>4. CASE field = "og:description"
  BY <1>4, NoValueIsValue, LimitFacts, HeadParserAssumption DEF Kept
<1> QED
  BY <1>1, <1>2, <1>3, <1>4 DEF HeadFields

LEMMA ValueForType ==
  ASSUME NEW t, IsToken(t), NEW field
  PROVE  IsValue(ValueFor(field, t))
BY AttributeType, NoValueIsValue DEF ValueFor

(* A field is set by the first tag that has a value for it. *)
Sets(p, field, t) ==
  /\ t.type = "start" /\ p.templateDepth = 0
  /\ ValueFor(field, t).word # NoWord /\ KeptIn(p, field) = Kept(field, NoValue)

LEMMA MetaFacts ==
  ASSUME NEW p, IsParser(p), NEW t, IsToken(t), t.data = "meta", NEW q, q = Meta(p, t)
  PROVE  /\ IsParser(q) /\ q.rawElement = p.rawElement /\ q.templateDepth = p.templateDepth
         /\ q.started = p.started /\ q.ended = p.ended
         /\ \A field \in HeadFields :
              KeptIn(q, field) =
                IF ValueFor(field, t).word # NoWord /\ KeptIn(p, field) = Kept(field, NoValue)
                THEN Kept(field, ValueFor(field, t)) ELSE KeptIn(p, field)
<1>1. PICK v : v = FirstAttribute(t, "content")
  OBVIOUS
<1>2. PICK property : property = Property(t)
  OBVIOUS
<1>3. IsValue(v)
  BY <1>1, AttributeType
<1>4. /\ ValueFor("base", t) = NoValue
      /\ \A field \in HeadFields \ {"base"} : ValueFor(field, t) = IF property = field THEN v ELSE NoValue
  BY <1>1, <1>2 DEF ValueFor, HeadFields
<1>5. /\ Kept("og:title", NoValue) = NoValue /\ Kept("og:description", NoValue) = NoValue
      /\ Kept("og:image", NoValue) = NoValue /\ Kept("base", NoValue) = NoWord
  BY LimitFacts, NoValueIsValue, HeadParserAssumption DEF Kept
<1>7. CASE v.word = NoWord \/ Field(p, property) # NoValue
  <2>1. q = p
    BY <1>1, <1>2, <1>7 DEF Meta
  <2>2. \A field \in HeadFields : ~(ValueFor(field, t).word # NoWord /\ KeptIn(p, field) = Kept(field, NoValue))
    BY <1>4, <1>5, <1>7, NoValueIsValue DEF HeadFields, Field, KeptIn
  <2> QED
    BY <2>1, <2>2
<1>8. CASE v.word # NoWord /\ Field(p, property) = NoValue
  <2>1. q = [p EXCEPT
              !.title = IF property = "og:title" THEN LimitRunes(v, MaxTitleRunes) ELSE @,
              !.description = IF property = "og:description" THEN LimitRunes(v, MaxDescriptionRunes) ELSE @,
              !.image = IF property = "og:image" THEN v ELSE @]
    BY <1>1, <1>2, <1>8 DEF Meta
  <2>2. /\ IsParser(q) /\ q.rawElement = p.rawElement /\ q.templateDepth = p.templateDepth
        /\ q.started = p.started /\ q.ended = p.ended /\ q.baseRef = p.baseRef
        /\ q.title = (IF property = "og:title" THEN LimitRunes(v, MaxTitleRunes) ELSE p.title)
        /\ q.description = (IF property = "og:description" THEN LimitRunes(v, MaxDescriptionRunes) ELSE p.description)
        /\ q.image = (IF property = "og:image" THEN v ELSE p.image)
    BY <1>3, <2>1 DEF IsParser
  <2>3. ASSUME NEW field \in HeadFields
        PROVE  KeptIn(q, field) =
                 IF ValueFor(field, t).word # NoWord /\ KeptIn(p, field) = Kept(field, NoValue)
                 THEN Kept(field, ValueFor(field, t)) ELSE KeptIn(p, field)
    <3>1. CASE field = "base"
      BY <1>4, <2>2, <3>1, NoValueIsValue DEF KeptIn
    <3>2. CASE field = "og:title"
      BY <1>4, <1>5, <1>8, <2>2, <3>2, NoValueIsValue DEF KeptIn, Field, Kept, HeadFields
    <3>3. CASE field = "og:description"
      BY <1>4, <1>5, <1>8, <2>2, <3>3, NoValueIsValue DEF KeptIn, Field, Kept, HeadFields
    <3>4. CASE field = "og:image"
      BY <1>4, <1>5, <1>8, <2>2, <3>4, NoValueIsValue DEF KeptIn, Field, Kept, HeadFields
    <3> QED
      BY <3>1, <3>2, <3>3, <3>4 DEF HeadFields
  <2> QED
    BY <2>2, <2>3
<1> QED
  BY <1>7, <1>8

(* What a token does to a parser that has not come to the end of the head. *)
Ends(p, t) ==
  \/ t.type = "end" /\ t.data \in {"head", "html"}
  \/ /\ t.type = "text" /\ p.rawElement = NoWord /\ p.templateDepth = 0
     /\ t.data # NoWord /\ (p.started \/ t.data # "mark")
  \/ /\ t.type = "start" /\ p.templateDepth = 0
     /\ t.data \notin HeadElements \cup RawElements \cup {"template", "base", "meta"}
Opens(p, t) == t.type = "start" /\ t.data \in RawElements /\ p.templateDepth = 0
DepthAfter(p, t) ==
  CASE t.type = "start" /\ t.data = "template" -> p.templateDepth + 1
    [] t.type = "end" /\ t.data = "template" /\ p.templateDepth > 0 -> p.templateDepth - 1
    [] OTHER -> p.templateDepth
RawAfter(p, t) ==
  CASE Opens(p, t) -> t.data
    [] t.type = "end" /\ t.data = p.rawElement -> NoWord
    [] OTHER -> p.rawElement
FieldAfter(p, field, t) ==
  IF Sets(p, field, t) THEN Kept(field, ValueFor(field, t)) ELSE KeptIn(p, field)

(* Everything but whether it was started. *)
Follows(q, p, t) ==
  /\ IsParser(q)
  /\ q.ended <=> Ends(p, t)
  /\ q.templateDepth = DepthAfter(p, t) /\ q.rawElement = RawAfter(p, t)
  /\ \A field \in HeadFields : KeptIn(q, field) = FieldAfter(p, field, t)

LEMMA OnlyStartSets ==
  ASSUME NEW p, NEW t, t.type # "start" \/ p.templateDepth # 0 \/ t.data \notin {"base", "meta"}
  PROVE  \A field \in HeadFields : FieldAfter(p, field, t) = KeptIn(p, field)
BY NoValueIsValue DEF FieldAfter, Sets, ValueFor

LEMMA SameKept ==
  ASSUME NEW p, NEW q, q.title = p.title, q.description = p.description, q.image = p.image,
         q.baseRef = p.baseRef
  PROVE  \A field \in HeadFields : KeptIn(q, field) = KeptIn(p, field)
BY DEF KeptIn, HeadFields

LEMMA EndTagFollows ==
  ASSUME NEW p, IsParser(p), p.ended = FALSE, NEW t, t.type = "end"
  PROVE  Follows(EndTag(p, t.data), p, t)
<1>1. PICK q : q = EndTag(p, t.data)
  OBVIOUS
<1>2. /\ q.templateDepth = (IF t.data = "template" /\ p.templateDepth > 0 THEN p.templateDepth - 1 ELSE p.templateDepth)
      /\ q.rawElement = (IF t.data = p.rawElement THEN NoWord ELSE p.rawElement)
      /\ q.title = p.title /\ q.description = p.description /\ q.image = p.image
      /\ q.baseRef = p.baseRef
  BY <1>1 DEF EndTag, IsParser
<1>3. q.ended = (t.data \in {"head", "html"})
  BY <1>1 DEF EndTag, IsParser
<1>4. q = [title |-> q.title, description |-> q.description, image |-> q.image, baseRef |-> q.baseRef,
          rawElement |-> q.rawElement, templateDepth |-> q.templateDepth,
          started |-> q.started, ended |-> q.ended]
  BY <1>1 DEF EndTag, IsParser
<1>5. q.started \in BOOLEAN
  BY <1>1 DEF EndTag, IsParser
<1>6. q.templateDepth \in Nat
  BY <1>2 DEF IsParser
<1>7. IsParser(q)
  BY <1>3, <1>4, <1>5, <1>6 DEF IsParser
<1>8. q.ended <=> Ends(p, t)
  BY <1>3 DEF Ends
<1>9. q.templateDepth = DepthAfter(p, t)
  BY <1>2 DEF DepthAfter
<1>10. q.rawElement = RawAfter(p, t)
  BY <1>2 DEF RawAfter, Opens
<1>11. \A field \in HeadFields : KeptIn(q, field) = FieldAfter(p, field, t)
  BY <1>2, OnlyStartSets, SameKept
<1> QED
  BY <1>1, <1>7, <1>8, <1>9, <1>10, <1>11 DEF Follows

LEMMA TextFollows ==
  ASSUME NEW p, IsParser(p), p.ended = FALSE, NEW t, t.type = "text"
  PROVE  Follows(Text(p, t.data), p, t)
<1>1. PICK q : q = Text(p, t.data)
  OBVIOUS
<1>2. /\ q.templateDepth = p.templateDepth /\ q.rawElement = p.rawElement
      /\ q.title = p.title /\ q.description = p.description /\ q.image = p.image
      /\ q.baseRef = p.baseRef /\ q.started = p.started
  BY <1>1 DEF Text, IsParser
<1>3. q.ended = (/\ p.rawElement = NoWord /\ p.templateDepth = 0
                 /\ t.data # NoWord /\ (p.started \/ t.data # "mark"))
  BY <1>1 DEF Text, IsParser
<1>4. q = [title |-> q.title, description |-> q.description, image |-> q.image, baseRef |-> q.baseRef,
          rawElement |-> q.rawElement, templateDepth |-> q.templateDepth,
          started |-> q.started, ended |-> q.ended]
  BY <1>1 DEF Text, IsParser
<1>5. IsParser(q)
  BY <1>2, <1>3, <1>4 DEF IsParser
<1>6. q.ended <=> Ends(p, t)
  BY <1>3 DEF Ends
<1>7. q.templateDepth = DepthAfter(p, t) /\ q.rawElement = RawAfter(p, t)
  BY <1>2 DEF DepthAfter, RawAfter, Opens
<1>8. \A field \in HeadFields : KeptIn(q, field) = FieldAfter(p, field, t)
  BY <1>2, OnlyStartSets, SameKept
<1> QED
  BY <1>1, <1>5, <1>6, <1>7, <1>8 DEF Follows

LEMMA StartTagFollows ==
  ASSUME NEW p, IsParser(p), p.ended = FALSE, NEW t, IsToken(t), t.type = "start"
  PROVE  Follows(StartTag(p, t), p, t)
<1>1. PICK q : q = StartTag(p, t)
  OBVIOUS
<1>2. PICK d : d = t.data
  OBVIOUS
<1>3. p.templateDepth \in Nat /\ p.ended = FALSE
  BY DEF IsParser
<1>4. CASE d = "template"
  <2>1. q = [p EXCEPT !.templateDepth = p.templateDepth + 1]
    BY <1>1, <1>2, <1>4 DEF StartTag
  <2>2. /\ IsParser(q) /\ q.ended = p.ended /\ q.templateDepth = p.templateDepth + 1
        /\ q.rawElement = p.rawElement /\ q.title = p.title /\ q.description = p.description
        /\ q.image = p.image /\ q.baseRef = p.baseRef
    BY <2>1 DEF IsParser
  <2>3. \A field \in HeadFields : KeptIn(q, field) = FieldAfter(p, field, t)
    <3>1. t.data \notin {"base", "meta"}
      BY <1>2, <1>4
    <3>2. \A field \in HeadFields : FieldAfter(p, field, t) = KeptIn(p, field)
      BY <3>1, OnlyStartSets
    <3>3. \A field \in HeadFields : KeptIn(q, field) = KeptIn(p, field)
      BY <2>2, SameKept
    <3> QED
      BY <3>2, <3>3
  <2> QED
    BY <1>1, <1>2, <1>3, <1>4, <2>2, <2>3 DEF Follows, Ends, DepthAfter, RawAfter, Opens, RawElements
<1>5. CASE d # "template" /\ p.templateDepth > 0
  <2>1. q = p
    BY <1>1, <1>2, <1>5 DEF StartTag
  <2> QED
    BY <1>1, <1>2, <1>3, <1>5, <2>1, OnlyStartSets DEF Follows, Ends, DepthAfter, RawAfter, Opens
<1>6. CASE d # "template" /\ p.templateDepth = 0
  <2>1. CASE d \in HeadElements
    <3>1. q = p
      BY <1>1, <1>2, <1>6, <2>1 DEF StartTag, HeadElements, RawElements
    <3>2. d \notin RawElements \cup {"base", "meta"}
      BY <2>1 DEF HeadElements, RawElements
    <3> QED
      BY <1>1, <1>2, <1>3, <1>6, <2>1, <3>1, <3>2, OnlyStartSets DEF Follows, Ends, DepthAfter, RawAfter, Opens
  <2>2. CASE d \in RawElements
    <3>1. q = [p EXCEPT !.rawElement = d]
      BY <1>1, <1>2, <1>6, <2>2 DEF StartTag, HeadElements, RawElements
    <3>2. d \notin {"base", "meta"}
      BY <2>2 DEF RawElements
    <3>3. /\ IsParser(q) /\ q.ended = p.ended /\ q.templateDepth = p.templateDepth
          /\ q.rawElement = d /\ q.title = p.title /\ q.description = p.description
          /\ q.image = p.image /\ q.baseRef = p.baseRef
      BY <3>1 DEF IsParser
    <3> QED
      BY <1>1, <1>2, <1>3, <1>6, <2>2, <3>2, <3>3, OnlyStartSets, SameKept DEF Follows, Ends, DepthAfter, RawAfter, Opens
  <2>3. CASE d = "base"
    <3>1. PICK w : w = FirstAttribute(t, "href").word
      OBVIOUS
    <3>2. q = [p EXCEPT !.baseRef = IF p.baseRef = NoWord THEN w ELSE p.baseRef]
      BY <1>1, <1>2, <1>6, <2>3, <3>1 DEF StartTag, HeadElements, RawElements
    <3>3. /\ IsParser(q) /\ q.ended = p.ended /\ q.templateDepth = p.templateDepth
          /\ q.rawElement = p.rawElement /\ q.baseRef = (IF p.baseRef = NoWord THEN w ELSE p.baseRef)
          /\ q.title = p.title /\ q.description = p.description /\ q.image = p.image
      BY <3>2 DEF IsParser
    <3>4. /\ ValueFor("base", t).word = w
          /\ \A field \in HeadFields \ {"base"} : ValueFor(field, t) = NoValue
      BY <1>2, <2>3, <3>1 DEF ValueFor
    <3>5. /\ Kept("base", NoValue) = NoWord /\ Kept("base", ValueFor("base", t)) = w
          /\ KeptIn(p, "base") = p.baseRef /\ KeptIn(q, "base") = q.baseRef
      BY <3>4, NoValueIsValue DEF Kept, KeptIn
    <3>6. FieldAfter(p, "base", t) = IF p.baseRef = NoWord THEN w ELSE p.baseRef
      BY <1>6, <3>4, <3>5 DEF FieldAfter, Sets
    <3>7. \A field \in HeadFields \ {"base"} : FieldAfter(p, field, t) = KeptIn(p, field)
      BY <3>4, NoValueIsValue DEF FieldAfter, Sets
    <3>8. \A field \in HeadFields \ {"base"} : KeptIn(q, field) = KeptIn(p, field)
      BY <3>3 DEF KeptIn, HeadFields
    <3>9. \A field \in HeadFields : KeptIn(q, field) = FieldAfter(p, field, t)
      BY <3>3, <3>5, <3>6, <3>7, <3>8
    <3> QED
      BY <1>1, <1>2, <1>3, <1>6, <2>3, <3>3, <3>9 DEF Follows, Ends, DepthAfter, RawAfter, Opens, RawElements
  <2>4. CASE d = "meta"
    <3>1. q = Meta(p, t)
      BY <1>1, <1>2, <1>6, <2>4 DEF StartTag, HeadElements, RawElements
    <3>2. /\ IsParser(q) /\ q.rawElement = p.rawElement /\ q.templateDepth = p.templateDepth
          /\ q.ended = p.ended
          /\ \A field \in HeadFields :
               KeptIn(q, field) =
                 IF ValueFor(field, t).word # NoWord /\ KeptIn(p, field) = Kept(field, NoValue)
                 THEN Kept(field, ValueFor(field, t)) ELSE KeptIn(p, field)
      <4>1. t.data = "meta"
        BY <1>2, <2>4
      <4> QED
        BY ONLY <3>1, <4>1, IsParser(p), IsToken(t), MetaFacts
    <3>3. \A field \in HeadFields : KeptIn(q, field) = FieldAfter(p, field, t)
      BY <1>6, <3>2 DEF FieldAfter, Sets
    <3> QED
      BY <1>1, <1>2, <1>3, <1>6, <2>4, <3>2, <3>3 DEF Follows, Ends, DepthAfter, RawAfter, Opens, RawElements
  <2>5. CASE d \notin HeadElements \cup RawElements \cup {"base", "meta"}
    <3>1. q = [p EXCEPT !.ended = TRUE]
      BY <1>1, <1>2, <1>6, <2>5 DEF StartTag
    <3>2. /\ IsParser(q) /\ q.ended = TRUE /\ q.templateDepth = p.templateDepth
          /\ q.rawElement = p.rawElement /\ q.title = p.title /\ q.description = p.description
          /\ q.image = p.image /\ q.baseRef = p.baseRef
      BY <3>1 DEF IsParser
    <3> QED
      BY <1>1, <1>2, <1>3, <1>6, <2>5, <3>2, OnlyStartSets, SameKept DEF Follows, Ends, DepthAfter, RawAfter, Opens
  <2> QED
    BY <2>1, <2>2, <2>3, <2>4, <2>5
<1> QED
  BY <1>2, <1>3, <1>4, <1>5, <1>6

LEMMA ConsumeFollows ==
  ASSUME NEW p, IsParser(p), p.ended = FALSE, NEW t, IsToken(t)
  PROVE  Follows(Consume(p, t), p, t) /\ Consume(p, t).started = TRUE
<1>1. PICK q : q = CASE t.type = "end" -> EndTag(p, t.data)
                     [] t.type = "text" -> Text(p, t.data)
                     [] t.type = "start" -> StartTag(p, t)
                     [] t.type = "other" -> p
  OBVIOUS
<1>2. Follows(q, p, t)
  <2>1. CASE t.type = "other"
    <3>1. q = p /\ p.ended = FALSE /\ \A field \in HeadFields : FieldAfter(p, field, t) = KeptIn(p, field)
      BY <1>1, <2>1, OnlyStartSets DEF IsParser
    <3> QED
      BY <2>1, <3>1 DEF Follows, Ends, DepthAfter, RawAfter, Opens
  <2>2. CASE t.type = "end"
    BY <1>1, <2>2, EndTagFollows
  <2>3. CASE t.type = "text"
    BY <1>1, <2>3, TextFollows
  <2>4. CASE t.type = "start"
    BY <1>1, <2>4, StartTagFollows
  <2> QED
    BY <2>1, <2>2, <2>3, <2>4 DEF IsToken
<1>3. PICK r : r = [q EXCEPT !.started = TRUE]
  OBVIOUS
<1>4. Consume(p, t) = r
  BY <1>1, <1>3 DEF Consume
<1>5. IsParser(q)
  BY <1>2 DEF Follows
<1>6. /\ IsParser(r) /\ r.started = TRUE /\ r.ended = q.ended /\ r.templateDepth = q.templateDepth
      /\ r.rawElement = q.rawElement /\ r.title = q.title /\ r.description = q.description
      /\ r.image = q.image /\ r.baseRef = q.baseRef
  BY <1>3, <1>5 DEF IsParser
<1> QED
  BY <1>2, <1>4, <1>6, SameKept DEF Follows
-------------------------------------------------------------------------------
(* The depth of templates after i tokens is what one of the open ones has  *)
(* been opened and closed since, and no less than it is from elsewhere.    *)
LEMMA TemplatesCount ==
  ASSUME NEW tokens, NEW type, NEW j \in Nat, NEW k \in Nat, j <= k + 1
  PROVE  /\ Templates(tokens, type, j, k) \in Nat
         /\ j = k + 1 => Templates(tokens, type, j, k) = 0
         /\ Templates(tokens, type, j, k + 1) =
              IF tokens[k + 1].type = type /\ tokens[k + 1].data = "template"
              THEN Templates(tokens, type, j, k) + 1 ELSE Templates(tokens, type, j, k)
<1>1. PICK A : A = {n \in j..k : tokens[n].type = type /\ tokens[n].data = "template"}
  OBVIOUS
<1>2. PICK B : B = {n \in j..(k + 1) : tokens[n].type = type /\ tokens[n].data = "template"}
  OBVIOUS
<1>3. IsFiniteSet(A) /\ Cardinality(A) \in Nat
  <2>1. A \subseteq j..k /\ IsFiniteSet(j..k)
    BY <1>1, FS_Interval
  <2> QED
    BY <2>1, FS_Subset, FS_CardinalityType
<1>4. B = (IF tokens[k + 1].type = type /\ tokens[k + 1].data = "template" THEN A \cup {k + 1} ELSE A)
  <2>1. \A n : n \in j..(k + 1) <=> n \in j..k \/ n = k + 1
    OBVIOUS
  <2> QED
    BY <1>1, <1>2, <2>1
<1>5. k + 1 \notin A
  BY <1>1
<1>6. Cardinality(A \cup {k + 1}) = Cardinality(A) + 1
  BY <1>3, <1>5, FS_AddElement
<1>7. j = k + 1 => A = {}
  BY <1>1
<1> QED
  BY <1>1, <1>2, <1>3, <1>4, <1>6, <1>7, FS_EmptySet DEF Templates

Opened(tokens, j, k) == Templates(tokens, "start", j, k)
Closed(tokens, j, k) == Templates(tokens, "end", j, k)
DepthIsRight(tokens, i, depth) ==
  /\ depth \in Nat
  /\ depth > 0 => \E j \in 1..i :
       /\ depth + Closed(tokens, j, i) = Opened(tokens, j, i)
       /\ \A k \in j..i : Opened(tokens, j, k) > Closed(tokens, j, k)
  /\ \A j \in 1..(i + 1) : depth + Closed(tokens, j, i) >= Opened(tokens, j, i)

LEMMA DepthTells ==
  ASSUME NEW tokens, NEW i \in Nat, NEW depth, DepthIsRight(tokens, i, depth)
  PROVE  depth = 0 <=> ~InTemplate(tokens, i + 1)
<1>1. depth \in Nat /\ (i + 1) - 1 = i
  BY DEF DepthIsRight
<1>2. InTemplate(tokens, i + 1) <=> \E j \in 1..i : \A k \in j..i : Opened(tokens, j, k) > Closed(tokens, j, k)
  BY <1>1 DEF InTemplate, Opened, Closed
<1>3. ASSUME NEW j \in 1..i, \A k \in j..i : Opened(tokens, j, k) > Closed(tokens, j, k)
      PROVE  depth > 0
  <2>1. Opened(tokens, j, i) > Closed(tokens, j, i) /\ depth + Closed(tokens, j, i) >= Opened(tokens, j, i)
    BY <1>3 DEF DepthIsRight
  <2>2. Opened(tokens, j, i) \in Nat /\ Closed(tokens, j, i) \in Nat
    BY TemplatesCount DEF Opened, Closed
  <2> QED
    BY <1>1, <2>1, <2>2
<1>4. depth > 0 => InTemplate(tokens, i + 1)
  BY <1>2 DEF DepthIsRight
<1> QED
  BY <1>1, <1>2, <1>3, <1>4

LEMMA DepthFollows ==
  ASSUME NEW tokens, NEW i \in Nat, NEW p, DepthIsRight(tokens, i, p.templateDepth)
  PROVE  DepthIsRight(tokens, i + 1, DepthAfter(p, tokens[i + 1]))
<1>1. PICK depth : depth = p.templateDepth
  OBVIOUS
<1>2. PICK next : next = DepthAfter(p, tokens[i + 1])
  OBVIOUS
<1>3. PICK opens \in BOOLEAN : opens <=> (tokens[i + 1].type = "start" /\ tokens[i + 1].data = "template")
  OBVIOUS
<1>4. PICK closes \in BOOLEAN : closes <=> (tokens[i + 1].type = "end" /\ tokens[i + 1].data = "template")
  OBVIOUS
<1>5. /\ depth \in Nat /\ ~(opens /\ closes)
      /\ opens => next = depth + 1
      /\ closes => next = IF depth > 0 THEN depth - 1 ELSE 0
      /\ ~opens /\ ~closes => next = depth
  <2>1. depth \in Nat
    BY <1>1 DEF DepthIsRight
  <2>2. CASE opens
    BY <1>1, <1>2, <1>3, <1>4, <2>1, <2>2 DEF DepthAfter
  <2>3. CASE closes
    BY <1>1, <1>2, <1>3, <1>4, <2>1, <2>3 DEF DepthAfter
  <2>4. CASE ~opens /\ ~closes
    BY <1>1, <1>2, <1>3, <1>4, <2>1, <2>4 DEF DepthAfter
  <2> QED
    BY <2>1, <2>2, <2>3, <2>4
<1>6. ASSUME NEW j \in 1..(i + 1)
      PROVE  /\ Opened(tokens, j, i) \in Nat /\ Closed(tokens, j, i) \in Nat
             /\ j = i + 1 => Opened(tokens, j, i) = 0 /\ Closed(tokens, j, i) = 0
             /\ Opened(tokens, j, i + 1) = IF opens THEN Opened(tokens, j, i) + 1 ELSE Opened(tokens, j, i)
             /\ Closed(tokens, j, i + 1) = IF closes THEN Closed(tokens, j, i) + 1 ELSE Closed(tokens, j, i)
  <2>1. j \in Nat /\ j <= i + 1
    OBVIOUS
  <2>2. \A type :
          /\ Templates(tokens, type, j, i) \in Nat
          /\ j = i + 1 => Templates(tokens, type, j, i) = 0
          /\ Templates(tokens, type, j, i + 1) =
               IF tokens[i + 1].type = type /\ tokens[i + 1].data = "template"
               THEN Templates(tokens, type, j, i) + 1 ELSE Templates(tokens, type, j, i)
    BY <2>1, TemplatesCount
  <2> QED
    BY <1>3, <1>4, <2>2 DEF Opened, Closed
<1>7. next \in Nat
  BY <1>5
<1>8. ASSUME next > 0
      PROVE  \E j \in 1..(i + 1) :
               /\ next + Closed(tokens, j, i + 1) = Opened(tokens, j, i + 1)
               /\ \A k \in j..(i + 1) : Opened(tokens, j, k) > Closed(tokens, j, k)
  <2>1. CASE depth > 0
    <3>1. PICK j \in 1..i : /\ depth + Closed(tokens, j, i) = Opened(tokens, j, i)
                            /\ \A k \in j..i : Opened(tokens, j, k) > Closed(tokens, j, k)
      BY <1>1, <2>1 DEF DepthIsRight
    <3>2. j \in 1..(i + 1) /\ \A k \in j..(i + 1) : k \in j..i \/ k = i + 1
      OBVIOUS
    <3>3. next + Closed(tokens, j, i + 1) = Opened(tokens, j, i + 1)
      BY <1>5, <1>6, <2>1, <3>1, <3>2
    <3>4. Opened(tokens, j, i + 1) > Closed(tokens, j, i + 1)
      BY <1>6, <1>7, <1>8, <3>2, <3>3
    <3> QED
      BY <3>1, <3>2, <3>3, <3>4
  <2>2. CASE depth = 0
    <3>1. opens /\ ~closes /\ next = 1
      BY <1>5, <1>8, <2>2
    <3>2. i + 1 \in 1..(i + 1) /\ \A k \in (i + 1)..(i + 1) : k = i + 1
      OBVIOUS
    <3>3. Opened(tokens, i + 1, i + 1) = 1 /\ Closed(tokens, i + 1, i + 1) = 0
      BY <1>6, <3>1, <3>2
    <3> QED
      BY <3>1, <3>2, <3>3
  <2> QED
    BY <1>5, <2>1, <2>2
<1>9. ASSUME NEW j \in 1..((i + 1) + 1)
      PROVE  next + Closed(tokens, j, i + 1) >= Opened(tokens, j, i + 1)
  <2>1. CASE j \in 1..(i + 1)
    <3>1. depth + Closed(tokens, j, i) >= Opened(tokens, j, i)
      BY <1>1, <2>1 DEF DepthIsRight
    <3> QED
      BY <1>5, <1>6, <2>1, <3>1
  <2>2. CASE j = (i + 1) + 1
    <3>1. Opened(tokens, j, i + 1) = 0 /\ Closed(tokens, j, i + 1) = 0
      BY <2>2, TemplatesCount DEF Opened, Closed
    <3> QED
      BY <1>7, <3>1
  <2> QED
    BY <2>1, <2>2
<1> QED
  BY <1>2, <1>7, <1>8, <1>9 DEF DepthIsRight

(* The raw element after i tokens is the last that was opened, if it was   *)
(* not closed.                                                             *)
RawIsRight(tokens, i, raw) ==
  \/ raw = NoWord /\ \A j \in 1..i : ~RawFrom(tokens, j, i + 1)
  \/ \E j \in 1..i : RawFrom(tokens, j, i + 1) /\ raw = tokens[j].data

LEMMA RawElementsHaveNames == NoWord \notin RawElements
BY Zenon DEF NoWord, RawElements

LEMMA RawTells ==
  ASSUME NEW tokens, NEW i \in Nat, NEW raw, RawIsRight(tokens, i, raw)
  PROVE  raw = NoWord <=> ~InRawElement(tokens, i + 1)
<1>1. (i + 1) - 1 = i
  OBVIOUS
<1>2. InRawElement(tokens, i + 1) <=> \E j \in 1..i : RawFrom(tokens, j, i + 1)
  BY <1>1 DEF InRawElement
<1>3. \A j : RawFrom(tokens, j, i + 1) => tokens[j].data # NoWord
  BY RawElementsHaveNames DEF RawFrom, OpensRaw
<1> QED
  BY <1>2, <1>3 DEF RawIsRight

(* A raw element is open after the next token if it is opened by it, or    *)
(* was open and is neither closed by it nor replaced.                      *)
LEMMA RawGoesOn ==
  ASSUME NEW tokens, NEW i \in Nat, NEW j \in 1..(i + 1)
  PROVE  RawFrom(tokens, j, (i + 1) + 1) <=>
           \/ j = i + 1 /\ OpensRaw(tokens, i + 1)
           \/ /\ j \in 1..i /\ RawFrom(tokens, j, i + 1) /\ ~OpensRaw(tokens, i + 1)
              /\ ~(tokens[i + 1].type = "end" /\ tokens[i + 1].data = tokens[j].data)
<1>1. ((i + 1) + 1) - 1 = i + 1 /\ (i + 1) - 1 = i
  OBVIOUS
<1>2. CASE j = i + 1
  <2>1. \A k \in (j + 1)..(i + 1) : FALSE
    BY <1>2
  <2> QED
    BY <1>1, <1>2, <2>1 DEF RawFrom
<1>3. CASE j \in 1..i
  <2>1. \A k : k \in (j + 1)..(i + 1) <=> k \in (j + 1)..i \/ k = i + 1
    BY <1>3
  <2>2. j # i + 1
    BY <1>3
  <2> QED
    BY <1>1, <1>3, <2>1, <2>2 DEF RawFrom
<1> QED
  BY <1>2, <1>3

LEMMA RawIsOne ==
  ASSUME NEW tokens, NEW i \in Nat, NEW j \in 1..i, NEW k \in 1..i,
         RawFrom(tokens, j, i + 1), RawFrom(tokens, k, i + 1)
  PROVE  j = k
<1>1. (i + 1) - 1 = i
  OBVIOUS
<1>2. CASE j < k
  <2>1. k \in (j + 1)..i
    BY <1>2
  <2> QED
    BY <1>1, <2>1 DEF RawFrom
<1>3. CASE k < j
  <2>1. j \in (k + 1)..i
    BY <1>3
  <2> QED
    BY <1>1, <2>1 DEF RawFrom
<1> QED
  BY <1>2, <1>3

LEMMA RawFollows ==
  ASSUME NEW tokens, NEW i \in Nat, NEW p,
         DepthIsRight(tokens, i, p.templateDepth), RawIsRight(tokens, i, p.rawElement)
  PROVE  RawIsRight(tokens, i + 1, RawAfter(p, tokens[i + 1]))
<1>1. PICK t : t = tokens[i + 1]
  OBVIOUS
<1>2. OpensRaw(tokens, i + 1) <=> Opens(p, t)
  BY <1>1, DepthTells DEF OpensRaw, Opens
<1>3. CASE OpensRaw(tokens, i + 1)
  <2>1. RawAfter(p, t) = t.data
    BY <1>2, <1>3 DEF RawAfter, Opens
  <2>2. i + 1 \in 1..(i + 1) /\ RawFrom(tokens, i + 1, (i + 1) + 1)
    BY <1>3, RawGoesOn
  <2> QED
    BY <1>1, <2>1, <2>2 DEF RawIsRight
<1>4. CASE ~OpensRaw(tokens, i + 1)
  <2>1. RawAfter(p, t) = IF t.type = "end" /\ t.data = p.rawElement THEN NoWord ELSE p.rawElement
    BY <1>2, <1>4 DEF RawAfter
  <2>2. \A j \in 1..(i + 1) : RawFrom(tokens, j, (i + 1) + 1) <=>
          /\ j \in 1..i /\ RawFrom(tokens, j, i + 1)
          /\ ~(t.type = "end" /\ t.data = tokens[j].data)
    BY <1>1, <1>4, RawGoesOn
  <2>3. CASE p.rawElement = NoWord /\ \A j \in 1..i : ~RawFrom(tokens, j, i + 1)
    <3>1. RawAfter(p, t) = NoWord
      BY <2>1, <2>3
    <3> QED
      BY <1>1, <2>2, <2>3, <3>1 DEF RawIsRight
  <2>4. ASSUME NEW j \in 1..i, RawFrom(tokens, j, i + 1), p.rawElement = tokens[j].data
        PROVE  RawIsRight(tokens, i + 1, RawAfter(p, t))
    <3>1. CASE t.type = "end" /\ t.data = p.rawElement
      <4>1. RawAfter(p, t) = NoWord
        BY <2>1, <3>1
      <4>2. ASSUME NEW k \in 1..(i + 1), RawFrom(tokens, k, (i + 1) + 1)
            PROVE  FALSE
        <5>1. k = j
          BY <2>2, <2>4, <4>2, RawIsOne
        <5> QED
          BY <2>2, <2>4, <3>1, <4>2, <5>1
      <4> QED
        BY <4>1, <4>2 DEF RawIsRight
    <3>2. CASE ~(t.type = "end" /\ t.data = p.rawElement)
      <4>1. RawAfter(p, t) = p.rawElement
        BY <2>1, <3>2
      <4>2. j \in 1..(i + 1) /\ RawFrom(tokens, j, (i + 1) + 1)
        BY <2>2, <2>4, <3>2
      <4> QED
        BY <2>4, <4>1, <4>2 DEF RawIsRight
    <3> QED
      BY <3>1, <3>2
  <2> QED
    BY <1>1, <2>3, <2>4 DEF RawIsRight
<1> QED
  BY <1>1, <1>3, <1>4

(* A field after i tokens is what the first that gives it says. *)
FieldIsRight(tokens, i, field, kept) ==
  \/ kept = Kept(field, NoValue) /\ \A n \in 1..i : ~Gives(tokens, field, n)
  \/ \E n \in 1..i :
       /\ Gives(tokens, field, n) /\ \A m \in 1..i : Gives(tokens, field, m) => n <= m
       /\ kept = Kept(field, ValueFor(field, tokens[n]))

LEMMA FieldStays ==
  ASSUME NEW tokens, NEW i \in Nat, NEW field, NEW kept,
         FieldIsRight(tokens, i, field, kept), ~Gives(tokens, field, i + 1)
  PROVE  FieldIsRight(tokens, i + 1, field, kept)
<1>1. \A n : n \in 1..(i + 1) <=> n \in 1..i \/ n = i + 1
  OBVIOUS
<1> QED
  BY <1>1 DEF FieldIsRight

LEMMA FieldFollows ==
  ASSUME NEW tokens, IsPage(tokens), NEW i \in Nat, i + 1 \in 1..Len(tokens),
         NEW p, DepthIsRight(tokens, i, p.templateDepth), InHead(tokens, i + 1),
         NEW field \in HeadFields, FieldIsRight(tokens, i, field, KeptIn(p, field))
  PROVE  FieldIsRight(tokens, i + 1, field, FieldAfter(p, field, tokens[i + 1]))
<1>1. PICK t : t = tokens[i + 1]
  OBVIOUS
<1>2. PICK kept : kept = KeptIn(p, field)
  OBVIOUS
<1>3. Gives(tokens, field, i + 1) <=>
        t.type = "start" /\ p.templateDepth = 0 /\ ValueFor(field, t).word # NoWord
  BY <1>1, DepthTells DEF Gives
<1>4. \A n : n \in 1..(i + 1) <=> n \in 1..i \/ n = i + 1
  OBVIOUS
<1>5. CASE ~Gives(tokens, field, i + 1)
  <2>1. FieldAfter(p, field, t) = kept
    BY <1>2, <1>3, <1>5 DEF FieldAfter, Sets
  <2> QED
    BY <1>1, <1>2, <1>5, <2>1, FieldStays
<1>6. CASE Gives(tokens, field, i + 1) /\ kept = Kept(field, NoValue)
  <2>1. FieldAfter(p, field, t) = Kept(field, ValueFor(field, t))
    BY <1>2, <1>3, <1>6 DEF FieldAfter, Sets
  <2>2. ASSUME NEW n \in 1..i, Gives(tokens, field, n)
        PROVE  FALSE
    <3>1. PICK m \in 1..i : Gives(tokens, field, m) /\ kept = Kept(field, ValueFor(field, tokens[m]))
      BY <1>2, <2>2 DEF FieldIsRight
    <3>2. m \in 1..Len(tokens)
      BY DEF IsPage, IsList
    <3>3. IsValue(ValueFor(field, tokens[m]))
      BY <3>2, ValueForType DEF IsPage
    <3>4. ValueFor(field, tokens[m]).word = NoWord
      BY <1>6, <3>1, <3>3, KeptFacts
    <3> QED
      BY <3>1, <3>4 DEF Gives
  <2>3. i + 1 \in 1..(i + 1) /\ \A m \in 1..(i + 1) : Gives(tokens, field, m) => i + 1 <= m
    BY <1>4, <2>2
  <2> QED
    BY <1>1, <1>6, <2>1, <2>3 DEF FieldIsRight
<1>7. CASE Gives(tokens, field, i + 1) /\ kept # Kept(field, NoValue)
  <2>1. FieldAfter(p, field, t) = kept
    BY <1>2, <1>7 DEF FieldAfter, Sets
  <2>2. PICK n \in 1..i :
          /\ Gives(tokens, field, n) /\ \A m \in 1..i : Gives(tokens, field, m) => n <= m
          /\ kept = Kept(field, ValueFor(field, tokens[n]))
    BY <1>2, <1>7 DEF FieldIsRight
  <2>3. n \in 1..(i + 1) /\ n <= i + 1
    OBVIOUS
  <2> QED
    BY <1>1, <1>4, <2>1, <2>2, <2>3 DEF FieldIsRight
<1> QED
  BY <1>5, <1>6, <1>7
-------------------------------------------------------------------------------
(* What the parser knows when it has been given i tokens. *)
KnowsHead(tokens, i, p) ==
  /\ IsParser(p)
  /\ p.ended <=> ~InHead(tokens, i)
  /\ \A field \in HeadFields : FieldIsRight(tokens, i, field, KeptIn(p, field))
  /\ ~p.ended => /\ p.started <=> i > 0
                 /\ DepthIsRight(tokens, i, p.templateDepth)
                 /\ RawIsRight(tokens, i, p.rawElement)

LEMMA HeadGrows ==
  ASSUME NEW tokens, NEW i \in Nat
  PROVE  InHead(tokens, i + 1) <=> InHead(tokens, i) /\ ~EndsHead(tokens, i + 1)
<1>1. \A n : n \in 1..(i + 1) <=> n \in 1..i \/ n = i + 1
  OBVIOUS
<1> QED
  BY <1>1 DEF InHead

LEMMA KnowsAtFirst ==
  ASSUME NEW tokens
  PROVE  KnowsHead(tokens, 0, NewParser)
<1>1. PICK p : p = NewParser
  OBVIOUS
<1>2. /\ p.title = NoValue /\ p.description = NoValue /\ p.image = NoValue /\ p.baseRef = NoWord
      /\ p.rawElement = NoWord /\ p.templateDepth = 0 /\ p.started = FALSE /\ p.ended = FALSE
  BY <1>1 DEF NewParser
<1>3. IsParser(p)
  BY <1>1, <1>2 DEF NewParser, IsParser
<1>4. \A n \in 1..0 : FALSE
  OBVIOUS
<1>5. InHead(tokens, 0)
  BY <1>4 DEF InHead
<1>6. \A field \in HeadFields : KeptIn(p, field) = Kept(field, NoValue)
  BY <1>2, LimitFacts, NoValueIsValue, HeadParserAssumption DEF HeadFields, KeptIn, Kept
<1>7. \A field \in HeadFields : FieldIsRight(tokens, 0, field, KeptIn(p, field))
  BY <1>4, <1>6 DEF FieldIsRight
<1>8. RawIsRight(tokens, 0, p.rawElement)
  BY <1>2, <1>4 DEF RawIsRight
<1>9. DepthIsRight(tokens, 0, 0)
  <2>1. \A j \in 1..(0 + 1) : Opened(tokens, j, 0) = 0 /\ Closed(tokens, j, 0) = 0
    BY TemplatesCount DEF Opened, Closed
  <2> QED
    BY <2>1 DEF DepthIsRight
<1> QED
  BY <1>1, <1>2, <1>3, <1>5, <1>7, <1>8, <1>9 DEF KnowsHead

LEMMA KnowsNext ==
  ASSUME NEW tokens, IsPage(tokens), NEW i \in Nat, i + 1 \in 1..Len(tokens),
         NEW p, KnowsHead(tokens, i, p)
  PROVE  KnowsHead(tokens, i + 1, Consume(p, tokens[i + 1]))
<1>1. PICK t : t = tokens[i + 1]
  OBVIOUS
<1>2. PICK q : q = Consume(p, t)
  OBVIOUS
<1>3. IsToken(t) /\ IsParser(p) /\ p.ended \in BOOLEAN
  BY <1>1 DEF IsPage, KnowsHead, IsParser
<1>4. CASE p.ended = TRUE
  <2>1. q = p
    BY <1>2, <1>4 DEF Consume
  <2>2. ~InHead(tokens, i) /\ ~InHead(tokens, i + 1)
    BY <1>4, HeadGrows DEF KnowsHead
  <2>3. \A field : ~Gives(tokens, field, i + 1)
    BY <2>2 DEF Gives
  <2>4. \A field \in HeadFields : FieldIsRight(tokens, i + 1, field, KeptIn(p, field))
    BY <2>3, FieldStays DEF KnowsHead
  <2> QED
    BY <1>1, <1>2, <1>3, <1>4, <2>1, <2>2, <2>4 DEF KnowsHead
<1>5. CASE p.ended = FALSE
  <2>1. /\ InHead(tokens, i)
        /\ p.started <=> i > 0
        /\ DepthIsRight(tokens, i, p.templateDepth) /\ RawIsRight(tokens, i, p.rawElement)
        /\ \A field \in HeadFields : FieldIsRight(tokens, i, field, KeptIn(p, field))
    BY <1>5 DEF KnowsHead
  <2>2. Follows(q, p, t) /\ q.started = TRUE
    BY <1>2, <1>3, <1>5, ConsumeFollows
  <2>3. /\ IsParser(q)
        /\ q.templateDepth = DepthAfter(p, t) /\ q.rawElement = RawAfter(p, t)
        /\ \A field \in HeadFields : KeptIn(q, field) = FieldAfter(p, field, t)
    BY <2>2 DEF Follows
  <2>4. q.ended <=> Ends(p, t)
    BY <2>2 DEF Follows
  <2>5. EndsHead(tokens, i + 1) <=> Ends(p, t)
    <3>1. p.templateDepth = 0 <=> ~InTemplate(tokens, i + 1)
      BY <2>1, DepthTells
    <3>2. p.rawElement = NoWord <=> ~InRawElement(tokens, i + 1)
      BY <2>1, RawTells
    <3>3. p.started <=> i + 1 > 1
      BY <2>1
    <3> QED
      BY <1>1, <3>1, <3>2, <3>3 DEF EndsHead, Ends
  <2>6. q.ended <=> ~InHead(tokens, i + 1)
    BY <2>1, <2>4, <2>5, HeadGrows
  <2>7. DepthIsRight(tokens, i + 1, q.templateDepth)
    BY <1>1, <2>1, <2>3, DepthFollows
  <2>8. RawIsRight(tokens, i + 1, q.rawElement)
    BY <1>1, <2>1, <2>3, RawFollows
  <2>9. \A field \in HeadFields : FieldIsRight(tokens, i + 1, field, KeptIn(q, field))
    <3>1. CASE InHead(tokens, i + 1)
      BY <1>1, <2>1, <2>3, <3>1, FieldFollows
    <3>2. CASE ~InHead(tokens, i + 1)
      <4>1. Ends(p, t) /\ \A field : ~Gives(tokens, field, i + 1)
        BY <2>4, <2>6, <3>2 DEF Gives
      <4>2. t.type # "start" \/ p.templateDepth # 0 \/ t.data \notin {"base", "meta"}
        BY <4>1 DEF Ends
      <4>3. \A field \in HeadFields : FieldAfter(p, field, t) = KeptIn(p, field)
        BY <4>2, OnlyStartSets
      <4> QED
        BY <2>1, <2>3, <4>1, <4>3, FieldStays
    <3> QED
      BY <3>1, <3>2
  <2>10. q.started <=> i + 1 > 0
    BY <2>2
  <2> QED
    BY <1>1, <1>2, <2>3, <2>6, <2>7, <2>8, <2>9, <2>10 DEF KnowsHead
<1> QED
  BY <1>3, <1>4, <1>5

(* headParser.consume, given the tokens of a page one after another, finds *)
(* the end of the head and the first value that each field is given in it. *)
LEMMA ParsedIsWhatIsGiven ==
  ASSUME NEW tokens, IsPage(tokens), NEW p, p = Parsed(tokens)
  PROVE  /\ p.ended <=> ~InHead(tokens, Len(tokens))
         /\ \A field \in HeadFields : KeptIn(p, field) = Kept(field, Given(tokens, field))
<1>1. PICK N \in Nat : N = Len(tokens)
  BY DEF IsPage, IsList
<1>2. PICK after : After(after, tokens, N) /\ p = after[N]
  BY <1>1, AfterExists
<1>3. after[0] = NewParser /\ \A i \in 1..N : after[i] = Consume(after[i - 1], tokens[i])
  <2>1. \A i \in 0..N : after[i] = IF i = 0 THEN NewParser ELSE Consume(after[i - 1], tokens[i])
    BY <1>2 DEF After
  <2> QED
    BY <2>1
<1> DEFINE S == {i \in 0..N : KnowsHead(tokens, i, after[i])}
<1>4. 0 \in S
  BY <1>3, KnowsAtFirst
<1>5. ASSUME NEW i \in 0..(N - 1), i \in S
      PROVE  i + 1 \in S
  <2>1. i \in Nat /\ i + 1 \in 1..N /\ (i + 1) - 1 = i /\ i + 1 \in 0..N
    OBVIOUS
  <2>2. after[i + 1] = Consume(after[i], tokens[i + 1])
    BY <1>3, <2>1
  <2>3. KnowsHead(tokens, i, after[i])
    BY <1>5
  <2>4. KnowsHead(tokens, i + 1, after[i + 1])
    BY <1>1, <2>1, <2>2, <2>3, KnowsNext
  <2> QED
    BY <2>1, <2>4
<1>6. \A i \in 0..N : i \in S
  <2> HIDE DEF S
  <2> QED
    BY <1>4, <1>5, FromEachToTheNext
<1>7. KnowsHead(tokens, N, p)
  BY <1>2, <1>6
<1>8. ASSUME NEW field \in HeadFields
      PROVE  KeptIn(p, field) = Kept(field, Given(tokens, field))
  <2>1. PICK giving : giving = {n \in DOMAIN tokens : Gives(tokens, field, n)}
    OBVIOUS
  <2>2. DOMAIN tokens = 1..N
    BY <1>1 DEF IsPage, IsList
  <2>3. FieldIsRight(tokens, N, field, KeptIn(p, field))
    BY <1>7 DEF KnowsHead
  <2>4. CASE giving = {}
    BY <2>1, <2>2, <2>3, <2>4 DEF FieldIsRight, Given
  <2>5. CASE giving # {}
    <3>1. Min(giving) \in giving /\ \A n \in giving : Min(giving) <= n
      BY <2>1, <2>2, <2>5, FirstOf
    <3>2. PICK n \in 1..N :
            /\ Gives(tokens, field, n) /\ \A m \in 1..N : Gives(tokens, field, m) => n <= m
            /\ KeptIn(p, field) = Kept(field, ValueFor(field, tokens[n]))
      BY <2>1, <2>2, <2>3, <2>5 DEF FieldIsRight
    <3>3. n \in giving /\ Min(giving) \in 1..N /\ n <= Min(giving) /\ Min(giving) <= n
      BY <2>1, <2>2, <3>1, <3>2
    <3>4. n = Min(giving)
      BY <3>3
    <3> QED
      BY <2>1, <2>5, <3>2, <3>4 DEF Given
  <2> QED
    BY <2>4, <2>5
<1>9. p.ended <=> ~InHead(tokens, N)
  BY <1>7 DEF KnowsHead
<1> QED
  BY <1>1, <1>8, <1>9

LEMMA GivenHasWord ==
  ASSUME NEW tokens, IsPage(tokens), NEW field
  PROVE  Given(tokens, field) = NoValue <=> Given(tokens, field).word = NoWord
<1>1. PICK giving : giving = {n \in DOMAIN tokens : Gives(tokens, field, n)}
  OBVIOUS
<1>2. CASE giving = {}
  BY <1>1, <1>2, NoValueIsValue DEF Given
<1>3. CASE giving # {}
  <2>1. Len(tokens) \in Nat /\ DOMAIN tokens = 1..Len(tokens)
    BY DEF IsPage, IsList
  <2>2. Min(giving) \in giving
    BY <1>1, <1>3, <2>1, FirstOf
  <2>3. Given(tokens, field).word # NoWord
    BY <1>1, <1>3, <2>2 DEF Given, Gives
  <2> QED
    BY <2>3, NoValueIsValue
<1> QED
  BY <1>2, <1>3

LEMMA PageIsTold ==
  ASSUME NEW body, IsPage(body.tokens), body.mediaType = "text/html", NEW at, NEW told,
         told.reason = ParseHead(body, at).reason, told.metadata = ParseHead(body, at).metadata
  PROVE  TellsPage(body, at, told)
<1>1. PICK tokens : tokens = body.tokens
  OBVIOUS
<1>2. PICK p : p = Parsed(tokens)
  OBVIOUS
<1>3. /\ p.ended <=> ~InHead(tokens, Len(tokens))
      /\ \A field \in HeadFields : KeptIn(p, field) = Kept(field, Given(tokens, field))
  BY <1>1, <1>2, ParsedIsWhatIsGiven
<1>4. /\ p.title = LimitRunes(Given(tokens, "og:title"), MaxTitleRunes)
      /\ p.description = LimitRunes(Given(tokens, "og:description"), MaxDescriptionRunes)
      /\ p.image = Given(tokens, "og:image")
      /\ p.baseRef = Given(tokens, "base").word
  BY <1>3 DEF HeadFields, KeptIn, Kept
<1>5. p.image # NoValue <=> p.image.word # NoWord
  BY <1>1, <1>4, GivenHasWord
<1>6. PICK base : base = ResolvedURL(at, p.baseRef)
  OBVIOUS
<1>7. PICK from : from = IF p.baseRef # NoWord /\ base.reason = NoReason THEN base.target ELSE at
  OBVIOUS
<1>8. PICK image : image = ResolvedURL(from, p.image.word)
  OBVIOUS
<1>9. PICK reason : reason = IF p.ended THEN NoReason ELSE body.cut
  OBVIOUS
<1>u. PICK url : url = IF p.image # NoValue /\ image.reason = NoReason THEN {image.target} ELSE {}
  OBVIOUS
<1>10. ParseHead(body, at) =
         [reason |-> reason,
          metadata |-> [title |-> p.title, description |-> p.description, imageURL |-> url]]
  BY <1>1, <1>2, <1>6, <1>7, <1>8, <1>9, <1>u, Zenon DEF ParseHead
<1>11. reason = IF InHead(tokens, Len(tokens)) THEN body.cut ELSE NoReason
  BY <1>1, <1>3, <1>9
<1>12. /\ told.reason = reason
       /\ told.metadata.title = p.title /\ told.metadata.description = p.description
       /\ told.metadata.imageURL = url
  BY <1>10
<1>13. told.metadata.imageURL =
         IF p.image.word # NoWord /\ image.reason = NoReason THEN {image.target} ELSE {}
  BY <1>5, <1>12, <1>u
<1> QED
  BY <1>1, <1>4, <1>6, <1>7, <1>8, <1>11, <1>12, <1>13 DEF TellsPage

LEMMA ImageIsTold ==
  ASSUME NEW body, IsBody(body), NEW told,
         told = IF ImageRefusal(body) = NoReason THEN [NoResult EXCEPT !.image = TRUE]
                ELSE Failure(ImageRefusal(body))
  PROVE  TellsImage(body, "image", told)
<1>1. told.metadata = NoMetadata /\ (told.image => ImageRefusal(body) = NoReason)
  BY DEF NoResult, Failure
<1>2. ASSUME ImageRefusal(body) = NoReason
      PROVE  /\ body.cut = NoReason
             /\ body.bytes <= MaxImageBytes /\ body.width > 0 /\ body.height > 0
             /\ body.width * body.height <= MaxImagePixels
  <2>1. PICK checks : checks = <<
          Check(body.mediaType \notin {"image/jpeg", "image/png"}, "content_type"),
          Check(body.cut # NoReason, "image_read"),
          Check(body.bytes > MaxImageBytes, "image_limit"),
          Check(body.detected # body.mediaType, "image_type"),
          Check(body.format \notin {"jpeg", "png"}, "image_header"),
          Check(body.width = 0 \/ body.height = 0 \/ body.width > MaxImagePixels \div body.height,
                "image_geometry")>>
    OBVIOUS
  <2>2. FirstReason(checks) = NoReason
    BY <1>2, <2>1 DEF ImageRefusal
  <2>3. /\ DOMAIN checks = 1..6
        /\ body.cut # NoReason => checks[2] # NoReason
        /\ body.bytes > MaxImageBytes => checks[3] # NoReason
        /\ body.width = 0 \/ body.height = 0 \/ body.width > MaxImagePixels \div body.height
             => checks[6] # NoReason
    BY <2>1 DEF Check, NoReason
  <2>4. \A i \in 1..6 : checks[i] = NoReason
    BY <2>2, <2>3, ChecksPass
  <2>5. /\ body.cut = NoReason /\ ~(body.bytes > MaxImageBytes)
        /\ body.width # 0 /\ body.height # 0 /\ ~(body.width > MaxImagePixels \div body.height)
    BY <2>3, <2>4
  <2>6. body.bytes \in Nat /\ MaxImageBytes \in Nat /\ MaxImagePixels \in Nat
    BY LinkPreviewAssumption DEF IsBody
  <2>7. PICK w \in Nat : w = body.width
    BY DEF IsBody
  <2>8. PICK h \in Nat \ {0} : h = body.height
    BY <2>5 DEF IsBody
  <2>9. PICK q \in Nat : q = MaxImagePixels \div h
    BY <2>6
  <2>10. q * h <= MaxImagePixels
    BY <2>6, <2>9
  <2>11. w <= q
    BY <2>5, <2>7, <2>8, <2>9
  <2>12. w * h <= q * h
    BY <2>11
  <2>13. w * h <= MaxImagePixels
    <3>1. w * h \in Nat /\ q * h \in Nat
      OBVIOUS
    <3> QED
      BY <2>6, <2>10, <2>12, <3>1
  <2> QED
    BY <2>5, <2>6, <2>7, <2>8, <2>13
<1> QED
  BY <1>1, <1>2 DEF TellsImage
-------------------------------------------------------------------------------
(* A load has a response with a body only while it reads it, and what it   *)
(* returns then tells of that body.                                        *)
Told(l) ==
  IF world.asks[l].wants = "page" /\ response[l].body.mediaType = "text/html"
  THEN TellsPage(response[l].body, target[l], result[l])
  ELSE TellsImage(response[l].body, world.asks[l].wants, result[l])
Reads(l) ==
  /\ stage[l] \notin {"reading", "ended"} => response[l].status # 200
  /\ stage[l] = "reading" => IsBody(response[l].body)
  /\ stage[l] = "ended" /\ response[l].status = 200 /\ ~response[l].encoded => Told(l)
ReadInv ==
  /\ response = [l \in Asked |-> response[l]] /\ result = [l \in Asked |-> result[l]]
  /\ \A l \in Asked : Reads(l)

LEMMA OneLoadReads ==
  ASSUME LoaderTypes, ReadInv, NEW l \in Asked, UNCHANGED world,
         stage' = [stage EXCEPT ![l] = stage'[l]], target' = [target EXCEPT ![l] = target'[l]],
         response' = [response EXCEPT ![l] = response'[l]], result' = [result EXCEPT ![l] = result'[l]],
         Reads(l)'
  PROVE  ReadInv'
<1>1. Asked' = Asked
  BY DEF Asked
<1>2. ASSUME NEW m \in Asked, m # l
      PROVE  Reads(m)'
  <2>1. stage'[m] = stage[m] /\ target'[m] = target[m] /\ response'[m] = response[m] /\ result'[m] = result[m]
    BY <1>2 DEF LoaderTypes, ReadInv
  <2>2. Told(m)' <=> Told(m)
    BY <2>1 DEF Told
  <2> QED
    BY <1>2, <2>1, <2>2 DEF ReadInv, Reads
<1>3. \A m \in Asked : Reads(m)'
  BY <1>2
<1>4. response' = [m \in Asked |-> response'[m]] /\ result' = [m \in Asked |-> result'[m]]
  BY DEF ReadInv
<1> QED
  BY <1>1, <1>3, <1>4 DEF ReadInv

(* A load that fails, or goes on to something else than a body. *)
LEMMA FailureReads ==
  ASSUME LoaderTypes, ReadInv, NEW l \in Asked, NEW reason, Fails(l, reason),
         stage[l] \notin {"reading", "ended"}, UNCHANGED <<world, target, response>>
  PROVE  ReadInv'
<1>1. stage' = [stage EXCEPT ![l] = "ended"] /\ result' = [result EXCEPT ![l] = Failure(reason)]
  BY DEF Fails, GoesTo
<1>2. /\ stage'[l] = "ended" /\ stage' = [stage EXCEPT ![l] = stage'[l]]
      /\ result' = [result EXCEPT ![l] = result'[l]]
      /\ target' = [target EXCEPT ![l] = target'[l]]
      /\ response' = [response EXCEPT ![l] = response'[l]]
  BY <1>1 DEF LoaderTypes, ReadInv
<1>3. Reads(l)'
  BY <1>2 DEF ReadInv, Reads
<1> QED
  BY <1>2, <1>3, OneLoadReads

LEMMA GoesOnReads ==
  ASSUME LoaderTypes, ReadInv, NEW l \in Asked, NEW next \in Stages \ {"reading", "ended"}, GoesTo(l, next),
         stage[l] \notin {"reading", "ended"}, UNCHANGED <<world, result>>,
         target' = [target EXCEPT ![l] = target'[l]],
         response' = [response EXCEPT ![l] = response'[l]], response'[l].status # 200
  PROVE  ReadInv'
<1>1. /\ stage'[l] = next /\ stage' = [stage EXCEPT ![l] = stage'[l]]
      /\ result' = [result EXCEPT ![l] = result'[l]]
  BY DEF GoesTo, LoaderTypes, ReadInv
<1>2. Reads(l)'
  BY <1>1 DEF Reads
<1> QED
  BY <1>1, <1>2, OneLoadReads

LEMMA HopReads ==
  ASSUME LoaderTypes, ReadInv, NEW l \in Asked,
         \/ Fetch(l) \/ TakeSlot(l) \/ Cancelled(l) \/ Resolve(l) \/ Charge(l) \/ Send(l) \/ RequestFails(l)
  PROVE  ReadInv'
<1>1. /\ stage[l] \in {"idle", "waiting", "resolving", "admitting", "sending", "requesting"}
      /\ UNCHANGED <<world, response>>
  BY DEF Fetch, TakeSlot, Cancelled, Resolve, Charge, Send, RequestFails
<1>2. response'[l].status # 200 /\ response' = [response EXCEPT ![l] = response'[l]]
  BY <1>1 DEF ReadInv, Reads
<1>3. \/ \E reason : Fails(l, reason) /\ UNCHANGED target
      \/ \E next \in Stages \ {"reading", "ended"} :
           /\ GoesTo(l, next) /\ UNCHANGED result
           /\ target' = [target EXCEPT ![l] = target'[l]]
  <2>0. target = [target EXCEPT ![l] = target[l]]
    BY DEF LoaderTypes
  <2>1. CASE Fetch(l)
    <3>1. PICK parsed : parsed = ParseURL(world.asks[l].url)
      OBVIOUS
    <3>2. CASE parsed.reason # NoReason
      BY <2>1, <3>1, <3>2 DEF Fetch
    <3>3. CASE parsed.reason = NoReason
      <4>1. /\ GoesTo(l, "waiting") /\ UNCHANGED result
            /\ target' = [target EXCEPT ![l] = parsed.target]
        BY <2>1, <3>1, <3>3 DEF Fetch
      <4>2. target' = [target EXCEPT ![l] = target'[l]] /\ "waiting" \in Stages \ {"reading", "ended"}
        BY <4>1 DEF LoaderTypes, Stages
      <4> QED
        BY <4>1, <4>2
    <3> QED
      BY <3>2, <3>3
  <2>2. CASE TakeSlot(l)
    BY <2>0, <2>2 DEF TakeSlot, Stages
  <2>3. CASE Cancelled(l)
    BY <2>3 DEF Cancelled
  <2>4. CASE Resolve(l)
    <3>1. UNCHANGED target /\ (\/ \E reason : Fails(l, reason)
                              \/ (GoesTo(l, "admitting") /\ UNCHANGED result))
      BY <2>4 DEF Resolve
    <3> QED
      BY <2>0, <3>1 DEF Stages
  <2>5. CASE Charge(l)
    <3>1. UNCHANGED target /\ (\/ Fails(l, "http_quota")
                              \/ (GoesTo(l, "sending") /\ UNCHANGED result))
      BY <2>5 DEF Charge
    <3> QED
      BY <2>0, <3>1 DEF Stages
  <2>6. CASE Send(l)
    BY <2>0, <2>6 DEF Send, Stages
  <2>7. CASE RequestFails(l)
    BY <2>7 DEF RequestFails
  <2> QED
    BY <2>1, <2>2, <2>3, <2>4, <2>5, <2>6, <2>7
<1>4. ASSUME NEW reason, Fails(l, reason), UNCHANGED target
      PROVE  ReadInv'
  BY <1>1, <1>4, FailureReads
<1>5. ASSUME NEW next \in Stages \ {"reading", "ended"}, GoesTo(l, next), UNCHANGED result,
             target' = [target EXCEPT ![l] = target'[l]]
      PROVE  ReadInv'
  BY <1>1, <1>2, <1>5, GoesOnReads
<1> QED
  BY <1>3, <1>4, <1>5

LEMMA AnswerReads ==
  ASSUME LoaderTypes, ReadInv, NEW l \in Asked, Refused(l) \/ Redirected(l) \/ BodyFound(l)
  PROVE  ReadInv'
<1>1. stage[l] = "requesting" /\ UNCHANGED world
  BY DEF Refused, Redirected, BodyFound
<1>2. ASSUME NEW r \in Answers(target[l]), r.status = 200
      PROVE  IsBody(r.body)
  BY <1>2, WorldsAssumption DEF Answers, LoaderTypes
<1>3. CASE Refused(l)
  <2>1. PICK r : /\ ResponseRefusal(l, r) # NoReason /\ Fails(l, ResponseRefusal(l, r))
                 /\ response' = [response EXCEPT ![l] = r] /\ UNCHANGED target
    BY <1>3 DEF Refused
  <2>2. r.status = 200 => r.encoded
    BY <2>1 DEF ResponseRefusal
  <2>3. /\ stage'[l] = "ended" /\ response'[l] = r
        /\ stage' = [stage EXCEPT ![l] = stage'[l]] /\ target' = [target EXCEPT ![l] = target'[l]]
        /\ response' = [response EXCEPT ![l] = response'[l]]
        /\ result' = [result EXCEPT ![l] = result'[l]]
    BY <2>1 DEF Fails, GoesTo, LoaderTypes, ReadInv
  <2>4. Reads(l)'
    BY <2>2, <2>3 DEF Reads
  <2> QED
    BY <1>1, <2>3, <2>4, OneLoadReads
<1>4. CASE Redirected(l)
  <2>1. PICK r : /\ r.status # 200 /\ response' = [response EXCEPT ![l] = r]
                 /\ target' = [target EXCEPT ![l] = ResolvedURL(target[l], r.location).target]
    BY <1>4 DEF Redirected
  <2>2. /\ response'[l].status # 200 /\ response' = [response EXCEPT ![l] = response'[l]]
        /\ target' = [target EXCEPT ![l] = target'[l]]
    BY <2>1 DEF LoaderTypes, ReadInv
  <2>3. GoesTo(l, "waiting") /\ UNCHANGED result /\ "waiting" \in Stages \ {"reading", "ended"}
    BY <1>4 DEF Redirected, Stages
  <2> QED
    BY <1>1, <2>2, <2>3, GoesOnReads
<1>5. CASE BodyFound(l)
  <2>1. PICK r \in Answers(target[l]) : r.status = 200 /\ response' = [response EXCEPT ![l] = r]
    BY <1>5 DEF BodyFound
  <2>2. IsBody(r.body)
    BY <1>2, <2>1
  <2>3. /\ stage'[l] = "reading" /\ response'[l] = r
        /\ stage' = [stage EXCEPT ![l] = stage'[l]] /\ target' = [target EXCEPT ![l] = target'[l]]
        /\ response' = [response EXCEPT ![l] = response'[l]]
        /\ result' = [result EXCEPT ![l] = result'[l]]
    <3>1. stage' = [stage EXCEPT ![l] = "reading"] /\ UNCHANGED <<target, result>>
      BY <1>5 DEF BodyFound, GoesTo
    <3>2. stage'[l] = "reading" /\ stage' = [stage EXCEPT ![l] = stage'[l]]
      BY <3>1 DEF LoaderTypes
    <3>3. response'[l] = r /\ response' = [response EXCEPT ![l] = response'[l]]
      BY <2>1 DEF ReadInv
    <3>4. target' = [target EXCEPT ![l] = target'[l]]
      BY <3>1 DEF LoaderTypes
    <3>5. result' = [result EXCEPT ![l] = result'[l]]
      BY <3>1 DEF ReadInv
    <3> QED
      BY <3>2, <3>3, <3>4, <3>5
  <2>4. Reads(l)'
    BY <2>2, <2>3 DEF Reads, IsBody
  <2> QED
    BY <1>1, <2>3, <2>4, OneLoadReads
<1> QED
  BY <1>3, <1>4, <1>5

LEMMA ReadingReads ==
  ASSUME LoaderTypes, ReadInv, NEW l \in Asked, ReadPage(l) \/ ReadImage(l)
  PROVE  ReadInv'
<1>1. PICK body : body = response[l].body
  OBVIOUS
<1>2. stage[l] = "reading" /\ IsBody(body) /\ UNCHANGED <<world, target, response>>
  BY <1>1 DEF ReadPage, ReadImage, Returns, ReadInv, Reads
<1>3. GoesTo(l, "ended") /\ result' = [result EXCEPT ![l] = result'[l]]
  BY DEF ReadPage, ReadImage, Returns, ReadInv
<1>4. /\ stage'[l] = "ended" /\ stage' = [stage EXCEPT ![l] = stage'[l]]
      /\ target' = [target EXCEPT ![l] = target'[l]]
      /\ response' = [response EXCEPT ![l] = response'[l]]
  BY <1>2, <1>3 DEF GoesTo, LoaderTypes, ReadInv
<1>5. Told(l)'
  <2>1. CASE ReadPage(l)
    <3>1. PICK head : head = ParseHead(body, target[l])
      OBVIOUS
    <3>2. /\ world.asks[l].wants = "page"
          /\ result'[l] = [reason |-> head.reason, metadata |-> head.metadata, image |-> FALSE]
      BY <1>1, <2>1, <3>1 DEF ReadPage, Returns, ReadInv
    <3>3. CASE body.mediaType = "text/html"
      <4>1. result'[l].reason = head.reason /\ result'[l].metadata = head.metadata
        BY <3>2
      <4>2. TellsPage(body, target[l], result'[l])
        BY <1>2, <3>1, <3>3, <4>1, PageIsTold DEF IsBody
      <4> QED
        BY <1>1, <1>2, <3>2, <3>3, <4>2 DEF Told
    <3>4. CASE body.mediaType # "text/html"
      <4>1. head.metadata = NoMetadata
        BY <3>1, <3>4 DEF ParseHead
      <4>2. result'[l].metadata = NoMetadata /\ ~result'[l].image
        BY <3>2, <4>1
      <4>3. TellsImage(body, "page", result'[l])
        BY <4>2 DEF TellsImage
      <4> QED
        BY <1>1, <1>2, <3>2, <3>4, <4>3 DEF Told
    <3> QED
      BY <3>3, <3>4
  <2>2. CASE ReadImage(l)
    <3>1. /\ world.asks[l].wants = "image"
          /\ result'[l] = IF ImageRefusal(body) = NoReason THEN [NoResult EXCEPT !.image = TRUE]
                          ELSE Failure(ImageRefusal(body))
      BY <1>1, <2>2 DEF ReadImage, Returns, ReadInv
    <3>2. TellsImage(body, "image", result'[l])
      BY <1>2, <3>1, ImageIsTold
    <3> QED
      BY <1>1, <1>2, <3>1, <3>2 DEF Told
  <2> QED
    BY <2>1, <2>2
<1>6. Reads(l)'
  BY <1>4, <1>5 DEF Reads
<1> QED
  BY <1>2, <1>3, <1>4, <1>6, OneLoadReads

LEMMA ReadsAtFirst == LoaderInit => ReadInv
BY DEF LoaderInit, ReadInv, Reads, NoResponse

LEMMA ReadsOn == LoaderInv /\ ReadInv /\ [LoaderNext]_loader => ReadInv'
<1> SUFFICES ASSUME LoaderInv, ReadInv, [LoaderNext]_loader PROVE ReadInv'
  OBVIOUS
<1>1. LoaderTypes
  BY DEF LoaderInv
<1>2. CASE LoaderNext
  <2>1. PICK l \in Asked :
          \/ Fetch(l) \/ TakeSlot(l) \/ Cancelled(l) \/ Resolve(l) \/ Charge(l) \/ Send(l)
          \/ RequestFails(l) \/ Refused(l) \/ Redirected(l) \/ BodyFound(l)
          \/ ReadPage(l) \/ ReadImage(l)
    BY <1>2 DEF LoaderNext
  <2> QED
    BY <1>1, <2>1, HopReads, AnswerReads, ReadingReads
<1>3. CASE UNCHANGED loader
  BY <1>3 DEF loader, ReadInv, Reads, Told, Asked
<1> QED
  BY <1>2, <1>3

(* parseHead, headParser and readImage: whatever tokens a page has, and    *)
(* however many, the preview says what the first tags of its head give,    *)
(* an error is told exactly if the head was not read to its end, and no    *)
(* image beyond the limits is returned, also after redirects.              *)
THEOREM AlwaysReadsWhatThePageSays == LoaderSpec => []ReadsWhatThePageSays
<1>1. ReadInv => ReadsWhatThePageSays
  BY DEF ReadInv, Reads, Told, ReadsWhatThePageSays
<1> QED
  BY <1>1, LoaderStarts, LoaderStep, ReadsAtFirst, ReadsOn, PTL DEF LoaderSpec
===============================================================================
