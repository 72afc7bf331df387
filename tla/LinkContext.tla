------------------------------ MODULE LinkContext ------------------------------
(***************************************************************************)
(* The enrichment of links (internal/features/linkcontext).  A handler     *)
(* that meets a link asks the enricher and waits for a while; the enricher *)
(* answers from its cache, lets the handler wait for a job that loads the  *)
(* link already, or starts a job of its own, within limits of jobs, of     *)
(* requests and of descriptions by the vision model, whose slots the       *)
(* handlers of photos use as well.  One action is one section under        *)
(* Enricher.mu, one step of a job or one step of a photo's description.    *)
(*                                                                         *)
(* A budget is a bucket of tokens that is filled up as time passes; a      *)
(* cached result may expire at any time, which covers its three lifetimes. *)
(***************************************************************************)
EXTENDS Naturals, Sequences, SequencesExt, FiniteSets

CONSTANTS Calls,      \* calls of Enrich; a job is named after the call that started it
          Links, Hosts, Chats,
          HostOf,     \* the host of each link
          Photos,     \* descriptions of photos by other handlers
          Burst,      \* capacity of each budget
          MaxJobs,    \* maxConcurrentJobs
          MaxVision,  \* maxConcurrentVision
          CacheSize,  \* maxCacheEntries
          NoJob

Budgets == Chats \cup Hosts \cup {"http", "vision"}

ASSUME LinkContextAssumption ==
  /\ Chats \cap Hosts = {} /\ {"http", "vision"} \cap (Chats \cup Hosts) = {}
  /\ HostOf \in [Links -> Hosts] /\ Burst \in [Budgets -> Nat]
  /\ MaxJobs \in Nat /\ MaxVision \in Nat /\ CacheSize \in Nat
  /\ IsFiniteSet(Calls) /\ IsFiniteSet(Photos) /\ NoJob \notin Calls

VARIABLES
  calls,   \* where each call is
  job,     \* the job each call started, if it did
  jobs,    \* Enricher.jobs: the job that loads each link
  cache,   \* resultCache: the results, the latest used first
  phase,   \* open, closing (Close was called), closed (it has returned)
  budget,  \* tokens left in each bucket
  visionSlots, \* how many of its tokens are taken
  photos   \* where each photo is

vars == <<calls, job, jobs, cache, phase, budget, visionSlots, photos>>
-------------------------------------------------------------------------------
NotStarted == [pc |-> "none"]
Over(j) == job[j].pc \in {"none", "over"}
Running == {j \in Calls : ~Over(j)}

(* The cache. *)
Positions(l) == {i \in 1..Len(cache) : cache[i].link = l}
Position(l) == CHOOSE i \in Positions(l) : TRUE
Cached(l) == cache[Position(l)]
Without(l) == IF Positions(l) = {} THEN cache ELSE RemoveAt(cache, Position(l))
Hit(l) == \E i \in Positions(l) : ~cache[i].expired

(* Mutant: room is made one result too late. *)
PutLate(l, fields) ==
  LET all == <<[link |-> l, fields |-> fields, expired |-> FALSE]>> \o Without(l)
  IN  SubSeq(all, 1, IF Len(all) > CacheSize + 1 THEN CacheSize ELSE Len(all))

Put(l, fields) ==
  LET all == <<[link |-> l, fields |-> fields, expired |-> FALSE]>> \o Without(l)
  IN  SubSeq(all, 1, IF Len(all) > CacheSize THEN CacheSize ELSE Len(all))

Expire(l) ==
  /\ Hit(l)
  /\ cache' = [i \in 1..Len(cache) |->
                 IF cache[i].link = l THEN [cache[i] EXCEPT !.expired = TRUE] ELSE cache[i]]
  /\ UNCHANGED <<calls, job, jobs, phase, budget, visionSlots, photos>>

Refill(b) ==
  /\ budget[b] < Burst[b]
  /\ budget' = [budget EXCEPT ![b] = @ + 1]
  /\ UNCHANGED <<calls, job, jobs, cache, phase, visionSlots, photos>>

Allow(b) == budget[b] > 0
Spend(bs) == budget' = [b \in Budgets |-> IF b \in bs THEN budget[b] - 1 ELSE budget[b]]
-------------------------------------------------------------------------------
(* Enrich *)
Returned(w, l, fields, of) ==
  calls' = [calls EXCEPT ![w] = [pc |-> "returned", link |-> l, fields |-> fields, job |-> of]]
Waits(w, l, j) == calls' = [calls EXCEPT ![w] = [pc |-> "waiting", link |-> l, job |-> j]]

New(w) == calls[w].pc = "new"

HitReturns(w, l) ==
  /\ New(w) /\ phase = "open" /\ Hit(l)
  /\ Returned(w, l, Cached(l).fields, NoJob)
  /\ cache' = <<Cached(l)>> \o Without(l)
  /\ UNCHANGED <<job, jobs, phase, budget, visionSlots, photos>>

Miss(w, l) == New(w) /\ phase = "open" /\ ~Hit(l) /\ cache' = Without(l)

Share(w, l) ==
  /\ Miss(w, l) /\ jobs[l] # NoJob
  /\ Waits(w, l, jobs[l])
  /\ UNCHANGED <<job, jobs, phase, budget, visionSlots, photos>>

JobsAreMany == Cardinality({l \in Links : jobs[l] # NoJob}) >= MaxJobs

Refuse(w, l, c) ==
  /\ Miss(w, l) /\ jobs[l] = NoJob
  /\ JobsAreMany \/ ~Allow(c)
  /\ Returned(w, l, {}, NoJob)
  /\ UNCHANGED <<job, jobs, phase, budget, visionSlots, photos>>

(* Mutant: a closed enricher still takes work. *)
StartWhenClosed(w, l, c) ==
  /\ New(w) /\ ~Hit(l) /\ jobs[l] = NoJob /\ ~JobsAreMany /\ Allow(c)
  /\ cache' = Without(l)
  /\ Spend({c})
  /\ jobs' = [jobs EXCEPT ![l] = w]
  /\ job' = [job EXCEPT ![w] = [pc |-> "page", link |-> l, fields |-> {}]]
  /\ Waits(w, l, w)
  /\ UNCHANGED <<phase, visionSlots, photos>>

Start(w, l, c) ==
  /\ Miss(w, l) /\ jobs[l] = NoJob /\ ~JobsAreMany /\ Allow(c)
  /\ Spend({c})
  /\ jobs' = [jobs EXCEPT ![l] = w]
  /\ job' = [job EXCEPT ![w] = [pc |-> "page", link |-> l, fields |-> {}]]
  /\ Waits(w, l, w)
  /\ UNCHANGED <<phase, visionSlots, photos>>

ClosedReturns(w, l) ==
  /\ New(w) /\ phase # "open"
  /\ Returned(w, l, {}, NoJob)
  /\ UNCHANGED <<job, jobs, cache, phase, budget, visionSlots, photos>>

(* The job is over, the enricher is closed or the caller's time is: what   *)
(* is known by now is returned.                                            *)
Return(w) ==
  /\ calls[w].pc = "waiting"
  /\ Returned(w, calls[w].link, job[calls[w].job].fields, calls[w].job)
  /\ UNCHANGED <<job, jobs, cache, phase, budget, visionSlots, photos>>
-------------------------------------------------------------------------------
(* A job.  Every call may fail, in its own time or because the enricher is *)
(* closed.                                                                 *)
JobAt(j, pc) == job[j].pc = pc
Goes(j, pc, fields) ==
  job' = [job EXCEPT ![j] = [pc |-> pc, link |-> job[j].link, fields |-> fields]]

(* AllowHTTP: both tokens or none. *)
Request(h) == Allow("http") /\ Allow(h) /\ Spend({"http", h})

(* What the page says is returned to who stops waiting now. *)
LoadPage(j) ==
  /\ JobAt(j, "page")
  /\ \E fields \in SUBSET {"text"}, next \in {"image", "end"} :
       Goes(j, next, fields)
  /\ Request(HostOf[job[j].link])
  /\ UNCHANGED <<calls, jobs, cache, phase, visionSlots, photos>>

(* The preview may be kept on another host; without a vision model it is   *)
(* not loaded.                                                             *)
LoadImage(j) ==
  /\ JobAt(j, "image")
  /\ \E next \in {"slot", "end"} : Goes(j, next, job[j].fields)
  /\ \E h \in Hosts : Request(h)
  /\ UNCHANGED <<calls, jobs, cache, phase, visionSlots, photos>>

(* A page or an image that has moved is asked for again, of any host. *)
Redirect(j) ==
  /\ job[j].pc \in {"page", "image"}
  /\ \E h \in Hosts : Request(h)
  /\ UNCHANGED <<calls, job, jobs, cache, phase, visionSlots, photos>>

(* No tokens, or no answer. *)
LoadFails(j) ==
  /\ job[j].pc \in {"page", "image"}
  /\ Goes(j, "end", job[j].fields)
  /\ UNCHANGED <<calls, jobs, cache, phase, budget, visionSlots, photos>>

AcquireSlot(j) ==
  /\ JobAt(j, "slot") /\ visionSlots < MaxVision
  /\ visionSlots' = visionSlots + 1
  /\ Goes(j, "describe", job[j].fields)
  /\ UNCHANGED <<calls, jobs, cache, phase, budget, photos>>

(* Mutant: a job waits for a slot as long as it takes. *)
GiveUpSlotNever(j) == FALSE /\ UNCHANGED vars

GiveUpSlot(j) ==
  /\ JobAt(j, "slot")
  /\ Goes(j, "end", job[j].fields)
  /\ UNCHANGED <<calls, jobs, cache, phase, budget, visionSlots, photos>>

(* Mutant: a description over the budget keeps its slot. *)
DescribeKeepingSlot(j) ==
  /\ JobAt(j, "describe")
  /\ \/ Allow("vision") /\ Spend({"vision"}) /\ Goes(j, "answer", job[j].fields)
     \/ ~Allow("vision") /\ UNCHANGED budget /\ Goes(j, "end", job[j].fields)
  /\ UNCHANGED <<calls, jobs, cache, phase, visionSlots, photos>>

(* The slot is released whether the budget allows the description, it      *)
(* succeeds or fails.                                                      *)
Describe(j) ==
  /\ JobAt(j, "describe")
  /\ \/ /\ Allow("vision") /\ Spend({"vision"})
        /\ Goes(j, "answer", job[j].fields)
        /\ UNCHANGED visionSlots
     \/ /\ ~Allow("vision") /\ UNCHANGED budget
        /\ Goes(j, "end", job[j].fields)
        /\ visionSlots' = visionSlots - 1
  /\ UNCHANGED <<calls, jobs, cache, phase, photos>>

DescriptionEnds(j) ==
  /\ JobAt(j, "answer")
  /\ \E next \in {"described", "end"} : Goes(j, next, job[j].fields)
  /\ visionSlots' = visionSlots - 1
  /\ UNCHANGED <<calls, jobs, cache, phase, budget, photos>>

Result(j) == IF JobAt(j, "described") THEN job[j].fields \cup {"preview"} ELSE job[j].fields
Finishing(j) == job[j].pc \in {"end", "described"}

(* Mutant: the job is taken from the list before its result is cached. *)
FinishInTwo(j) ==
  \/ /\ Finishing(j) /\ jobs[job[j].link] = j
     /\ jobs' = [jobs EXCEPT ![job[j].link] = NoJob]
     /\ UNCHANGED <<calls, job, cache, phase, budget, visionSlots, photos>>
  \/ /\ Finishing(j) /\ jobs[job[j].link] # j
     /\ Goes(j, "over", Result(j))
     /\ cache' = Put(job[j].link, Result(j))
     /\ UNCHANGED <<calls, jobs, phase, budget, visionSlots, photos>>

(* Mutant: who waits is woken up before the result is there. *)
FinishUnread(j) ==
  /\ Finishing(j)
  /\ Goes(j, "over", job[j].fields)
  /\ cache' = Put(job[j].link, Result(j))
  /\ jobs' = [jobs EXCEPT ![job[j].link] = NoJob]
  /\ UNCHANGED <<calls, phase, budget, visionSlots, photos>>

Finish(j) ==
  /\ Finishing(j)
  /\ Goes(j, "over", Result(j))
  /\ cache' = Put(job[j].link, Result(j))
  /\ jobs' = [jobs EXCEPT ![job[j].link] = NoJob]
  /\ UNCHANGED <<calls, phase, budget, visionSlots, photos>>
-------------------------------------------------------------------------------
(* Descriptions of photos: no slot, no description. *)
PhotoBegins(p) ==
  /\ photos[p] = "idle" /\ visionSlots < MaxVision
  /\ visionSlots' = visionSlots + 1
  /\ photos' = [photos EXCEPT ![p] = "describe"]
  /\ UNCHANGED <<calls, job, jobs, cache, phase, budget>>

PhotoContinues(p) ==
  /\ photos[p] = "describe" /\ Allow("vision")
  /\ Spend({"vision"})
  /\ photos' = [photos EXCEPT ![p] = "answer"]
  /\ UNCHANGED <<calls, job, jobs, cache, phase, visionSlots>>

PhotoEnds(p) ==
  /\ photos[p] = "answer" \/ (photos[p] = "describe" /\ ~Allow("vision"))
  /\ visionSlots' = visionSlots - 1
  /\ photos' = [photos EXCEPT ![p] = "idle"]
  /\ UNCHANGED <<calls, job, jobs, cache, phase, budget>>
-------------------------------------------------------------------------------
Close ==
  /\ phase = "open"
  /\ phase' = "closing"
  /\ UNCHANGED <<calls, job, jobs, cache, budget, visionSlots, photos>>

(* Close waits for the goroutines of the jobs. *)
CloseReturns ==
  /\ phase = "closing" /\ Running = {}
  /\ phase' = "closed"
  /\ UNCHANGED <<calls, job, jobs, cache, budget, visionSlots, photos>>

Init ==
  /\ calls = [w \in Calls |-> [pc |-> "new"]]
  /\ job = [w \in Calls |-> NotStarted]
  /\ jobs = [l \in Links |-> NoJob]
  /\ cache = <<>>
  /\ phase = "open"
  /\ budget = Burst
  /\ visionSlots = 0
  /\ photos = [p \in Photos |-> "idle"]

Enrich(w, l) ==
  \/ HitReturns(w, l) \/ Share(w, l) \/ ClosedReturns(w, l)
  \/ \E c \in Chats : Refuse(w, l, c) \/ Start(w, l, c)

JobStep(j) ==
  \/ LoadPage(j) \/ LoadImage(j) \/ LoadFails(j)
  \/ AcquireSlot(j) \/ GiveUpSlot(j) \/ Describe(j) \/ DescriptionEnds(j)
  \/ Finish(j)

Photo(p) == PhotoBegins(p) \/ PhotoContinues(p) \/ PhotoEnds(p)

Next ==
  \/ \E w \in Calls : Return(w) \/ JobStep(w) \/ Redirect(w) \/ \E l \in Links : Enrich(w, l)
  \/ \E p \in Photos : Photo(p)
  \/ \E l \in Links : Expire(l)
  \/ \E b \in Budgets : Refill(b)
  \/ Close \/ CloseReturns

Spec == Init /\ [][Next]_vars

(* Goroutines run, every call ends, in its own time at the latest, and so  *)
(* does a chain of redirects; a photo's description ends, but others may   *)
(* follow.                                                                 *)
Fairness ==
  /\ \A j \in Calls : WF_vars(JobStep(j))
  /\ \A p \in Photos : WF_vars(PhotoContinues(p) \/ PhotoEnds(p))
  /\ WF_vars(CloseReturns)

FairSpec == Spec /\ Fairness
-------------------------------------------------------------------------------
(* A link is never loaded by two jobs at the same time, however its calls, *)
(* the end of its job and its place in the cache interleave.               *)
OneJobPerLink ==
  \A j, k \in Running : job[j].link = job[k].link => j = k

Describing == {j \in Calls : job[j].pc \in {"describe", "answer"}}
Pictured == {p \in Photos : photos[p] # "idle"}

(* The slots that are taken are those of the descriptions that run, of     *)
(* links and photos together, so that none is lost when a description is   *)
(* over the budget, fails or is cut short.                                 *)
SlotsAreHeld ==
  /\ visionSlots = Cardinality(Describing) + Cardinality(Pictured)
  /\ visionSlots <= MaxVision

(* No more jobs run than allowed. *)
JobsAreLimited == Cardinality(Running) <= MaxJobs

(* The limits are kept, and given back; nor does a result stay in a full   *)
(* cache without pushing another out.                                      *)
LimitsAreKept == SlotsAreHeld /\ JobsAreLimited /\ Len(cache) <= CacheSize

(* What a call returns and the cache keeps was loaded for the same link;   *)
(* who stops waiting early gets a part of what the others get, and what is *)
(* cached is all of it.                                                    *)
ResultsBelongToTheLink ==
  /\ \A w \in Calls : calls[w].pc = "returned" =>
       LET j == calls[w].job IN
       /\ j # NoJob => calls[w].link = job[j].link /\ calls[w].fields \subseteq job[j].fields
       /\ j = NoJob /\ calls[w].fields # {} =>
            \E k \in Calls : JobAt(k, "over") /\ job[k].link = calls[w].link
                             /\ job[k].fields = calls[w].fields
  /\ \A i \in 1..Len(cache) : \E k \in Calls :
       JobAt(k, "over") /\ job[k].link = cache[i].link /\ job[k].fields = cache[i].fields

(* Once Close has returned, no goroutine of the enricher is left and none  *)
(* starts: a call that came in at the same time either started before and  *)
(* was waited for, or was turned away.                                     *)
ClosedIsQuiet == phase = "closed" => Running = {}

(* Close returns, whoever else describes photos meanwhile. *)
CloseEnds == phase = "closing" ~> phase = "closed"
===============================================================================
