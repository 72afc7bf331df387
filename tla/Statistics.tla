------------------------------ MODULE Statistics ------------------------------
(***************************************************************************)
(* The log of the bot's reactions and the reports of /stat (features/stats,*)
(* storage/db/response_log.go, handlers/stat).  Every reaction is inserted *)
(* by a goroutine of its own, some time later or, with an error that is    *)
(* only logged, never.                                                     *)
(* The encryption of ids, the users and the dates are left out: all events *)
(* are of the day that is asked about.                                     *)
(***************************************************************************)
EXTENDS Naturals, FiniteSets

VARIABLES
  incs,  \* events that their goroutine has not inserted, or could not insert
  log    \* the table response_log

stats == <<incs, log>>

NoExtra == "none"

(* Event of the n-th update; only generated texts have a strategy. *)
Event(n, chatID, op, extra) == [update |-> n, chat |-> chatID, type |-> op, extra |-> extra]

Inc(event) ==
  /\ incs' = incs \cup {event}
  /\ UNCHANGED log

Insert(event) ==
  /\ event \in incs
  /\ incs' = incs \ {event}
  /\ log' = log \cup {event}

StatisticsInit == incs = {} /\ log = {}
-------------------------------------------------------------------------------
Count(S, o) == Cardinality({e \in S : e.type = o})
CountGenerated(S, g) == Cardinality({e \in S : e.extra = g})

ByOpType(S) == [o \in {e.type : e \in S} |-> Count(S, o)]
ByGenType(S) == [g \in {e.extra : e \in S} \ {NoExtra} |-> CountGenerated(S, g)]

Of(c) == {e \in log : e.chat = c}
LoggedChats == {e.chat : e \in log}

TotalStat ==
  [opTypes |-> ByOpType(log), genTypes |-> ByGenType(log), chats |-> Cardinality(LoggedChats)]

(* The tables that GetDetailedStat joins: a chat has a row in the first    *)
(* for its events, in the second for its generated texts.                  *)
OpTypeStats == {[chat |-> c, stats |-> ByOpType(Of(c))] : c \in LoggedChats}
GenTypeStats ==
  {[chat |-> c, stats |-> ByGenType(Of(c))] : c \in {e.chat : e \in {f \in log : f.extra # NoExtra}}}

(* Mutant: the rows are joined whatever their chat. *)
DetailedStatUnmatched ==
  {[chat |-> o.chat, opTypes |-> o.stats, genTypes |-> g.stats] : o \in OpTypeStats, g \in GenTypeStats}

DetailedStat ==
  {[chat |-> r[1].chat, opTypes |-> r[1].stats, genTypes |-> r[2].stats] :
     r \in {p \in OpTypeStats \X GenTypeStats : p[1].chat = p[2].chat}}

(* A chat whose reactions of the day were all voices, stickers and the     *)
(* like has no row in the second table, and none in the join.              *)
Textless(c) == \A e \in Of(c) : e.extra = NoExtra

(* What /stat writes: a line for every kind of reaction it knows, with 0   *)
(* for those that the storage has not found.                               *)
Operations ==
  {"on_text", "on_sticker", "on_voice", "on_user_join", "on_user_left", "personal", "tagger", "on_photo"}
Strategies == {"by_list", "ai"}

Shown(f, x) == IF x \in DOMAIN f THEN f[x] ELSE 0
Lines(row) ==
  [operations |-> [o \in Operations |-> Shown(row.opTypes, o)],
   strategies |-> [g \in Strategies |-> Shown(row.genTypes, g)]]

TotalReport == Lines(TotalStat)
DetailedReport == {[chat |-> r.chat, lines |-> Lines(r)] : r \in DetailedStat}

(* The sum of the values of f: the marks there are when every number is    *)
(* written as so many marks.                                               *)
SumOf(f) == Cardinality(UNION {{x} \X (1..f[x]) : x \in DOMAIN f})

(* Each reaction of the log is counted on one line of the total and of the *)
(* report of its day, except that the chats without generated texts are    *)
(* missing from the latter; so is each generated text (response_log.go,    *)
(* stat.go).                                                               *)
ReportsAgree ==
  /\ SumOf(TotalReport.operations) = Cardinality(log)
  /\ \A o \in Operations :
       TotalReport.operations[o] =
         SumOf([r \in DetailedReport |-> r.lines.operations[o]])
           + Cardinality({e \in log : e.type = o /\ Textless(e.chat)})
  /\ \A g \in Strategies :
       TotalReport.strategies[g] = SumOf([r \in DetailedReport |-> r.lines.strategies[g]])
===============================================================================
