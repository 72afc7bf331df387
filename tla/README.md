# ToxicBot in TLA+

ToxicBot is a Telegram group bot: it insults whoever writes too much, pings
members on a timer, reacts to photos, voices, stickers, reactions, joins and
departures, and keeps a history of each chat for the language model that
writes its replies. This directory holds specifications of its stateful parts,
their TLC instances, and proofs checked by TLAPS. Paths below are relative to
`src/`.

## The system and its parts

One process. `cmd/main.go` wires everything; telebot polls Telegram and, since
`Synchronous` is off, runs the handlers of each update in goroutines of their
own, so updates are handled in any order and at the same time.

| part | state | operations | who calls it | what is hard |
|---|---|---|---|---|
| Tagger, `internal/handlers/tagger` | per chat: the job token, the epoch counters; one heap of jobs; members in the registry | message, join, departure, bot removed; the sender's attempts; start | telebot goroutines, one sender goroutine | `getChatMember` is awaited outside the lock, so its answer is old news; a chat empties and fills during an attempt; restarts |
| Tagger registry, `internal/features/taggerusers`, `internal/infrastructure/storage/db/tagger_users.go` | two maps over a table | Add, Remove, RemoveChat, New | Tagger | table and memory must agree when a write fails or the process dies |
| Chat history, `internal/features/chathistory`, `.../db/chat_history.go` | per chat: a bounded list of entries, a `loaded` flag, a row in a table | Add, AddAll, AddReaction, Get | every handler | lazy load that may fail, save that may fail, duplicates, reactions to messages no longer held |
| Poller, `internal/infrastructure/telegram` + `internal/handlers/on_reaction` | offset, attempts of the current reaction | Poll, deliver, retry, stop | telebot | at-least-once fetch, exactly-once handling, retries, stop in the middle |
| Chat settings, `internal/features/chatsettings`, `.../db/chat_settings.go` | cache with expiry over a table | Get, Upsert, Reset | every handler, settings menu | a reader fills the cache with what a writer has just replaced |
| Settings commands, `internal/handlers/settings` | none | `/settings` and its forms | telebot goroutines | rights that Telegram is asked for before the change |
| Bulling, `internal/handlers/bulling` | per chat and user: times of messages, end of the cooldown | Handle | telebot goroutines | checks and updates in separate sections |
| Link context, `internal/features/linkcontext` | jobs shared by key, LRU and expiring caches, token buckets, vision slots | Enrich, Close | bulling, photo | sharing, cancellation, limits, shutdown |
| Link preview loader, `internal/infrastructure/linkpreview` | slots | Page, Image | link context | redirects to where no request may go, slots on every error path, pages that end anywhere |
| Dispatch, `internal/handlers/handlers.go`, `cmd/main.go` | none | fan-out of one update | telebot | errors and panics of goroutines |
| Photo reactions, `internal/handlers/on_photo` | claimed albums | Handle | telebot goroutines | albums arrive as several updates at the same time; a claim ends by the clock; what a failure leaves in the history |
| Voices, stickers, greetings, farewells, personal phrases, `internal/handlers/on_voice`, `on_sticker`, `on_user_join`, `on_user_left`, `personal` | pools read from sheets | Handle, refresh | telebot goroutines, one updater each | refresh against use; a lock held through requests |
| Statistics, `internal/features/stats`, `.../db/response_log.go`, `internal/handlers/stat` | a log | Inc, two reports | every handler; an administrator | inserts in goroutines of their own; reports that join what has no partner |
| Message generation, `internal/features/message` | pool of phrases, examples of the prompt | texts for answers, photos and pings; reload | bulling, photo, tagger | what a prompt tells of a history that came out of order, and what it leaves out |
| Language model clients, `internal/infrastructure/ai` | gigachat's token and its gate | describe a photo; chat | generation, vision | callers that wait for the token one of them asks for; retries |
| Phrase filter, sheets, `pkg/`, `tools/` | none | text, reads, logging, offline commands | - | - |

## What is modelled, and in which order

Membership and pings first (the longest-running state and the subtlest
protocol), then the history and the delivery of updates (what is lost is lost for
good), then the caches and limits that goroutines share, then the reactions.

1. `Tagger`, `TaggerTelegram`, `TaggerUsers` over `MemberTable`, with `Membership` for the
   chats and users they share; `TaggerProofs`.
2. `ChatHistory` over `HistoryWindow`, `ChatHistoryProofs`.
3. `Poller`, and `ReactionIntake`, which composes it with `ChatHistory`; `PollerProofs`
   for both.
4. `ChatSettings`, with the command `/settings`, and `ChatSettingsProofs`.
5. `Bulling`, over the abstract history, and `BullingProofs`.
6. `LinkContext`, with the vision slots that photos share; `LinkContextProofs`.
7. `Dispatch`, `Pools`, `Photos` and `Statistics`, composed by `Reactions`; `ReactionsProofs`.
8. `PreviewURL` and `HeadParser` under `LinkPreview`, whose proofs are in `LinkContextProofs`.
9. `Prompt` and `GigaChat` under `Generation`; `GenerationProofs`.

Left for later: a run of `LinkContext` over `LinkPreview`, whose steps `LoadPage`,
`LoadImage` and `Redirect` stand for one load of it now.

The project keeps its runs few: one per module or composition where the
properties are about the same instance, safety, action and liveness properties
together. `tagger`, for one, would be the same state graph explored again for each.

## Modules and the code

In all modules one action is one step that other goroutines cannot see into: a
section under a mutex, one statement on a table, one request to Telegram or a
language model, one channel operation. What a goroutine keeps between two such
steps is in the record of its `pc`. Faults are a constant of most modules, so
that an instance names what may go wrong in it. Definitions whose comment
starts with "Mutant:" are faulty versions of the definition that follows; no
specification uses them. They show that a property notices the fault.

`Tagger` - `internal/handlers/tagger`. `known` is the registry, `jobs` and
`queue` the tokens and the heap, `epochs` the counters of `chatEpoch`, `slots`
the handler goroutines (`Handle`, `OnJoinHandler`, `OnLeftHandler` and the
`observe` they start), `attempt` the sender's `tick`. `HandleMessage`,
`HandleJoin`/`AddJoined`, `HandleLeft`, `HandleBotRemoved` are the handlers up to
where they leave the lock; `BeginObserve`, `MemberAnswers`, `ObserveFinish` the
check of a user with Telegram; `TakeDue` to `FinishJob` the attempt;
`Restart` a crash and `scheduleKnownChats`. Which job is due first is left open
(the intervals are random). `Fresh` replaces a counter's next value by one that
nobody holds: counters are only compared for equality, so this keeps the states
finite without a bound. `outlived` is a history variable.

`TaggerTelegram` adds who really is in a chat (`inChat`), the event of each move
(`log`) and the calls of its handler that have not begun (`calls`). telebot calls the
join handler once for each user that a join message names, and each of these calls
adds all of them (`on_join.go:47`), so a join leaves as many calls as it has users.
Calls begin in any order: those for a join may run after the later departure was
handled, and before, between and after those for other users. A restart loses the
calls that wait, and Telegram sends again what was not confirmed
(`RestartAmongEvents`). `told` is a history variable: whether the last handled event
about a user says what is still true. After a call for an older join has brought
back who has left since, it is false, and nothing is claimed of that user until the
next event.

`TaggerUsers` (`RegistrySpec`) is the registry, its two maps and its
table: a change is two steps, the statement (`AddBegins`, ...) and what is done in
memory (`AddEnds`, ...), and `RegistryRestart` reads the lists in the order of the ids
(`InOrder`). `MemberTable` says what a caller may rely on: a call begins, ends with
all of its effect, or the process dies in it and it has all or none; a call that
fails is as if never begun. `ImplementsTable` refines it, not with the database table
but with what `Users` and `Author` answer from memory (`Seen`): the two maps with their
lists and the swap removal are one table, also in the middle of a call, when the
database is ahead of them. `MemoryIsTheTable` is why `Tagger` may take the registry for its table.

`ChatHistory` - `internal/features/chathistory`. `data`, `loaded` and `table` are
the buffer's two maps and the table; `Add`, `AddAll`, `AddReaction`, `Get` whole
operations (one mutex is held through each, the database included).
`ImplementsWindow` refines `HistoryWindow`: with a store that can be read nobody
sees when a chat is read in. Failing loads are left to `ReactionIntake`.

`Poller` - `internal/infrastructure/telegram` and `internal/handlers/on_reaction`.
`pc` is where `Poll` stands: in a request, its pause, at an update of the batch,
in the history's call, at telebot's channel. `forgotten` is what Telegram has
been told is confirmed. `Request` and `Answer` are two steps, since a lost
answer has confirmed all the same.

`ReactionIntake` composes them: `HistoryRecords` is `RecordReaction` of the poller
and `AddReaction` of the buffer in one step, `HistoryRefuses` a retry or a giving up
because the chat cannot be read; `HandlerStarts`, `HandlerReads` and
`HandlerRecords` are the goroutines of ordinary updates, which use the same
buffer; `ProcessRestarts` ends them all and forgets both memories at once.

`ChatSettings` - `internal/features/chatsettings`, `internal/handlers/settings`.
A read is `BeginRead`, `Evict`, `Get`, `Store`: the cache's single operations. A
command is `SendCommand`, `MemberAnswers`, then `Show`, `Explain`, `Set` or
`Reset`, then `Invalidate`. Values are told apart as far as the parsers do.

`Bulling` - `internal/handlers/bulling`. `cooldown` and `msgCount` are the
handler's maps; a message goes through `ReadSettings`, `CheckCooldown`,
`CountMessage`, then `Skip` or `SetCooldown`, `Notify`, `SendReply` and
`RecordExchange` or `RecordUnanswered`. Any time may pass between two of these,
which stands for the enricher, the generator and the pause.

`LinkContext` - `internal/features/linkcontext`. A call of `Enrich` is `HitReturns`,
`Share`, `Refuse`, `Start` or `ClosedReturns` (one section of `start`), and `Return` when it
stops waiting. `JobStep` is `run`: the page, the image, the slot, the description,
`Finish`. `visionSlots` are those that jobs and photos share. A budget is a bucket of tokens that `Refill` fills at any time; an
entry of the cache may expire at any time, which covers its three lifetimes.

`Dispatch` - `internal/handlers/handlers.go`. `task` says where each goroutine of an
update stands; `Start` starts one for each handler in `Routes` (the wiring in
`cmd/main.go`), `Return` joins their errors when all have ended, and `Panic` ends the
process, since nothing recovers there. `Pools` adds voices, stickers, greetings,
farewells and personal phrases, each step by step (`VoiceLocks` to
`VoiceRecordsReply`, and so on), with the updaters that replace what they draw
from. A pool is its length and which reading it is of. `Photos` adds the claim of
an album and its end by the clock (`MinutePasses`), `Statistics` the log and the two
reports; `Reactions` composes them over the abstract history.

`PreviewURL` - `linkpreview/url.go`: which URLs and addresses may be asked. An
address is its family and the reserved blocks it lies in, a name its labels.
`HeadParser` - `html.go`: the tokens of a head, one `Consume` each, up to where it
stops, and what is returned when reading fails or the limit is met. `LinkPreview` -
`loader.go`, `image.go` (`LoaderSpec`): a load, which stands at a `stage`, is `Fetch`, then
for each hop `TakeSlot`, `Lookup` or `Resolve`, `Charge`, `Send`, the answer, and
`Redirected`, `BodyFound` or `Refused`; at the end `ReadPage` or `ReadImage`. What name and web servers answer is the `world`.

`Prompt` - `message/history_prompt.go`, `tag_prompt.go`, `reaction_prompt.go`: how a
history becomes the messages sent to the model. An entry is who wrote it, when,
to what it replies, and whether the filter lets it through; a turn is what it
shows of that. `GigaChat` - `ai/gigachat`: the token, its gate, the upload, the tries.
`Generation` - `message/message.go`: `Decide` takes the model or the list, `SendPrompt`
and `ModelAnswers` the model, `TakePhrase` the list, `ReloadMessages` replaces pool and
examples. A photo goes through `GigaChat` first.

## Runs

| run | instance | what it shows |
|---|---|---|
| `tagger` | 1 chat, a user and a bot, 1 handler goroutine and the sender; tables fail, crashes; fair | one job per chat, nothing survives the emptying of a chat, every chat is attempted again and again |
| `tagger_telegram` | 1 chat, a user and a bot, 2 moves, 1 goroutine, crashes | whoever an event told of stays known, or unknown, whatever late answers, calls for others and redelivered events come after |
| `tagger_tag024` | 1 chat, 2 users, no faults | violated: a chat emptied after the last check of an attempt is still pinged (finding) |
| `tagger_users` | 2 chats, 3 users, 2 captions; failing writes, crashes | memory is the table; what is read of it refines `MemberTable` |
| `history_window` | 1 chat, 2 messages, 1 reaction, a window of 3, an older longer table; failing saves, crashes | refines `HistoryWindow` |
| `intake` | 3 updates of 3 kinds, channel of 1, a window of 2, an older longer table, all faults of both; fair | nothing is confirmed unhandled; once, in order, in the end; reactions recorded once, with their target; no history that was read is shortened, and none by a reaction; stops end |
| `settings` | 1 chat, 2 settings, 2 goroutines, 3 changes, all faults; fair | stale entries come from one race only and end; changes are by right |
| `bulling` | 3 messages of a user in 2 chats, a clock of 3, all faults | the cooldown and the threshold hold, history is complete |
| `link_context` | 2 calls, 2 links of a host, 1 photo; all limits 1; fair | jobs are shared, limits kept, results belong to their links, `Close` ends |
| `reactions` | 2 updates at the same time, of five pairs of kinds, pools of 0 or 1, all faults; fair | the history tells what was sent, an album is answered once per claim, every update returns, only the greetings can change under a reader, both reports count every reaction |
| `link_preview` | up to 3 loads, 2 slots, redirects to everywhere; every head of up to 3 tokens, nested ones of 4; images at the limits | no request goes where it may not, slots and charges are right, what is read is what the page says |
| `generation` | every history of up to 3 of 8 entries, answers, pings and photos; 2 photos that share a token | the prompt tells the history, the token is asked for once and used while it lasts |

The bounds. The tagger's chats share nothing but the lock, the sender and the
queue, and the sender takes one job at a time; a second chat only adds
attempts between two of the first, which the model allows anyway (`TakeDue` needs
no reason to be late). Two users are needed where the removal of one must not
empty the chat; one goroutine with the sender and any number of events that need
no goroutine give every pair of interleaved sections. In `tagger_telegram` two moves
are enough for a join of both users, with its two calls, and a departure: for a call
that comes late, comes twice or comes after the move that followed; one of the two is a bot,
who is never added by what it writes. The proofs remove
these bounds for what they cover. A window of 3 is the smallest in which an
entry is added to a full window, a pair is added to an almost full one, and a
target is pushed out; the longer table is the case of a window made smaller
since. Three updates are one under way, one behind it and one fetched again.
Three changes of the settings give a change that races with a read, another
that heals it, and one more. Three messages are two that are counted and one
that is silenced; a clock of 3 passes the cooldown and the threshold of 1; a
history window of 3 holds one exchange and half of another. With
two calls and a cache of one entry a link is evicted, asked for again, refused
because of the other's job, and shared.

Handlers meet in pairs: two photos of an album, two voices around a refresh, a
sticker and a farewell in one chat, a greeting and a personal phrase, a photo
and a farewell in different chats (for the reports). No property relates three
updates. Pools of 0 and 1 have every way to become shorter or empty. Three loads of
three hosts meet at two slots, so that one waits; three redirects are one more than it takes to
leave a host and come back, and the limit is reached. A head of three tokens has
every token inside or after every pair of others; longer ones nest templates and
titles. Of the eight entries three make every order of a message, its answer
and a reaction to it, with equal times, a forgotten target and authors of one
name. `MaxReloads` is 1: a reload before, between or after the two steps that read.

Fairness. Goroutines run whenever they can (Go schedules them), so their steps
are weakly fair. `TakeDue` of each chat is strongly fair: an interval is finite
and the heap yields the job with the earliest time, so a job that is due again
and again, while the sender is between jobs, is taken in the end. A crash draws the
intervals anew, so one that comes again and again may put the attempt off for ever;
`EveryKnownChatAttempted` is claimed of a process that stays alive at last. In `Poller`
the network is strongly fair towards an answer with all updates
(`AnswerWithAll`): without it nothing could be delivered; `EveryUpdateHandled`
excludes crashes for ever. In `ChatSettings` time passes (`Expire`). In
`LinkContext` every request ends, by its own deadline at the latest
(`enrichmentTimeout`, `visionTimeout`), and a chain of redirects is limited, so
`LoadFails` is among the steps that are taken; photos may come for ever, which is
why a job that waits for a slot needs its own deadline for `CloseEnds`.

In `ReactionIntake` the fairness of `Poller` holds, with the handlers' goroutines
added. In `Reactions` goroutines run, requests end, and the writer of a pool gets
the lock that its readers have left, as `sync.RWMutex` guarantees; nothing makes an
update come. `LinkPreview` and `Generation` state safety only.

Deadlock is checked, except in `bulling`, `link_context`, `link_preview` and `generation`,
which stop when all messages or calls are handled, and in `reactions`, which may
also stop by a panic.

## Proofs

`TaggerProofs` proves, for any set of chats, users and bots, any finite number
of handler goroutines and any faults:

- `TypeCorrect`: `Spec => []TypeOK`.
- `AlwaysOneJobPerChat`: `Spec => []OneJobPerChat`. The inductive invariant is
  `Inv`: the two properties and `TokenOK` (the sender never holds `NoJob`), without
  which a chat without a job would pass for the one whose job is with the sender.
  The heart is `NewTokenIsNew`: a token given to a chat that got members
  again differs from the one an attempt of its former life still holds, so that
  attempt's `FinishJob` finds its job gone. It rests on `FreshIsFresh`, and that on
  the finiteness of what is held (`SnapshotStampsFinite`).
- `EmptiedChatIsLeftAlone`: `Spec => EmptiedChatStartsAfresh`. The invariant
  `OutlivedInv` says of every check that outlived its chat that the count of
  removals is no longer the one it began with, and that the count of arrivals is
  not either once the chat has members again; and of such an attempt that its job
  is not the chat's. It is preserved because `MarkRemoved` and `MarkPresent`
  choose stamps outside `Snapshots` and `ForgetChat` keeps the epochs; it makes
  `Outdates` refuse what such a check or attempt found, in either direction.

- `MembersAreNeverForgotten` and `GhostsNeverReturn`: `TSpec => []NoForgottenMember` and
  `TSpec => []NoGhostMember`, for `TaggerTelegram`, any number of moves, of calls for
  each and any order of them. What Telegram said of a user may be
  outdated when it is used; `AnswersHold` says what it is worth then. A "gone" whose
  arrivals' stamp is still the chat's is not about a member whom an event has rightly
  told of, and a "present" whose removals' stamp is, is not about one who was rightly
  told to be gone. It is preserved because every handled event changes the stamp that
  the other direction looks at (`StampsMove`, `JoinsAreNews`, `DeparturesAreNews`), and
  because a call that tells the wrong thing, an older join's after a departure, leaves
  `told` false. Nothing is assumed of the order of the calls or of their number.
- `MemoryIsAlwaysTheTable`: `RegistrySpec => []MemoryIsTheTable`, for `TaggerUsers`. Between
  two changes table and memory agree; while a change holds the lock the table is ahead
  by just that change (`AheadByAdd`, `AheadByRemove`, `AheadByRemoveChat`), and the lists are
  those of the map in memory all the time (`Listed`). The lemmas are about the three
  ways a list is built: `AppendLists`, `SwapRemoveLists`, and `InOrderLists` for a restart,
  which rests on the ranks of finitely many ids being as many as they are.
- `RegistryIsATable`: `RegistrySpec => ImplementsTable`. What is shown is memory
  (`SeenIsMemory`), while the statement of a call has run already and the table is ahead by
  what the call will have done (`TableIsAhead`). The statement is the abstract beginning
  or, if it fails, nothing (`NothingIsShown`); the change of the two maps, or the restart
  that reads the table, is the abstract end of the call (`TableIsShown`).

The assumptions are those of the modules: finitely many slots, the sender is not
one of them, bots are users, `NoUser` is not; for the registry, ids are finitely many
natural numbers (`UserIdsAssumption`).

`BullingProofs` proves, for any chats and users, finitely many messages, any
thresholds, cooldown, history window and faults:

- `TypeCorrect`: `Spec => []TypeOK`.
- `AlwaysQuietDuringCooldown`: `Spec => []QuietDuringCooldown`. The invariant adds
  `CooldownCovers`: a reaction whose cooldown is not over is still covered by the
  entry of its chat and user. `CheckCooldown` deletes an entry only once it is
  over, and `SetCooldown` only moves it later, since no reaction is of the future.
  `HotIsCooling` carries that from the check to the count: a handler that looked
  while a reaction was fresh knows it.
- `OnlyTheBusyAreAnswered`: `Spec => OnlyTheBusyAreBothered`. The invariant
  `CountsOwn` says that a counter holds only messages that have come, of its own
  chat and user; what `CountMessage` counts is then a subset of the finite set the
  property speaks of.
- `HistoryStaysComplete`: `Spec => []HistoryIsComplete`. The invariant `HistoryInv` keeps
  two things: what a history says of a handled message is right (`Complete`: once, its
  reply right behind it, there at all while the window is not full), and it says
  nothing of one that was not handled or is of another chat (`TellsOfHandled`).
  Without the second an exchange that is recorded might meet an earlier mention of
  itself. `LastOfIsTheEnd` and `LastOfKeeps` say what the window does to such a history.

The assumptions are those of the module: finitely many messages, natural
thresholds and bounds, at least one message needed to provoke the bot. The clock
is bounded by `MaxTime`, which is arbitrary.

`PollerProofs` proves, for any finite sequence of updates of any kinds, any channel,
number of attempts, bound on the pending updates and faults:

- `NoneIsLost`: `IntakeSpec => []ConfirmedWasHandled`. The invariant says that a batch
  has no gap and begins at the expected update or below it (`BatchInOrder`), and
  that everything below the offset was handled, but for a reaction that a stop
  has interrupted (`AllBelowIsHandled`); the next request then confirms no more.
- `NoneIsRepeated`: `IntakeSpec => []HandedOnceInOrder`. What was handed on lies below
  the expected update (`HandedIsBelow`), so that an update which comes again is
  passed over.
- `NoneIsTriedForever`: `IntakeSpec => []AttemptsAreLimited`, from `AttemptsAreCounted`: the
  count is of the failures of the expected update since it became expected.
- `IntakeIsPolling`: `IntakeSpec => Spec`. The invariant is proved for the poller
  alone; what the history and the handlers add changes none of its variables, or
  is one of its own choices, so that the composition inherits all three.

`ChatHistoryProofs` proves, for any chats, messages, reactions, window, faults and stored
histories that the same program wrote:

- `NeverTwice`, `TargetIsKnown` and `HistoryIsKept`: what `ReactionIntake` claims of the
  history, for the buffer alone. The invariant `HInv` says that every history, in
  memory and in the table, is good, and that what was read of a chat begins with
  what is saved of it unless the window is full. The second part is what
  `AddReaction` rests on when it saves the list in memory over the one in the table;
  `AddAll` keeps it because it marks a chat as read only when the load succeeded.
- `HistoryIsAWindow`: `HistorySpec => ImplementsWindow` if loads do not fail. It takes
  `UnreadIsEmpty` besides: a chat that was not read has nothing in memory, so that
  reading it in changes nothing that is shown (`ReadingIsHidden`).

`PollerProofs` goes on with the composition, for any updates, targets, window and
faults of both. `IntakeIsHistory`: `IntakeSpec => H!HistorySpec`, the channel and the
goroutines hold only updates, by `Handlers`. From that and the invariant of the history
follow `IntakeNeverTwice`, `IntakeKnowsTargets` and `IntakeKeepsHistory`, the three
properties of the run. `SameHistory` relates the instance of `ChatHistory` to the one
of its proofs.

`GenerationProofs` proves, for any calls, retries, pools and histories,

- `TokenIsSharedAlways`: `Spec => []TokenIsShared`. The gate is held by the one call that
  asks (`GateIsHeld`), who found no token and gets none from another (`TokensLapse`), so
  that tokens are never more than those that lapsed and one; who may still send
  has a try left (`TriesAreLeft`).
- `PromptAlwaysTellsTheHistory`: `Spec => []PromptTellsTheHistory`, for histories of any
  length, in any order and with messages recorded twice. The invariant is short:
  `PromptInv` says that a prompt is sent only in a call the model could answer, and is
  what `Completions` makes of what was copied. The work is in the chain from there to
  the property. `SortedExists` shows that a sorted list exists at all (the rank of an
  element, one more than the number of those before it, is a bijection to the places),
  since `Sorted` only chooses one. `Shows` then follows the entries through every
  rearrangement and filter: `p` says which source each of them is. `LeadingBotsGo`
  shows that what `withoutLeadingBotEntries` drops, going by places in the list, are
  the bot's messages earlier than every user's, which the property says by time.
  `SameLastUser` is where marking and filtering meet: they look for the last message of
  a user in two lists of different lengths, and neither of the two found is earlier.
  `DropBotKnows` and `ResolvedIsTold` show that a reaction keeps whose message it was
  to, even when that message is not sent with a photo.

Its assumptions are those of the modules: retries are a natural number, the calls that
are made are among `Calls`, what is answered is of a user, and `NamesItsMessages`: two
entries of a chat with one identifier are the same message, a reaction has none, and
what a reaction remembers of its target is what the history says of it, if it says
anything. Telegram numbers the messages of a chat, and `AddReaction` resolves the target
from the same history before it stores it.

`LinkContextProofs` proves, for any links, hosts, chats, budgets and limits and any
finite number of calls and photos:

- `AlwaysOneJobPerLink`: `Spec => []OneJobPerLink`. The invariant is `RunningIsListed`:
  the list holds the jobs that run, each under its own link. It holds through
  `Finish` because the end of a job and its leaving the list are one section, and
  through `Start` because a call that is new has no job yet (`NewHasNoJob`).
- `AlwaysQuietWhenClosed`: `Spec => []ClosedIsQuiet`.
- `LimitsAreAlwaysKept`: `Spec => []LimitsAreKept`. What `Start` counts, the links in the
  list, are as many as the jobs that run (`ListedAreRunning`, by the bijection between
  them); slots are counted in `Inv`; the length of the cache is in `CacheInv`.
- `ResultsAlwaysBelong`: `Spec => []ResultsBelongToTheLink`. `CacheInv`: the cache is a
  sequence of different links, each with what a finished job of that very link has
  found. `CallsInv`: who waits, waits for a job of its own link, and who has returned
  has a part of what that job found, or all that an earlier one did. Both hold through
  a job's steps because a job keeps its link and only finds more (`JobsGrow`), and
  through `Finish` and `HitReturns` by `WithoutIsRest` and `FrontIsFirst`, which say what
  moving an entry to the front and dropping the last one leave of the cache.

It also proves of the loader, for any world of answers, limits, pages and images:

- `RequestsAreAlwaysAllowed`: `LoaderSpec => []RequestsAreAllowed`. The five parts are not
  inductive together: a request goes to the address found two steps earlier, so
  `ResolvedIsAsked` says that it is one of the present target's public addresses all
  that while; `StaysSecure` says that a load which has once asked over https still has
  an https target, before it asks again; `HopsAreCounted` ties the requests made to the
  redirects followed, with one more from the request on; `RequestsAreFinite` is what
  counting them needs. `FollowedIsAllowed` says what `Redirected` lets through, out of
  the checks of `PreviewURL`. `QuietStep` has in one place what all steps share that
  neither charge nor send.
- `AlwaysReadsWhatThePageSays`: `LoaderSpec => []ReadsWhatThePageSays`. The property looks
  at a page as a whole: which text ends its head, which templates are open there,
  which tag is the first to give a field. The parser has a depth, the name of an
  element and four fields. `KnowsHead` says what these are after a number of tokens:
  it has ended exactly if one of them ends the head; each field is what the first
  of them gives (`FieldIsRight`); while it goes on, the depth is the greatest surplus
  of templates opened over those closed since any of the tokens (`DepthIsRight`), and
  the raw element is the one opened last and not closed (`RawIsRight`). `KnowsAtFirst`
  and `KnowsNext` show it token by token, out of one lemma for each kind of token
  (`EndTagFollows`, `TextFollows`, `StartTagFollows`) and one for each part of the state
  (`DepthFollows`, `RawFollows`, `FieldFollows`). `FromEachToTheNext` takes it to the end
  of a page of any length. The induction theorems of the library cannot be cited for
  that; instead, the numbers up to some one that fails would be mapped into
  themselves by their predecessors, without reaching the last, which no injection of
  a finite set does (`FS_Injection`). In the same way `AfterExists` shows that the
  recursive function in `Parsed` has its equation for every length.
  `ReadInv` then carries it from the response to the result of a load: no response of
  an earlier hop has status 200, and what is read is a body that the target gave.

The assumptions are those of the modules: finitely many loads are asked for
(`WorldsAssumption`), though there is no bound on how many, and a body is a finite
sequence of tokens with finitely many attributes, and of natural sizes.

`ReactionsProofs` proves, for any updates of any kinds, chats, lengths of the pools, albums
and faults, and for the goroutines of any number of updates:

- `HistoryAlwaysTells`: `Spec => []HistoryTellsWhatWasSent`. `HistoryInv` has one part for
  each direction: `Answered` says of a goroutine where it may stand when its answer is
  sent and when it is recorded; `Fits` says of an entry whose it is, that this
  goroutine has come so far, and what stands before it. `Once` and `SentByHandlers`
  complete it. Entries are only appended and goroutines only go on (`Extended`,
  `Onward`), so a step has to be looked at for the one goroutine that takes it, which
  is the only one of its update that records (`OneRecorder`).
- `OnlyGreetingsPanic`: `Spec => []OnlyGreetingsShrink`. `VoiceHeld`: from the choice of a voice
  on its goroutine is among the readers, and the index is within the pool, which
  nobody replaces meanwhile. `GreetingDrawn`: the index of a greeting is within the
  reading it was drawn from, which is the present one or the first of two.
- `AlbumsAnsweredOnce`: `Spec => []AlbumAnsweredOnce`. `AlbumInv` counts besides the photos that
  were answered those on their way to it (`Chosen`), and has each of them paid for by
  the claim that is held or by one that was given up (`PaidFor`).
- `ReportsAlwaysAgree`: `Spec => []ReportsAgree`. `LogInv`: the log is finite, and all that is
  in it or on its way is of a kind that the reports have a line for (`HandlersReport`).
  A sum is a number of marks (`SumOf`), so that `CountedByKey` can add up the sizes of
  the parts of a finite set without an induction; `RowsAreOfChats` says what the join
  yields.

Its assumptions name what the wiring and the sheets give: the handlers of personal
phrases have names of their own (`PersonsAssumption`), pools have natural lengths
(`LengthsAssumption`), and a free claim is not an update (`ClaimsAssumption`).

`ChatSettingsProofs` proves, for any chats, accounts, settings, goroutines and
faults, and any bound on the changes:

- `OnlyTheRaceOutdates`: `Spec => []OutdatedOnlyByRace`. With the types of what the
  goroutines hold it is inductive: a change leaves a goroutine that is yet to clear
  the cache (`ChangeStep`), clearing leaves nothing outdated (`CacheCleared`), and
  `Store` is the only other way into the cache (`StoreStep`).
- `AlwaysChangedByRight`: `Spec => ChangedByRight`, with `GrantedByRight`: whoever was let
  through was an administrator then, or speaks as the chat itself.

Only model-checked:

- liveness (`EveryKnownChatAttempted`, `EveryUpdateHandled`, `StopEnds`, `ChangesTakeEffect`,
  `CloseEnds`, `EveryUpdateReturns`), which is out of the prover's reach;
- `NothingSentAfterEmptying`, which does not hold (below).

`TypeOK` of `Bulling` is proved and not run any more.

## Where the code and its documents disagree

Found while modelling and shown by a run: TAG-024; `PROJECT.json` quotes it.
Visible in the models without a run of their own:

- `features/chathistory/history.go:60`: an `Add` after a failed load saves its one
  entry over the stored history, and `history.go:158`: a load that succeeds at last
  replaces what memory collected meanwhile; both against HIST-012 (`ChatHistory`,
  `AddAll` and `Read`). Reactions are refused instead. `SavedHistoryIsKept` shows that a
  history is shortened only by an `Add` to a chat that could not be read just then; the
  entries of memory that a late load replaces are covered by no property.
- `handlers/tagger/on_join.go:47`: a call of the join handler that runs after the later
  departure of one of its users makes this user a candidate again, and so does the join
  that Telegram sends once more after a restart, though a restart is not to bring
  back who has left (TAG-017, `openspec/specs/tagger/spec.md:113`). `NoGhostMember` claims nothing of such a user
  (`told`); the check before the next ping removes it.
- `handlers/bulling/bulling.go:117` and `:178`: when the settings cannot be read or the
  typing status fails, the message is neither answered nor recorded, though the
  history is to grow at any outcome; `HistoryIsComplete` excepts these (`dropped`) and no
  property catches them.
- `features/chatsettings/provider.go:107`: a read that began before a change may cache
  the old settings after it, against SET-004; `OutdatedOnlyByRace` shows that
  this is the only way and `ChangesTakeEffect` that it ends.
- `handlers/settings/settings.go:244`: NaN passes the bounds of a chance (SET-008)
  and is stored as NULL, which changes nothing; `Accepts` and `Column` model it.
- `handlers/bulling/bulling.go:122-132`: messages handled at the same time each see no
  cooldown and may each be answered; `QuietDuringCooldown` speaks of later ones only.
- `handlers/on_photo/on_photo.go:280`: the claim of an album ends a minute after its
  first photo; a later one is answered again, against PHOTO-004. `AlbumAnsweredOnce`
  counts one answer per claim.
- `handlers/on_voice/updater.go:27`, and the updaters of stickers, greetings, phrases
  (`features/message/message.go:176`) and nicknames: a timer that is never set again, so
  the pools are read a second time and no more, against STK-006 and MEMB-002.
- `storage/db/response_log.go`, `GetDetailedStat`: an inner join drops a chat with
  reactions of which none was a text; the report of a day (STAT-008) then says
  less than the total. `DetailedStat` models the join, and `ReportsAgree` excepts
  such chats.
- `handlers/on_user_join/greetings.go:58`: the greetings are read without their lock;
  a shorter list in between ends the process (`OnlyGreetingsShrink`).
- `handlers/personal/personal.go:85`: of the phrases only the first is ever sent, and
  an empty sheet panics (`PersonalChooses`).
- `features/message`: an empty answer that the model calls finished is sent as one;
  the marked message of a prompt is the latest of the history and may not be the
  one that is answered (`Prompt`, `LastUserMessageIndex`).
- `ai/gigachat/gigachat.go:147`: a token that the service revokes is used until its time
  is over (`TokenIsCached`).

## Not modelled

Texts: the wording of prompts, sanitising (`features/message/sanitize.go`), the limits
of length, the bytes and charsets of pages (and with them the first reading of a
head, in the prefix that tells the charset: if both readings see the same tokens it
changes nothing), decoding of images, the search for
the first link of a message (`telegram/linkextract`), which reactions are worth
recording. The phrase filter is regular expressions over text; `Generation` takes its
verdict as part of an entry. `GetMessageText` is called by nothing. Of deepseek only the
result counts, a text or an error: its retries are the SDK's. The length of random
intervals and pauses, and the `rand.Rand` that bulling's goroutines draw a pause from
without a lock. In `LinkContext` the eviction of idle or surplus buckets and the end
of the application's context without `Close`. In `Statistics` users, dates and the
encryption of ids. The construction of the parts at the start. Sheets, storage
helpers, logging, tracing, configuration and migrations are input and output;
`tools/` holds offline commands that are no part of the running bot.
