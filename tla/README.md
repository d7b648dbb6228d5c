# A verification of the Nuteco assistant

Nuteco AI answers the customers of a shop on Telegram and Instagram. It is one Node.js
process: webhooks bring messages in, a debouncer turns the messages of a customer into
batches, a handler answers a batch with the help of a language model, and SQLite keeps
what must outlive the process. This directory holds TLA+ models of what happens in which
order and of what is decided about a message, a reply or a price, TLC configurations that
check them, and TLAPS proofs.

Paths below are relative to the repository; `engine/X.ts` stands for `src/engine/X.ts`.

## The system

| Component | State it keeps | Operations | Interacts with |
|---|---|---|---|
| Webhook servers (`adapters/*/webhookRouter.ts`) | pieces of the body received, `rejectedForSize` | answer 405/401/413/200, then hand the parsed update on | platforms; dispatch, called after the 200 and not awaited |
| Parsers (`parseUpdate.ts`, `parseWebhookEvent.ts`) | none | raw update to `InboundMessage` or "unsupported" | dispatch |
| Dispatch (`composition.ts`) | locals of each call under way | `handleIncoming…Update`, `handleParsedUpdate`, `drainBatches`, `drainStuck` | debouncer (calls), handlers (awaits), working hours |
| Debouncer (`engine/MessageDebouncer.ts`) | per customer: `inFlight`, `inFlightMessageIds`, `pending`, `recentlyProcessed` | `admit`, `complete` | processed-message store (synchronous calls that may throw) |
| Processed-message store | table of message ids and times | `has`, `record` | SQLite |
| Conversation engine (`engine/ConversationEngine.ts`) | locals of one turn | `handleMessages`, `notifyManager` | repositories, sender, downloads, knowledge base, model: all awaited, all can fail |
| Conversation state | one row with a time to live: history, language, order draft, escalation flag | `get`, `save` | engine |
| Customer identity | one row, for ever | `recordContact` | engine |
| Instagram redirect (`instagramRedirectHandler.ts`) | none | one template reply, a lookup of the profile, one note to the manager | sender, Graph API |
| Staff hand-off (`composition.ts`) | none | logs | nothing |
| Senders, transports, retry | attempt counters | bubbles of a reply, attempts of a call | Bot API, Graph API |
| Gemini provider | attempt counters | `generateReply`, `checkHealth` | Gemini |
| Guardrail, price catalogue | none; the list is parsed anew for each reply | pure functions of a reply and the knowledge base | engine |
| Detectors, fallback messages, working hours | none | pure functions of a text or a time | engine, dispatch |
| Knowledge and prompt loaders | per directory, a cached text and its time | load | files the staff edit while the program runs |
| Configuration (`config/config.ts`) | none after the start | environment to configuration, or to a list of problems | start-up |
| Start-up checks, health check, shutdown (`index.ts`) | `isShuttingDown`, timers | run the checks, close, exit | everything |

### What is hard about it

* **Interleaving.** Every webhook starts a call of its own. A call is atomic until it
  awaits; it awaits its handler for seconds. Meanwhile other calls admit messages of
  the same customer, and Instagram puts messages of several customers into one POST.
  Nothing but the debouncer keeps two handlers from working on one customer, and the
  conversation row is read at the beginning of a turn and written as a whole at its end.
* **One release.** A queued message is released only by the `complete` of the batch in
  front of it. Every way out of a handler has to lead there.
* **Delivery.** The platforms deliver a message again, late and out of order. Four
  structures answer "do I know this message": the queue, the in-flight set, a bounded
  list in memory, and a table that is purged.
* **Failure.** Everything awaited can throw, SQLite included, at places where half of a
  batch has been recorded. The process can die and loses all but the database.
* **Prices.** A wrong price in a reply is the worst the program can do, and a right one
  withheld costs a sale. The check knows words, digits and lines, and names of products
  contain each other, prices are found inside prices, and a line can hold several of each.
* **The process.** A request is acknowledged before its work begins. A signal, a second
  one, a timer and the last connection race for the exit, and the work goes on meanwhile.
* **Promises.** Some answers promise a human. Then the manager must be told, with the
  phone number the customer gave several turns before.

### What makes each component correct

* Debouncer and store: a message is in one place at a time; nothing waits while nobody
  is going to complete; batches are in order; what was completed is refused for the
  retention period, whatever is evicted, purged or restarted (`BatchContract` says it
  without the data structures).
* Dispatch: one handler per customer, the debouncer's protocol is kept on every path, a
  message leaves its queue only into somebody's hands, accepted messages settle, staff
  and agent each get what is theirs.
* Engine: nothing unchecked is said or stored, the history is what the customer saw,
  nothing cold is remembered, the manager is sent what a promise needs, complete, every turn
  ends, and nobody is left without an answer.
* Transport: a reply is read from its beginning and whole when it is reported as sent; a
  request is tried a bounded number of times and not before the server wants it; a
  repetition has a lost answer behind it; every operation ends.
* Guardrail and catalogue: a price that is said is the one the list has for that product
  and packing, as far as the program can read these, and a reply in which all are is not
  withheld.
* Loader: an edit of the price list takes effect after a cache's life.
* Webhooks and parsers: one answer for each request whose target is a URL; nothing forged, cut off, too large or
  said by the bot itself is handled; no words of a customer are dropped.
* Redirect: staff hear of every lead.
* Process: it serves with everything it needs or says what is missing; a signal ends it;
  its exit code is true.

## Modules

```
BatchContract            what the debouncer promises: the life of one message
    ^ refined by
DebouncerProtocol        the debouncer with the caller its header comment prescribes
    | extends                ^ refined by
MessageDebouncer  <------ Dispatch    composition.ts: many calls under way at once
    | extends
ProcessedMessageStore    the table of finished messages

WorkingHours  <---------- Dispatch    whether staff or the agent answer

ConversationEngine       handleMessages, one action per await
    | extends
ConversationStore        the rows of conversation_state and customer_identity
KnowledgeLoader          the text the model is given, cached
HallucinationGuardrail   the verdict on a reply
    | extends
PriceCatalog             which product, packing and price a line is about

Service                  the process from its environment to its exit code
    | extends                        | instantiates
Configuration                       TelegramUpdate, InstagramEvent    the parsers
Webhook                  what a request is answered and hands on
InstagramRedirect        the work behind an Instagram delivery

Transport                one operation over HTTP: a reply, a download, a call of the model
    | extends
HttpCall                 callWithRetry, and what each client makes of a response
ReplyText                a text becomes bubbles, and bubbles become requests
```

The engine does not import `Transport`: its awaited calls succeed or fail, and
`Transport` shows what lies behind either, and that they settle.
`Service` ends where `Dispatch` begins: a Telegram message that was handed over is not
followed further, and its redirect takes every message for a batch, which `Dispatch`
refines. `MCDebouncerProtocol`, `MCDispatch`, `MCConversationEngine`, `MCTransport` and
`MCService` are the small instances. `DebouncerProtocolProofs` and `DispatchProofs`, which
share the lemmas of `BatchOrderProofs`, `EngineProofs`, and `PriceCatalogProofs`,
`TransportProofs` and `ServiceProofs`, which share `FlattenProofs`, hold the theorems.
Operators marked "Mutant of …" are wrong versions of a definition; they
stand beside it to show that the properties notice.

### ProcessedMessageStore and MessageDebouncer

`processedAt` is the table, `Never` being the absent row. `RecordAll` is a run of
`record` calls within one instant. The four queue variables are the fields of
`CustomerQueue`, as functions of the customer; a missing entry of the map is the idle,
empty queue `getOrCreateQueue` would put there. `pending` is a sequence because the
insertion order of the JavaScript `Map` decides ties of the stable sort. `admit` and
`complete` contain no `await`: each outcome is one atomic action (`AdmitDuplicate`,
`AdmitQueued`, `AdmitProcess`, `AdmitThrows`, `Complete`, `CompleteThrows`).
`CompleteThrows` lets the store fail before or after any row, INSERT and DELETE apart.
`complete` for a customer who never admitted anything throws in the code; no caller can
do that, and the action is left out.

### DebouncerProtocol

The debouncer with an ideal caller, any delivery of any message in any content at any
time, restarts, and a clock. `handed` is the batch the caller holds, `completedAt` a
history variable for the properties. A process killed between two rows of one
`complete` leaves what `CompleteFails` and then `Restart` leave, so that case is in the
run with `StoreMayFail = TRUE`. `BatchContract` is the abstract specification: a message
is new, waiting, handed or done, and may be forgotten only when it was done longer
than `Retention` ago. `ImplementsContract` is the refinement; `Phase` computes the
status of a message from queue, flight, memory and table.

### Dispatch

A task is one call of `handleIncomingTelegramUpdate` or `handleIncomingInstagramUpdate`.
Its `pc` is "admit" before the synchronous part, "handle" while it awaits a handler, and
"flush" inside `drainStuck`. Node.js runs one callback at a time, so a task that has
synchronous work left is the only one that moves (`MayRun`, `Quiet`). The staff hand-off
awaits nothing and counts as synchronous; `OffHoursMessageReachesAgent` shows that this
matters. The handler is chosen on arrival, as in the code, by `isWithinWorkingHours` of the
moment `now`, which only goes forward; a payload remembers whether staff were at their desks then, by the
independent rule `StaffAtDesk`. Handlers are abstract here:
they resolve, or (the engine only) reject. `Protocol` maps the tasks to the one caller
of `DebouncerProtocol`, so the debouncer's theorems hold for the program as long as no
write to the store fails.

### ConversationEngine and ConversationStore

`pc` names the call `handleMessages` is awaiting, and `turn` its local variables. A
batch is what its texts, files and cards amount to; a shared contact or location is a
"card", whose text is a sign and digits without words. A reply of the model has a text with words, sizes and prices; it may be truncated, or end
in `[ESCALATE]`. Two more fields are what the program cannot see: `right`, under which price
lists every price in it is right, and `backedBy`, under which lists it is as right as the
program can read it. `Checked` is the guardrail's verdict under each list, computed once,
because it depends on nothing that changes; `turn.knowledge` is the list this turn was
given, read through the cache of `KnowledgeLoader` at the call of the model. `Faults` names the calls that can fail; a failed bubble
fails the whole `sendReply`. The working state is kept by the numbers of the batches its
parts come from, so properties compare where things come from, not texts. `heard`,
`owed`, `crashed` and `told` are history the program does not keep. A promise is owed until
`notifyManager` has reached the manager or its one attempt has failed, after which it is
"lost" and only the log tells: the engine does not try again. `PromiseIsKept` says no more than
that the attempt is made. One
customer is enough: rows are per customer and `OneHandlerPerCustomer` shows that one
customer's turns do not overlap.

### PriceCatalog, HallucinationGuardrail and KnowledgeLoader

A text is a sequence of lines, a line a sequence of cells: several for a row of a Markdown
table, one for prose. A cell has words, sizes in grams and prices in thousands, in their
order. What regular expressions do to letters is kept where the verdict depends on it:
`StemOf` and `Excess` say how words begin with stems and by how many letters they go on;
`Within` that a number is also found at the end of a larger one; the unit of a size in which
patterns it is found: in Cyrillic letters it is a size for the price check and never a claim,
as "kg" or "g" it is both, as "gr" neither. The context window of a hundred characters is a number
of lines. Everything else is the algorithm: `parsePriceCatalog` folds over the lines with the
sizes of the current table, `mentionedEntries` prefers full names to rare stems,
`mostSpecific` drops a name another one extends, `sizesGoverning` pairs the n-th price of a
line with its n-th size, and `findMisattributedPrices` judges each claim at each place it
is found. The reference they are checked against does not read lines: a reply of
`MCConversationEngine` is written from quotes of product, packing and price, and `right` and
`backedBy` look the quotes up in the list the knowledge base was written from.

What the guardrail can be held to depends on how a reply is written, and this is the limit of
`OnlyCheckedTextIsSaid`. "gr" is the Uzbek unit `prompts/system_prompt.md` orders (lines
191-200), and `priceCatalog.ts:81` and `:209` do not read it, because a letter follows the "g";
nor does `hallucinationGuardrail.ts:32`. A line without a size is held to the prices of its
product, so a brand's name, "gr", and the price of another packing of that brand pass. An Uzbek
product name, which the same lines of the prompt order, is in no entry of the list, so
`findMisattributedPrices` abstains and any number of the knowledge base that is not marked
passes, the end of a price included. The run has such replies, `HoldsAsRead` says for each
spelling what it is held to, and the property claims that a price is right for its product and
packing only of names of the list with sizes in "кг", "гр", "г", "kg" or "g". No comment promises
more of the Uzbek spelling, so it is a hazard in `PROJECT.json` and not a finding.

`KnowledgeLoader` has the files and one entry of the cache. `Edit` is the staff. The prompt
goes through the same code; only that reading it may fail is modelled.

### Transport, HttpCall and ReplyText

`operation` is `sendReply` of a text, `downloadFile`, or `generateReply`. `pc` is "request"
while a `fetch` is awaited, "backoff" in the sleep of `callWithRetry`, "pause" in the one
between two chunks, "fetch" for the content of a file. Operations share no variable, so
one of them is the whole state. `chunk` and `attempt` are the loop variables; `Chunks`
are the bubbles of `splitIntoMessages` cut to the limit of the platform: `Paragraph` counts the
paragraphs up to a position, and `Bubble` is the set of characters of those that share a bubble.

The platform is a set of requests: `Serve` delivers one of them whenever it likes, so a
request whose sender has been told of a network error may still arrive, even after its
repetition and after later chunks. A response says "ok" only of what was delivered, 429
or another 4xx only of what was not, and a 5xx or no response nothing at all. A text
without a character is never delivered. For each response the three clients decide
differently: a body that is not JSON is an exception past the retry loop for Telegram, no
matter for Instagram, and an exception for Gemini only if the status is 2xx; the wait
of a 429 is read by Telegram as it stands, by Gemini up to a cap, and by Instagram not.
A character of a text is its own position, so that order and loss are visible.

The model shows one more thing that is not a finding, as no comment promises otherwise:
an answer that is not JSON, which is what a gateway in front of the Bot API gives with its
5xx, ends a call to Telegram at its first attempt.

### Service, Webhook, Configuration and InstagramRedirect

`life` is how far `main` has come: reading its configuration, making its checks, up, or
exited. `env` and `broken` are fixed before it starts: the settings, and the parts (files,
tokens, database, port) that are out of order. `Configuration` treats a setting as unset,
good, zero or malformed. Each check is a step; a signal may come between any two.

`exchange` is what the callbacks of a request keep of it, and `Webhook` has one operator for
each callback: `OnRequest` is the route table down to the installation of the body's
callbacks, `OnData` a piece of the body, `OnEnd` its end. A signature is the key it was made
with and the body it was made over, so a forged and a replaced body are both wrong.
`connection` is Node's side: a request comes over a new connection or, while the server is
closing, over one that was kept; clients stop and leave as they like. `server.close()` closes
idle connections and waits for the others. Between its callback and the exit the program
awaits only the synchronous close of the database, so `FinishShutdown` is one step.

Three ends are less tidy than one would like, and the properties say so. A request whose target
is no URL, `//` for one, makes `new URL` throw in the listener (`index.ts:57`), which nothing
catches: the process exits with 1, with no answer to it or to anybody else (`ArriveUnreadable`).
A database that cannot be closed is logged, and the process exits with 0 all the same, as
`tests/shutdown.test.ts` wants it; `db` is then "close failed". And a port that is taken ends the
process with its database open, where a failed check closes it first.

An early signal kills the process in `KilledEarly`. As the first process of a container, which
the Dockerfile makes it, it survives one without a handler: in the model that is a behaviour in
which the signal does not come.

A delivery's body is an object as the platform sends it, and the parsers are functions on
the fields that are there (`TelegramUpdate`, `InstagramEvent`). `RequestsAssumption` says what
those shapes are: an update with one message and one text or caption at most, a signed delivery
of entries that are lists of events, and no text of blanks only. `InstagramRedirect` works
through the messages of a delivery; its three requests each succeed or fail with the same
continuation, which is the point. Its mutant lets one of them throw.

## What the runs check

| Run | What it shows |
|---|---|
| `debouncer` | Types; `RememberedForRetention`; `ImplementsContract`. The store does not fail. |
| `debouncer_faults` | `FlightIsHeld`, `NoStrandedWork`, `OneSlotPerMessage`, `HandedInOrder`, `NothingFinishedWaits`, with two contents per message and writes that fail anywhere. |
| `dispatch` | `QueueHasACaller`, `FollowsProtocol` and the liveness property `AcceptedMessageSettles`: handlers that reject, reads that fail, crashes. |
| `dispatch_faults` | Types; `OneHandlerPerCustomer`, `OffHoursMessageReachesAgent`, `LeavesQueueOnlyForATask`, `NeverHandledAgain`: three tasks, failing reads and writes. |
| `engine` | Types; `OnlyCheckedTextIsSaid`, `HonestQuoteIsSaid`, `HistoryIsWhatWasSaid`, `NoColdContext`, `ContactPrecedesConversation`, `PromiseIsKept`, `HandoffIsComplete`, the action property `EditTakesEffect` and the liveness property `EveryCallEnds`: replies with right and wrong prices in every spelling the program reads differently, an edit of the list at any moment, every call can fail, and the process can die at every await. |
| `service` | `WebhookContract`, `StartIsAllOrNothing`, `ExitCodeTellsTheTruth` and the liveness properties `SignalEndsProcess` and `LeadReachesStaff`: every one and every two parts out of order, a database that may not close, two exchanges of nineteen kinds, one of which ends the process, two signals. |
| `transport` | Types; `ReadFromTheBeginning`, `ResolvedIsWhole`, `DuplicatesAreAccountedFor`, `WaitsAsAsked`, `ModelWaitIsBounded` and the liveness property `EveryOperationSettles`, with lost, late, refused, rate-limited and unreadable answers. |

Five runs show where the program differs from what its comments say:

* `dispatch_wedge`: two writes to the store that fail in a row leave a customer's queue
  in flight with nobody to complete it. `composition.ts` says that `drainStuck`
  guarantees an idle state "no matter what happens above"; it calls the same `complete`
  that has just thrown.
* `dispatch_hours`: a message that arrives in working hours behind a batch the agent is
  still answering is answered by the agent. `composition.ts` says the agent "does nothing
  so it can't talk over a human", a decision "made fresh on every update": it is made
  fresh, but a queued message goes to the handler of the batch in front of it.
* `engine_silence`: `sendTyping` is awaited outside any `try`. If it fails the turn
  rejects and the customer gets nothing. The engine's header says "the customer always
  gets a reply, never silence, and `handleMessages` always resolves normally".
* `engine_language`: a contact card has a text, so the language of the conversation is
  detected anew from a text without words and becomes Russian; a voice message after it
  gets its fallback in Russian. `StoredHistory.language` is documented as the language the
  conversation is held in, for exactly that voice message.
* `engine_quote`: the price guard looks for each price as a string of digits. In a summary
  of cashew paste at 50.000 and pistachio paste at 250.000 it finds the first price inside the
  second, on a line about pistachio, and withholds a reply in which both prices are right.
  `priceCatalog.ts` says "false escalations cost too" and looks at lines one by one so that
  an order summary can name "a different product per line". The `engine` run has no reply
  of this shape; there `HonestQuoteIsSaid` holds.

One more, visible in the statement of `HandoffIsComplete`: a failed `save` is said to
cost "this turn's history" and also costs the phone number shared in that turn.

### Bounds

* Debouncer: one customer with three messages, two of which share a sequence number, and
  one with a single message. Three messages are the fewest for a batch in flight with
  two others waiting, which ordering and ties need. `MaxRecentlyProcessed = 1`, so every
  second completion evicts. `Retention` is 2 (1 with faults) and the clock runs one unit past
  it, so that a row is recorded, reaches the cutoff, and passes it.
* Dispatch: one Telegram customer with two messages and two Instagram customers with one
  each, whose messages may share a POST. Two tasks are one that handles and one that
  queues behind it; the third, in `dispatch_faults`, works meanwhile for somebody else.
  The moments are the last millisecond before and the first after an hour at which staff come
  or go: Monday's opening in `dispatch`, `dispatch_hours` and `dispatch_wedge`, Friday's closing
  and Monday's opening in `dispatch_faults`. The tasks are symmetric; symmetry is used only in runs without liveness.
* Engine: three batches, a history of four turns, so that the third exchange drops the
  first; two attachments at most and batches of up to three files; `Ttl = 2` and a clock up
  to 2, so a row is read before, at and after its expiry.
  Two price lists, of which the second exchanges a price; `CacheTtl = 1`, so a cache is
  fresh, stale and reloaded within a run. The products are those whose names the code's
  comments worry about: a flour and the same flour "keto", a nut and an adjective that
  begins with it, two pastes. `Radius` is two lines. The replies are single quotes over
  two packings and five prices, one of them nobody's and the end of another, pairs of lines,
  one-line ladders, a name in another line, a product named by one word, and a fee that the
  knowledge base marks as not quotable. They are written with Cyrillic units, with "kg" and "g",
  and with "gr", and one product also under the Uzbek name that the list does not have. `owed` and `crashed` speak of the last batch only,
  which suffices because a batch ends before the next one starts.
* Service: two exchanges, so that one can be kept open, carry a request or stall while the
  other does something else; a body of one piece fits and one of three is too large at its
  second, with one more piece behind it. Two signals are the fewest that race.
* Transport: three attempts as in the code; the empty text, one that is cut in two by both
  platforms, and one of three paragraphs of which two bubbles are made, so a tail is
  folded. Two waits, one below and one above the cap; files below and above the limit.
  Nothing cuts behaviours off. The operation ends, so deadlock is not checked;
  `EveryOperationSettles` covers one that could not go on.
* `MaxClock`, `MaxCalls`, `MaxSignals` and the numbers of tasks and exchanges are the only
  bounds that cut behaviours off. The engine's and the service's runs stop when its batches are used up or the process has exited; that is
  why they do not check for deadlock, and `EveryCallEnds` and `SignalEndsProcess` cover
  what could not go on.

### Fairness

Customers, clock, working hours and crashes are under no obligation. A task that has
synchronous work left does it (weak fairness). A handler settles: every request is tried
a bounded number of times, and the HTTP client of Node.js gives up a request by itself.
Its continuation is served although other callbacks keep coming, because the event loop
serves them in turn; in the model their synchronous parts disable it again and again,
so `Dispatch` states strong fairness for it. The engine is one sequential call and needs
weak fairness of its steps only. A server's `retry_after` is obeyed without a cap on
Telegram, so "settles" may take long. `Transport` assumes weak fairness of its own steps,
that a sleep ends and a request is answered or given up; the platform delivers what it
likes. `Service` assumes only that the timer of the shutdown fires and that the redirect's
requests settle: clients, operator and platforms owe nothing, and that the process ends
follows from the timer alone.

## What is proved

Every invariant and action property that a run finds to hold, and both refinements, are stated
by a theorem that TLAPS has checked for every value of the constants, but for two:
`OnlyCheckedTextIsSaid` and `HonestQuoteIsSaid`, of which the guardrail's part is proved, for a
class of replies (`PriceCatalogProofs`). Liveness is left to the runs alone. The assumptions are those the modules name: types of the constants, a positive
number of attempts, limits that leave room for a character, an even `MAX_HISTORY_TURNS`,
requests shaped as the platforms shape them. Two hypotheses go beyond that and stand in
the theorems: a store that does not fail (`Remembered`, `Refinement`), and writes that do
not (`ReliableWrites`).

### The debouncer

`BatchOrderProofs` has lemmas on sequences. The heart is that `Rank` is a bijection on the
positions of a queue, so `SortBySequence` is a permutation, in order, without duplicates if the
queue has none; and that `Put`, `Trim` and `PushRecent` keep what they should.

`DebouncerProtocolProofs`: `TypeCorrect`, `FlightCorrect`, `NothingStranded`, `SlotsCorrect`,
`BatchesInOrder` and `WaitingIsUnfinished`, each `Spec => []…` of the property of the same run,
failing writes included. None is inductive alone. That a message is not twice in the queue
needs that a queued message is not in flight, which needs that in-flight ids are those of the
handed batch; that nothing finished waits needs all of these, because completing a batch adds
its ids to memory while the queue stays. The inductive invariant is their conjunction with the
facts on owners; `Invariance` proves it, one step per action and one case per conjunct the action
can disturb.

`Remembered`: a completed message is in the table for the retention period. The row of a
completed message is never older than its completion unless it was purged, and it is
purged only past the cutoff. `Refinement`: with a store that does not fail,
`Spec => ImplementsContract`. Initial states map to initial states; an admitted message maps to
`Accept` or a stutter, `CompleteBatch` to `Settle`, and what eviction and purge lose is shown to
be `Forgettable`.

### Dispatch

`DispatchProofs` is for any number of tasks, customers and messages, any updates and any
moments, with a store whose reads and writes may fail.

`OneHandlerPerCustomer` is not inductive: two tasks could hold batches of one customer and be
about to start a handler. The invariant says that the batch of a task is what its
customer's queue calls in flight (`BatchInv`), which gives one task to each customer; that what
waits is the customer's own, is not in flight and not recorded (`QueueInv`); that only one task is
in synchronous code (`OneMover`); and what a task knows of its handler (`TaskInv`). The last is what
`OffHoursAreTheAgents` rests on: a batch of the staff hand-off consists of messages that arrived
with staff at their desks, and as the hand-off awaits nothing, nothing can queue behind it.

`HandledOnce` (`NeverHandledAgain`) and `QueueIsEmptiedByItsTask` (`LeavesQueueOnlyForATask`) are
action properties of the same invariant. For the first it has to know how a write that fails half
way leaves the table: what the table knows of a message in a batch was written by the
`complete` of this very instant, whose task is in `drainStuck` (`BatchMemory`), and a message
completed within the retention period has its row (`TableMemory`).

`CallersArePresent` (`QueueHasACaller`) and `DispatchFollowsProtocol` (`FollowsProtocol`, the
refinement of `DebouncerProtocol`) are for `ReliableWrites`, that INSERT and DELETE do not fail;
reads may. The hypothesis is needed: `dispatch_wedge` is the counterexample without it. Each step
of a task maps to a step of the one caller or to a stutter, a crash to `Restart`.

`HoursAreKept`: the shifted calendar of `isWithinWorkingHours` is the rule `StaffAtDesk`, for every
moment since the epoch; the runs have a handful of moments around the boundaries. It is
linear arithmetic with constant divisors.

### The engine

`EngineProofs`: `TypeCorrect`, for any batches and replies, any life of a row and of the cache, any
limit on files and any set of calls that fail. The types alone are not inductive: that no more
files are attached than allowed needs that there is room for one while files are
downloaded, and that a turn has a number needs that a call has been started.

A second part first reduces the nineteen actions to the eleven kinds of step that differ
for rows, settled locals and history (`NextReduced`); then each invariant has one step per kind.

* `EditsTakeEffect`: what is cached is what is on disk, or was read before the last edit.
* `PromisesAreKept`: a promise is owed only while the notification is awaited, or after a crash;
  on every way out of a call that made one the notification is attempted.
* `ContactComesFirst`: the moment of the turn lies between the first and last contact from
  `recordContact` on, unless the store failed.
* `HandoffsAreComplete`: the stored cards are the last ones told, and once the state has been
  read the locals are too; a turn answered with the media fallback is the exception, and ends
  without a hand-off.
* `HistoriesAreWhatWasSaid` and `NoContextIsCold`. One more exchange keeps the order, the
  alternation and the gaps below `Ttl` (`ExtendedExchanges`), and so does dropping the oldest
  turns, because the bound is even (`LastExchanges`). The invariant adds that stored calls are
  older than the running one, that the last stored turn is as old as the row's life says, and that
  the history in the locals is still the stored one and was alive when the turn began.

### The guardrail

`PriceCatalogProofs` is about the verdict, for any price list, any reply and any words. A line
with a size the program reads for each of its prices is called a ladder; one product, one size
and one price are the shortest. `LadderJudged` says what `isMisattributed` amounts to there.

* `PassedPricesAreRight`: of a reply that `checkForUnverifiedNumbers` passes and that names a
  product, each price on a ladder is what a product of the line costs in the packing of the
  same position. The one other way to pass is visible in the statement: none of the products is
  sold in that packing, the list has no such packing at all, and the price is one of theirs.
* `RightPricesPass`: if every line is a ladder of right prices and no price ends another one, the
  price check withholds nothing. `engine_quote` shows that the second hypothesis is needed.

Neither says anything of a line with an unread size or of a name the list does not have. "A
product of the line" is what `mentionedEntries` finds; which it finds for a name is checked by
the run.

### The transports

`TransportProofs` is for every number of attempts, every text and limit, and every wait.

* `TypeCorrect`, `ReadInOrder`, `WaitsObserved`, `ModelWaitBounded`. That a chunk never
  arrives before its predecessor is not inductive: a straggler may arrive at any time. The
  invariant says of every request in transit that its predecessor was received, which holds
  because the sender goes on only after an acknowledgement, and the platform acknowledges what it
  has delivered. The bound on the waits follows from one cap for each attempt behind.
* `RepeatsAreAccountedFor` (`DuplicatesAreAccountedFor`) needs a second invariant, `Accounted`: some
  set of at most `lost` requests excuses all repetitions, so that the others are one for each
  chunk, and none for a chunk that has to be sent again. The set is not computed by any step; it is
  extended by the request whose answer is lost.
* `SentIsWhole` (`ResolvedIsWhole`). The state's part is short: behind every chunk that was
  passed is a request that was received. The other part has no state: the paragraphs of a text, its
  bubbles and the slices of a bubble are `Parts` of it, which hold all its characters, each part
  those behind the part in front of it; and parts of parts are parts (`PartsOfParts`).

### The service

`ServiceProofs` has three invariants. `LifeInv` says how far `main` has come and with it
which parts are open, which failures are known, and which request, signal or timer ended it:
`StartsWholeOrNotAtAll`, `ExitCodeIsTrue`.
`ExchangeInv` follows an exchange through its callbacks: what has been answered, and that what
was handed on is whole and genuine. `RedirectInv` adds that every message at work and every lead
was parsed from a delivery of a used exchange. Together they give `WebhooksKeepTheirContract`, with
lemmas on the two parsers: no event of the bot itself becomes a message, and none of a customer loses
its words. `DiagnosisIsExact` has no state: correcting what `problems` reports of an environment
makes it acceptable, and nothing on the list can be skipped.

### Induction, and what is out of reach

The induction theorems of the library take an operator as a parameter, which no prover at hand can
instantiate. `SetInduction` (`FlattenProofs`) states the principle for a set of numbers instead,
and is proved from the well-foundedness of `<`. From it follows what `FlattenSeq` makes of a
sequence of sequences (`FlattenProperties`): the elements of all, in their order. The number of a
paragraph is a cardinality and its facts follow from those on finite sets and, that no number is
left out, from `SetInduction` (`ParagraphProperties`). No module uses `RECURSIVE`; ranks stand in for a recursive sort.

Only model-checked are the liveness properties, `AcceptedMessageSettles`, `EveryCallEnds`,
`EveryOperationSettles`, `SignalEndsProcess` and `LeadReachesStaff`, as fairness and `ENABLED` are beyond
the prover; and `OnlyCheckedTextIsSaid` and `HonestQuoteIsSaid`: `parsePriceCatalog` folds over
the lines of a list, and what it computes for every text would have to be proved by an
induction for that fold.

## Not modelled

`PROJECT.json` gives the reason for each component. Logging, the reading of `.env`, the
scripts and the test doubles stay out: they change nothing the program reads later. SQLite is
taken to be atomic and durable for each statement, and its schema is created in one. The
text detectors are lists of word stems and the fallback messages texts; the engine uses what
they decide. In the guardrail, percentages, months and pieces are left out, and prices of a
million and more, whose digits are grouped in several ways. Updates that are no objects make a
parser throw; the call is over and nothing has changed. Of a reply that mixes scripts, a claim
in one is looked for in both. The clock only goes forward.

## Plan

Done: the debouncer with its contract, dispatch, the engine with guardrail, catalogue and
loader, the transports, the service with its webhooks, parsers, redirect and shutdown; a
theorem for each invariant and each action property of the runs that must pass, except the two
on prices; and what the price check does to a ladder.

Left to model: dispatch and engine composed, so that "one handler per customer" is used
and not assumed; the language detector as a function on words.

Left to prove: what `parsePriceCatalog` makes of a table and `mentionedEntries` of a name, which
would carry `PassedPricesAreRight` from the catalogue to the list itself and through the engine
to the history. Runs are few on purpose: a new module gets one run that must pass, and another
only for a disagreement with a comment or a test.
