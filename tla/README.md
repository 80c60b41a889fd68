# Verification of the A2A Inspector

TLA+ specifications of the [A2A Inspector](../src/README.md): a Go backend that
talks to A2A agents on behalf of a browser UI, run locally for one user or
hosted for many. The modules model the parts of it whose correctness depends on
what happens at the same time or in which order, TLC checks them on small
instances, and TLAPS proves the most important invariants for all instances.
`PROJECT.json` lists the components, the runs, which source lines each
definition models, and the hazards the properties are for.

    tlc -workers 2 -config MCPool.cfg MCPool      # one run
    tlapm SessionsProofs.tla                      # one module's proofs

## The system

| Component | Source | State | Operations |
| --- | --- | --- | --- |
| Pool | `internal/server/pool.go` | objects with a count of holders, `closed` | `acquire`, release, `add` with limits, `remove`, `removeIf`, `close` |
| Sessions | `session.go`, `server.go` | a pool of sessions, quotas of clients, renewals, limiters | `apiSession`, `renew`, `startLocked`, `sweepLocked`, `closeAll` |
| Connections | `connections.go` | a pool of connections in each session, a `thread` in each | create, delete, `withConnection` |
| Conversations | `connections.go`, `messages.go`, `tasks.go` | `thread`: context and open task | `buildSend`, `reset`, `observe`, `settle` |
| Webhooks | `hooks.go` | webhooks with connection, task and `stale`; notifications | `create`, `forTask`, `bind`, `drop`, `move`, `configDeleted`, `handleHook` |
| Traffic log | `internal/traffic` | entries, bytes, subscribers | `add`, `update`, `finish`, `addFrame`, `makeRoom`, `Subscribe` |
| Traffic feed | `server/traffic.go`, `ui/src/traffic.ts` | the UI's list of entries | server-sent events, `trafficReducer` |
| Echo agents | `internal/serve` | the list of agents with placeholders, processes | `Start`, `Stop`, `Close` |
| Command | `inspector/command.go` | where `run` is | serve, Ctrl+C, shutdown |
| UI agents | `ui/src/App.tsx`, `agents.ts` | agents, their connections and chats | `connect`, `withConnection`, `send`, reducer |
| UI list | `App.tsx`, `catalog.ts`, `agents.ts` | the agents, what the browser saved of them | adding, fetching cards, importing, reload |
| UI settings | `settings.ts`, `Credentials.tsx` | settings with references to secrets | editing, connecting, losing the session, saving |
| UI chat | `ChatPanel.tsx`, `FormPart.tsx`, `a2a/form.ts` | the composer, open forms | files, sending, forms |
| UI tasks | `TasksPanel.tsx`, `a2a/tasks.ts`, `a2a/view.ts` | what is known of tasks | operations, subscriptions, configs |
| Notifications | `hooks.go`, `ui/src/notifications.ts` | a ring of notifications, subscribers | `add`, `subscribe`, reducer |
| Host agent | `internal/hostagent`, `server/host.go`, `ui/src/host.ts` | conversations, delegates, `busy` | turns and delegations, `sendToHost` |
| Card editor | `ui/src/editor`, `CardEditorPanel.tsx` | text, list of completions, checks | typing, completing, checking |
| Catalogs | `internal/catalog` | URLs claimed, counts | the concurrent walk over nested catalogs |
| Stream parsers | `traffic/sse.go`, `ui/src/sse.ts` | the unfinished line and event | `feed`, `end` |
| Egress, validation, cards, secrets, views | | none, or one goroutine's | |

**How they interact.** The UI calls the API over HTTP; each request is a
goroutine. In a hosted inspector `apiSession` finds or starts the session of its
cookie and holds it until the response is written, while `sweepSessions` ends
sessions on a timer and `Close` ends all. A session's requests acquire its
connections from a pool of the same kind. A connection's transport records every
exchange in the session's traffic log, from the goroutine of the request, from
the one that reads a streamed response and from the one that ends its context;
each UI that follows the log is one more goroutine, fed through a channel that
may be full. Results of calls and notifications from agents change the thread of
a connection, and what a message continues is read from it. A message with push
notifications creates a webhook before it is sent and binds or drops it by the
answer. Echo agents are child processes, started by requests and stopped by
requests or by the shutdown. In the UI an operation is an async function that
keeps the agent as it was when the user clicked and dispatches its results to
the list as it is by then; every answer of the API may also say that the session
is a new one, which empties the connections and marks stored secrets as lost.

**What is hard.** Objects are removed while others use them; a limit is checked
by one and exceeded by another; the last of two parties must clean up, and only
once; a cookie names a session that just ended, in several requests at once;
bytes are accounted by differences; a snapshot and the updates after it must
meet exactly; a process starts while the runner closes; a call is cut after the
agent did its part; a deletion runs next to a message that relies on what it
deletes; two operations of the UI connect at once, or connect again after a
session ended, while the user edits, stops or removes; cards and checks answer
out of order; a completion is applied to a text that changed meanwhile.
`PROJECT.json` lists these hazards at their lines.

**What makes each part correct.**

- *Pool:* an object in use is not destroyed, a removed one is, once, after its
  last holder; the limits hold; an object in use never makes room.
- *Sessions:* a client's sessions count in one quota and keep its cap, requests
  with one stale cookie share the new session, holds end with their requests,
  sessions in use end only of age, every request is answered, idle ones end.
- *Traffic:* the bytes are those of the entries and within the budget, an
  exchange that is over does not change, a view that read its updates is right.
- *Echo agents:* no process is forgotten, at most `maxAgents` run, failures free
  their slots, shutdown ends and leaves none.
- *Webhooks:* a webhook the agent has a config for stays, a message relies on a
  webhook only when the agent notifies it, and gets a new one only when none does.
- *UI agents:* no live connection is left behind, a message arrives once at most
  whatever is tried again, a new conversation stays new, what was stopped in time
  is never sent.
- *UI list:* no two entries for one card, the selection is in the list, list and
  card tell the same, an interface added by hand stays in use.
- *Settings:* a reference stands for what was typed in its own field.
- *Chat, tasks, host:* a file goes with one message, a form is over when it was
  answered, a feed that is live misses nothing, a subscription shown is open, the
  host agent is asked once.
- *Stream parser:* any split of a text gives the same events.
- *Editor:* a completion keeps the text JSON, adds no name twice, and the last
  check is of the text as it is.

## The modules

| Module | Models | Extends |
| --- | --- | --- |
| `Custody` | the promise of a pool: objects are held, removed and perish | |
| `Pool` | `pool.go`, goroutine by goroutine; implements `Custody` | |
| `Sessions` | `session.go` and the session handling of `server.go` | `Pool` |
| `TrafficLog` | `traffic/log.go`: the operations under `l.mu` | |
| `Traffic` | exchanges (`http.go`, `grpc.go`) and followers (`server/traffic.go`, `traffic.ts`) | `TrafficLog` |
| `Server` | the goroutines of both, scheduled fairly | `Sessions`, `Traffic` (instances) |
| `EchoRunner` | `internal/serve/serve.go` with its processes | |
| `Inspector` | `run` of `command.go` and its two `Close` | `EchoRunner` |
| `Thread` | `thread` of `connections.go` | |
| `Webhooks` | `hooks.go` with `messages.go`, `tasks.go` and the agent | `Thread` |
| `Settings` | `settings.ts` and how `catalog.ts` saves settings: operators | |
| `AgentStore` | `agentsReducer` of `agents.ts`: an operator for each action | `Settings` |
| `App` | the operations of `App.tsx` over an inspector's API | `AgentStore` |
| `AgentList` | the list over time: `App.tsx`, `catalog.ts`, `AgentList.tsx` | `AgentStore` |
| `SettingsForm` | the settings over time: `Credentials.tsx`, `connect` | `Settings` |
| `Payload` | `a2a/view.ts`, `a2a/tasks.ts`, `a2a/form.ts`: operators | |
| `ChatForm` | `ChatPanel.tsx`, `FormPart.tsx` | `AgentStore`, `Payload` |
| `Tasks` | `TasksPanel.tsx`, `notifications.ts`, task operations of `App.tsx` | `AgentStore`, `Payload` |
| `HostChat` | `host.ts`, `sendToHost`, `HostChat.tsx`, `HostPanel.tsx` | `AgentStore` |
| `EventStream` | `sse.ts` | |
| `JsonScan`, `CardEditor` | `editor/*.ts`, `CardEditorPanel.tsx` | |
| `Page` | the parts of the UI's page that share no state | the seven parts |
| `SessionsProofs` (with the pool's), `InspectorProofs`, `WebhooksProofs`, `AppProofs`, `TrafficProofs`, `PageProofs` | theorems | the module, `TLAPS` |
| `AgentListProofs` | the agent list's invariant, for `PageProofs` | `AgentList`, `SetLemmas` |
| `SetLemmas` | lemmas about finite sets and sums over them, for the proofs | |
| `MC*` | instances for TLC | the module |

### Pool and Custody

`items`, `refs`, `group` (what `poolLimit.same` compares), `usedBefore` (the
order of `lastUse`) and `closed` are the fields of `pool` and `poolEntry`;
`holding`, `toStop` and `toDestroy` are the local variables of goroutines. Every
critical section of `p.mu` is one action. The functions `removeLocked` returns
run after the unlock, so `Stop` and `Destroy` are steps of their own. The limits
are those of both pools: `Max` over all objects and `GroupMax` in a group. In
`Custody` an object has a stage (new, pooled, removed, gone) and a set of
holders, with no counts, locks or deferred calls; the refinement mapping is
`Stage(o)` and `Holders(o)`.

### Sessions

A caller is an API request's goroutine, or the sweep's. A critical section of
`ss.mu` is several actions, since the pool has its own lock: requests acquire
and release sessions, and `Close` closes the pool, between the steps of
`startLocked` and `sweepLocked`. Clocks appear as what the code concludes of
them: a session is `aged`, `idle`, a renewal `lapsed`; they may change at any
time, but `lastUse` is renewed by use. Tokens of limiters are counted, and
refilled at any time but between `allow` and the next step of the same request.
`owner` and `origin` are history, read by properties only. The egress limiter of
a quota is left out; `refilled` considers the start limiter alone.

### TrafficLog and Traffic

An entry has its connection, `done`, the number of its frames or messages and
the units of its size; `MaxBytes` is in these units. Masking and content are not
modelled, nor that a request may be too large to record whole, which marks its
entry `truncated` from the start. Subscribers have a filter and a queue (the
channel); `publish` gives up on a full one and closes it, and `handleTraffic`
answers with a reset. The UI's reducer is translated as it is, with the number of
entries it keeps.

### Server

`Server` states under which scheduling the sessions and the traffic feed get on,
and what they then promise. The two share no state, so a behaviour is one part's
and the other stays as it starts.

### EchoRunner and Inspector

Each `Start` is a goroutine through reserve, launch, await, a retry and the
outcome; `Stop` and `Close` take agents off the list under the lock and kill
them after it. `kill` signals, then waits for the exit, 5 seconds at most, so
`Killed` needs no exit. Processes exit when signalled or on their own. `Inspector`
adds `run`: Ctrl+C or a failing listener, `Shutdown` that starts the hook in a
goroutine and returns with or without requests under way, the deferred `Close`,
and the exit that ends all goroutines but not the children.

### Thread and Webhooks

A call is an API request on a connection and takes the steps of the code:
`buildSend` reads the thread, `forTask`, `create`, `reset`, the call itself, and
then `settle`, `bind`, `drop` or `configDeleted`, each under its own lock. The
agent is external: it takes a message or rejects it, keeps configs, moves its
tasks on, and notifies the webhooks it has configs for. A call's context can end
at any step; with `MayBreak` an answer can be lost as well. `unsure` is history:
the webhooks of calls that were cut or lost, or whose config was deleted when
the webhook was bound to another connection or to no task yet. Left out: the
base URL of webhooks changing, a call that fails before it is sent, answers that are unreadable or too large (the
webhook stays), and configs with external URLs.

### Settings and AgentStore

These two hold no variables. `AgentStore` takes a list of entries and gives the
list after an action, as `agentsReducer` does; an action for an agent that is
gone changes nothing. An interface is its key and whether it is supported; a
position counts from 1 and 0 is the code's null. `Settings` has headers and
authentication with their values, references and `lost`, the request made from
them, what an answer puts in their place, and what is saved. A reference is a
session and a number, of which only the number is sent: a session numbers its
secrets and connections from 1 on, so that a stale number may mean another.
That an interface is preferred of one protocol version only is left out.

### App

An operation (`ops[s]`) is a call of `send`, of `subscribe` or of the extended
card: what it captured of the agent, where it is (`connect`, `call`, `stream`),
the cookie its request went with, and the answer that arrived and is not read
yet. `Establish`, `Failure`, `Result` and `Abort` are what follows an `await`:
all up to the next one is one step, as in the browser. The inspector has a
session, connections with a conversation each, and answers that take any time
or are lost. `ending` are the disconnect calls under way; `displaced` is history,
the live connections the UI forgot in the two ways it does (two operations
connect at once; a second answer says the session is new). `reached` counts
what the agent got. Left out: messages the agent gets after Stop, answers to a
connect that are lost, names and times. A session ends only when the answers
that tell of the one before have come (`Settled`): within `renewalGrace` a browser
whose cookies of several sessions cross could be given any of them.

### AgentList, SettingsForm, ChatForm, Tasks, HostChat

`AgentList` has the list, what the browser saved, and every request for a card
with its answer: URLs, catalogs, the shared catalog, files, echo agents, drafts
and the command line all add to the list, and a reload starts from what was
saved. The shared catalog may list nothing, and without one the page drops at
once what it listed. Two tabs of one browser, which share what is saved, are left out.
`SettingsForm` follows one set of settings from the form to the session's store
(`vault`) and back; one connect runs at a time, and one that is refused stores
nothing. `means` is history: what each reference should stand for. `ChatForm` is
the composer with its files, read while everything goes on, and the forms of a
transcript; what was not sent is gone when another tab is opened, as the code
has it (`dropped`). `Tasks` has the operations of the tab, whose answers come in
any order and in the three wire shapes of `Payload`, and the feed with its ring,
snapshot and breaks. `HostChat` sends one message through `sendToHost`: it
connects the delegates one after the other, asks, and hears any sequence of
events; the session, a connection or the conversation can go at any time.

### EventStream, JsonScan and CardEditor

The parser is translated with its buffer and its pending CR; what it should give
(`EventsOf`) is said of the whole text, by where its lines start and end. The scanner reads a text that is not
JSON yet, as the editor does; a separate reader (`IsJson`) is the reference for
what JSON is. A completion's list stays open while the text changes, so an option
is applied to another text than it was made from. A template is put in as
CodeMirror's `snippet` does: `_` marks its fields, the first is selected (`anchor`
to `at`; `$` is its value, selected until it is typed over, as a default is), and a
new property whose value is a string with known values opens the list of these
there, between the quotes. A template without fields leaves the cursor where
CodeMirror moves it (`Moved`; of a selection within a text that is replaced, both
ends). Escapes, layout, hover texts, moving the cursor by hand or to the next
field, and the bracket or quote CodeMirror closes by itself are left out; the
schemas are the parts of the generated ones that the cases need, and
`knownValues` is part of them.

### Page

These parts share no state, so a behaviour of `Page` is one part's and the
others stay at their first state: one run explores them all, and a combined
state space would show nothing more.

## The runs

| Run | States | What it shows |
| --- | --- | --- |
| `pool` | 103,543 | limits, custody and destruction with 3 callers, 3 objects, limits 1 in a group of 2 and 2 in all |
| `sessions` | 787,842 | safety with 2 requests, the sweep, 3 sessions, 2 clients and 2 quotas, bursts of 1 |
| `traffic` | 3,421,177 | 3 exchanges, 2 at once, a capacity of 2 entries and 4 units, a channel of 1 |
| `server_live` | 113,392 | liveness: requests are answered and idle sessions end, with 2 sessions and a client; followers learn of the end of 2 exchanges, of 2 connections, with capacity 1 and a channel of 1 |
| `inspector` | 1,690,832 | 2 Starts with retries, a Stop and both Closes, 2 agents at once, 3 IDs |
| `webhooks` | 2,798,158 | 2 calls at once over 2 connections, 2 webhooks and a notifier |
| `ui` | 2,144,733 | 2 operations of an agent at once, 3 clicks, 2 sessions, 2 connections in each, 2 contexts, 2 messages |
| `page` | 3,001,084 | the seven parts of the page, each with the bounds below |
| `orphans` | violation | see below |
| `webhook_lost` | violation | see below |
| `ui_lost` | violation | see below |
| `startup_gone` | violation | see below |

**Bounds.** Three callers are what a removal, a holder and an addition need;
three objects let one be added while another is in use and a third leaves. Two
sessions in all and one in a group make both limits bind, and a burst of one
makes every limiter run out. Two quotas let one be forgotten and made again. The
traffic log is full after two entries, in count and in bytes, and its channel
after one update. Three agent IDs with two at once let a slot be reused. Two
calls and two webhooks are what a message and the deletion it races need. The
object, session, agent and webhook sets bound what the code makes without end
(`LastID`, `LastCall`, `Conns`, `Objects`); `MaxFrames`, `AtOnce` and `Weights`
bound an exchange. In `ui` a second operation is what one that connects races
with, a second session what a renewal leads to, a second connection what is
forgotten or replaced, and a third click what a user does to both (`Slots`,
`LastSession`, `LastConn`, `LastClick`; `LastContext`, `LastMessage` and
`LastEvent` bound contexts, messages and events of a stream). In `page` the list
has three URLs that lead to one card, two cards of other origins and three
agents at most (`LastId`), enough for two to meet as one; the settings have
three rows, so that one can go between two others, four secrets (`LastSecret`)
and two sessions; the chat two files and four steps; the tasks one task, two
operations at once and a ring of one notification; the host chat two delegates
and one loss; the streams are all texts of six characters out of five and three
longer ones, in chunks of three at most; the editor's drafts are cases like
those of its tests, with three edits: typing, picking a name and picking one of
the values that are listed then. The command line may leave out the shared
catalog (`MayLackCatalog`), and gives an agent that the catalog does not list;
`startup_gone` gives one that it does. `LastStep`, `LastFormStep`, `LastChatStep`,
`LastTaskStep`, `LastHostStep` and `LastEdit` bound what the user does,
`LastCall`, `LastNotice`, `LastHostConn`, `LastHostEvent` and `LastFile` what is
made. Symmetry is used in `sessions`, `webhooks` and `webhook_lost`,
which check no liveness.

`inspector`, `orphans`, the webhook runs and those of the UI set
`CHECK_DEADLOCK FALSE`: the process exits in the first two, and the bounded
calls and clicks are used up in the others.

**Fairness.** Goroutines that can go on do (`WF` of `Finish` in `Pool`, of
`Proceed` of `Sessions` and of `Deliver` of `Traffic`, both in `Server`, of the
steps of `run` in `Inspector`); Go's scheduler and the bounded waits of the code
justify it. In `Pool` a holder of a removed object lets go: `stop` ended its context. In
`Server` taking `mu` is strongly fair (`SF`), since Go's mutexes hand over to
the waiting after a millisecond, and so is the sweep, which a ticker repeats. A
request that serves a session need not end: streams go on as long as the agent
likes. In `Inspector` a request or an agent need not go on, only `run` and the
deferred `Close`. The UI's modules state no fairness: an answer may never come,
and nothing is promised of what the user does next.

**Violations, found while modelling.**

- `orphans`: after Ctrl+C, `Shutdown` runs the registered `handler.Close` in a
  goroutine that nobody waits for; it takes the agents off the list, the deferred
  `handler.Close` finds none and returns, and the process exits before the first
  killed them. `README.md` says echo agents are stopped when the inspector exits.
- `webhook_lost`: the connection breaks after the agent took a message and its
  push notification config; `httpPayload` sees no status and reports the call as
  rejected, and `drop` removes the webhook, whose notifications get 404 from then
  on. The comments of `drop` and of `rejected` say it is set only when the agent
  took nothing. `grpcPayload` treats every status but OK alike.
- `ui_lost`: two requests are under way when the session ends. The first answer
  makes the UI reset and connect again, storing the secrets in the new session;
  the second answer says as well that the session is new and resets once more: the
  new connection is forgotten, and the secrets are marked as lost though the
  session has them. `settings.ts` says `lost` is set when the session lost them.

- `startup_gone`: an agent of the shared catalog is saved with the others. When the
  inspector starts without the catalog and with that agent's URL, the page reads
  the saved agents, drops the shared one, finds it still among those it read, and
  selects and fetches it: nothing in the list has its ID, so nothing is shown, and
  the card is thrown away. The comment there says the agent given on the command
  line can be one of the saved agents.

More disagreements are visible as exemptions of properties. With a byte
limit, the log may keep an old entry that grows and the UI, which keeps the
newest by number, drops it and appends it again with its next update: so
`FollowersAgree` asks for the log's order only where no such entry can be.
And `Stop` frees the slot of an agent before its process ended, so
`AtMostMaxAgents` does not count processes that are being killed. `NoStrays`
exempts `displaced`, see `App`. `RefsStand` exempts references that a connect
brings whose answer comes after its session was given up (`late`): they are
numbers of that session, and the next one counts them again. The editor's
exemptions are `Separable` (a comma before a value that is not a string is not
added) and `MissesNext` (a name typed right before another is read as one with
it, and hides it).

## The proofs

| Theorem | Property |
| --- | --- |
| `PoolTyped`, `PoolSafeToUse`, `PoolDestroysOnce`, `PoolKeepsLimits` | `PoolTypeOK`, `NeverDestroyedWhileHeld`, `DestroyedOnce`, `WithinLimits` |
| `PoolOwnVictimFirst` | `OwnVictimFirst` |
| `PoolRefinesCustody` | `PoolImplementsCustody` |
| `SessionsUsePool` | every behaviour of the sessions is one of the pool |
| `SessionsTyped`, `SessionsShareQuota`, `SessionsClientCap`, `SessionsRenewOnce`, `SessionsLeakNoHold` | `SessionsTypeOK`, `OneQuotaPerClient`, `ClientCap`, `RenewedOnce`, `NoHoldLeaked` |
| `SessionsHeldStay` | `HeldEndsOnlyByAge` |
| `InspectorRunsEcho` | every behaviour of the inspector is one of the runner |
| `LogStaysSound`, `UIsFollow`, `FinishedForGood` | `TrafficSound`, `FollowersAgree`, `FinishedStays` |
| `WebhooksTakenStay`, `WebhooksSound`, `WebhooksNoSecond` | `TakenStays`, `HooksSound`, `NoSecondConfig`, when no answer is lost (`~MayBreak`) |
| `AppDeliversOnce`, `AppStops`, `AppLeavesNoStray`, `AppStartsAnew` | `AtMostOnce`, `StopSticks`, `AppSound`, `NewConversationHeld` |
| `PageAsksHostOnce`, `PageFeedSound`, `PageSendsOnce`, `PageKeepsSecrets` | `HostKept`, `FeedSound`, `ChatKept`, `SettingsKept` |
| `PageListSound`, `PageKeepsCustom` | `ListSound`, `CustomKept`, when the shared catalog is not left out (`~MayLackCatalog`) |
| `PageReadsStreams`, `PageChecksLast` | `StreamsSound`, and `CheckKept`, a part of `EditorKept` |
| `InspectorTyped`, `InspectorForgetsNoProcess`, `InspectorFreesSlots`, `InspectorKeepsMaxAgents` | `InspectorTypeOK`, `NoProcessForgotten`, `SlotsAreFreed`, `AtMostMaxAgents` |

**Assumptions** are those of the modules: the sets of objects, callers and
groups are finite and the limits are numbers (`ObjectsAreFinite`,
`LimitsAreCounts`), `None` is none of the values (`NoneIsNoObject`,
`NoneIsNobody`, `NoneIsNoAgent`), the sweep is a caller (`SweeperIsCaller`),
bursts are positive (`BurstsArePositive`), agents are numbered
(`AgentsAreCounted`), goroutines of different kinds differ (`GoroutinesDiffer`)
and there are two Closes (`TwoClosers`); in
`TrafficLog` the limits and sizes are numbers, a UI keeps at least one entry and
`None` is no entry (`LogAssumption`); in `Webhooks` the bound on calls is a
number (`LastCallIsCount`), `None` is nothing else (`NoneIsNothing`) and the
answers differ (`AnswersDiffer`); in `App` the bounds are numbers and `None`
is no number and no connection (`AppAssumption`); in `Tasks` the bounds are
numbers and `None` is no conversation, no connection and no sequence of events of
the feed (`TasksAssumption`); in `ChatForm` the bounds are numbers and `None` is
no key of the transcript (`ChatAssumption`); in `SettingsForm` the bounds are numbers,
`None` is no reference (`FormAssumption`) and what is stored at first fits the first
session (`StoredAssumption`): a reference is to one of its secrets, and is for
that one; in `EventStream` a stream is a sequence of characters
(`StreamsAreTexts`). In `AgentList` there are references and cards, a reference
leads to one that leads to itself, the bounds are numbers (`ListAssumption`),
`None` is no reference, card or result, interfaces and catalogs are lists, each
entry of a catalog has its card or a card URL (`agentsFromCatalog` leaves out the
others), the shared catalog names each card URL once (`seen` in
`src/internal/catalog/catalog.go`), and startup options name an agent
(`ValuesAssumption`). TLC evaluates each on its instances.

**Arguments.**

- *Pool* (`IInv`): the code decides by `refs`, the promise is about holders.
  `RefsCountHolders` says the count is right, `OnePlace` that an object is in the
  pool, removed or not yet created, and `DoomedUnheld` that what is to be
  destroyed has no holders. No part is inductive alone: destroying is safe as the
  count was zero, which is safe as it counts the holders, who can only come while
  the object is in the pool. The limits follow from the choice of victims: enough
  are taken, out of those nobody holds. They also give `OwnVictimFirst`: the
  group's own victim leaves room in a pool that was within its limit, so the pool's
  limit takes none. The refinement is by cases on the
  operation, with the stages read off the sets.
- *Sessions* (`SInv`): steps of sessions are steps of the pool or leave it
  alone, so the pool's theorems carry over. The rest is about who is between two
  steps under `mu`: `LockHeld` and `Starting` say what a request in the middle of
  `startLocked` knows (its quota is its client's and short of a token, so that no
  sweep forgets it; the session it will record is the only one started for its
  cookie), and `Counted` and `Renewals` tie sessions to quotas and to `renewed`.
- *Echo agents* (`EchoInv`): who may touch an agent is the `Start` that reserved
  it until it is on the list, then the one `Stop` or `Close` that took it off
  (`OwnAgents`, `Slotted`, `KillsApart`). So a retry's process is not killed by
  another, and what a failing `Start` leaves was killed (`Ended`). The limit is
  that of `Held`: the agents that count and those under way, to which only
  `reserve` adds. The inspector's steps are the runner's, so its theorems follow.
- *Traffic* (`TrafficInv`): every step of an exchange changes one entry or none
  (`ChangedOrNot`) or adds one and drops the oldest (`Added`), under `l.mu`, and
  tells the subscribers just that. `LogInv` is about the log: `makeRoom` frees the
  least that fits, and a sum over the entries that stay is the old sum less what
  went (`SumSplit` and its like in `SetLemmas`, by induction over finite sets
  with the set of the cases in place of a predicate). `FollowInv` is about what a
  UI shows *after* the updates in its channel: the snapshot agrees with the log
  (`SnapshotAgrees`), the update for a step takes an agreeing view to an agreeing
  one (`AddChanges`, `Reduce...`), and reading an update moves it from the channel
  to the view, which changes nothing of the sum of both. A UI whose channel was
  full has none any more, so nothing is claimed of it until it follows again.
- *Webhooks* (`HooksInv`): `Phases` says what a call is about where it is,
  `Owners` that a webhook has one creator at a time, `Untaken` that the agent has
  nothing of a call that was not answered or was rejected and not cut. So `drop`
  takes no webhook that a config points to. `BoundRight` says that configs and
  webhooks agree on the task, or will once the answer is read; with it a deletion
  marks the webhook it is about, unless it moved, and `Granted`, `Binding` and
  `Unbound` follow a webhook from its creation over the answer to its binding and
  to the deletion of its config. None is inductive without the others. The
  assumption `~MayBreak` is needed: `webhook_lost` is its counterexample.
- *App*: `OnceInv` is about the steps of an operation alone: one that may be tried
  again (`connect`, or a call answered "unknown" or "renewed") has not reached the
  agent (`Undelivered`), and answers fit where the operation is (`Consistent`).
  Nothing else needs to be known for `AtMostOnce` and `StopSticks`. `LinkInv` adds
  the list: what every reducer does to a list with the agent is one of *keeps*
  (`Kept`: the same connection, and a reset that stays), *drops* and *takes* the
  connection, proved once per reducer, and all that follows uses only that.
  `AllCovered` says each connection of the session is the agent's, in an answer,
  about to be ended or displaced; it is inductive only with `OpsSound` and
  `EndsSound` (what an operation or a disconnect knows is of its cookie's session,
  and no later than the browser's), `Connects` (connections are those made in this
  session) and `Counted` (a browser behind the session has none of its
  connections). It is `Settled` that keeps the last true. `FreshInv` follows a
  wish for a new conversation: the entry remembers it until the answer (`Asks`),
  and so does every operation started since (`Fresh`); contexts only grow, so one
  made for such an operation is newer than the click (`Floors`).
- *Page*: the parts share no state, so that an invariant of one is one of the page
  (`PartStays`). `HostInv` says that a turn that was taken streams, and what streams
  is not tried again; no more is needed for `HostKept`. For the tasks, every
  reducer leaves the list as it is up to one task or changes one subscription
  (`Same`, `TaskSubscribed`), and the tasks that show one are those with a call
  that follows (`Streaming`), one per task. For the feed, what was heard and what is
  on its way are notifications of rising numbers of which the inspector's are the
  newest, and the last conversation among them is the inspector's (`Fed`). Before
  its snapshot is read the same holds of the snapshot and what follows it: a
  snapshot replaces what was heard. In the chat, a file that was chosen is gone,
  being read, beside the message, with one that was answered or with the one under
  way, and in just one of these (`FilesPlaced`): batches, attachments and messages
  share no file, and no list has one twice. A form is over exactly when one
  answered message of the log is about it, one under way is about an open form, and
  the values of both are those of what was typed then (`FormsInv`). In the
  settings, a reference is for what was meant in its field, in the session it came
  from (`FormPoints`). That is inductive with the same of a request under way, whose
  fields are references or were typed (`SentPoints`), and of what its answer will
  make of them (`SettingsInv`): the place of a row's reference is its rank among
  the rows with a name, which are those that were asked for, as nothing that was
  lost is sent (`RequestInputs`, `RankApart`). A session's secrets only grow, and
  when it ends nothing is claimed of its references. For the streams, `StreamInv`
  says where the parser is in what was read (`Linked`): its fields are what the
  lines so far say, its buffer the line under way and its pending CR the last
  character. A chunk is scanned as a part of the whole text that starts after a
  line end (`PartOf`, `BufferGoesOn`); character by character the scan then
  finds the lines of the whole (`CharFollows`), and what the lines of a text say
  is what they say in any longer one (`ParsedAgrees`). Both recursive functions
  exist by induction (`Recursion`). The check of the editor's text needs no
  strengthening: `CheckedAtRest` is inductive.
- *Agent list* (`ListInv` of `AgentListProofs`, for the page's `ListSound` and
  `CustomKept`): each entry is typed with its pick in range (`EntryTyped`,
  `PickFits`), its status tells what is known of its card (`Tells`), it has a URL
  where one is needed (`Refers`), and any two are `Apart`. For that to be
  inductive it must be said of what entries *will* be: the URLs and card URLs of
  two entries differ, also from where what is still looked for by a URL may be
  found, or `Resolved` could make a twin of an entry that was there; a request
  for a card is about the URL its entry still has (`FetchesOK`); and the catalog
  that is saved can be read again (`CatalogOK`). Each reducer *stays* in these
  bounds (`Stays`), and one that follows another stays as well (`GrowsBoth`). For
  `CustomKept` a reducer keeps the interfaces in use (`StaysUsed`): that composes
  only as `InUse` says where a custom interface is, behind those of the card. TLC
  checked `ListInv` on the page's instance before it was proved. The assumption
  `~MayLackCatalog` is needed: `startup_gone` is its counterexample.

**Only model-checked:** the liveness properties (fairness and `ENABLED` are out
of the prover's reach), and of `EditorKept` what it says of completions
(`CompletionKeepsJSON`, `NoTwinKeys`): that compares what two recursive functions over a text
compute, the scanner of `JsonScan` and the JSON reader, which takes an induction
over texts with a relation between their states. What else the passing runs check is
a theorem.

## Not modelled

- *Go's parsing, validation, masking, cards, addresses and wording*: functions of
  data with no state, which unit tests reach. Flags and startup: one goroutine,
  once.
- *The host agent in Go* (tool calls of a model, the delegates' threads, the ring
  of conversations), *the concurrent walk over nested catalogs* and *Go's parser of
  event streams with the splicing of frames*: they have state and concurrency, and
  are what the next modules would be about. The UI's half of each is modelled.
- *Counters of requests, agent calls and open streams* of a session: one deferred
  call pairs each with its handler.
- *Views*: what `CardView`, `TrafficPanel` and the like render of the state, the
  layout, the theme and the widths of panels. `CardContent` and `AgentStatus`, the
  part of it that decides what is shown, are in `AgentList`.
- *Generated files* (`*.gen.ts`): types and schemas, no behaviour; the parts of the
  schemas that the editor's cases need are constants of `MCPage`.

`PROJECT.json` has each with its reason, and the hazards no property covers.
