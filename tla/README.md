# TLA+ specifications of CustomPBX

CustomPBX is an API server and web interface for FreeSWITCH. It follows the
switch's events over the event socket (ESL), keeps the live-call picture that
web clients see, writes call detail records (CDRs), ships recordings to object
storage, reports call lifecycles to a CRM by webhook, keeps the switch's
configurations and dialplan in PostgreSQL and answers its XML-curl requests
from them. These modules model the parts of `src/custompbx` whose
correctness depends on order, concurrency and failure. Paths below are relative
to `src/custompbx`.

    tlc -config ChannelOrdered.cfg MCChannelState     (see "Runs")
    tlapm ChannelStateProofs.tla                      (see "Proofs")

## 1. Inventory

| Component | State | Operations | Talks to | What makes it correct |
|---|---|---|---|---|
| Channel event handlers (`fsesl/fsesl.go`) | the mutex `channelStateMu` | `channelCreateHandler`, `channelAnswerHandler`, `channelDestroyHandler`, `GetChannels` | both caches, CDR writer, webhook, event bus | caches agree; clients hear of every change; behind FreeSWITCH only by pending events; converges |
| Channels cache (`mainStruct/mainStruct.go`) | `byUuid`, `Total`, `Answered` | `Set`, `MarkAnswered`, `RemoveByUUID`, `Replace` | handlers | counters are those of the map; duplicates change nothing |
| Directory user cache (`cache/cache.go`) | per user: active calls, the call shown, registration flags | `SetCall`, `ReplaceCalls`, `ActiveCallUserIDs`, `SetByData` | handlers, registrations, web | a user's calls are cached channels; the call shown does not depend on map order |
| CDR writer (`cdrwriter/writer.go`) | table `cdr` | `Persist` | PostgreSQL, recording store | one row per call |
| Recording store (`recordingstore/store.go`) | spool directory, bucket, `recording_status` | `QueueUpload`, `retrySpool`, `upload` | PostgreSQL, MinIO, webhook | never without a copy; stored in the end |
| Recording API (`recordingapi/handler.go`) | recent nonces | `Serve` | PostgreSQL, MinIO | serves what was stored |
| Webhook dispatcher (`callwebhook/dispatcher.go`) | seen ids, bounded queue | `Publish`, `deliver` | CRM | one acceptance of an id in ten minutes, no refusal without one, each sent at most once, a publisher's in order |
| ESL keeper (`fsesl/fsesl.go`) | the socket | connect, collect, 30 s reconcile | FreeSWITCH | a connected keeper listens |
| Registrations (`fsesl/fsesl.go`) | `SipRegister`, `SipRegsCounter` | `sofiaRegsHandler`, `vertoRegsHandler`, `GetDirectorySipRegs` | user and domain caches | counter = registered users; calls kept |
| Event bus (`main.go`, `web/websocket_server.go`) | bounded `eventChannel` | `TimeEvents` | every handler, hub | drained while handlers hold locks; call handlers' messages in order |
| WebSocket hub (`webStruct/webStruct.go`) | connections, queues, subscriptions | `Register`, `Broadcast`, `Unicast`, `Shutdown`, the two loops | web clients | a connected page misses nothing; no connection outlives a shutdown |
| Web API (`web/*.go`) | none | subscriptions, user lists, CRUD on PostgreSQL | everything | an answer is not older than what the page has |
| Configurations (`altData/configAltData.go`, `altStruct/`, `web/registry*.go`, `fsesl/fsesl.go`) | some 180 tables under one row per configuration | import, add, switch, delete, truncate, serve | PostgreSQL, FreeSWITCH | FreeSWITCH is given what is configured; an import is complete |
| Web sessions (`webcache/webcache.go`) | token cache | save, delete, look up | PostgreSQL | a deleted token is not served |
| Dialplan cache (`pbxcache/dialplan.go`, `mainStruct/mainStructDialplan.go`) | contexts, extensions, conditions, actions, positions | add, rename, move, delete | PostgreSQL | memory = tables; one order; the XML served whole is current |
| Dialplan hunting (`xmlcurl/xmlcurl.go`) | shared conditions, which it changes | `huntActions`, `checkCondition` | FreeSWITCH, dialplan cache | same result for the same call |
| Log and HEP batching (`main.go`, `hepHandler/hepHandler.go`) | a collector | append, flush | PostgreSQL | each line saved once |
| Others | | call-centre events, global variables, migration, ORM, CDR queries, metrics, configuration, XML, embedded assets, the Angular client | | see `PROJECT.json`, "components" |

The hard behaviours: every ESL event runs in a goroutine of its own; snapshots
race with events; the socket drops with events in it; the process may stop
between any two steps of an upload, an import or a dialplan request; several
goroutines may upload the same recording; queues are bounded, and drop or close
what is too slow; four hand-kept lists must agree on every configuration. `PROJECT.json` lists them as hazards, at
their lines.

## 2. What is modelled

### ChannelState (with MCChannelState and ChannelStateProofs)

| Variable | Code |
|---|---|
| `leg` | FreeSWITCH's own legs (external) |
| `pending` | events whose goroutine has not got `channelStateMu` yet |
| `connected`, `failures` | the event socket; how many failures happened |
| `directory` | rows of the directory users table |
| `cached`, `cachedUser` | `Channels.byUuid` and its `DirectoryUserID` |
| `calls` | `userCache.byId[u].activeCalls` |
| `snapshot` | the `show channels` reply that `GetChannels` is applying; while there is one the mutex is held |
| `dashboard`, `shown` | the last counters and the last state of each user sent on `eventChannel` |
| `cdr`, `published` | rows of `cdr`; events handed to `callwebhook.Publish` |

A handler holds `channelStateMu` throughout, so it is one action that does all
the handler does: cache, user cache, counters, client messages, webhook, CDR.
`GetChannels` holds the same mutex over a round trip to FreeSWITCH and is two
actions, `AskChannels` and `ReplaceChannels` (or `ChannelsUnavailable`): calls
go on in between, handlers do not run. `getUserByPresence` reads the database in
each handler, so a user may be added or deleted between a call's events, and the
lookup may fail. `ChannelAnswerHandler` sets the user id on the copy that
`MarkAnswered` returns, so `cachedUser` keeps its old value, as in the code.
FreeSWITCH, the delivery of events and the order in which goroutines get the
mutex are external: `Reordering` chooses between any order and each leg's own.

Not in this module: `sofiaRegsHandler`, `vertoRegsHandler` and
`GetDirectorySipRegs` create user-cache entries without `channelStateMu` and can
overwrite one that a call has just created (`fsesl/fsesl.go:1091`); they also send
users without it (see EventHub). What is shown here is the agreement among the steps
that hold the mutex. Renaming a directory user
during a call (`Owner` is a constant) and a channel UUID used twice are also left
out.

### CallSelection (with CallSelectionProofs)

`refreshCallStateLocked` picks the call a user is shown with by ranging over a
Go map. The model is one user's `activeCalls` with the loop's variables; each
iteration is an action that visits any call not visited yet, so every map order
is covered. `SetCall` and `ReplaceCalls` change the map and start the loop; they
wait for the loop to end because all three run under the cache's mutex.

### RecordingSpool (with RecordingSpoolProofs), and DurableRecording

A recording goes from FreeSWITCH's spool directory to the bucket: `Persist` (the
CDR row and `QueueUpload`), the goroutine's `Stat`, `Put`, `MarkUploaded`,
`Announce`, `Remove` or `MarkFailure`, and the ticker's `ReadSpool` and `Requeue`.
Each database, storage or file-system call is a step of its own and may fail;
`Crash` may come between any two. `batch` is the list `retrySpool` has read: it
is used row by row while uploads go on, so it may be stale. The five attempts of
`upload` are one `Put`, and one that is reported as failed may have stored the
object. Object storage is configured, each call modelled has a `record_path`
inside the spool, and `PBX_RECORDING_API_BASE_URL` is set.

`DurableRecording` is the promise, with no rows, goroutines or crashes: a
recording is copied to the bucket, then announced, and only then dropped from the
spool. `RecordingSpool` implements it (`RecordingsAreDurable`); the refinement
mapping is the identity on `spooled`, `stored` and `announced`, and forgets the
rest.

### CallWebhook (with CallWebhookProofs), and WebhookPromise

| Variable | Code |
|---|---|
| `clock` | `time.Now()` (external) |
| `calling` | what a goroutine called `Publish` with, and the time it read |
| `seen`, `queue` | the dispatcher's fields |
| `marked` | what a publisher has marked seen and not yet queued |
| `posting` | the event `run` is delivering |
| `accepted`, `received` | history: acceptances (their place is their ticket) and what the CRM was sent |

A publisher is a party whose calls of `Publish` come one after the other: the channel
handlers are one, since they publish while they hold `channelStateMu`, and each upload
is one. Every ESL event has a goroutine of its own (`fsesl/fsesl.go:527`), so the order
in which the handlers publish is that in which they got the mutex, which need not be
that of the events. `Publish` is three steps, because other publishers run in between: the time is
read, then `markEventSeen` decides under `seenMu`, then the event is queued or
dropped. A `Deliver` that fails may have reached the CRM. `Restart` forgets the ids,
the queue and what publishers had in hand. `WebhookPromise` has tickets that are
pending, received or lost, and nothing else: each is received at most once, and only
while it is pending. The refinement maps pending to
what is marked, queued or being posted.

### EventHub (with EventHubProofs)

| Variable | Code |
|---|---|
| `channels`, `userCalls` | versions of the channel counters and of the users' calls in their caches |
| `handler` | the holder of `channelStateMu` and what it publishes next |
| `registration` | each registration handler: what it publishes next, and the version of the calls it has read |
| `bus` | `eventChannel` |
| `current`, `todo` | the message `TimeEvents` broadcasts; the connections of its snapshot still to come |
| `connections`, `stopping`, `toClose` | `WsHub` and a `Shutdown` in progress |
| `conn[c]` | a `WsContext`: phase, `send`, subscriptions, persistent ones, and the request its handler is busy with |
| `posted`, `conn[c].since`, `.written`, `.lost` | history |

This composes the call handlers with the event bus and the hub: a handler sends
its counters and then its user while it holds the mutex, and waits when the bus is
full; `TimeEvents` takes one message at a time; `Enqueue` never waits, but closes a
connection whose queue is full; `SendWaiter` and `ReadWaiter` run beside it, and a
request is handled in two or three steps with events in between. The registration
handlers (`sofiaRegsHandler`, `vertoRegsHandler`) put users on the same bus without the
mutex: they read the user's calls and send them later, when other events may have
overtaken them. Such a message has a topic of its own here (`"registration"`), which
pages get with their subscription to the users (`For`). What calls there
are does not matter here (that is `ChannelState`), only which version of them is
newer, so events and answers carry a number. `Shutdown` is called by the tests
only (`webStruct_test.go:247`); it is modelled because `Register` is written against
it.

### ConfigTables and ConfigTree (with MCConfigTree and ConfigTreeProofs)

`ConfigTables` states, for every configuration, what the code says in four places:
`Schema`, the tables and what each is filed under (`altStruct/`); `SetConfRows` and
the `setConfig...` walks, what an import inserts and in which order (`fsesl.go`,
`configAltData.go`); `Registered`, the requests administrators are offered
(`web/registry*.go`); and the `XML...` functions, which table each element of the
answer is read from (`configAltData.go`). It is data, a line or two per function.
`ConfigTree` gives it behaviour: rows are paths of `<<table, number>>`, an import
inserts them one by one with failures and stops in between, administrators add,
switch, delete and truncate, and `Served` is what FreeSWITCH gets. Values of rows are
left out, and with them the name argument by which `XMLSofia` and `XMLCallcenter` give
one profile or one queue only (their answers are then a part of what is modelled);
documents of FreeSWITCH are full, bare (top elements only) or empty.
Rows are deleted with everything below them (the ORM's cascading foreign keys).
What the four lists must agree on, table by table, is written down once, as
assumptions that TLC evaluates on the lists themselves: a table belongs to the
configuration its parent table belongs to (`HomesAssumption`), an importer makes its
own configuration's row (`ImportersAssumption`), a request files a row below the
configuration its table belongs to (`RequestsAssumption`, all but the tables of
`Misfiled`), and an answer has an element for every table of its configuration, read
from it (`AnswersAssumption`, all but `Misserved`). The proofs need nothing else of
`ConfigTables`.

### DialplanCache (with MCDialplanCache and DialplanCacheProofs), and Positions (with PositionsProofs)

`disk` is the six tables, `heap` the objects; `live` and `listed` are membership in
the dialplan's and in the parents' maps by id; `contextNames`, `allNames` and
`ownNames` the maps by name; `full` the XML of each context when `NoProceed` is on
(`noProceed`, a constant of a behaviour: the request that would change it executes an
INSERT of three columns and two values, `db/dialplanDb.go:798`, and fails). A
request is two steps, the statement (`disk`) and the memory (`Apply...`), and
`Restart` may come between them and reads everything back (`InitDialplanCache`).
An item has at most three above it, so what is below one (`Under`), what a deletion
clears (`ClearUp`) and what a context shows (`Shown`) are written level by level. A
statement that a UNIQUE constraint would refuse is not executed
(`SetContextExtension`, `RenameExtension`). A behaviour starts from a dialplan that
keeps what the tables' references and constraints say (`LoadedAssumption`); for
conditions and actions no constraint keeps positions apart, but the statements do, and
the tables were empty once.
`Positions` holds the two algorithms of a move: the transaction's statements and the
loop over the objects. `MovedRows` uses the old position from memory, as the code
does. The place to move to (`Targets`) is any but 0: the handlers refuse nothing else
(`web/dialplanWs.go:100`). A negative one ends positive in the table, because the last
statement flips whatever is negative (`db/dialplanDb.go:446`), and stays negative in
memory; if the tables of extensions or antiactions then hold a position twice, their
UNIQUE constraint makes the transaction fail. `strays` remembers the lists this has
happened to.
`Hunt` is what matching a call changes: `checkCondition` clears a time field that
matches in the object itself (`xmlcurl/xmlcurl.go:327`), also when another field then
does not match. `Clears` says which contents can be left of which; a condition is only
cleared where contexts are not served whole. (Most fields are compared with the list in
`condition.Year`, so that in practice few but the year are ever cleared; the model lets
any be.) `Rendered` is what `CacheFullXML` copies: `Line` for each item, `Written`
without the day of the month, which is never copied (`mainStruct/mainStructDialplan.go:650`
copies the day of the year twice); `Dayless` says what is left of contents that have
one.
One request is handled at a time: that two requests race on positions is a
hazard nothing here covers.

## 3. Properties

- `CallsMatchChannels`: a directory user's call is a cached channel in the same
  state, and a channel attributed to a user is among that user's calls. It is
  what lets a reconciliation find every user it must clear. Claimed when no
  database lookup fails: a failed lookup attributes a call to nobody.
- `ClientsCurrent`: the counters and user states last sent are those of the
  caches, after every path of every handler. Claimed when no database lookup
  fails: `GetChannels` does not send a user whose row it cannot read
  (`fsesl/fsesl.go:1439`).
- `InOrderAccuracy`: with each leg's events handled in order and no failure, the
  cache differs from FreeSWITCH only where a pending event will correct it.
- `EventuallyExact`: whatever happened before, the caches end up equal to
  FreeSWITCH. (Calls end and failures are bounded, so behaviours settle.)
- `SelectionIsRight`, `DirectionIsExplained`: the call shown is the oldest talking
  one, or the oldest; the direction shown is its own or that of an older call
  which is not talking. The second case happens: with several calls the
  direction may belong to another call than the UUID, depending on map order.
- `RecordingsAreDurable`: at every step the recording has a copy, in the spool or
  in the bucket, and only stored recordings are announced.
- `EventuallyStored`: a recording with a CDR row reaches the bucket.
- `NoRepeatWithinTTL`: one process never accepts an id twice within the window,
  though publishers read the time before they take the lock and purge each other's
  entries. `RefusalsAreJustified`: an event is refused only if this process has accepted
  its id less than the window before the time its publisher read, although an entry
  stays in `seen` until an acceptance purges it and the purge may be another's.
  `PublishersKeepOrder`: the CRM gets the events of one publisher in
  the order it published them. That is the order in which call handlers held the mutex,
  not that of FreeSWITCH's events, and nothing orders a handler and an upload.
  `KeepsWebhookPromise`: at most once, through full
  queues, failed posts and restarts. `EventuallySettled`: nothing accepted stays
  queued for ever.
- `NothingIsMissed`: a page that is still connected has, on its way, queued or
  written, every event posted since it subscribed; a slow page is closed, never
  skipped. `EventsInOrder`: no page is written an older message of the bus after a newer
  one, and call counters and users sent by the call handlers never go backwards. It is
  not claimed of users sent by the registration handlers, which are read and sent without
  the mutex: there an older state of the calls can follow a newer one.
  `AnswersAreNotOlder`: the answer to a request for the users is not older than what
  the page had when it asked. (It may be older than an event sent in between: the
  answer is made from the cache and queued later, `web/registry.go:411`.)
  `NoneOutlivesShutdown`: no connection is registered that a shutdown will not close.
  `HandlersAreFreed`: a handler does not keep `channelStateMu` for ever, however slow
  or silent the pages are.
- `ServedAsConfigured`: FreeSWITCH is given the row of every place whose chain is
  enabled, under its own element, and nothing else. Left out are the elements the
  code is known to get wrong (`Misserved`: key bindings and default ptime of
  `switch.conf`, gateways of `sofia.conf`) and the rows that an administrator's request
  files below another configuration than their table's (`Misfiled`: settings, profiles
  and parameters of `directory.conf`, settings of `sangoma_codec.conf`; FreeSWITCH is
  never given them); see the hazards. `ImportIsWhole`: an import
  that ran to its end left out of FreeSWITCH's document only the call centre's queues
  that have no parameters (`fsesl/fsesl.go:2506` passes over them silently; `Bare`), what
  failed, what was deleted meanwhile, and what stood behind such a row where the code
  passes over the rest of the list.
- `MemoryIsDatabase`: between requests a restart would change nothing, with four named
  exceptions (`IsRow`): the positions in a list that something was sent to a negative
  position of (`web/dialplanWs.go:100`, `db/dialplanDb.go:446`); what a call cleared of a
  condition's times (`xmlcurl/xmlcurl.go:327`), unless whole XML is served; a
  switched regex (`db/dialplanDb.go:717` writes the wrong column); and the names of
  extensions once two have had the same one, in two contexts or through a stale entry of
  their context's own map (`pbxcache/dialplan.go:470`). Membership, parents, switches and
  all other contents and positions are exact. `OrderIsGiven`: no two items of a list share
  a position, but in a list that something was sent to a negative position of.
  `FullXMLIsCurrent`: the XML served whole is that of the objects, without the days of the
  month (`mainStruct/mainStructDialplan.go:650`): a condition on one is served as one of
  any day, while an answer made call by call looks at it (`xmlcurl/xmlcurl.go:369`).
  `ContextsAreFound`: a context answers to its name and to no other.

Three statements of the repository do not hold, and their runs end in a
counterexample: `DestroyIsIdempotent`, `CdrLegIsLifecycleLeg` and
`EventuallyServed`. `PROJECT.json` ("findings") quotes each and tells the
behaviour.

## 4. Runs

| Run | Instance | States | Result |
|---|---|---|---|
| ChannelOrdered | legs a, b bridged and f forked; two users; in order; no failures | 54,303 | holds |
| ChannelReordered | legs a, b (b a trunk leg); one user, added and deleted; any order; one socket failure | 326,340 | holds |
| ChannelConverges | legs a, b; two users; any order; one socket or database failure; fair | 104,091 | holds |
| ChannelIdempotent | legs a, b; in order; no failures | | violated |
| ChannelCdr | legs a, b, f | | violated |
| RecordingSpool | two calls, two goroutines, two failures or crashes; fair | 40,038 | holds |
| RecordingServed | one call, two goroutines, no failure; fair | | violated |
| CallSelection | three calls; times unknown, 1 and 2 | 2,632 | holds |
| CallWebhook | two publishers, two ids, a queue of one, three acceptances, one restart; fair | 442,396 | holds |
| EventHub | two pages, a registration handler, queues of two, a bus of one, four inputs; fair | 169,695 | holds |
| ConfigTree | every configuration (three pairs together), one fault and one edit | 319,671 | holds |
| DialplanCache | three dialplans of four or five items, two requests, moves to -2..4, calls and stops at any point | 41,424 | holds |

Bounds, and why they are enough. `Legs`: the code relates a leg to at most one
other leg, so a pair shows every interaction; the third leg is the kind that has
no other leg but an originating one. FreeSWITCH's legs never restart, so a
behaviour has finitely many calls. `MaxFailures` (failures in a behaviour) is 1
for channels, since a failure leaves caches in states that reordering also
produces, and 2 for recordings, so that a retry can fail as well. `Workers` bounds
the goroutines that upload at once; two show the overlap of a retry with a first
upload. With no idle worker `Persist` and `Requeue` wait, which the code does not;
the proofs do not depend on it, since they hold for any set of workers. `N` calls
and `BatchSize` (LIMIT 100 in the code): the run keeps `BatchSize = N`. With
`BatchSize = 1` and `N = 2` TLC refutes `EventuallyStored`: a row whose file is
gone stays the oldest and hides the next one. So the property is claimed only
while the rows that are not 'uploaded' fit in one batch. `Times` are three values:
unknown, and two to compare; equal times arise from three calls.

`MaxAccepted = 3` fills the queue of one with another event posting and one marked;
`MaxTime` and the window are 1, so that an id is accepted, refused and accepted
again. `MaxInputs` bounds what comes from outside the hub (channel and registration events,
pages, requests, ticks, faults) in any mixture: with four, a page can connect, subscribe,
see an event and ask, or be sent a call's user before an older one of a registration
handler; or two pages can connect and one of them fall behind. A bus of one makes every handler wait for
room; a queue of two fills with an answer and an event. `Copies = 2` rows per table for a configuration alone
lets two rows of a list and what is below each interleave, and one per table where
configurations are together. One fault and one edit per behaviour: an import with a
failed or deleted row, or one after the other; each further edit is independent of
the tables, whose agreement is what the run is about. Two dialplan requests make
every pair of operations, with a stop after either statement (three requests, 1,038,611
states, were checked once with the same result); the targets of moves are two negative
positions, the three that are taken and one behind; the three dialplans
have two lists with an order, one with a gap, and two contexts with an extension of
the same name.

No symmetry is used. Deadlock is checked where the system never stops (the
reconciliation, the ticker, the user's call map, the configurations), and not in
CallWebhook, EventHub and DialplanCache, which come to rest when their bounded
inputs are used up and everything is delivered.

Fairness. `SF` on the handlers: Go's mutex hands over to a goroutine that has
waited for a millisecond, so reconciliations cannot starve an event for ever.
`WF` on asking for and applying a snapshot: the ticker fires every 30 seconds and
the reply arrives, or the call fails, which is the environment's choice. `WF` on
reconnecting: the keeper retries every ten seconds. FreeSWITCH is not assumed to
do anything. For recordings: `WF` on every goroutine's next step, on the ticker
and on the restart (the container is restarted). Crashes and failures are bounded
by `MaxFailures`; without a bound no upload need ever succeed. For the webhook: `WF`
on a publisher that has marked its event and on the worker; the HTTP client has a
timeout, so a post always ends. For the hub: `SF` on a call handler's send, since Go
gives room on a channel to the senders that wait for it in turn, so that registration
handlers cannot keep it out for ever; `WF` on each broadcast step, `SF` on taking an event, since the `select` of `TimeEvents` chooses at
random between the channel and its tick. Neither pages nor their writers are assumed
to do anything.

## 5. Proofs

The theorems hold for every value of the constants that satisfies the modules'
named assumptions: any finite set of legs, any users, any attribution and other-leg
relation, any number of failures, calls, workers and times.

- `ChannelStateProofs`: `TypeCorrectOK`, `CallsMatch`, `ClientsAreCurrent`,
  `InOrder`. `TypeOK` becomes inductive with `EventsOccurred` (a pending event has
  happened), which gives the published end event its type. `CallsMatchChannels`
  needs `AttributedToOwner` (a call is only ever attributed to the user its
  presence id names, who was in the directory), since a handler looks up the user
  again each time: together they are `CachesInv`. `ClientsCurrent` is proved over
  it: a reconciliation reaches every user with calls because those calls are
  cached. `InOrderAccuracy` needs `LagInv`, which says the same of the snapshot in
  hand and of events that are still behind an earlier one; the proof goes through
  each handler and each step of FreeSWITCH.
- `RecordingSpoolProofs`: `SpoolTypeCorrect` and `ImplementsDurable`. The
  refinement needs `UploadInv`: a goroutine that is about to mark, announce or
  remove works for a stored call, and a recording that has not ended is neither
  spooled nor stored. Every action then maps to an action of `DurableRecording` or
  leaves its variables alone.
- `CallSelectionProofs`: `LoopCorrect` proves the loop's invariant `LoopInv` (what
  is kept is right for the calls visited so far, and `selectedTalkingAt` is the
  time of the call shown); `SelectionCorrect` and `DirectionCorrect` draw the two
  properties from it at the end of the loop, `SelectionTypeCorrect` the types.
- `CallWebhookProofs`: `TypeCorrect`, `NoRepeats`, `PromiseKept`, `PublishersInOrder`
  and, for the action property, `RefusalsJustified`. `NoRepeats` needs
  that every acceptance of this process is either still in `seen` with its time or
  was older than the window by the clock when it was purged: a publisher that
  compares an earlier time purges less, never more. `PromiseKept` needs that the
  tickets marked, queued, being posted and received are all different and no greater
  than the number of acceptances; each action then maps to an action of
  `WebhookPromise` or leaves it alone. `PublishersInOrder` needs `TicketsOrdered`: the
  tickets of one publisher grow along the way to the CRM, from what was received over
  what is being posted and the queue to the one in its hand, and it accepts nothing
  while it has one in hand. `RefusalsJustified` needs `SeenWereAccepted`: every entry of
  `seen` is the time of an acceptance of that id by this process.
- `EventHubProofs`: `TypeCorrect`, and `ShutdownClosesAll`, which is inductive by
  itself because `Register` looks at `shuttingDown` again under the lock.
  The other three invariants come from `HistoryInv` (`HistoryCorrect`):
  all the calls posted so far are no newer than the cache, and those posted by call
  handlers rise; `eventChannel` is
  the tail of what was posted; every message that is queued or written is a posted one
  that was taken, or an answer; a queue follows what was written; and the message
  being broadcast is newer than all a connection still to come has.
  `PagesSeeEventsInOrder` and `AnswersAreFresh` are read off it. `PagesMissNothing`
  also needs that an open connection is registered, so that the broadcast's snapshot
  includes it; its last assumption, `NoneAssumption`, says that "no message" is none.
- `PositionsProofs`: `MovesAgree`: for any list of distinct positions and any move to a
  positive position the transaction and the loop over the objects leave the same
  positions. `MoveKeepsApart`: they stay distinct. `NegativePlacesDisagree`: for any move
  to a negative position the row ends at the positive one, the rows before it move one
  further, and the object is at the negative one; so the restriction is needed.
- `ConfigTreeProofs`: `TypeCorrect`, `ServedRight` and `ImportsAreWhole`, for any
  choice of configurations, any number of rows per table, failed statements, stops and
  edits, from the four assumptions above. The invariant `Orderly` says that an importer
  is at work on places of its own configuration and that every row is `Filed`: in a
  place of the configuration its table belongs to, unless the table is one of
  `Misfiled`. `ServedRight` compares, from it, element by element what is served with
  what is configured. `ImportsAreWhole` needs `NothingForgotten`: of the document being
  imported every row is in the database, still to be inserted, or lost with one that
  failed or was deleted (`BareIsFlat` deals with the queues that are passed over: nothing
  of the document is below them).
- `DialplanCacheProofs`: `TypeCorrect`, `MemoryStaysDatabase`, `OrderIsAlwaysGiven`,
  `FullXMLStaysCurrent` and `ContextsAreAlwaysFound`, for any dialplans, names,
  contents, ids, targets of moves, numbers of requests, calls and stops, with
  `RequestsAssumption` (no target is 0, and what has been cleared twice is cleared). None of the five is inductive by
  itself. `Inv` (`InvAlways`) adds what holds between the statement of a request and
  its work in memory: there is a table `items` that keeps all constraints, that memory
  still agrees with (`MemoryIs`), and that the statement turned into `disk`
  (`Pending`). Agreement (`Like`) is up to what is named in `IsRow`: it leaves out
  positions in `strays` and lets a condition differ by `Clears`. Each `Apply...` is then
  shown to make of the memory of `items` the memory of `disk`: a move by `MovesAgree`, or,
  to a negative position, because its list has joined `strays`; a deletion because `ClearUp`, a kind at a
  time, removes what the tables' cascade removes (`ClearUpIsCascade`), a renaming
  because the maps by name are exact as long as no two extensions had one name
  (`NamesOK`). The XML of the other contexts stays current because nothing they show
  was touched (`ServedKeeps`, `ShownStays`), for which a map by id must not list what
  was deleted from a context that still exists (`HeapOK`).

Only model-checked: the liveness properties `EventuallyExact`, `EventuallyStored`,
`EventuallySettled` and `HandlersAreFreed` (liveness under fairness is out of the
proof system's reach), and the counterexamples. Every safety invariant, action
property and refinement that a passing run checks is also proved.

## 6. Not modelled, and the plan

Ordered by what matters most.

1. `DialplanCache` with two requests at a time: the handlers run concurrently and
   share the old position of a move and the maps by name.
2. Registrations: the unlocked read-then-set of a user entry against `SetCall`, the
   flag and the counter, and the collection after a reconnect. The flags follow the
   events in whatever order they are handled and are never reconciled, so what could
   be stated is weak; the races are listed as hazards.
3. The keeper that is connected but does not listen (`fsesl/fsesl.go:491`).
4. Which actions `huntActions` gives a call, against a reference definition over small
   dialplans (its effect on the cached conditions is modelled).
5. `Unicast`, whose list of receivers counts a message
   queued on a connection that is just being closed (`webStruct/webStruct.go:308`);
   the token cache against the token table.
6. `GetDashboard`'s answer, which shares one set of counters with every other answer
   in preparation (`web/operationsData.go:16`).

Left out for good: generated assets, migrations, CRUD handlers without state, SQL
text, the wording of the XML, the structures FreeSWITCH's XML is parsed into, log and
HEP batching (one goroutine each), the Angular client's presentation, and the
operating system statistics; none has behaviour a state machine would add to.
