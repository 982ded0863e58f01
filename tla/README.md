# Rapid Router in TLA+

A verification project for Rapid Router: a gateway that accepts requests in the dialects of
several LLM providers, routes each one to a provider key, translates it, relays the answer, and
accounts for it.  Specifications live in the modules beside this file, their model-checking
configurations in the `.cfg` files, proofs in modules named `*Proofs`.  `PROJECT.json` maps every
definition to the lines it models, and lists runs, mutants, hazards, findings and theorems.

Sources are cited relative to the repository; `core` is `crates/router-core/src`, `server` is
`crates/router-server/src` and `store` is `crates/router-store/src`.

To check a run: `tlc -config Breaker.cfg Breaker.tla`.  To check the proofs:
`tlapm KeyProofs.tla`, and likewise the other seven modules named so (a few minutes each, and
ten to fifteen for `StreamsProofs` and `ConversationProofs`).

## 1. The system

### Parts, their state and their operations

| Part | State | Operations that change it |
|---|---|---|
| Circuit breaker (`core/breaker.rs`) | one word of state and time, a failure count, the start of a window, a bench deadline; all atomics, one breaker per key and per keyless provider | `admit`, `record_success`, `record_failure`, `bench_until` |
| Token bucket (`core/token_bucket.rs`) | a balance and the time up to which it was credited; atomics, one per ceiling | `try_consume`, `refill`, `debit_saturating`, `clone_state` |
| Routing table (`core/router.rs`) | providers, keys, slots, semaphores, leases; immutable but for the atomics in it, replaced whole through an `ArcSwap` | `from_config_with`, `plan`, `admit_for` |
| Request dispatch (`server/proxy.rs`) | a task per request: plan, target, attempt, permits | `run_chat`, `attempt`, `translated_response`, `PermitBody` |
| Seats (`core/credential.rs`, `server/refresh.rs`) | the credential a seat serves with, the `auth.json` behind it, a gate per seat | `refresh_if_stale`, `refresh_now`, the maintenance of seats, the 401 path |
| Virtual keys (`core/vkey.rs`) | per key: rate buckets, the spend of a day and of a month packed in words; a table replaced whole | `try_admit`, `debit_usage`, `VkTable::build_with_shares` |
| Control-plane store (`store/lib.rs`, `state.rs`, `backend/`) | one document with a version in a file, S3, DynamoDB or memory; a cached copy per node | `open`, `refresh`, `commit`, heartbeats |
| Application state (`server/lib.rs`) | the tables of a node, the config text taken up last | `apply_config`, `refresh_vkeys`, `adopt_store_state`, the refresher, the heartbeat |
| Administration (`server/admin.rs`, `session.rs`) | sessions; edits of the document | create, update, rotate and delete of keys, users, teams, config |
| Device login (`server/device_login.rs`) | logins under way, by key | start, poll, claim, install |
| Usage pipeline (`server/usage.rs`, `rollup_cache.rs`) | a bounded channel of records, files of records and of hourly rollups by day, a tail of rollups in memory, caches of closed days and months, rows of other nodes | `record`, the flusher (`write_batch`, `write_rollups`, `prune`, `refresh`, `seed_recent_rollups`), `ship_partitions`, `fleet_rollups`; `rollups_for_window` reads all of it |
| Configuration (`core/config/`) | none: a document is parsed, validated and resolved whole | `validate`, `discover_from_env` |
| Provider adapters (`router-providers`), stream framing (`core/sse.rs`, `eventstream.rs`) | per request: the parsed request, its rendering; per answer: a parser's buffer, a translator and a formatter that carry state from event to event | `parse`, `request_to_internal`, `build_outbound`; `push`, `finish` |
| Process entry point (`router-bin`) | the arguments and files a node starts from | boot, bootstrap, reload, the commands |
| Quota headers, sealing, media, console, mock provider, rig | none that outlives a call, or not part of the gateway | |

### How they interact

A request loads the routing table once (`run_chat`) and keeps it.  It plans its targets, and for
each attempt asks `admit_for` for a key: the key's breaker is asked whether it looks healthy, a
slot of the key and a request of its rate are taken, then a permit of the provider.  If the key is
a seat close to its expiry, the seat is renewed first.  The outcome goes back to the breaker; the
permits ride with the body of the answer until it ends or the client hangs up; tokens and spend
are debited on the virtual key afterwards.

A target that speaks the client's dialect is sent the client's body.  For any other the request is
parsed once, documents are rendered for a backend that takes none, and a body is built for the
target's dialect; the answer comes back through a parser of its framing, a translator into OpenAI
chunks and a formatter for the client.

Meanwhile an operator's edit goes through `Store::commit` into the document; the handler that made
it rebuilds the tables of its own node, and every other node finds it by polling.  A rebuild makes
a new table from the new text and *some* of the old table's state: buckets, slots, quotas, leases
and checks are carried over, breakers, seats and the provider's semaphore are not.

### What is hard

- Breakers and buckets are lock-free: an operation is several loads and exchanges, and any number
  of steps of other tasks fall between them.
- Requests in flight report to the table they were routed by, which may no longer be in force.
- Renewing a seat has an effect at the provider (the old refresh token is dead) before the answer
  is on disk; the task may be cancelled at an await, and the process may die.
- The document is edited from several nodes; writes conflict, answers are lost, caches are stale.
- Clients disconnect anywhere.
- The document is edited by handlers that read a cached copy, by commands that open the store anew
  and by nodes that start on an empty one; what one validates another serves.
- Answers arrive cut anywhere, break off, or are refused in the middle of a 200; four surfaces must
  tell the same answer from five providers' ways of streaming it.
- A conversation crosses providers from turn to turn, and so do the ids of its tool calls.
- The same traffic is held in five places, from memory to the store, which hand over to each other
  as time passes, as processes end and as disks are lost; a report must take each hour from one.
- Budgets are counted in memory, and the records that would restore them are dropped under load.

`PROJECT.json` lists each of these as a hazard at its line.

### What makes each part correct

- *Breaker*: a bench is honoured to its deadline, the longest of several wins, a tripped key is
  probed once per cooldown, and a key that is out comes back.
- *Bucket*: nobody overdraws; no time is credited twice; the balance survives a rebuild.
- *Dispatch*: no slot or permit leaks on any exit; a key's ceiling holds across a reload; a
  pool is reported empty only if it is.
- *Seats*: a rotation is recorded before it is used, is single-flight, and is not wasted; a stale
  seat is renewed in the end.
- *Store*: an acknowledged edit is not lost; a guarded edit is made on the version it names; all
  nodes come to hold the document and to serve from it.
- *Virtual keys*: debits that overlap leave the spend they would have left one after the other; what
  the gate reads is what the records say, restarts included; a budget is overrun by no more than the
  requests in flight.
- *Usage history*: a report counts no record twice and none that is kept not at all; a cache that
  would be read says what its files say; history is not overwritten.
- *Directory*: an edit of the document is made on the document as it is; what a node serves leads
  somewhere; an edit of one route leaves the others as they were.
- *Answers*: what the network does cannot be seen; a client is told what the provider said, once and
  in order, in frames its dialect allows; a seat that refuses is held out.
- *Conversations*: whatever targets failed before, the one that is asked is sent all that was said,
  every result to the call it answers, in a shape its wire takes; what is not sent is reported.
- *Device login* (not modelled): one claim installs one credential, and does not fight a renewal.

## 2. What is modelled

| Module | Models | Abstract specification |
|---|---|---|
| `Breaker` | `core/breaker.rs` and the callers' order of calls | `KeyHealth` |
| `VirtualKeysProofs`, `DispatchProofs`, `UsageHistoryProofs`, `DirectoryProofs`, `StreamsProofs`, `ConversationProofs` | theorems about the module each is named for | |
| `KeyProofs` | theorems about `Breaker` and `TokenBucket` | |
| `SharedStateProofs` | theorems about `ControlPlane` and `SeatRefresh`: what several tasks change behind a lock, and keep in a file or a store | |
| `KeyTasks` | what `Breaker` and `TokenBucket` have in common: the tasks that share a key, and the clock | |
| `TokenBucket`, `MCTokenBucket` | `core/token_bucket.rs`, the carrying of buckets in `vkey.rs` and `router.rs` | |
| `ControlPlane`, `MCControlPlane` | `store/lib.rs` with its backends, the building and publishing of tables in `server/lib.rs`, the commits of `server/admin.rs` | `SharedDocument` |
| `ConfigDocument` | `core/config/`: the document, its validation, discovery, the plans of `core/router.rs` | |
| `Directory`, `MCDirectory` | the handlers of `server/admin.rs`, the commands and the boot of `router-bin`, the adoption of `server/lib.rs`, the commands of `store/state.rs` | |
| `VirtualKeys`, `MCVirtualKeys` | `core/vkey.rs`, the debit and the seed of `server/usage.rs`, the edits of a key | the ledger `DebitsSerial` compares with |
| `SeatRefresh` | `server/refresh.rs`, `core/credential.rs`, the maintenance and the 401 path | |
| `Dispatch`, `MCDispatch` | `run_chat` and `attempt` in `server/proxy.rs`, selection and rebuild in `core/router.rs` | |
| `Framing`, `Decoders`, `Renderers` | `core/sse.rs`, `core/eventstream.rs`; the streams and whole answers of `router-providers` | |
| `Streams`, `MCStreams` | `translated_response` and `translated_stream_body` in `server/proxy.rs`, over those three | the answer, written down once |
| `Requests`, `Outbound` | the parsers of the four surfaces and `build_outbound` for the five kinds of provider | |
| `Conversation`, `MCConversation` | the bodies `run_chat` and `run_responses` send over a plan, turn after turn | what was said |
| `UsageHistory`, `MCUsageHistory` | the flusher, the shipper and `rollups_for_window` in `server/usage.rs`; `server/rollup_cache.rs` | |

The `MC` modules define what a configuration file cannot: symmetry sets, a view, a function, the
documents and conversations of a run.

In each module a definition `<name>_<fault>` next to `<name>` is the same with a fault that code
of this kind could have (a plain store for an exchange, a lost recheck, a forgotten release).  No
specification uses these.  Each property is violated when one of them takes the place of `<name>`,
as `mutants` in `PROJECT.json` records.

### Breaker

State: `word` (state and time), `failures`, `windowStart`, `bench`, the `clock`, and for every
thread its `pc` and what it has loaded (`local`).  An action is one access of shared memory:
`LooksHealthy` / `AdmitBench` / `ClearBench` / `AdmitWord` / `ClaimProbe` are `looks_healthy` and
`admit`; `record_success` / `CloseWord` / `Unbench` its three stores; `record_failure` and the
actions from `Reopen` to `Trip` the loop that counts a window and trips; `bench_until` a
`fetch_max`.  `Outcome` is what `attempt` calls, in its order; `Check` is the probe of the
console, which asks no leave of `admit`.  A probe may be dropped without a report.

A request finds the key healthy or it does not.  In the second case the router asks `admit` only if no
healthy key of the pool has taken the request (`core/router.rs:765-816`), so that the request may as well
end up at another key ("elsewhere", `Passed`) and this key is not asked.  For the seats of subscriptions,
and for no other key, `spawn_seat_maintenance` sends a probe of its own: the tasks in `Maintenance`
(`Sweep`).  A key that is no seat is the same module with `Maintenance` empty.

A task samples the clock before it calls.  `MaxSkew` bounds the age of the sample inside a call;
**the program has no such bound**: a task descheduled between its sample and its exchange may
stamp the word with an old time, and the next probe then comes earlier by as much.  `SingleProbe`
and `KeyHealth` say so in their terms (`Cooldown - MaxSkew`).

`KeyHealth` is the gate with every operation in one step.  It has the freedom the code has, no
more: one trial per cooldown, a trip from closed only, a reopen of a half-open gate only.

One behaviour of the design that the properties leave out on purpose: a success withdraws the
bench, and a success of a request that was sent *before* a 429 benched the key is not told apart
from a later one.  So a bench of hours can be wiped by an answer that was on its way.
`NoEarlyAdmission` and `BenchKept` are stated for as long as no success is recorded (`held`,
`due` are reset by `Unbench`).

### TokenBucket

The definitions that say what those of the same name say of a breaker are called `BucketInit`,
`BucketNext`, `BucketSpec` and `BucketTypeOK` here: the theorems about both guards of a key are in one
module.  One bucket per table generation.  `LoadCursor`, `ClaimInterval`, `Credit`/`AddCredit` are
`refill`; `LoadBalance`, `TakeOut`, `Take` the exchange loops of `try_consume` and
`debit_saturating`; `Rebuild`, `CopyCursor`, `Publish` the two loads of `clone_state` and the
swap of the table, with requests of the old table still on the old bucket.  `CarriesChanged` is
the one difference between the two callers: `vkey.rs` makes a new bucket when the ceiling was
edited, `router.rs` carries the old one.  What old requests debit after the copy is lost to the
new table; `spent` is counted per bucket, so the properties do not hide that.

### ControlPlane

The document is the sequence of edits it consists of, its version their number.  An edit touches a key, the
config, or something nothing is served from.  A task that carries an operator's request asks, locks the
node's commits, writes conditionally (or, over a file, reads the version and then stages the document in a
temporary file and renames that), and then acknowledges, fails, or rereads and tries again; a write may be
made and its answer lost.  The handler then collects what the tables are built from and publishes it: two
steps, between which another task may publish.  `Fetch` and `Refresh` are the refresher, `Restart` a node
replaced by a new one.  The backend is one of `Backends`: a conditional one, which operators reach from two
nodes, or the file.  With `SharedVolume` the file is on a volume that several nodes write, and its one
temporary file (`temp`) with it; without, operators reach it from one node (`backend/mod.rs` calls it
"Single node").  `SharedDocument` is one log which edits extend and of which nodes hold prefixes. Who
rebuilds what after a heartbeat is left out.

### ConfigDocument and Directory

`ConfigDocument` is the document as written and everything the loader does with it: `Valid` is the
conjunction of all it refuses, one operator per function of `validate.rs`, and `Plan` the targets a
name is routed to, in tiers (`Tier`; `Configured` passes over what a reload has taken away).
`ValidNames` is the part of `Valid` that is about names and what they lead to, and `IsDocument` the
shape of what is written.  Names are strings, a reference is the sequence of its parts, a number
stands where only its range is checked.  A secret resolves if the machine can read it: environment
and files belong to the machine, secrets of the store to the copy of the node that asks.

In `Directory` a handler reads its node's copy, checks it, and composes a commit (`Compose`); the
commit comes later, and is refused (`CommitRefused`), loses and rereads (`CommitLost`), fails or
wins.  `Insists` is the version it names: that of the copy for all edits of the document and of a
key that exists, none for users, teams, secrets and new keys, and none from the command line.  What
handlers check is taken from where they take it: `Unused` and `Declared` ask the routes and keys the
node *serves*, the edit is made in the copy it *holds*.  `Boot` is a managed node on a store with
or without a document, a seed or an environment, or a node in file mode; its bootstrap is two
commits with a crash possible between them.  `due` is what a node still has to rebuild.

### VirtualKeys

One key on one node.  A request arrives with a secret that was issued, holds the `VkRuntime` it found,
passes or fails the gate, and completes with a cost; `Add` and `AddAgain` are the compare-and-swap loop of
`SpendState::add`, whose period was computed before the word was loaded. Operators rotate, disable, expire,
delete and change the amount or the period of the budget; `Publish` is a rebuild; `Crash` loses the records
that were not written, `Boot` seeds the word from what is on disk.  The record of a debit is sent to the
pipeline after the debit, and dropped if the channel is full (`Record`); `Flush` writes the batch of each
day, or up to a point of one, and what it does not get to disk in a form that can be read back (`Readable`)
is dropped too.  `lost` is what this process dropped.  `ledger` is a word to which every debit is added in
one step. `Spent` is what a scan of the records adds up: it counts units of cost, each under its day
(`Units`), in the days whose ordinal is that of today (`SamePeriod`). The clock counts days; `DaysPerMonth`
of them turn the month.  Ordinals of months stand above those of days, as they do until 2036.

`Straddle` lets midnight fall between the computation of a debit's ordinal and its exchange.  The run
has it `FALSE`: with it, a debit of yesterday may land after one of today and restart yesterday's
period (section 5).

### SeatRefresh

A credential is the number of the rotation that issued it; the endpoint takes the refresh token of
the latest only.  A renewal enters the gate, checks again, posts (`Rotate`, which happens at the
provider), persists and publishes; every step may fail and, while it waits, its client may hang
up.  A reload reads the file (`Load`) and swaps the table (`Swap`) with a `Seat` of its own; a
crash starts from the file.

### Dispatch

A request walks its plan: `Begin` (the budget of attempts), `Filter` key by key, `Pick` among the
healthy, `Recover` over all keys, `Rate`, `Permit`, then one of the outcomes of `attempt`, then
`Collect` or `EndOfBody`, or `Disconnect` at any await.  `Rebuild` makes a new table in between.
A breaker is its gate, up or out: `Breaker` says when it moves, here it may at any time.  Which
key is picked is left open, so that weights, balance and the pin of a session are all covered.
The pool of a target is what `eligible` and `owned_by` leave for one caller.

The slots of a key are carried into the next table while its ceiling stands.  The semaphore of a
provider and the breakers are new in every table: requests in flight on the old table do not count
against `max_concurrency`, and a bench is forgotten.  The model has this as it is in the code; no
property claims otherwise.

### UsageHistory

A record stands for a completed request, and a rollup row for the set of records folded into it;
`Rows` counts how often each record is in a part of a report, so that one counted twice shows.
`record` sends to the channel or drops; `Take`, `CreateDelta`, `CloseDelta` and `DeltaFails` are
the flusher's batch, which may be cut short by the disk and by the end of the process; `prune` and
`refresh` its maintenance; `Put` one file of the shipper, whose answer may be lost;
`fleet_rollups` its look at the objects of others, of which any may fail to be fetched.  `Restart`
keeps the disk, `Replace` does not; either way the node id is new.  `rollups_for_window` is an
operator: it is what a report would say in the state at hand, the sum (`SumOver`) of the parts it reads.
The stamp of a month's cache (`MonthStamp`) is the sequence of the names found in its days, without
the dates: the fingerprint in the code has none either.

Time is in hours, a day `HoursPerDay` of them and a month `DaysPerMonth` days.  The clock waits for
the channel and the flusher: `flush_interval` is at most five minutes, so a batch is written well
within the hour of its youngest record.  A record may still be written after midnight, when its day
is closed already and may have been cached.  In one step, and in more in the code: the records'
files of a batch with the tail, a pass over the caches (`write_cache` removes the stamp, renames
the rows and then writes the stamp, so that a crash leaves a cache that is ignored), a report, and a
look into the store.

### Framing, Decoders, Renderers and Streams

An *exchange* is a provider's dialect, a client's surface, and an answer: texts, calls with their
arguments in fragments, thoughts, a stop reason, a usage, perhaps a refusal.  `Values` spells the
answer as the provider streams it, `Bytes` as it is framed; those, and `Read`, which is what the
SDK of a surface makes of its frames, are outside the repository, and are written from what the
adapters' comments and tests say of them.  Between the two everything is translated from the code:
`Push` (`Blocks` for SSE with its line breaks and comments, `Frames` for the AWS event stream with
its prelude and checksum), `OnEvents` (one translator per provider), `OnChunks` and `Finish` (one
formatter per surface), and for whole answers `ToOpenAi`, `Aggregate` and `RenderFor`.

The network delivers any number of bytes at a time out of `Bursts` or all there are (`Arrive`), the
connection ends or breaks (`EndOfStream`, `BreakOff`), the client hangs up, or the answer is collected
whole (`Collect`, `CollectFails`).  Data are fragments, so that a text that is cut in two is seen to
be put together again; ids and names of models are left out.

### Requests, Outbound and Conversation

A client keeps a conversation in its own dialect and sends all of it every turn.  `RequestToInternal` is the
four parsers of the surfaces, `BuildOutbound` the builders of the five kinds of provider, with their merging
of turns, their blocks, the ids and names of calls, what they drop, report and refuse.  `Conversation` walks
a plan: `Relay` where the body goes as it came, `Translate` with the request parsed once and rendered once
for all targets that need it, `Refuse` (a rendering that fails included), `Advance` after a failed target,
`Answer` with the ids the provider or the gateway gives, `Say`.  Each call carries its number `of` in the
conversation, which no translator reads: it is what the properties compare. A parameter is there or it is
not (`Fields` are those the chat model has a place for); each surface keeps those its parser reads
(`Sampling` and a few more).  A medium is inline or `remote`, by reference: of a document by reference the
builders read nothing (`Inline`), the Gemini parser reads nothing of any, and the rendering for Codex
refuses the request (`Unreadable`).  An image stands for the rendered pages of a document, up to the ceiling
on pages; tool schemas, model names and effort tables are data.

What a list of messages becomes is what its messages become, joined, and then what is next to each other
is merged: `AnthropicSaid` to `CodexSaid` say the first, `Merged` (`push` of the builders) and `Filled`
(the filter at the end of Anthropic's) the second.  The loops of the code carry state from turn to turn;
where the state is a function of what came before, the model says it so.  The counter of the ids a Gemini
request is given is the number of calls before, and the map from names to ids the last call of the name
(`GeminiPart`, `Answers`); the map from ids to names that a Gemini body is built with is `CallName`, over the
whole conversation, because the code fills it before it builds.

`ConversationAssumption` says what the constants are: settings from `Fields`, plans that are not empty,
openings without calls and results, replies of texts and calls, and what a client adds of texts and media.

## 3. Runs

| Run | Checks | Question | Distinct states |
|---|---|---|---|
| `breaker` | `NoEarlyAdmission`, `BenchKept`, `SingleProbe`, `GateImplemented`, `Recovers` | Do two racing tasks keep the breaker's promises through trips, benches and probes, and does a seat that is out come back, if requests go elsewhere, lose its probe or never return? | 124,990 |
| `token_bucket` | `BucketTypeOK`, `RateHeld`, `CreditedOnce` | Can consumers, a debit, refills and a rebuild overdraw a bucket? | 446,501 |
| `control_plane` | `NoLostEdit`, `GuardedEdits`, `DocumentShared` | Is an acknowledged edit safe from conflicts, lost answers, retries and restarts, over a conditional store and over a file of one node? | 1,456,992 |
| `seat_refresh` | `PersistedFirst`, `RotatedOnce`, `RotationHeld`, `Renews` | Is a rotation ever lost unnoticed, repeated, or a seat left stale? | 27,256 |
| `dispatch` | `Conserved`, `CeilingStands`, `NotTurnedAway` | Does a slot leak, a ceiling break across a reload, or a pool with room turn a request away? | 653,995 |
| `usage_history` | `CountedOnce`, `KeptCounted`, `CachesHonest`, `HistoryStands` | Is a request ever counted twice or lost from a report, as it moves from memory to files, caches and the store? | 504,684 |
| `virtual_keys` | `TypeOK`, `DebitsSerial`, `SpendKept`, `OverrunBounded` | Does the gate read what was spent, and how far is a budget overrun, when records are dropped and writes fail? | 896,303 |
| `directory` | `LiveServes`, `EditsLinearize`, `RoutesKept` | Can consoles, commands and boots, each acting on what it last read, undo each other's edits or make a document that leads nowhere? | 381,079 |
| `streams` | `SplitsUnseen`, `FramesOrdered`, `SaidIsHeard`, `RoadsMeet`, `HeldOut` | Is a client told what the provider said, however the network cuts it and whichever road it takes? | 31,009 |
| `conversation` | `AllCarried`, `ResultsAnswered`, `BackendAccepts`, `Accounted`, `PrefixKept` | Is the next target of a plan sent all of the conversation, in a shape it takes, and are the caller's settings accounted for? | 169,109 |
| `propagation`, `failure_told` | `Propagates`; `FailureTold` | The two divergences that open section 5; TLC finds each violated. | |

Six more configurations are for a reader to run by hand, each to see one of the divergences 3 to 8 of section 5:
`StaticKey.cfg` (of `Breaker`), `SharedVolume.cfg` (`ControlPlane`), `BudgetLag.cfg` (`MCVirtualKeys`),
`DocumentLost.cfg`, `ResultImageLost.cfg` and `SilentDrop.cfg` (`MCConversation`).

`TypeOK` is checked where a counter could leave its bound by a fault (`virtual_keys`, and as
`BucketTypeOK` in `token_bucket`).  The other modules define one too, for the reader and for proofs;
`INVARIANT TypeOK` in their `.cfg` checks it (`SeatTypeOK` in that of `SeatRefresh`).

`CHECK_DEADLOCK FALSE` is set throughout because the bounded clocks and counters let a model come
to rest; the gateway itself only stops when it is stopped.

### Bounds, and why they are enough

- *Two threads* on a breaker or bucket: every race in the code is between the load of one task and
  the exchange of another.  Third parties appear as the outcomes that other requests may report.
- *Breaker*: `MaxClock` 3 with `Threshold` 2 and `Cooldown` 1 leaves time for a trip, a probe that
  fails or dies and the probe after it, and for benches of two lengths to overlap.  `Window` 0 lets
  two failures of one instant trip the breaker and one of the next instant begin a new window.
  `LastTrouble` 1 bounds the time of failures, so that the clock outlives the last of them.  `failures`
  itself is not bounded, as it is not in the code; once `MaxCount` of them are counted no exchange fails for
  no reason, so that a run has finitely many.  The two tasks are a request, which may be an operator's check,
  and the maintenance, which goes through the same accesses; `KeyProofs` proves the safety properties for any
  number of each.  `StaticKey.cfg` has one request at a time, no maintenance, and a threshold of one.
- *Bucket*: a token is two units, so a balance may hold a part of one; `Rate` and `Debits` are such
  that a refill is capped in some behaviours and not in others.
- *Control plane*: two nodes, two operators, one edit each, two attempts per commit and one restart; every
  conflict is between two edits.  `SharedVolume.cfg` has an edit on each of two nodes.  A commit is attempted
  five times in the code and twice here, so that giving up is reached with two edits.
- *Seats*: three credentials (two renewals in a row), a request beside the maintenance, and one
  each of reload, crash and revocation.
- *Dispatch*: two requests contend for two keys with one slot each and one permit; the provider in
  reserve is keyless; one key has a rate that may refuse, the other a ceiling that may be edited
  across one reload.  `Cap` stands for `MAX_ATTEMPTS_PER_TARGET` (8).  With two keys no more
  attempts are asked for.
- *Usage history*: two records (one batch of both, two batches, or one here and one on a peer), days
  of two hours and months of two days, a tail of two days as in the code, a retention of one day
  for records and three for rollups, one peer with one object, a restart and a lost disk.  The clock
  starts past the reach of the tail and runs for four days: long enough for a day to be cached, its
  month to be cached, the records and then the rollups to be pruned.  Two hours make a day because
  a report takes a day's first hour and its last from different places, and none in between.
- *Virtual keys*: two requests, three days with a month's turn among them, one edit and one crash; a word of
  two bits, and costs and limits of nought and one, so that either request alone uses a budget up and the
  other overruns it.  `BudgetLag.cfg` has a day, one limit (2) that one request (2) uses up, and a crash.
- *Directory*: a managed node, a node in file mode and a shell; a document with an alias of each kind (of a
  model, of another alias, and one whose own name reads as a model), a chain, a group, a service, a key, a
  user, a team and a secret, or an empty store.  Two edits and one crash: each race is between two commits.
- *Streams*: `Bursts` of one and four bytes, or all at once, reach every cut between two tokens; text, one
  call and two, calls before and after text, calls with one, two, three fragments and with none, each stop
  reason (of Bedrock's a filter too), a refusal before and after the first words; SSE with and without
  `\r\n` and comments.
- *Conversation*: up to four messages after the opening; plans of two targets that cross dialects, so
  that every dialect is asked second after another has failed; media inline and by reference in the openings,
  an image in a tool's result; settings that one surface reads and another does not,
  and that one target has a place for and another does not; replies with text, one call, two
  calls, one tool called in two turns, arguments that do not parse, and nothing.

Symmetry is used in safety runs only.  `MCDispatch!View` leaves out the gates of a table that is
neither in force nor used by a request: nothing reads them any more.

### Fairness, and why the code justifies it

- *Breaker*: the clock ticks; a call runs to its end and an outcome arrives (`send` has a timeout);
  an exchange does not fail for ever (`SF` on `Trip`); the loop of `spawn_seat_maintenance` runs for ever
  (`WF` on `Sweep`); requests keep arriving (`WF`), but none of them need be put to a key that is out.
  With `Maintenance` empty nothing else is, and `StaticKey.cfg` shows what then becomes of the key.
- *Control plane*: tasks are scheduled, the backend answers or fails, the refresher polls for ever.
- *Seats*: the gate is a fair mutex of tokio; the maintenance ticks for ever; the endpoint and the
  disk do not fail *every* time.  A timeout bounds the wait for the head of the endpoint's answer
  only; that its body ends is an assumption about the provider (`server/refresh.rs:208`).
- The other runs are checked for safety only.

## 4. Theorems

`KeyProofs` proves of the breaker, for any set of threads and any thresholds, windows, cooldowns, benches,
skew and bounds (the assumption `BreakerAssumption` says only that they are numbers, the threshold
at least one):

- `Invariance`: `Spec => []IInv`;
- `BenchSafety`, `LongestBench`: the invariants `NoEarlyAdmission`, `BenchKept`;
- `OneProbe`: the action property `SingleProbe`;
- `Refinement`: `Breaker` implements `KeyHealth`.

None of the properties is inductive.  `IInv` adds what a thread knows between two accesses:

- `SamplesFresh`: the sample of a call lags by at most `MaxSkew`;
- `LoadedWord`: what the loaded word made the thread do next (a claim follows a word that is out
  and waited out, a reopen a half-open one, the window's counters a closed one);
- `WordCarriesProbe`: the time in the word is that of the last probe or later, up to the skew, and
  a closed word means that no probe is outstanding;
- `BenchBounds`: a request that has not passed `admit`'s look at the bench is due no later than
  `held`, one that has passed it was due before the clock.

`NextStep` has one lemma per operation: `SelectStep`, `AdmitStep`, `CheckStep`, `OutcomeStep`,
`BenchStep`, `SucceedStep`, `OpenStep`, `WindowStep`, `TickStep`; `GotoFacts` and `ThreadStep` say
what a move of one thread leaves alone.  The step of `SingleProbe` and of the refinement is
`ProbeTime`: when the exchange of `ClaimProbe` succeeds the word is the one that was loaded, so
its time is not before the last probe.

`KeyProofs` proves of the bucket, for any threads, ceilings, rates, costs and rebuilds
(`BucketAssumption`: they are numbers):

- `BucketInvariance`: `BucketSpec => []BucketInv`;
- `BucketTyping`, `IntervalsOnce`: the invariants `BucketTypeOK` and `CreditedOnce`;
- `NoOverdraft`: `~CarriesChanged => (BucketSpec => []RateHeld)`.  Where the ceiling is edited and the
  bucket carried, as in `router.rs`, the bound by the configured ceiling is false (section 5).

`BucketInv` says: the balance of a bucket and what was taken out of it add up to at most its capacity and
the worth of the instants credited, which all lie before its cursor (`Conservation`, for the copy
under construction too); an interval that a thread has claimed and not yet added is disjoint from
what was credited and from what others have claimed (`CreditedOnce`); a claimed interval is not
empty and a thread's bucket is published (`InOrder`); a bucket has the ceiling that was configured
(`CeilingInForce`).  `BucketStep` proves once what a step of one thread on one bucket must satisfy;
each operation is an instance of it.  `Worth` and `WorthOfMore` are the two facts about
cardinalities it rests on: credit is counted in sets of instants so that "credited twice" means
something, and the sum is the rate times their number.

`VirtualKeysProofs` proves, for any requests, models, costs, limits, periods, edits and bounds
(`VirtualKeyAssumption`: they are numbers, there is a greatest cost and a greatest limit, and that
is not zero):

- `Typing`: `Spec => []TypeOK`, with which goes that no word overflows;
- `Serial`: `Spec => []DebitsSerial`, crashes and debits across midnight included;
- `Keeping`: `~Straddle => (Spec => []SpendKept)`, crashes included: the word is what the records of the period
  add up to, those on disk, those waiting and those this process has dropped;
- `Overrun`: `~Straddle /\ MaxCrashes = 0 => (Spec => []OverrunBounded)`.  A request in flight when
  the process dies is not billed, and one whose debit spans midnight may restart a period that is
  over; the bound is stated without both.

`DebitsSerial` is inductive as it stands.  `OverrunBounded` is not: whether a debit fits depends on
who was admitted.  `OInv` says that what a period has cost and what the requests in flight may still
cost stay together under the bound (`Bounded`): the gate lets one in only while the spend is under
the limit, and a debit moves its cost from one summand to the other.  `ByTheTable` says that whoever
is let in, or billed, is so by a definition that was enforced.  `Stepped` proves once what a step of
a request that leaves the word alone must satisfy, `Landed` what a request that ends gives back.

`SpendKept` needs to know which days a record can be of.  `KInv` adds that no record is of a day to come
(`NoFuture`; none on disk, waiting or lost), that what is enforced and in flight has a period under which
something was billed (`UnderPeriods`), that a process that is down has nothing in hand and remembers nothing
it dropped (`DownLost`), and, for each of the periods alone, that the word is what the records say (`Kept`).
A day that begins a new period empties both sides: the word by its ordinal, the records because there are
none of that day yet.

`SharedStateProofs` proves of the store, for any nodes, operators, edits, attempts and restarts
(`ControlPlaneAssumption`: they are numbers, there is an edit to make, the task of an operator is not
a refresher, and no operator is called "free"):

- `Invariance`: `~SharedVolume => (Spec => []IInv)`;
- `EditsKept`, `GuardsHold`: the invariant `NoLostEdit` and the action property `GuardedEdits`, under the same
  hypothesis;
- `Refinement`: `ControlPlane` implements `SharedDocument` (`DocumentShared`), under the same hypothesis.

On a volume that several nodes share, `NoLostEdit` is false (section 5).

What is not inductive about `NoLostEdit` is everything a task took in before it writes.  `IInv` says
that each cached, loaded or edited document is one the store has been (`Held`), so that an equal
version means an equal document (`SameVersion`).  `Sound` says what a task may rely on at each label:
from the lock to the publication it is the one that writes on its node, the rename of a file follows a
version check under that lock, and a file has one node; `Numbered` that no two edits under way are one.
`Moved`, `Works`, `Starts` and `Done` prove once what a step must satisfy, `Made` is the only way the
store changes.

`SharedStateProofs` proves of the seats, for any seats on one file, requests, rotations, reloads, crashes and
revocations (`SeatAssumption`: they are numbers, there is a seat, and no request is called "nobody"):

- `SeatInvariance`: `SeatSpec => []SeatInv`;
- `FileFirst`, `PostedOnce`, `NoneForgotten`: the invariants `PersistedFirst`, `RotatedOnce`,
  `RotationHeld`.

`InOrder` orders the copies: a credential reaches the endpoint before the file, and the file before
memory and the tables under construction.  `Sound` says that who posts, or has its answer, has the gate;
that what is posted is what the Seat still holds; and what is in a task's hands once it is answered and
once it is written.  `Past` is what `RotatedOnce` needs to be inductive: a Seat is past each credential it
was renewed from, or the task that will take it past is at the gate, or an answer was lost.  A reload
touches no Seat of a table in use, so it disturbs none of this.  `Quiet` covers every step that carries no
answered rotation.

`DispatchProofs` proves, for any requests, providers, pools, plans, ceilings, caps and rebuilds
(`DispatchAssumption`: finitely many keys and requests, no key is a provider, plans are not empty and
ceilings not zero):

- `Invariance`: `Spec => []IInv`;
- `Typing`: `TypeOK`, with which goes that no plan is read past its end;
- `Conservation`, `Ceilinged`, `NobodyTurnedAway`: the invariants `Conserved`, `CeilingStands` and
  `NotTurnedAway`.

`Sound` says at which labels a request may have a slot or a permit; `Carried`, that a semaphore is of the
table it serves or an older one, and of the first as long as the ceiling stands, from which
`CeilingStands` follows by `Conserved`.  A step of a request does one of three things with a slot and one
with a permit (`SlotMove`, `PermitMove`): nothing, take one, return its own.  `SlotsKept` and
`PermitsKept` show that each keeps the accounts, by `Recount` on sets that differ in one request;
`Dropped`, `Takes` and `Serves` put every operation under one of them.  For `NotTurnedAway`, `Unseen` says
that a key that has had room all along is still to be looked at: a key is taken off the list only for want
of a slot, of its gate or of its rate (`PickSearches`, `RecoverSearches`, `RateSearches`), and the rest of a
request's way leads out of the search (`RestSearches`).

`UsageHistoryProofs` proves, for any records, hours, days, months, peers, restarts and lost disks
(`HistoryAssumption`: they are numbers; rollups are kept at least as long as the tail reaches and as
records are, as in the code, where the factor of `ROLLUP_RETENTION_FACTOR` is four and the tail two days;
the clock starts where the tail does not reach before time):

- `History`: the action property `HistoryStands`;
- `HonestCaches`: the invariant `CachesHonest`.  What it says of a month is about the days of it that have
  rollups; a day of which only records are left is not judged (section 5);
- `Once`: the invariant `CountedOnce`, for every record that the store does not have in two objects;
- `NoneDropped`: `TailDays <= 2 => (Spec => []KeptCounted)`.  The code seeds the tail from yesterday's
  and today's files (`server/usage.rs:1729`) and has two days in `RECENT_ROLLUP_SPAN_MS` (1786): a tail
  that reached further back would be short of a day after a restart.  The day in which the tail begins is
  left out (section 5).

The invariants are layers.  `Shape` types the state.  `Named` says whose a file can be: a name of this
process with a number it has used, or of a process before it (`Old`), so that a name is never given to
two files and never given again once its file is pruned; `HistoryStands` follows.  `Honest` is what
makes `CachesHonest` inductive: a day's cache was built from files of batches that are done with, whose
names no later batch can take, and says what the files say while they have the names it was built from
(`DayHonest`); a month's was built from some snapshot of files, of which the same is true (`MonthHonest`).
Since a stamp is made of names and names are not used twice, a stamp that is met again is met with the
same files.  `Whereabouts` says in how many places a record can be, and in which at once: in the channel, in
the flusher's hands, in one file of each kind on the day it is stamped with (`Filed`, `Flowing`), in an
object under the name it has or had on disk (`Shipped`), or among the rows of the fleet, and then not in
any file here (`Seen`).  `CountedOnce` follows by adding up what a report reads: at most one of its four
parts has the record.  `TailHolds` is what `KeptCounted` needs: a record in a file of a day after the one
the tail begins in is in the tail.

`DirectoryProofs` proves, for any nodes, documents, drafts, seeds, files, environments, edits and crashes
(`DirectoryAssumption`: the shell is not a node; a store has the fields of a store, and a document in it
passed the loader's checks of names; documents, drafts and seeds have the shape of a document):

- `Serves`: the invariant `LiveServes`, of names, accounts and static keys;
- `Linear`: the action property `EditsLinearize`;
- `Routing`: the action property `RoutesKept`, for the edits it is about: not those of an alias that names
  another or is itself named like a target, by which other names do change (section 5).

`ServesInv` says that what is served leads somewhere because the loader lets no name through that the
table cannot plan (`NamesLead`): what it looks up to accept a name is what `Plan` looks up to route it.
The first commits of a node that does not serve yet are named in it, because such a node takes up what it
has committed.  `EditsInv` is `Copies`, that a copy with the store's version is the store, with `Pending`:
an edit under way names a version, and if that is its node's copy's then what it will write is the edit of
that copy and valid there.  `EditsCompose`, `WritesCompose` and `CommandsCompose` put the handlers and
commands under one form each, so that a handler is looked at once.  For `Routing`, `DocsInv` says that every
document written passed the loader (`Sound`, `Written`).  Then an alias followed as far as there are aliases
comes to its target (`Paths`, `Settled`, `WalkEnds`), taking away an alias that names a model leaves every
other walk as it is (`WalkStays`), and with it chains, pools and plans (`ChainStays`, `PoolStays`,
`PlanStays`).  `ShownStays` is about the editor of an alias: what it shows, saved, leads where it led.

The last theorem was not provable of the property as it was first stated.  An alias may have a name that
reads as a model, `claude/x`; deleting it leaves an alias that led through it with `claude/x` as its target,
which is then routed to that provider instead.  TLC finds it once the run has such an alias; `RoutesKept` now
leaves it out, like an alias that names another, and the run has both kinds.

Where a proof needs an induction over numbers, as the walk along aliases does, it is made with sets: what
does not hold somewhere first fails at a least number (`Least`, `Climb`), which needs the well-foundedness of
the numbers and no induction theorem with an operator for a parameter.

`StreamsProofs` proves, for any set of exchanges that can be written down (`StreamsAssumption`:
`Exchanges \subseteq Exchange`) and any numbers of bytes that may arrive at a time:

- `SplitsNeverSeen`: the invariant `SplitsUnseen`, what the client has been sent when it is all read does not
  depend on how the network cut the provider's bytes;
- `RefusedHeldOut`: the invariant `HeldOut`, an answer of Codex that is refused strikes its key once when the
  stream or the body has come to its end, and no other answer strikes one.  A stream that is cut short, or
  that the client hangs up on, is left out: its refusal may not have been read.

The first follows from `Coursing`: what has arrived (`got`) and what has not (`wire`) are the bytes of the
exchange, and every part of the gateway is where `got`, had it come at once, would `Put` it.  A step keeps that
because what two bursts do one after the other is what they do together: of the parser (`Bursting`: an
unfinished block or frame waits in the buffer, and the blocks of a whole are those of its parts), of the fold
over a provider's events (`EventsJoined`), over chunks (`ChunksJoined`) and over frames (`FramesJoined`), and of
the three in a row (`BurstPuts`).  What the parts of the answer become depends on which of its values a provider
can write at all, which `ValuesSay` establishes for each provider (`CodexSays` to `BedrockSays`).  A fold is not
unfolded by induction on an operator: `EventsTraced` and its kin give it the list of the states it goes
through, and two lists agree because they could not first differ anywhere.  For the second, `Settling` relates
the answer that is aggregated to the answer that was refused; `AnswerParsed` says the whole body of bytes parses
to the values the provider wrote, `CodexEnds` that a stream of Codex's that is refused ends with its refusal,
and `FailureIsRefusal` that a provider's value of failure is one that `Aggregate` or `ToOpenAi` refuses.

`ConversationProofs` proves, for any requests, plans, openings, replies and what a client adds, over
conversations of any length (`ConversationAssumption`):

- `AllCarriedHolds`: the invariant `AllCarried`, a target that a conversation is translated for is sent every
  text, every call with its arguments, every result with its words and every medium that `Reach` does not leave
  out, in order and once.  `Reach` leaves out what the code does: a document by reference for Anthropic, Gemini
  and Bedrock and from the Responses surface, what a Gemini client gives by reference, audio for Codex and from
  Responses, and media of results and of system turns but for Codex;
- `AccountedHolds`: the invariant `Accounted`, what the caller set is carried, refused or reported, but for what
  `Unheard` names, which the caller's own surface does not read, and `Uncounted`, which a translator has no
  place for or `run_responses` does not count;
- `PrefixKeptHolds`: the invariant `PrefixKept`, what a target is sent begins with what it would have been sent
  for any earlier state of the conversation, under the same key, if clients open with their instructions
  (`SystemFirst`).  A Gemini target of a conversation in which calls of two names share an id (`Clash`) is left
  out, which is no rare case where several answers of Gemini each count their calls from nought.

None is inductive.  `IInv` adds what the cache is good for: a request that is cached is the request of what
has been said, a rendering that is cached is that request's, and a body that was translated is `BodyFor` of
what was said, and not refused.  That is what `Translate_InPlace` breaks.  It also says which conversations
there are (`FineTalk`): calls are an assistant's, results a user's and first in their turn, with texts and
images only; four operations have to keep that (`FineOpening`, `FineAnswer`, `FineResultOf`, `FineNext`).

`AllCarried` follows in three steps.  `RequestSays`: the messages of the request give a target what is due
of the turns, whichever of the four surfaces read them (`OpenAiCarried` to `ResponsesCarried`, each of a
turn); this is where a turn comes apart into results, words and calls, and the order within each kind is
kept. `BodySays`: what a body says is what its messages say, for the five builders, each medium as the
builder takes it (`TakenAsIs`, `TakenInline`; a document by reference is a mark less, `InlineFacts`,
`MediaReach`); merging turns and leaving out empty ones changes none of it (`BlocksMerged`, `BlocksFilled`).
`FittingFacts` is the rendering of documents in between.  `SentSays` puts them together.  The property
compares joined lists, and so every step is a fact about a map from items to lists: it distributes over `\o`
(`MarksJoined`, `GivenJoined`) and over `FlattenSeq` (`MarksFlat`, `GivenFlat`), the latter by
`Homomorphic`.  `FlattenSeq` itself is reached by the trace of its fold (`FlowTraced`), and two traces agree
because they could not first differ anywhere (`LaidOnce`).  `Accounted` is `RequestAsked`, a surface keeps,
reports or does not hear what was set, and `BodySettles`, a builder that does not refuse carries or reports
what it is given.

`PrefixKept` compares two bodies: the one that was sent, and the one that `BodyFor` gives for what had been said
up to an earlier turn of the user.  The messages of the first are those of the second and then more
(`RequestGrows`), and the pieces of a body are again joined as its messages are (`BodyGrows`, over `BodyBlocks`
and `UnhintedJoined`), so that what is added can only come after.  Two things could undo that.  A result that
Gemini is sent has the name of its call, which is looked up in all of the calls: it stays what it was only if
the call came before the result and no call of another name takes its id, which is why the property leaves out
`Clash` (`SentStays`, `NameStays`, `RequestCalls`).  And a message of the system
that is added would change what is taken out to the front.  `PInv` adds to `IInv` just these: every result of
what has been said is of an earlier call (`Answerable`, which `NextAnswers` keeps since a client answers the
calls of the turn before), and no turn of the system comes after one of the user (`Ordered`).  The
hypothesis `SystemFirst` says the same of the openings.  Nothing in the router enforces it, and without it the
property fails: instructions that come late move to the front of what is sent and change its key and its
`system`.  The openings of the run satisfy it.

Only model-checked:

- The liveness properties (`Recovers`, `Renews`) and everything about `ENABLED`, which this prover cannot do.
- Of `Streams`, `FramesOrdered`, `SaidIsHeard` and `RoadsMeet`.  They compare what was heard with what was said:
  their proof needs the whole sequence of an answer's values through a translator and a formatter at once,
  where those above need only how the pieces are put together; and `FramesOrdered` is not true of every exchange
  in `Exchange`, which has calls without a name that the formatters wait for.
- Of `Conversation`, `ResultsAnswered` and `BackendAccepts`.  They relate a result to a call
  in another turn, across the merging of turns: which turns become neighbours depends on all of the conversation
  between them, so that nothing about a single message composes to it as `AllCarried` does.  The second is not
  true of every request `ConversationAssumption` allows either: a caller may force a tool that is not offered.
- The divergences that open section 5: a counterexample needs an instance.

No module here declares a recursive operator.

## 5. Where code and documents part

TLC has a counterexample for each of eight.  The first two are runs of the project, with the quotations in
`PROJECT.json`; the others are configurations to be run by hand (section 3).

1. `propagation`: a conflict makes `Store::commit` cache the other node's document without
   anyone building tables from it, and the refresher then finds nothing new; the docs say an edit
   is live everywhere within `refresh_interval_secs`.
2. `failure_told`: a stream that breaks off after its first byte reaches the client as an ordinary
   end (`server/proxy.rs:1467`); the docs say a terminal error is sent in the client's dialect.
3. `StaticKey.cfg`, `Recovers`: a key that is no seat and whose breaker is open is asked only when no healthy
   key of its pool has taken the request (`core/router.rs:808`), and may never be asked again;
   `docs/operations/reliability.md:27` says "Cooldown (15 s) → half-open probe → recovery is automatic and gradual."
4. `SharedVolume.cfg`, `NoLostEdit`: two nodes on one file both match its version, and each may install what
   the other staged (`store/backend/file.rs:80-107`); the comment (6-9) says the check of the version "makes it
   safe for more than one process", and `docs/operations/fleet.md:31-33` offers it as a fleet.
5. `BudgetLag.cfg`, `LagBounded`: records dropped by a full channel or a failed write
   (`server/usage.rs:1084`, 1680) are in no seed, however long ago they were debited; the comment (6-9) says
   "cutoff lag is bounded by the flush interval".
6. `DocumentLost.cfg`, `DocumentsCarried`: a document by reference reaches Anthropic, Gemini and Bedrock as one
   without bytes (`anthropic.rs:293-302`, `gemini.rs:273-279`, `bedrock.rs:221-230`), and a Gemini client's
   `fileData` nobody (`gemini.rs:493-541`); `docs/api/01-endpoints.md:42` says "Translated where both dialects
   support documents; precise `400` otherwise".
7. `ResultImageLost.cfg`, `ResultImagesCarried`: the parser keeps the images of a tool's result, since "keeping
   only `text` handed the model an empty result it could not act on" (`anthropic.rs:615-619`); the builders for
   Anthropic, Gemini and Bedrock leave them out (`gemini.rs:206-222` and its like).
8. `SilentDrop.cfg`, `DroppedLoudly`: what a surface's parser does not read (`anthropic.rs:690-712`,
   `gemini.rs:593-613`), or a builder has no place for (`subscription.rs:488-519`), is left out without a report;
   `docs/components/provider-adapters.md:57-59` says "never a silent behavior change".

Others were seen while modelling, and are in the models as the code has them.

*Keys and seats*

- Editing `rpm` or `tpm` of a provider key does not take effect, since `carry_bucket`
  (`core/router.rs:625`) clones the old bucket, its capacity included; the comment above it says a
  balance is kept "when a limit is unchanged in kind".  (`CarriesChanged = TRUE` in `TokenBucket.cfg`
  shows it.)
- The 401 path renews "unconditionally" by its comment (`server/refresh.rs:117`); the re-check under
  the gate (144) declines unless the token is near its expiry.
- `install` of a device login writes the file and publishes to the seat without the file's gate
  (`server/device_login.rs:493`): a renewal whose answer was on its way is then written over the
  credential just signed in, while the login is reported as signed.  `start` awaits the code between
  its look for an outstanding login (209) and the `insert` of its own (230), so two operators can hold
  two codes for one seat, which the comment above it (206) means to prevent.
- A success of a request sent before a 429 benched the key is recorded after it and wipes the bench
  (`core/breaker.rs:190`).  A rebuild gives every key a new breaker and every provider a new
  semaphore (`core/router.rs:385`, 431).
- Two providers on one `auth.json` are "one seat wearing two names" by a comment
  (`server/refresh.rs:46`); each has a `Seat` of its own, and the one that did not renew keeps the
  rotated token until a reload.

*Budgets*

- A budget whose period is edited starts from nothing (`core/vkey.rs:200`), though the spend is
  "carried across" rebuilds (173); a budget that is added is not seeded until the next restart.
- A debit whose ordinal was computed before midnight and lands after one of the new day restarts the
  old period (`server/usage.rs:1167`, `core/vkey.rs:204`): `SpendKept` fails with `Straddle = TRUE`.
- Budgets are counted per node.  The spend word holds about 1.1 million dollars; a budget above is
  never exhausted.  A second rotation within the grace of the first drops the first secret.

*The document*

- A node in file mode adopts the document of the store when that changes
  (`server/lib.rs:271`), where the docs keep its file authoritative.
- Handlers that commit without a version (`update_user`, team members, keys of services, secrets) can
  leave members or services that were deleted meanwhile, and `update_user` a user.
- Deleting an alias that names another alias takes the chain written under that name with it; an
  alias that has a chain under its own name can be neither migrated nor deleted, though a comment of
  `put_route` says so.  Deleting an alias whose name reads as a model sends what led through it to that
  model of that provider.  Dropping an alias takes its chain from requests that name the target
  directly.  Migration makes a chain that was tried in order a reserve drawn by weight; of two
  fallbacks to one target one is lost.
- `put_secret` does not rebuild what references the secret (`server/lib.rs:279`); a deleted secret
  makes the boot of a managed node fail.  A document that is rejected also keeps the node's keys from
  being refreshed.  A console edit drops providers that were discovered.  Two nodes that bootstrap one
  store each print an admin key, of which one works.

*Reports*

- `rollups_for_window` reads days from disk up to the midnight of the day in which the tail begins
  (`server/usage.rs:2104`), and from memory the hours from two days before now.  What lies between
  is in neither, although the comment says that such days "are already in `rows`".  After a restart
  that whole day is missing.  `KeptCounted` excludes this one day, and holds for all others.
- Rows of the fleet older than the oldest partition on this node's disk are cut from a report,
  because the window's start is clamped to that partition (`server/usage.rs:2079`, 2151).
- A file that is put, not marked, and put again after a restart is in the store under two node ids
  (`server/usage.rs:2893`); who does not hold the file on disk counts it twice.  `CountedOnce`
  excludes records that are in two objects.
- A file can be put while it is written: the comment "any file that exists is already closed"
  (`server/usage.rs:2858`) overlooks the time between `File::create` and `finish`.
- A month's cache is built from the days that have rollups (`server/rollup_cache.rs:151`); a day of
  which only records are left is in the report by days and not in the report by months.

*Answers*

- Gemini's call ids are positions in one answer, so a result of an earlier turn can be told under the
  name of a later call (`router-providers/src/gemini.rs:341`, 411, 170): `Clash` in `Conversation`.
  Two calls of one function in one turn of a Gemini client cannot be told apart (`Twins`).
- A Gemini client is not told of a streamed call without arguments (`gemini.rs:734`), nor of a usage
  that comes in a chunk of its own.  An Anthropic client is told 0 prompt tokens by a stream.
  Bedrock's `content_filtered` ends in `stop` or `tool_calls` by a stream (`bedrock.rs:375-380`) and in
  `content_filter` as a whole (278-283); `RoadsMeet` leaves out just that (`Filtered`).
- An error event of Anthropic and an exception of Bedrock inside a stream are dropped; a stream that
  breaks off before its first event ends without a start.
- `run_responses` does not report what the adapter dropped (`server/proxy.rs:2934`).  Codex leaves out `n`, log
  probabilities, penalties, `seed`, `stream_options`, `parallel_tool_calls`, `user`, `metadata` and audio
  without a report; Anthropic, Gemini and Bedrock `user`; Anthropic `parallel_tool_calls` without a tool choice
  or with a schema.  The parser of Anthropic hears of what is set only the settings of sampling, that of Gemini
  those and the number of answers, that of Responses a few more (`anthropic.rs:690-712`, `gemini.rs:592-613`,
  `responses.rs:26-189`).  `Unreported` and `Unheard` list them, and `Accounted` holds for the rest.
- An inline document of a Gemini client becomes an image; Anthropic's `tool_choice` `none` and the response
  formats of Anthropic and Gemini clients are not read.  An empty answer that comes back is an empty turn
  between two of one role (`anthropic.rs:188-247`): `Mute`.

## 6. Not modelled, and why

- *Device login* and *sessions*: planned (section 7).
- *Media, metrics, logs, captured bodies, the console*: I/O and rendering; no state the other parts
  read.
- *Presets, pricing, effort and verbosity tables, names of models, tool schemas, page counts*: data.
- *Sealing and signing*: cryptography; a secret resolves or it does not.
- *Mock provider and rig*: not part of the gateway.
- *Quota headers*: a parser of headers; its outcome, a bench of some length, is an input of `Breaker`.
- Of the modelled parts: the weights and balance of selection; blobs, peers, heartbeats and `depart`
  of the store; the shares of a fleet's ceilings and weekly periods of virtual keys; the aggregator
  of minutes and the pages of records in `usage.rs`; the removal and renaming of keys in a reload; the
  loops of `run_relay`, `run_passthrough` and `run_stream_relay`, which repeat that of `run_chat`;
  deltas of parallel calls that interleave, and a lone `\r` as a line break; integer overflow of the
  bucket (ceilings of the order of 2^64 / 1000).

## 7. Plan

In this order; each with its run, its mutants and, where marked, proofs.

1. Proofs: `SaidIsHeard` and `RoadsMeet` for one provider and one surface at a time, from the lemmas that say
   what each can write; the properties of `Conversation` for one dialect at a time.
2. `DeviceLogin`, composed with `SeatRefresh` through the file they share.
3. `Gateway`: `Dispatch` with `Breaker`'s abstract gate `KeyHealth` in place of its free gate.
4. The shares of a fleet in `VirtualKeys`, driven by the heartbeats of `ControlPlane`.
5. Sessions and roles; the pages of the request log (`collect_page`), whose cursor is a time that
   several records may share.
