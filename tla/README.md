# BoursePilot: a TLA+ verification project

BoursePilot analyses Iranian exchange-traded funds. A *gateway host* inside the
country collects market data and pushes it in batches to an *external host*,
which stores it in SQLite, ranks the funds and talks to users through a Telegram
bot. This directory holds TLA+ models of the program, the TLC configurations that
check them on small instances, and theorems about them that the TLA+ proof
system (TLAPS) checks for all instances.

    tlc -config MCReceiver_all.cfg MCReceiver.tla        # one run
    tlapm ReceiverProofs.tla                              # one proof module

`PROJECT.json` lists the runs with their properties, the faulty variants that
break each property, the source lines of every definition, the hazards of the
code and the disagreements with the documentation.

## 1. Inventory

| part | state it keeps | operations | hard behaviour | what makes it correct | module |
|---|---|---|---|---|---|
| **Fund collector, exporter, batch files** `services/sync/collector.py`, `exporter.py`, `chunker.py`, `worker/batch_storage.py` | payload, chunk and checksum files | collect, export, cut, store | one symbol of many fails; a crash between two saves | a pending batch can be rebuilt and misses no fund that could be had | `Gateway` |
| **Live scripts** `services/sync/live/` | `latest.json`, `previous.json`, `latest_delta.json` | write the market, write what changed | two processes, files rewritten in place | no change is lost between two snapshots | `Gateway` |
| **Sync worker** `services/sync/worker/` | `{batch}.json` state files | `run_cycle`, `send_batch`, `resume_batch`, retries | lost and late answers, crash between saves | acked means durable at the receiver; cycles end | `Sender`, `SyncSystem` |
| **Sync receiver** `services/receiver/api.py`, `storage.py`, `validator.py`, `models.py` | two registries in memory; batch, manifest and chunk files | `POST /sync/manifest`, `POST /sync/chunk`, the validation thread | an event loop beside several unlocked threads; restart from disk | metadata never ahead of data; complete only if intact; a full batch completes | `Receiver` |
| **Receiver processor** `services/receiver/processor.py` | `funds`, `market_snapshot`, `history`, `received_batches` | `process_batch` (four transactions) | partial failure, two threads on one batch, a schema kept elsewhere | stages in order, only for intact batches; a batch is taken up once | `Receiver`, `BatchIntake` |
| **BRS quota manager** `services/providers/brs_quota_manager.py` | counters per endpoint, cache, pending counts | `request`, `reset_daily_counters`, `clear_cache` | check and increment in separate critical sections; retries spend budget; midnight | limits hold up to a stated overshoot; calls end; the budget comes back | `QuotaManager` |
| **BRS provider, client, circuit breaker** `brs_provider.py`, `brs_client.py`, `reliability.py`, `health.py` | failures and open flag, cached list | calls with retry and fallback | a breaker that only a success closes | what is called live is real and recent | `Rankings` |
| **Fund universe** `services/discovery/` | table `fund_universe` | sync, load, lookup | two transactions per sync, concurrent syncs | the active funds become those of the market | `FundData` |
| **Price history** `core/history/`, `services/sync/*backfill.py` | tables `funds`, `history` | quotes of the day, two backfill jobs | renamed symbols, two calendars, a limit per run | rows of one fund; every short fund gets its turn while a place is left | `FundData` |
| **Telegram bot** `services/telegram_bot.py` | polling offset, wizards, awaited answers (in memory) | polling, commands, texts, buttons | old keyboards, handlers that raise, restart and redelivery | a wizard stores what it showed; no update is confirmed untried | `Bot`, `BotSystem` |
| **Portfolio** `services/portfolio/service.py` | `portfolio_items` and others | upsert, remove | a repeated purchase, a missing cost | a cost that was known is not lost | `Bot` |
| **Ranking caches, snapshots, nightly job** `rank_loader.py`, `snapshot/store.py`, `daily_analysis.py`, `daily_rank.py` | two caches, files under `latest/` | load, refresh, nightly run | caches on caches, torn files, offline and demo fall-backs | live means real and recent; a real snapshot beats an invented one | `Rankings` |
| **Analysis pipelines** `core/pipeline/` | the trace of a request | stage by stage | every stage may lack data or raise | claims rest on recorded facts; a report called complete shows nothing unknown | `Analysis` and the engines it extends |
| **Scoring and ranking** `core/scoring`, `core/ranking`, `core/indicators`, `core/factors` | none | assess, rank | ties, missing values | a dominating fund has the better place | `Scoring`, `SmartRanker` |
| **Portfolio report** `services/analysis/` | none | report, deep dive | holdings without price or cost | the report agrees with itself | `PortfolioReport` |
| **Database, calendar, advisor, Codal, publishing, scripts** | small or none | - | - | see section 6 | - |

How they interact. The worker calls collector, exporter, chunker and sender in
one thread and talks to the receiver by HTTP only. Inside the receiver the event
loop and the validation threads share the two registries, the storage directory
and the database, without a lock. The bot, the pipelines and the local database
provider read the tables the processor and the backfills write. All BRS calls of
a process share one quota manager and one circuit breaker; the bot and the
nightly job are two processes that share the snapshot files and the tables.

## 2. Plan

The pipeline that moves the data came first: everything else computes on what
it delivers, and it is where processes, files, messages and crashes meet.

1. *Done.* `BatchIntake`, `Receiver`, `Sender`, `SyncSystem`, `QuotaManager`,
   with `ReceiverProofs`, `SenderProofs` and `QuotaProofs`.
2. *Done.* `Gateway`, which hands its batch to `Sender`; `Bot` and `BotSystem`;
   `Rankings`; `FundData`.
3. *Done.* The pure algorithms: the engines of the analysis, the scores, the
   ranking and the portfolio report, driven stage by stage by `Analysis`.
4. *Done.* Proofs about the modules of 2: `BotProofs`, `GatewayProofs`,
   `RankingsProofs`; about the pipeline end to end, from the proofs of its parts:
   `SyncProofs`; and about the modules of 3 and the tables they read:
   `AnalysisProofs`.
5. *Left.* `UniverseFollowsMarket` is liveness and stays with TLC; what a sync never
   does to the universe could be stated as an action property and proved. An abstract
   specification of the bot's portfolio, which `BotSystem` would implement up to the
   redeliveries. The values in the rows of `history`, for the order in which batches
   overwrite a day.

## 3. Modules

Modules ending in `Proofs` hold theorems; those beginning with `MC` give the
constants their values. Operators named `X_Fault` are faulty variants of `X`; no
action uses them.

### BatchIntake: what the receiver promises

Two variables per batch: the genuine chunks that are durable (`got`) and how far
the batch is in the database (`stage`). Chunks become durable one at a time;
a stage is reached only when all of them are, one stage at a time, and nothing is
undone. It is the abstract specification `Receiver` is shown to implement.

### Receiver: `services/receiver`

| TLA+ | code |
|---|---|
| `registry`, `manifests` | `_batch_registry`, `_manifest_registry` (lost in a crash) |
| `batchFile`, `manifestFile`, `chunkFile` | the three kinds of files (they survive) |
| `funds`, `rows`, `history`, `processed` | what the four tables hold of a batch |
| `handler` | the request the event loop is serving and how far it is |
| `thread` | the validation threads, each with the chunks it closed over |
| `ReceiveManifest`, `SaveNewBatch`, `SaveManifest` | `receive_manifest` |
| `ReceiveDuplicate`, `RefuseUnknown`, `RejectChecksum`, `AcceptChunk` | the four ways `receive_chunk` can start |
| `StoreChunk` ... `SaveFailed` | the rest of an accepted chunk, one file access at a time |
| `ValidateIntact` ... `MarkProcessed`, `TransactionFails` | `_run_validation` and `process_batch` |
| `Crash` | the process dies and is started again |

Granularity. Handlers do not overlap: after the body is read they contain no
`await`. But threads run beside the loop, so a handler is split wherever it
touches a file; opening a file for writing truncates it, so `Open` and `Write`
are two steps, and a reader or a crash between them sees a `torn` file. Two
writers of one file may interleave so that the result is not parsable (second
disjunct of `Write`). One SQLite transaction is one step.

Data. A payload is `good` (the genuine slice) or `bad`; the concatenation has the
digest of the manifest exactly when all are good. A request's checksum is that of
its own payload, that of the whole batch, or neither. The batch metadata in a
file records the checksums, so a record whose payload differs from its chunk file
reads as `torn` (`Load`).

Simplifications. Chunk numbers lie in `range(total_chunks)`. A second manifest
for an id repeats the first, since ids are derived from the content. One read of
the batch file in `LoadForProcessing` stands for the reads `load_all_chunks`
makes for each chunk. A chunk request is only delivered while a thread of the
bounded pool is free (`SomeIdle`); the program has no such bound, and section 4
says why the bound is enough. All handlers that are not the two POSTs read only.

The column and the table the processor needs are constants (`FundsHasFundLike`,
`HasReceivedBatches`). The schema of the repository (`schema.py:15-29`) has neither, so
the configurations of `SyncSystem` set both to FALSE: every upsert of `processor.py:182`
raises there, and no property of those runs that holds speaks of a table. Only the run
`receiver`, which asks whether four transactions that fail one by one keep their order,
sets them to TRUE, since with the schema as it is none after the first is ever tried. The
theorems hold for every setting.

### Sender: `services/sync/worker`

One worker thread (`worker`: its control point, the batch, the chunk it is at,
the attempt, the number acknowledged) and the state files (`stateFile`).
`StartCycle`, `StorePending`, `BeginSending`, `PostManifest`, `PostChunk` and
`FinishBatch` are the calls of `run_cycle` and `send_batch` in order;
`ManifestDone`, `ManifestFailed`, `ChunkDone` and `ChunkFailed` the outcomes of a
post, a timeout being a failure; `BeginResume` and `ResumeSending` are
`resume_batch`, which nothing in the repository calls but which is public
(`CanResume`). `confirmed` and `resumed` are observers: the chunks whose post was answered
with success, and the batches that were resumed. `save_batch_state` resets whatever is not passed to it, so the
saves without `received_chunks` write 0. A crash in the middle of a save leaves
the file torn.

### SyncSystem: both ends and the network

`INSTANCE`s of the two modules above, and the requests and responses between
them. A request may be lost, a response may be lost, and the worker may time out
while its request is still on the way or being served: then the retry follows a
request that is processed later, or concurrently in a validation thread. `late`
is an observer: the batches with a post the worker gave up on; once only, and
being completed at all, are promised of the others. `calls`, the other observer, counts
how often a validation thread has called `process_batch` for a batch, whatever became of
the call (`ThreadRuns`). The chunks carry the checksum of the batch, as `SyncChunker.chunk` makes them; a
resumed chunk carries no data and no checksum.

### QuotaManager: `services/providers/brs_quota_manager.py`

| TLA+ | code |
|---|---|
| `usage` | `UsageStats` of one endpoint; endpoints have separate counters |
| `cache`, `pending` | `_cache` as the ticks each entry has left, `_pending_requests` |
| `thread` | the calls of `request`, each with its key and attempts |
| `CheckDailyBudget`, `PassRate`, `ExceedRate`, `ReadCache` | the checks, one critical section each |
| `Register`, `CountAndSend`, `FetchData`, `FetchNothing`, `FetchFails`, `SetCache`, `Release` | the fetch with its retries and the `finally` |
| `FallBack` | `BrsProvider._quota_request` after `QuotaExceededError` |
| `ResetDailyCounters`, `ClearCache` | the operations of the same names |
| `Tick` | time: windows age, entries expire, midnight passes |

The code compares times; only the age of the window (up to `Window`), the life
left to an entry and "is `day_start` today" matter, so time needs no bound. An
expired entry and an absent one read alike. The observers are `sent` (requests
since midnight), `lastSend` and `moved` (a nightly reset has moved the start of
the window, `brs_quota_manager.py:271`, without setting its count back: a request
soon afterwards is refused for what was sent the day before). No caller passes
`force_refresh` or `use_cache=False`, so every request reads the cache. The fetcher
returns data, nothing, or raises.

### Gateway: the worker up to the pending note, and the live scripts

`cycle` follows `run_cycle`: `CollectSymbol` or `Refuse` for each symbol of the
universe, `Export` (snapshots, payload, digest, chunks with the arithmetic of
`SyncChunker.chunk`), `SavePayload`, `SaveChunkData` and `SaveChunkChecksum` for
each chunk, `SavePending`; `HandOver` is where `Sender` begins. `disk` holds the
files of the newest batch: every batch has an id of its own, and nothing reads or
deletes earlier ones. `CollectMarket` and `WriteLatest` are the writer of
`latest.json`; `ReadSnapshots`, `OpenDelta`, `FillDelta`, `OpenPrevious` and
`FillPrevious` are `build_delta`. Each of the three processes may die between two
file accesses, and opening a file for writing leaves it `Torn`. `Reassemble` and
`ValidExport` are the functions of the same names, which only tests call: the
property uses them to ask whether the files on disk suffice. `refused` and
`mirrored` are observers. The table of funds is unique by ISIN and not by symbol, so
`Universe` may name a symbol twice: `refused` and the property speak of places in it.

### Bot and BotSystem: `services/telegram_bot.py`, `services/portfolio`

`Bot` is the handler of one update: the wizard of each user (`wizard`), the
questions asked (`searching`), the rows (`holdings`), and one operator per
text, command and button that changes any of them. Everything that only shows
something is the update `show`; it may still raise. A keyboard stays in the chat,
so every button may arrive at any time, whatever the wizard is at.

`BotSystem` puts it behind long polling. `inbox` is what Telegram holds, `fetched`
what the current `getUpdates` returned, `handled` how many of those `self.offset`
has passed. `Poll` confirms what was passed and fetches the rest, `HandleNext`
handles one update (`DropNext` is a handler that raises: the exception is logged
and the update passed), `Restart` forgets offset and conversations, and Telegram
delivers everything unconfirmed again. An update of the inbox carries observers:
whether it was tried, whether its handler failed (it raised, or the search for the
name of a fund found nothing), and what it wrote. `ReplayWritesTheSame` speaks of the
updates of a user up to the first that failed and the first fix (`pfedit_fix`). Both
conditions are needed: a fund that is not found the second time leads the same
conversation elsewhere, and a fix begins from the row as it is, which on a second
delivery is the row it has itself written.

### Rankings: from the provider to the screen

| TLA+ | code |
|---|---|
| `failures`, `open` | `provider_health`, which `reliability.py` consults |
| `answered` | the list of symbols in the quota manager's cache |
| `latest`, `history` | `snapshots/latest/*.json`; the newest rows of `history` |
| `run` | `DailyAnalysisPipeline.run` in the bot, and under `daily_rank.py` in the nightly job |
| `cache`, `ranked` | `rank_loader._CACHE`; the bot's own `_ranked_cache` |
| `GetRanked`, `Keep` | `_get_ranked` and `load_rankings` |

A list of quotes is where its prices come from and how long it is. Ages are
counted in ticks up to the age at which they no longer matter. `old` is an
observer: the age of the data in a ranking, as opposed to the age of the cache
entry. The provider is chosen once (`Providers`). Snapshot files are opened, which
empties them (`OpenRanking`, `OpenQuotes`), and then written, and a job may be killed in
between. Both processes save the ranking under one name: while both have the file open
(step `sharing`), what either writes may be mixed with what the other wrote (`Filled`).

### FundData: the universe and the history

`market` is the exchange: funds are listed, delisted and renamed (`Listings`),
days pass. `Fetch`, `Save` and `Deactivate` are the three steps of
`sync_fund_universe`, run by several programs, each of which may die between two
of them. `Quote` is `bulk_upsert_quotes`: it fills `funds`, where a renamed fund
gets a second row, and `history`. `StartBackfill` sorts the funds by the length
of their history and cuts the list; `HistoryBackfill`, `CandlestickBackfill` and
`SkipFund` do one fund. The candlestick job keeps the row it found when it made its list,
the history job looks for it once more. Of the two transactions of `Quote` the second may
be lost. A row of history is its day and the calendar its date is written in; `series` is
an observer: the funds whose prices the rows are.

### Analysis and its engines

| module | code |
|---|---|
| `Bands` | what the engines share: if/elif ladders, claims with the facts they cite |
| `DataQuality` | `core/pipeline/data_quality.py` |
| `MarketRegime` | `core/pipeline/market_regime.py` |
| `FundIdentity` | `core/pipeline/fund_identity.py` |
| `TabloKhani` | `core/pipeline/microstructure.py` |
| `Technical` | `core/pipeline/technical.py` |
| `NavEngine` | `core/pipeline/nav.py`, `fundamental.py` |
| `LocalQuotes` | price, book and NAV of `localdb_provider.py` |
| `Scoring` | `core/scoring/score_engine.py`, `core/factors` |
| `SmartRanker` | `core/ranking/smart_ranker.py`, `core/indicators/engine.py` |
| `PortfolioReport` | `services/analysis/portfolio_analyzer.py`, `fund_deepdive.py` |
| `Analysis` | `phase1_pipeline.py`, `phase2_pipeline.py`, and the runs of the two above |

The engines are operators: what they read goes in, facts and claims come out.
`Analysis` is the request that calls them stage by stage. Its state is the stage
(`at`), what the request has found so far (`trace`: conflicts of the regime, kind
of fund, what was missing, what stayed unknown, the status) and what the stage has
just read and answered (`seen`). Every stage asks the provider and the tables
anew, and what they answer is chosen anew, since jobs and receiver write between
two stages. Windows (20, 50, 200 days and so on) are constants, so that short
series reach every branch. Means and changes are fractions, or integers rounded to
the side that keeps the band. An engine that ends in an exception answers `Raised`.

Every stage of either phase may raise as a whole (`StageRaises`): phase 1 swallows the
exception, and with it the notes on conflicts and missing data the stage had still to
make, and keeps the stage among the executed ones. `trace.raised` remembers which they
were. When the identity was lost this way phase 2 looks for it once more, outside any
`try` (`IdentifyAgain`).

What an engine may be given is stated by the types of its inputs, as assumptions on the
constants. `BoardsAssumption` and `HistoriesAssumption`: prices, quantities and volumes
are natural numbers, any of them may be missing, a side of the book may have any number
of levels. `UniversesAssumption`: a universe is a sequence of funds, no more than
`MostFunds` = 770 (the market has 450, by `data/sync/live/funds_latest.json`).
`PortfoliosAssumption`: quantities and costs are above zero, because the wizard of the bot,
the only writer of them, refuses others (`telegram_bot.py:236`, `:256`). `NoneAssumption`
keeps Python's `None` apart from numbers and words, and `WindowsAssumption` and
`DaysAssumption` say that windows are at least one day and the fast average is shorter
than the slow one.

## 4. Runs

Every property of a passing run has a faulty variant of the code (operators whose
names end in the fault, such as `AcceptChunk_ListsFirst`) that breaks it.

| run | instance | states | shows |
|---|---|---|---|
| `receiver` | 1 batch, 2 chunks, 2 threads, crashes, failing transactions | 11,848 | `ListedChunksStored`, `ThreadSeesDisk`, `HandlerOwnsBatch`, `CompleteIsIntact`, the refinement `ImplementsIntake`, the liveness `FullBatchCompletes` |
| `sender` | 2 batches, 3 chunks, 3 attempts, resumes, crashes | 70,587 | `AckedIsConfirmed` (batches never resumed), `ReceivedIsConfirmed` (all), `CycleEnds` |
| `sync_lossy` | 1 batch of 1 chunk, 3 attempts, 2 threads, losses, timeouts | 11,419 | `AckedIsDurable`, `ProcessedOnceOnTime`, `AckedCompletes`, `ExportedCompletes` |
| `sync_faults` | the same with 2 attempts, 1 thread, crashes of both ends, resumes | 591,039 | `AckedHasFiles` |
| `quota` | 2 threads, 1 key, budget 2, limit 2, 2 attempts, window 1 tick, day 2 | 261,169 | `LimitsOvershot`, `SentInDay`, `PendingIsInFlight`, `RefusedWhenBusy`, `CallEnds`, `BudgetComesBack` |
| `gateway` | 3 funds, 2 quotes each, chunks of 2; a market of 1 symbol with 2 prices | 224,510 | `PendingRebuilds`, `DeltaCoversChange` |
| `bot` | 1 user, 1 fund, numbers 1 and 2, 2 updates waiting | 1,086,609 | `SummaryIsComplete`, `ReplayWritesTheSame`, `ConfirmedWasTried`, `CostLostOnlyByFix`, `EveryUpdateTried` |
| `rankings` | both providers, caches of 2 ticks over one of 1, breaker at 2 failures, lists of 0 and 1 funds | 1,160,207 | `LiveIsReal`, `LiveIsRecent`, `RealSnapshotWins`, `LiveAgain` |
| `funds` | 2 funds, 3 names, 2 days, 1 fund per run, 2 syncing programs, 1 change of the market | 50,821 | `RowsOfOneFund`, `UniverseFollowsMarket`, `FundsServed` |
| `analysis` | 3 or 4 funds, books of 0, 1 and 4 levels, up to 5 days of prices, portfolios of up to 3 items | 96,204 | `ClaimsCiteFacts`, `RegimeIsSupported`, `DirectionsAgree`, `SuccessIsComplete`, `DominanceRespected`, `PortfolioAgrees` |

Two runs are expected to find a violation, each of what a document says:

| run | the documentation says | the code does |
|---|---|---|
| `sync_chunked` | each chunk is independently checksummed (`SYNC_V1_DESIGN.md:133`) | chunks carry the checksum of the batch, and a batch of two is rejected: `ExportedCompletes` |
| `sync_schema` | a batch is upserted into funds, market_snapshot, history (`processor.py:34`) | the first upsert names a column that `funds` lacks; no batch gets there: `ExportedReachesHistory` |

**Bounds.** *Receiver.* Two chunks are the least number with a first, a last and an
incomplete batch; three in the sender give a resume a middle to skip. Batches share
the event loop, the threads and the network but no data, so one suffices in the
receiver and the sync runs; two in the sender let a resumed batch and a new one
follow each other. Threads work on a batch only after its last chunk and do not
wait for each other; two show every race of two writers. `MaxRows = 2` tells
"taken up once" from "more than once". In `SyncSystem` a batch has one chunk,
because with two the checksum rule rejects every chunk (`sync_chunked`); three
attempts let one be lost, one be late and one be answered. With crashes and resumes
the state space is large, hence two attempts and one thread in `sync_faults`, whose
property is about files only. *Quota.* Two threads with two attempts reach all three
bounds exactly, one key makes every two fetches identical, and the window is shorter
than the day. *Gateway.* Three funds in chunks of two make a full and a short
chunk. *Bot.* Conversations of different users share nothing, two waiting updates
let one be redelivered behind the other, and further updates follow as these are
confirmed, so a wizard is carried from its first step to its last. *Rankings.*
`Enough = Target = 1` and lists of 0 and 1 funds put a list on each side of both
thresholds; `TTL < MaxAge` as in the code. *Funds.* Two funds of which one has two
names; the second is listed by the change of the market, or not at all. `MaxFunds = 1`
with two funds in need makes the limit of a run cut, so that a fund whose answer is
refused (strong fairness: not always) competes with the other for the only place, and one
that cannot be filled holds it: those runs `FundsServed` excepts, and `NoneStarves`
(section 6) shows them. *Analysis.* The inputs are chosen one
below, at and above the bounds of the ladders, with missing values, zeros and
one-sided books among them; the windows are shortened to 2 to 4 days.

`CHECK_DEADLOCK FALSE` appears where the program may really come to rest: the
worker has no batch left to export, the exchange has used up its changes and its
days.

**Fairness.** `Receiver!FairSpec`: weak fairness of the event loop and of each
thread, since nothing in them blocks on another (SQLite's lock times out into a
failed transaction). No fairness for requests, crashes or failures.
`Sender!FairSpec`: weak fairness of the worker's own steps, of the answer to a post,
which `requests` bounds by a timeout, and of the daemon loop starting cycles.
`SyncSystem!FairSpec`: the same per component, delivery of a request that is not
lost, and an answer or a timeout for every post. `QuotaManager!FairSpec`: a call
that has begun goes on, since the lock is held briefly and a fetch times out; time
passes; some caller keeps asking. `BotSystem`: `run_forever` never stops polling and
a batch is a finite loop; `EveryUpdateTried` assumes besides that the bot is
restarted only finitely often. `Rankings`: users go on asking for reports, a
pipeline goes on, time passes; nothing is assumed of the provider, and `LiveAgain`
names what it needs (the API answers for good, the breaker is closed).
`FundData`: the scheduled sync is started again and again and, although it may
die in any round, does not die in every one (strong fairness of its two
transactions); the history job goes on, and the answer for a fund gets through if
it is asked for again and again. Nothing is assumed of the second sync.

## 5. Proofs

`ReceiverProofs` proves, for any non-empty sets of batches and threads, any
non-empty set of chunks and any setting of the flags:

* `TypeCorrect`: `Spec => []TypeOK`.
* `Invariance`: `Spec => []IInv`, where `IInv` adds to `TypeOK` the
  four invariants of the run `receiver` and two strengthenings: `ChunkInHand` (between
  opening its chunk file and listing the chunk, the handler holds a chunk no
  record lists, whose file is what it is writing) and `ValidatedIntact` (a thread
  past validation works on an intact batch). The named invariants are not
  inductive alone: `HandlerOwnsBatch` needs that an unlisted chunk keeps the batch
  incomplete, hence unvalidated, which is `ThreadSeesDisk` for a batch that has
  a torn or missing chunk; `ThreadSeesDisk` in turn needs `ListedChunksStored`
  when a thread starts, and the write-once files while it runs.
* `WriteOnce`, `CompleteIsStable`: the two action properties, from `IInv`.
* `Implements`: the refinement of `BatchIntake`. Initial states map to initial
  states; `StoreOrStutter` and `ThreadPersists` show that each step stores one
  chunk, persists one stage or changes neither. This needs one more invariant,
  `InOrder`: a batch in a later table is in all earlier ones, and a thread at a
  table has its batch in the tables before.

`SenderProofs` proves, for any batches, numbers of chunks and of attempts, with or
without resumes, the type invariant with the bounds of the counters (`Counts`),
`ReceivedIsConfirmed` and `AckedIsConfirmed`. Its invariant `AInv` adds `Counted`:
the chunks confirmed since `start` are at least as many as the counter says, none
is missing if the counter misses none, and a batch that was never resumed starts
at chunk 0. When `FinishBatch` finds the counter full, every chunk is confirmed.
`QuotaProofs` proves `TypeOK`, `PendingIsInFlight`, `LimitsOvershot` and `SentInDay`
for any number of threads and any limits, and the action property `RefusedWhenBusy`.
The measure is a set of pairs, a call
and the number of an attempt it may still make on the check it passed; its
cardinality is at most threads times attempts (`PairSets`). `SpendInv` says that
what was counted and what may still be spent are bounded together: passing a check
adds pairs but finds the counter below its limit, an attempt moves one from the
pairs to the counter, and everything else takes pairs away. For the real number
sent in a day it adds that, until the date is noticed, what was sent and what is
left fit into the pairs that were there at midnight. `SpendInv` is needed because
neither bound is inductive: a counter at its bound says nothing about the attempts
still to come. For the refusals, `BusyInv` says that the last request is no older than
a window that has counted something, unless a reset has moved it.

`SyncProofs` proves the safety of `SyncSystem` for any number of batches, chunks,
attempts and threads. It takes the invariants of both ends over: `WorkerSide` and
`ReceiverSide` show that each step of the pipeline is a step of the worker, of the
receiver, or leaves that end alone, so the lemmas of `SenderProofs` and
`ReceiverProofs` (used through `INSTANCE`) give `EndsInv`, and `EndsImplemented`
says that each end's specification holds of its half of the pipeline, with the
refinement of `BatchIntake`.

* `AckedBatchesHaveFiles`: `AckedHasFiles`, with crashes, losses, late answers and
  resumes. `HeldInv` follows an acknowledgement on its way: what the handler is about to
  confirm, what a response says, what the worker has counted, and so what "acked"
  rests on, is on disk.
* `AckedBatchesAreDurable`: `AckedIsDurable`, under `~CanCrash`. The condition is
  necessary: a crash in the middle of a write leaves a torn file, and since the file
  exists the retry is answered as a duplicate, which is why the run with crashes checks `AckedHasFiles`.
* `ChunkedBatchesStayOut`: with more than one chunk no chunk is ever stored and no
  batch is acked, since every chunk carries the checksum of the batch. It is what the
  run `sync_chunked` shows for two, and says that the two results above are about
  batches of one chunk.
* `ProcessedOnceUnlessLate`: `ProcessedOnceOnTime`, under `~CanResume`, which is what the
  program does: nothing calls `resume_batch`. `OnceOf` says that as long as the worker
  waits for every answer, the one chunk request of a batch is in one place (on its way,
  being served, answered), and that nothing was done for the batch unless an
  acknowledgement is due, under way, or read. It needs no assumption on the schema.

`BotProofs` proves, for any users, symbols, numbers and restarts, `TypeOK`,
`SummaryIsComplete`, `ConfirmedWasTried`, `CostLostOnlyByFix` and, for any number of
waiting updates, `ReplayWritesTheSame`. The invariant of the first is
`Told`: what a wizard has been told by the time it is at each step. The summary
alone is not inductive, because a confirmation is accepted at every step; that a
wizard without a price has no quantity either (unless it is a fix) is what keeps
an old keyboard from storing a row without a cost. `InboxInv` says that every
update below the offset was tried, which a restart keeps, since it takes the
offset back to the front of what Telegram still holds. For the replay, `ReplayOf`
says how far some incarnation has got in the inbox and what conversation it had after
each update, starting from none (`PathOf`); that every row written by an update is
the one this conversation writes (`RowsOf`); and that the conversations of the present
incarnation are those of the path, or older than the inbox where the path has none
(`PresentIs`). A restart goes back to the beginning of the path, and what was written
in a conversation older than the inbox no later incarnation can write again.

`GatewayProofs` proves `DeltaCoversChange` for any market and `PendingRebuilds` for
any list of funds, answers, chunk size and deaths of the worker. For the first, the invariant `InHand`
says what `build_delta` holds at each step it may die in: past its second write,
the file on disk is what changed since the last whole `previous.json`, which the
observer `mirrored` keeps (`Mirrors`) while the file itself is torn. It needs
`FilesAssumption`: a missing and an empty file are no list. For the second, `FilesInv`
says which files there are at each step (`Saving`), that a stored chunk is a slice of the
stored payload whatever dies (`Files`), and, while the funds are asked, that there is one
snapshot for each place passed and not refused (`Collecting`). `SlicesJoin` is the
arithmetic: the slices of a payload, cut at the multiples of the chunk size, joined in
their order, are the payload. What `FlattenSeq`, a recursive function, computes is found
without an induction theorem: `FlattenIs` compares it with a function in closed form and
shows that there is no first place where the two differ (`NatLeast`).

`RankingsProofs` proves `LiveIsReal` and `LiveIsRecent` for any limits of the caches
and the breaker, and `RealSnapshotWins` for lists of any length. `RunsReal` says that no run is called live before it has a list,
and that the quota cache and live runs hold lists of the API. `Dated` adds the ages
up: data is at most `TTL - 1` older than the run that fetched it, a cache entry is as
old as its run was when it was made, and the bot's entry may be `MaxAge - 1` younger
than the one it was answered from. Where an entry has expired nothing is said of it,
which is why each conjunct has the age as a condition. `LongIsReal` serves the third:
an invented list has exactly `Target` funds, so a ranking that is preferred to the real
quotes because it is longer than they are was itself made of real quotes.

`AnalysisProofs` proves the six properties of the run `analysis` for any books, flows,
quotes, histories, windows, markets, universes and portfolios within the assumptions of
section 3, and the safety of the tables of funds and prices.

* `ClaimsAreFounded`: `ClaimsCiteFacts`. One lemma per engine (`TabloCites`, `NavCites`,
  `FundamentalCites`, `ModulesCite`): on each branch with some confidence, the facts cited
  were extracted from the same data.
* `SuccessReadAll`: `SuccessIsComplete`, with any stage raising. The property is not
  inductive: the status is decided stages after the book was read. `TraceInv` says of each
  stage that has passed (`Identified`, `BoardRead`) that it raised, or that what is unknown
  by then is also on the list of what is missing, the kind of the fund excepted at the
  stages of phase 2, which decide no status; `CompleteBoard` is the step at the order book,
  `IdentifiedIsKind` that an identification that ends names a kind. A stage that raised
  leaves no trace in the status: what the badge says beyond this, `SuccessReadEverything`,
  is false (section 6).
* `SidesAreSupported`: `RegimeIsSupported`. A side wins only with a score above zero, and
  a sum over a set of evidence is above zero only if a member is (`SideHasEvidence`).
* `BetterIsFirst`: `DominanceRespected`. Percentiles and scores are cut to hundredths, so
  that a better component might be lost in rounding. `PercentilesOrdered`: the percentiles
  of unequal values lie 13 hundredths apart as long as there are no more than 770 funds;
  times the least weight, that is more than what is cut from the score (`ScoresOrdered`).
  Nothing is promised of larger universes. `RankingInv` adds that what is ranked is what
  `AssessFunds` has put together, a sequence of integer components: the lemmas named `Type`
  follow every factor and indicator for it.
* `DirectionsFollowPrice`: `DirectionsAgree`. Of a price that only rose, the mean of its
  last days is no more than the last price (`MeansLag`); there are no losses
  (`StrengthIs`); the fast exponential mean is never below the slow one, which `FasterRises`
  shows along the run of both from the first day; there is no drawdown (`DrawdownIs`);
  and the last price is the highest (`PositionIs`). For a price that only fell, likewise.
* `ReportAgreesWithItself`: `PortfolioAgrees`. The gain of a sum lies between the least
  and the greatest gain of its parts (`SumsInRatio`, `GainIsBetween`). A mean that passes a
  bound has a member that passes it (`MeanIsReached`), and the suggestion made for that
  member has the same bound as the points given for the mean (`RungsAreSuggested`).
* `RowsAreOwn`: `RowsOfOneFund` of `FundData`, for any funds, names, days and syncing
  programs. A backfill takes the row of a renamed fund by the ISIN in `funds`, so
  `NamesInv` carries that every name in the market, in a list in hand, in the universe and
  in `funds` is a name of its fund. `FoundIsOwn` is the step where it is used.

The statistics of the engines are folds, which the library defines by recursion over sets.
They are reasoned about without an induction theorem: `FoldDefined` shows that such a
recursive function exists, built up by the number of elements, so that the one the library
chooses has its values; `SeqFold` turns it into the run of the fold along a sequence, and `PrefixInduction`
is induction along that run, for a set of positions in place of a predicate.

The assumptions used are the named `ASSUME`s of the modules, nothing else.

Only model-checked: liveness (all leads-to properties), which needs `ENABLED`
and fairness; and the properties of section 6, which the code violates. Every invariant
a passing run checks is a theorem, and so is every action property. The
type invariants `TypeOK` of `Receiver`, `Sender`, `SyncSystem`, `QuotaManager` and
`BotSystem` are theorems, and so are `ChunksWrittenOnce` and `CompleteStays`; no run
repeats them. Those of `Rankings` and `FundData` document the state; any of them
can be added to the INVARIANTS of its module's configuration.

## 6. Not modelled, and what the models leave open

Parts listed as `not_modelled` in `PROJECT.json`, with the reason: formatting and
publishing, the language model behind the advisor, Codal disclosures, the database
layer (a transaction is one atomic step of the modules that use it), the market
calendar, superseded scripts. Within the modelled parts: authentication, request
parsing errors (answered 400 with no effect), logging, back-off delays, chunk
numbers out of range, the single rows of a batch, the prices in `history` and the
table of candlesticks, which nothing reads.

### What documents say and the code does not do

These properties are defined in the modules, without a run of their own: each is
violated by what the code does, and the configuration that shows it is one of the
listed ones with the changes named here.

| property | says | configuration |
|---|---|---|
| `SyncSystem!ProcessedOnce` | duplicates are not reprocessed (`RECEIVER_V1_DESIGN.md:278`); a retry that arrives while the batch is validated starts a second thread | `MCSyncSystem_lossy`, in place of `ProcessedOnceOnTime` |
| `Receiver!LoadedReachesHistory` | the claim of `sync_schema` for the receiver alone | `MCReceiver_all`, all four flags FALSE |
| `Receiver!ReceivedReachesHistory` | when all chunks are received the batch is reassembled (`RECEIVER_V1_DESIGN.md:37`); not if the manifest came again in between | `MCReceiver_all`, `PersistentSpec`, one thread, no crashes or errors |
| `Sender!ResumedIsConfirmed` | resume re-sends unacked chunks (`sender.py:80`); it skips as many as were acknowledged, whichever they were | `MCSender_cycles`, `Spec`, one batch |
| `Sender!FailedBatchRetried` | a batch whose chunks all fail is retried (`SYNC_V1_DESIGN.md:161`); no cycle looks at it again | `MCSender_cycles`, one batch of one chunk, no resumes |
| `SyncSystem!AckedCompletes` | sending a chunk twice is safe (`RECEIVER_V1_DESIGN.md:277`); not if the first write was cut off by a crash | `MCSyncSystem_lossy` with crashes |
| `SyncSystem!AckedIsDurable` | the same; the torn file of a crash counts as stored (`storage.py:122`) | `MCSyncSystem_faults`, in place of `AckedHasFiles` |
| `QuotaManager!RefusedWhenSent` | the limit is one of a sliding window (`brs_quota_manager.py:121`); the nightly reset starts a window with the count of the last one | `MCQuotaManager_all`, in place of `RefusedWhenBusy` |
| `BotSystem!SaleKeepsRest` | a sale reduces the holding (`telegram_bot.py:322`); it deletes the row | `MCBot_updates`, `MaxInbox = 1` |
| `BotSystem!HoldingsAreFunds` | `/pf_add <symbol> <qty> [price]` (`TELEGRAM_INTEGRATION_CHECKPOINT.md:73`); everything after the command is the symbol | `MCBot_updates`, `Typed = {s1, s1_with_numbers}`, `MaxInbox = 1` |
| `Rankings!BreakerRecovers` | a provider whose breaker is open is temporarily unavailable (`TELEGRAM_INTEGRATION_CHECKPOINT.md:156`); only a success closes it, and no call is made | `MCRankings_caches`, `Providers = {"brs"}` |
| `Rankings!HistoryIsReal` | no synthetic data is made (`daily_analysis.py:284`); the invented quotes of an offline run are saved as history | `MCRankings_caches` |
| `FundData!NoneStarves` | the job is for the funds with fewer than 250 days (`history_backfill.py:7`); funds that cannot be filled hold the places of every run | `MCFundData_jobs`, in place of `FundsServed` |
| `FundData!SeriesInOrder` | the rows of a fund run from old to new (`core/indicators/engine.py:43`); Jalali dates sort before all Gregorian ones | `MCFundData_jobs` |
| `Analysis!SuccessReadEverything` | a success is shown as complete (`phase1_pipeline.py:494`); a stage that raised leaves no mark in the status | `MCAnalysis_stages`, in place of `SuccessIsComplete` |
| `Analysis!PremiumIsAligned` | price and NAV are aligned in time (`nav.py:4`); a value without a time counts as of now | `MCAnalysis_stages` |

### Read in the code, not checked by a run

*Receiver.* After a crash between saving a batch as complete and processing it,
nothing processes it: the duplicate branch skips complete batches (`api.py:239`). An
incomplete batch should stay pending (`RECEIVER_V1_DESIGN.md:272`) but each chunk
except the last marks it failed (`api.py:406-421`), and a wrong final checksum should
mark the batch failed (`:264`) but is only logged (`api.py:391-392`). A batch
overwrites the history row of a day, whatever its time (`processor.py:317`).

*Worker and live scripts.* `delete_batch`, `cleanup_old_batches`, `get_stored_chunks`,
`validate_export`, `reassemble` and `verify_chunk` have no callers but tests; payload
files are never deleted. A torn `previous.json` makes every later `build_delta` raise.

*Quota.* The five-minute window is fixed, where `brs_quota_manager.py:121` says
sliding: twice the limit can be spent around its edge. The fallback for an exhausted
quota reads the cache through the accessor that deletes expired entries.

*Rankings.* The factory's "auto" always ends at the local database. `/refresh` clears
the bot's cache and is answered from the loader's. A ranking of no funds empties the
snapshots. The nightly job has a breaker of its own.

*Funds.* `Owner` assumes that the exchange does not give the name of one fund to
another; if it did, the rows of both would be filed under one id. A symbol that ends in 2, 3 or 4 is taken for a derivative. `force` is never
read by the history engine. Rows of `funds` are never deactivated; `nav_history` is
never written. If `max_funds_per_run` funds are too young to have enough history,
they hold their places in every run and all others starve.

*Bot.* A fix (`pfedit_fix`) that is delivered again begins from the row the first
delivery wrote, and may confirm other numbers. A purchase recorded before a restart is replayed without its conversation and
may be lost. The branches for `cmd:` buttons and the onboarding cannot be reached.

*Analysis.* The missing stages of phase 1 are always empty, and a stage that raises
counts as executed. The status does not look at the quality the gate found. An empty
book has the ratio 0 and the score 20. The metrics `trend` and `price_structure` are
in no table of applicability, so with an identity manager those modules never run. One
zero price makes the technical engine raise.

*Portfolio report.* High co-movement adds no points to the risk: the test looks for a
word that the value never holds. The concentration names the first holding, not the
largest. Holdings without a price are left out and the quality is still "complete"; a
holding without a cost, or a zero in the history, makes the whole report raise.
Returns of two funds are paired by position, not by date.

*Market hours.* `(weekday + 1) % 7` maps Saturday to 6 and Sunday to 0, so every
session is a day off, and the 24-hour gold session makes `is_market_open` true but for
the last minute of a day.
