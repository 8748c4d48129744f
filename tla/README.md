# A verification of the data availability client

This directory holds TLA+ modules that model the data availability client of this repository, TLC configurations that
check them on small instances, and proofs of their main results that TLAPS checks for every value of the constants.
Paths are relative to the repository; `main.py` alone is `src/processing/main.py`.

## 1. The system

The client follows the `Relay` contract of one Flare chain. For every voting round that a protocol (FTSO or FDC)
finalises, the contract emits a `ProtocolMessageRelayed` log with the Merkle root of the round. The client asks data
providers for the leaves, recomputes the root, stores root and leaves, and serves leaves with Merkle proofs over HTTP.

| Component | State | Operations | Source |
|---|---|---|---|
| Ingest loop, one process per protocol | locals of `run()`: `start`, `height`, the batch, the deque of retries | poll the height, fetch a batch of logs, process a message, retry, restart from the database | `processing/main.py` |
| Processors and provider clients | the provider being asked, errors | `fetch_merkle_tree`, the checks, the transaction | `processing/*.py`, `processing/client/` |
| Tables | roots (unique per protocol and round), random numbers, feeds, attestations | bulk inserts, range deletes, queries | `fsp|ftso|fdc/models.py` |
| History deletion | `voting_round`, its open transaction | four deletes every 600 s | `fsp/management/commands/delete_history.py` |
| FTSO view | none; up to four queries in a request | `anchor-feed-names`, `anchor-feeds-with-proof` | `ftso/views.py` |
| FDC views, two versions | none; one query in a request | list, raw, proof by round and bytes, proof by bytes | `fdc/views/` |
| FSP view | pages cached for ten seconds | `latest-voting-round`, `status` | `fsp/views.py` |
| Redis fallback cache | per thread: time of the last failure, cooldown | every cache call, `close` | `project/cache.py` |
| Services and their start | `config`, in each process or worker that has imported it; docker's view of the containers | `get_config`, `Command.handle` of each service, `docker compose up`, health checks, restarts | `configuration/`, `*/management/commands/`, `docker/bin/django-gunicorn`, `docker-compose.yaml`, `project/urls.py` |

How they interact. The processes share only PostgreSQL, at its default isolation level READ COMMITTED: each *statement*
sees what was committed when it began. Ingest and deletion use transactions; the views do not. The ingest loop reads the
chain over RPC and providers over HTTP; everything it has not stored is in memory. docker restarts every process that
ends (`restart: unless-stopped`), but `docker compose up` first starts ingest and deletion when django is healthy, which it is
only once its workers have a configuration. Django's request cycle calls the cache, and calls its `close` after every request.

What is hard here, and what correctness means in each part:

* **Ingest.** Batches must tile the chain; a message that fails must be retried six times, at least 20 s apart, and no
  message may be processed after it is stored (the second insert would raise for ever); a crash loses the retry queue,
  and a restart derives its position from the rows that exist. Correct: every finalised message is stored, or given up
  after all retries, or left behind by a restart for a known reason, and it is stored once.
* **Providers.** They answer late, wrongly, for another round, or differently from request to request. Correct: only
  the tree with the root on chain is stored, and one good provider is enough.
* **Tables, deletion, FTSO view.** Inserts, four deletes and up to four reads interleave. Correct: a visible root has its
  data, data inside the history is there once, and an answer's proofs come from one complete tree.
* **FDC views.** Five ways to look up the same rows; rounds arrive out of order. Correct: the answers agree with the
  question and among each other, and the latest proof never turns into an older one.
* **Cache.** Backoff arithmetic and who counts as a good call. Correct: bounded, spaced attempts, and a way back.
* **Status page.** Its pages lie in redis and in each worker, and outlive what they report. Correct: what it says was right
  at most ten seconds and one request ago, and a round it reports can be fetched.
* **Start.** Every service needs the RPC node several times before it has a configuration. The commands import it and end
  without it; django imports it with its URLconf and answers 500 until it gets through, its migrations skipped if that was
  during `migrate`; the others wait for django. Correct: an indexer runs with exactly its providers or not at all, no
  service works with a bad list, and everything wanted is up again after an outage.

`PROJECT.json` lists every hazard at its line, with the properties that would catch it.

## 2. Modules

| Module | What it is |
|---|---|
| `DataAvailability` | abstract specification: a round is finalised, its data is published once, history expires |
| `DataProcessor` | the ingest loop with its environment; refines `DataAvailability` |
| `DataProcessorProofs` | proofs about it |
| `FetchMerkleTree` | one attempt to fetch and store a round from its providers, both protocols |
| `FetchMerkleTreeProofs` | proofs about it |
| `ProtocolStore` | the tables with ingest transactions, deletion statement by statement, and FTSO requests; refines `DataAvailability` |
| `ProtocolStoreProofs` | proofs about it |
| `IngestSystem` | composition: the ingest loop of `DataProcessor` over the tables of `ProtocolStore`; refines `DataProcessor` |
| `IngestSystemProofs` | proofs about it |
| `AttestationViews` | the FDC endpoints over their table, and the response of a row as each version writes it |
| `DictTransform` | `dict_transform`, the loop that turns integers at any depth of a response into text; used by `AttestationViews` |
| `AttestationViewsProofs` | proofs about `dict_transform` and `AttestationViews` |
| `StatusPage` | `/status` and its cached page in redis and in the workers' memory |
| `StatusPageProofs` | proofs about it |
| `FallbackCache` | when the cache calls redis and when it does not |
| `FallbackCacheProofs` | proofs about it |
| `Startup` | the four services from `docker compose up` and `.env` to running, over RPC outages and a new Relay contract |
| `StartupProofs` | proofs about it |
| `MC...` | small instances of these for TLC |

`DataProcessor` takes `Processor.process` as one step that commits or raises, or raises and commits later. `FetchMerkleTree`
shows what is between the call and the transaction, `ProtocolStore` what is inside the transaction: it assumes nothing
about which rounds are processed, in which order or how often. `IngestSystem` puts the loop and the tables together and
shows that nothing is lost in between. Where a process starts, and that it comes back, is in `Startup`; `DataProcessor`
begins with a configuration that was accepted.

### State and code

* `DataProcessor`: `pc` is the place in `run()` (`poll` before `get_block_number`, `scan` in `while start < height`,
  `retry` in `while retry_queue`, `down` between processes); `start`, `height` and `retry_queue` are the locals;
  `events` is what is left of the batch; `stored` is the set of logs that have a row, `late` those whose COMMIT was on its
  way when the connection broke or the process died, and whose outcome (`LateCommit`) nobody waits for. `failures`,
  `unacknowledged`, `published`, `dropped` and `abandoned` are history variables; `unacknowledged` are the messages whose
  COMMIT this process lost sight of, or the one that crashed before it, unless it was rolled back. One action per branch: `Boot` (lines 45-68), `Poll`, `PollUpToDate` and
  `PollPastLastLog` (70-75), `GetLogs` (77-90), `ProcessEvent` and `SkipForeignEvent` (92-112), `RetryEvent`,
  `RetryNotDue` and `RetryQueueEmpty` (115-140). `Crash` may happen at every point.
* `FetchMerkleTree`: `root` is the message being processed, `client` the loop variable of `fetch_merkle_tree`, `data` what it returned, `stored` the leaves in
  the tables. The checks (`FtsoParses`, `FtsoVerifies`, `FdcVerifies`) are conjunctions in the order of the code.
* `ProtocolStore`: a `Row` stands for all rows of a round in a table, because they come and go in one statement; its
  `gen` stands for their primary keys and tells two insertions of a round apart. `txn[p]` is the open ingest transaction,
  `late` those whose COMMIT is on its way while their process, or its successor, has gone on; `Refuses` is the unique
  index, which an insertion meets in committed rows and in open transactions. `stmt` is the next DELETE, `request` one
  request to either FTSO endpoint with what it has read. The random number is read before the lazy queryset of the feeds is evaluated
  (`ftso/views.py:144-149`), and the feeds are read once for the tree and again for the answer.
* `IngestSystem`: the variables of both parts. `Stored` (roots that can be read) and `InDoubt` (COMMITs on their way) are
  what `DataProcessor` calls `stored` and `late`. Steps of the loop outside `process` are those of `DataProcessor`, in
  `Run`; those of the tables are those of `ProtocolStore`. In between, `BeginProcess` is the call with the tree fetched and
  the root inserted, `InsertData` the other inserts, and `ProcessReturns` and `ProcessRaises` are the two ways in which `run()` goes on
  (`main.py:103-112`, `125-140`). A process that dies leaves a transaction that is rolled back, or a COMMIT on its way.
* `AttestationViews`: `results` is the table, `answer` the last answer with its question, its rows and their serialised
  `responses`. A text of request bytes keeps its notation, because one endpoint compares it as sent.
* `DictTransform`: a document is a function on its paths; `ref_stack` and `new_data` are the locals of the loop.
* `StatusPage`: `request[t].step` is the place in a request: the lookup of `cache_page`, `now()`, the two queries of
  `FspViewSet.status`, and the `set` of the page. `page_in` has redis and the `LocMemCache` of each worker; which of them a call
  reaches is left open, and `FallbackCache` says more. `ago` is a history variable.
* `FallbackCache`: `elapsed[t]` is `time.monotonic() - _last_fail_time`, `cooldown[t]` is `_cooldown`.
* `Startup`: `env` is `.env`, each list variable as `split(",")` gives it. `pc[s]` is the place of a service: `connecting`
  and `configuring` are the two halves of `get_config`, before and after the registry is asked for Relay, `handling` is
  the command. For django these three are `manage.py migrate` in `django-gunicorn`, which goes on with gunicorn whatever
  comes of them (`ConfigError`, `MigrateDjango`); `loaded` are the workers that have imported the URLconf since, with a
  request or a health check (`Answer`), and `migrated` says whether the tables exist. `compose` is `docker compose up`, which
  waits for `health`, docker's verdict on django, and then starts the other services or has failed; those are `created`
  until then. `following` and `clients` are what an indexer was given, `since` (history) Relay's address when it began.

### Taken from outside the repository

* `close` of Django's `RedisCache` does nothing and cannot fail; Django closes all caches at the end of a request.
* `queryset.get` raises if there is no row, `queryset.first` returns `None`; querysets are lazy; a REST framework
  serializer of `None` yields its initial values.
* The Relay contract finalises a round of a protocol once (`OneRootPerRound`), and finalised rounds do not disappear.
* `MerkleTree` of `py_flare_common` has the same root for the same set of leaves, and hashes do not collide.

## 3. Runs

| Run | Shows |
|---|---|
| `dp_ingest` | the ingest loop skips, repeats and misorders nothing, refines `DataAvailability`, and settles every message although every attempt may fail |
| `fm_fetch` | for either protocol only leaves with the root on chain and the values of the round are stored, for FTSO also with its number; one good provider is enough, every attempt ends |
| `ps_safety` | roots have data, live data is there once, proofs verify, published rounds are answered, every row of each table goes eventually once it is behind the history; refinement |
| `sy_ingest` | the FDC loop on the tables: what `run()` has passed is there with all its data, the transaction is the one step of `DataProcessor`, every row of a root or an attestation goes eventually |
| `av_safety` | the lookups by round give the row asked for or not found, the latest proof does not go back, version 0 writes every integer as text and changes nothing else |
| `sp_status` | what `/status` reports was right a moment ago, whichever cache it comes from, and can be fetched |
| `fc_backoff` | backoff bounds, reset and spacing; redis is used again once it stays up |
| `su_startup` | indexers run with exactly their own providers or not at all, nothing works with a bad list, a restart follows a new Relay contract, and every wanted service is up again after an RPC outage, if a failed `docker compose up` is repeated and the migrations were made |

Four further runs each show that the code does not do what a comment or a document says. They are in section 6.

### Bounds, and why they are enough

* **Chain** (`dp_*`). Four logs in three blocks: two messages in one block with a foreign log between, and a later one. This
  gives a batch boundary on each side of a message, a crash between two messages of a block, and a restart past a queued
  message. Batches have two blocks, so that batches are full, cut off, and many. Heights saturate at `MaxHeight`, above
  the last log: later blocks hold no log, and `PollPastLastLog` stands for every later round of the loop.
* **Retries.** `MaxRetry` is 2 instead of 5: a first retry, a second and a last one. Ages count ticks and saturate when
  due. The proofs cover every `MaxRetry` and delay.
* **Lost COMMITs.** One at a time that an ingest process loses sight of (`MaxUnacknowledged`), one in flight without its
  process (`MaxLate`): enough for a retry or a restarted process that meets the row, or comes before it, and a deletion
  in between. `sy_ingest` allows two. The proofs cover any number.
* **Crashes.** One crash at every point. A second begins in a state of the same form: everything volatile is gone, and
  the rows are any that can be reached. The proofs cover any number.
* **Cutoffs** of deletion (`Cutoffs`) are past the first message and past the last; those between act alike. `IngestSystem`
  allows every round, and the proofs every set.
* **Providers.** Three, so that there is a first, a middle and a last one. Their answers are every list of up to two
  leaves, of any kind and with any round number, right or wrong, and each right tree with one leaf more, in two rounds; a
  wrong value is that of the other round, and a second leaf is a feed or an attestation. The two processes fetch independently, so one fetch at a time, for either, stands for both.
* **Store.** Rounds 0 to 2 with a history of one round: a round can be inserted before, during and after the deletion
  of its neighbours. `Keys` has three primary keys, reused when no row holds them: one for rows that outlived the
  deletion of their round, one for an insertion since, one for the next. One request at a time: requests only read, so
  two do not affect each other. One protocol: the two share no row, and FDC is in `sy_ingest`; the proofs are for any of
  them and for both together.
* **System** (`sy_ingest`). Two messages in two blocks and two rounds, one retry, one crash of either process, and a deletion that
  drops the first round, whose rows, and those that come late, must go. The batches, retries and clocks of the loop are checked in `dp_ingest`; what this run adds is every
  statement of a transaction between every statement of a deletion. The proofs cover every chain.
* **Lookups.** Two requests, one attested in nearly every round and one once; a round without attestations. One response
  has dicts in a list in a dict, lists in lists, a Boolean, and integers beside containers; the other is flat.
* **Start.** Nine environments: both protocols; one blank, the other commented out, with no history and no migration at the
  start; one variable missing, on another chain; no `RPC_URL`; an unknown chain; a setting of indexing that is no number; one list shorter than
  the others (each of the three). Two workers, gunicorn's default. The RPC node may fail and recover at any time and any
  number of times, also during `docker compose up`; Relay is deployed anew once (`MaxRelay`).
* **Status page.** Two workers with one thread each (gunicorn's default), rounds of two ticks, a page that lives for two, and
  requests of up to one: a page can be written by a slow request after a newer one, expire in the middle of a round,
  and outlive the deletion of what it reports. FTSO has an indexer and FDC has none, so that a protocol
  with rows and one that never has any are both reported.
* **Cooldowns.** 2 s and a cap of 7 s: one doubling below the cap, the second meets it.

`CHECK_DEADLOCK` is on in every run.

### Fairness

* `DataProcessor`: weak fairness of `Boot` (docker restarts the process), of the process' own steps, of time and of
  new blocks. `PollPastLastLog` has strong fairness. With `height == start` the code sleeps and skips the retry loop
  (`main.py:73-75`), so a retry needs a chain that has moved between two polls; blocks take seconds and a sleep takes 20, so
  a process that polls for ever sees one. Nothing is assumed about providers.
* `FetchMerkleTree`: a request ends, by its answer or its timeout.
* `ProtocolStore`: `delete_history` keeps running and its statements end.
* `IngestSystem`: `delete_history` keeps running and its statements end, as in `ProtocolStore`; only `OldRowsGo` needs it, and
  nothing is assumed of the ingest process.
* `FallbackCache`: time passes, and every thread is called again.
* `Startup`: docker starts what has ended and a process that starts gets on with it (weak fairness of `Boot` for each
  service); the health check runs every ten seconds and reaches any worker (`CheckPasses`); `docker compose up` goes on when
  django is healthy. Nothing is assumed about the RPC node and the operator: `HealsAfterOutage` says what follows *if* the
  node stays up, django's container runs, a `docker compose up` that failed is run again, and the migrations were made at
  some time. The last two are premises because nothing in the deployment brings them about (section 5).

## 4. Proofs

### The ingest loop (`DataProcessorProofs`)

Proved for every chain, batch size, delay, number of retries and number of crashes, from three assumptions:
`ChainAssumption` (logs are numbered in block order), `OneRootPerRound`, and `ConfigAssumption` (sane configuration
values). Results: `TypeCorrect`, `NoMessageSkipped`, `NoMessageReworked`, `NoMessagePendingTwice`, `RetryQueueSorted`,
`RetryCounterExact`, `GivenUpAfterAllRetries`, `AbandonedOnlyIfOvertaken`, and `ProcessorImplementsPromise`, the refinement
of `DataAvailability`.

None of these is inductive alone. The invariant `IInv` adds where things can be:

* a process that is down has empty locals (`DownIsEmpty`);
* what is pending, and what is stored, lies below `start` (`PendingBelow`, `StoredBelow`): so a batch fetched from `start`
  meets neither a row nor a queued message. A restart from the last stored block keeps this;
* a message not yet fetched, or in the batch, has not failed since boot (`FreshUnfailed`): its retry number starts right.

`NoRework` cannot say that a pending message never has a row: the COMMIT of an attempt that raised, or of a process that
died, may get through afterwards, when the message is queued or has been fetched again. `NoRework` says that this is the
only way, and the unique index then refuses the attempt (`Refuses`). Such a row may even lie above `start`, so `StoredBelow`
excepts it, and `LateIsNew` says what may still come: at most one COMMIT of a round, of one without a row, that is known
to be `unacknowledged`. `StoredUntilExpired` says that a row goes for no other reason than its age; deletion may leave old
rows that were committed after its last DELETE, which came to light when the loop was composed with the tables.

With these, `PendingOnce`, `NoRework`, `QueueOldestFirst`, `RetryCountsFailures` and `NothingSkipped` are preserved by
every action, each in a step of its own. The action properties follow from the invariant in the state before a step.

### Fetching (`FetchMerkleTreeProofs`)

Proved for every number of providers, of rounds, and every set `Trees` of answers: `FetchTypeCorrect`,
`StoredTreesMatchChain`, `StoredTreesAreOfTheirRound`, `OneGoodProviderSuffices`. The invariant says that an accepted
answer is verified for the round being fetched, and that a provider which was good all the time has not been asked
while the fetch is still looking (`SteadyUnasked`): asking it would have ended the fetch, because the right answer passes the
checks (`RightAnswerAccepted`). `StoredTreesAreOfTheirRound` rests on equal hashes meaning equal fields among those that are
hashed. For FTSO these are the value and the number of the round. For FDC the hash covers only the response, and `roundId` is
stored as sent: there the theorem says that the values are those of the round, and nothing about the number.

### The tables and the FTSO view (`ProtocolStoreProofs`)

Proved for every history and any number of rounds, late COMMITs and crashes of `delete_history`: `StoreTypeCorrect`,
`RootsHaveData`, `LiveRoundsStoredOnce`, `ServedProofsVerify`, `PublishedIsServed`, and `StoreImplementsPromise`, the
refinement of `DataAvailability`. The number of primary keys is that of `Keys`. The invariant has these parts:

* `OpenWithin`, `OneOpenPerRound`, `OpenIsNew`: transactions that may still commit are of rounds that are over, at most one
  of them per protocol and round, and none while the round has a root. This is what the unique index gives;
* `InsertedTogether`: what was inserted with a root is there as long as the root;
* `DoomedOld`: `delete_history` has marked old rows only, and after its last statement no root outlives rows of its
  own insertion. It needs the root to be deleted last;
* `HorizonBehind`: the history already dropped is behind the one being dropped, and both are behind the current round.

For the view, `ViewOK` says that while its round is live, what a request has read is still what is in the tables. It
rests on `RootedRowsStay`: rows of a live round that has its root do not change.

### The loop on the tables (`IngestSystemProofs`)

Proved for either protocol, every chain and configuration, every history, and any number of crashes and late COMMITs:
`SystemImplementsLoop`, `AttemptsDoNotOverlap`, `PassedMessagesAreStored`. The assumptions are those of the two parts, and
that rounds of messages are rounds of the store (`RoundAssumption`).

The proof is by parts. Every step of the system is a step of `ProtocolStore` (`StoreSimulates`), so the invariant proved in
`ProtocolStoreProofs` holds of its tables. With that invariant, `OneAttempt` (an open transaction is that of the message in process) and `LateOwn` (a COMMIT on its way is of a
message), every step is one of `DataProcessor` (`LoopSimulates`), so its invariant holds of the loop too. The
invariants of the parts are not proved again. What is new in between:

* an open transaction is of the message in process (`OneAttemptStep`), because `run()` does nothing else meanwhile
  (`RunWaits`). So the unique index refuses in the tables just when `DataProcessor` says so (`AttemptOpen`);
* a COMMIT without its process concerns one message, for a round has one open attempt (`LateIsLate`);
* `delete_history` drops roots below its cutoff and no others, but perhaps not all (`DropIsDelete`).

`PassedIsStored` then takes from the loop that a message is published and not expired, and from the tables that
a root within the history has its data, once.

### The FDC views (`AttestationViewsProofs`)

Proved for all requests, rounds, attestations and histories: `ViewsTypeCorrect`, `ProofsAreAsAsked`,
`LatestProofNeverGoesBack`, `IntegersAreSentAsText`. Type correctness is inductive. `ProofsAreAsAsked` rests on `MatchingFacts`: both notations of
a request match the same rows. `LatestProofNeverGoesBack` needs that a deletion takes the oldest rounds first, so
that the latest row goes last. `IntegersAreSentAsText` needs `ResponseAssumption`, that a decoded response is a document,
and the theorem about `dict_transform` below.

### `dict_transform` (`AttestationViewsProofs`)

`EveryIntegerBecomesText` is about every document (`IsDocument`): after the loop exactly the integers have become text. The
invariant of the loop, `VisitedSoFar`, relates the stack to the set of containers visited: both together are the whole and
what visited containers hold, without repetition, and what visited containers hold has been replaced. Every turn visits one
container more (`VisitOne`), so the stack is empty after as many turns as there are paths (`StackEmptied`). Then no
container is left out: one of least depth would be held by a visited one (`AllVisited`). The induction theorems of
the library take an operator as a parameter; `LeastNatural` and `UpTo` do without one, and so does `RunExists`, which
says that the recursive function exists.

### The status page (`StatusPageProofs`)

Proved for any number of workers and threads, every timeout, history and length of a round: `StatusTypeCorrect`,
`PagesAreFresh`, `ReportedRoundsCanBeFetched`. The invariant bounds the age of what a page says: in a cache by its time
there and one request (`EntryOK`), in a request by the age of the request (`RequestOK`); so a slow request that
overwrites a newer page does not break it.

### The cache (`FallbackCacheProofs`)

Proved for every number of threads and all cooldowns with `2 * MIN_COOLDOWN <= MAX_COOLDOWN`: `CooldownWithinBounds`,
`GoodCallsReset`, `FailuresAreSpaced`. The last needs `FailedLately`: a thread that redis has failed a short while ago
is still in a cooldown of at least twice the minimum.

### Start (`StartupProofs`)

Proved for every set of environments and any number of workers: `StartupTypeCorrect`, `ServicesRunAsConfigured`,
`RestartsFollowRelay`. The chained comparison of lengths does not imply equal lengths; the proof rests on `zip(strict=True)`
(`AcceptedSameLength`). `ListsAccepted` says that a configuration comes only of lists that are accepted, in every place that has
one or takes one for granted (`ConfigInUse`): a command that has passed `get_config`, a worker that has answered, the health that
`docker compose up` waits for, and that it is done.

### Only model-checked

Liveness and fairness are outside the prover: `Settles`, `AttemptsEnd`, `OldRowsGo`, `RedisUsedAgain` and
`HealsAfterOutage`. The violated properties of section 6 are shown by TLC's counterexamples.

## 5. Preconditions worth knowing

* The tables do hold rows of a round twice, or data without a root, *behind* the history: a late round committed between
  two of the DELETE statements is deleted in part, and the rest goes at the next pass. The invariants about data
  are therefore stated for rounds within the history (`Live`).
* `StatusPage` assumes a longest request, `MaxRequest`. No timeout in the code bounds one: the age of a page is bounded by
  ten seconds and one request.
* A process follows the Relay contract it found when it was configured. `RestartFollowsRelay` says that a restart after
  a new deployment is enough; until then nothing makes it restart.
* An RPC outage may leave two things behind that nothing in the deployment repairs. During `docker compose up` it makes django
  unhealthy, and the other services are then never started, whatever their restart policy
  (`docker-compose.yaml:50-54`). During `manage.py migrate` it skips the migrations, for gunicorn is started all the
  same (`django-gunicorn:3-20`); the indexers then end at their first query. `HealsAfterOutage` has both as premises.
* No code checks the `roundId` that a provider sends with an attestation (`fdc/models.py:74, 98`). `FetchMerkleTree` lets it be
  anything. `ProtocolStore`, `IngestSystem` and `AttestationViews` take it as right: what they say of the attestations
  of a round is about rows that carry its number.
* A lagging RPC node, a stepping wall clock and equal requests in one round are outside the models; `PROJECT.json` lists
  them among the hazards with the reason.
* List variables that are set to the empty text give a protocol one provider without name and URL (`"".split(",")` is
  `[""]`). `RunsAsConfigured` holds for it, blank as configured; whether that is meant, nothing in the repository says.

## 6. Where code and documentation disagree

| Run | What it shows |
|---|---|
| `dp_continues` | A restart does not "continue from where it stopped" (`.env.example.prod:75-76`): the retry queue is lost, and queued messages below the last stored block are never processed (`main.py:68`). |
| `dp_default_height` | Without `INDEXING_DEFAULT_HEIGHT` indexing starts at the current block (`config_parser.py:142`), not where Relay was deployed (`.env.example.prod:76-77`). |
| `fc_doubles` | The cooldown does not double "after each consecutive failure" (`cache.py:20-21`): the `close` at the end of a request counts as a good call and resets it. |
| `av_prefix` | v0 `get-proof-round-bytes` does not "retrieve the last attestation" (`v0.py:85`) for bytes sent with a `0x` prefix (`v0.py:111`), and answers 200 for what it does not find: `v0.py:116` catches what `first` never raises. |

Three smaller ones have no run: the first cooldown is 4 s, not the 2 s of `cache.py:10` and `cache.py:21` (`MarkFailed`
doubles before the first wait); the v0 list "defaults to latest" (`v0/query.py:9-10`), which is the active round and has
no data yet (`V0List`); and some provider lists of unequal lengths pass the chained `!=` of `config_parser.py:84`, so that
they raise the ValueError of `zip` instead of the `ConfigError` with its message (`LengthsDiffer`, `ZipAccepts`).

## 7. Not modelled

The composition `IngestSystem` has one ingest process: the other writes rows of its own protocol and meets this one nowhere but in
`delete_history`. It has no views, which only read, and fetching in it is one step, as in `DataProcessor`.

Left out for good, because they keep no state that a property is about: settings, logging, telemetry and the debug
middleware; parsing the JSON artifacts of contracts; health checks of database and redis, and packaging of the containers; the ABI codec and
Merkle library (external code, replaced by what the code relies on); which feeds of a round a request asks for; and the
contents of serialised answers beyond which row they show and how the response is written.
