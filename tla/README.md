# poorguy-mem: a TLA+ verification project

poorguy-mem (`pgmemd`) is a memory server for coding agents.  It stores records
per workspace, keeps a bounded part of them resident together with a retrieval
index, persists everything in a partitioned key-value store (EloqStore), and is
driven by MCP requests over HTTP.  This directory holds TLA+ models of it, the
TLC runs that check them on small instances, and TLAPS proofs for all instances.

## Inventory

| component | state | operations | talks to |
|---|---|---|---|
| memory engine (`src/core/memory_engine.cpp`) | `records_`, `dedup_index_`, `resident_charge_bytes_` under `records_mu_`; atomics `resident_used_bytes_`, `local_seq_`, `capacity_blocked_`, `gc_*` | Write, Query, Pin, Stats, Compact, StoreCompact, Warmup, RunGcLoop, Shutdown | store adapter, retriever; called by handler threads, `main`, its own background thread |
| in-memory adapter (`src/store/in_memory_store_adapter.cpp`), chosen by `store_factory.cpp` | a map per shard under a lock per shard, two counters | Put, Get, Delete, Scan, BatchWrite, ApproximateUsage | engine |
| store adapter (`src/store/eloqstore_adapter.cpp`) | layout metadata, size estimates, compaction worker | Put, Get, Delete, Scan, BatchWrite, ApproximateUsage, TriggerStoreCompactAsync, layout refresh at startup | EloqStore, one table partition at a time |
| retriever (`src/core/retriever.cpp`, `lsh_vector_index.cpp`) | documents (immutable snapshots) and vectors, each under a lock of its own | Index, Remove, Query, EstimateDocBytes | engine |
| dispatcher (`src/mcp/mcp_dispatcher.cpp`) | none | one MCP method to one engine call | engine |
| server (`src/apps/pgmemd_main.cpp`, `src/net`) | `ready`, routes | startup, `/mcp`, `/mcp/describe`, `/health`, JSON-RPC envelope, types of results, stop | dispatcher, engine |
| installer, scripts, utilities, metrics | none that control depends on | | |

What is hard in it:

* *Concurrency.*  Handler threads, the background compaction and Warmup share
  the engine.  A request takes `records_mu_` several times; the store, the
  retriever and the resident counter are updated between these holds.
* *Failure.*  `BatchWrite` is one request per partition with no transaction
  around them: any prefix of the partitions may be stored when a partition fails
  or the process stops.
* *Recovery.*  A restart rebuilds everything in memory from document rows, then
  replays the projection events beyond the checkpoint of their workspace.
* *Bounds.*  Eviction keeps `resident_used_bytes_`, an unsigned counter that
  threads update out of order, below the limit.
* *Conversion.*  Results pass through a property tree that prints every leaf as
  a string and every empty list as ""; tables of field names turn them back.

What makes the engine correct: nothing acknowledged is lost, nothing newer is
replaced by something older, the index shows what is resident, the counter is
the sum of the charges, pins and dedup keys are respected, requests end.  Of the
adapters: both do the same with a batch, a Scan misses nothing that was there, the
counters never wrap.  Of the server: every request gets one answer, with its own
id, in the types of its schema, and a refused request has had no effect.
`PROJECT.json` lists the hazards one by one, each with its line.

## Modules

| module | models |
|---|---|
| `RecordModel` | records, events, checkpoints, batches, and the pure functions of `memory_engine.cpp` over them |
| `MemoryEngine` | the engine with its threads, and the partitioned store as the engine uses it |
| `EventLog` | abstract specification: a log that only grows and acknowledges only what it holds |
| `MemoryEngineProps` | the properties |
| `EloqStoreLayout` | the adapter's partition layout: what a start with another number of partitions moves, and where reads look |
| `KeyValueStore` | abstract specification: a map that only requests change |
| `Lifecycle` | the process: `main`, its teardown, handlers, the background thread and its condition variable, the store compaction worker |
| `Retriever` | documents and vectors of the retriever, between the updates of `records_` and Query |
| `IndexRows` | `MemoryEngine` joined with the posting, vector and dictionary rows it stores beside the documents |
| `StoreAdapter` | the requests of both adapters, shard by shard or partition by partition, and their usage estimates |
| `McpServer` | routes, JSON-RPC envelope, methods of the dispatcher, types of results and their schemas |
| `MCMemoryEngine`, `MCEloqStoreLayout`, `MCLifecycle`, `MCRetriever`, `MCIndexRows`, `MCStoreAdapter`, `MCMcpServer` | constants of the TLC instances (`engine_*.cfg`, `layout.cfg`, `lifecycle.cfg`, `retriever.cfg`, `rows*.cfg`, `store.cfg`, `mcp.cfg`) |
| `SumTheorems` | lemmas: sums over finite sets and functions, counters that wrap around |
| `MemoryEngineProofs` | type invariant of the engine, what its resident counter owes, inductive invariant of the event log and the theorems about it, course of the threads |
| `RecoveryProofs` | what Warmup recovers, what the retriever holds, what a reader sees, and which rows lie beside a document |
| `LayoutProofs` | types and inductive invariant of the layout refresh, its safety and its refinement |
| `LifecycleProofs` | inductive invariant of startup and teardown, and what follows |
| `RetrieverProofs` | inductive invariant of the retriever's parts, their agreement, and what queries answer |
| `StoreAdapterProofs` | inductive invariants of the adapters' requests, sizes and usage counters |
| `McpServerProofs` | inductive invariant of the connections, the contract of answers, the types of results |

`IndexRows` extends `MemoryEngine`; the other models share no variables.  They meet where the code has interfaces:
`MemoryEngine` sees the store as partitions with atomic writes, on the layout that
`EloqStoreLayout` shows to be right once a start is through; `Lifecycle` takes a
request or a Warmup as one step that ends, which is `RequestsEnd` of the engine.
`Retriever` splits `UpsertIndex` and `DropIndex` of the engine, one step there,
into their two locks, and adds the reading side.  `StoreAdapter` shows what the
engine and the layout take for granted of the store: a request to a partition is
all or nothing, and the last entry for a key wins.  `McpServer` takes a method of
the dispatcher as one step with any result the method can have, and the
compaction worker of `Lifecycle` as a flag.

### How `MemoryEngine` corresponds to the code

The variables `records`, `dedup_index`, `charge`, `used`, `local_seq` and
`capacity_blocked` are the members with these names; `index` is the set of
documents the retriever would return; `ready` is the flag of `main`; `docs`,
`events` and `ckpt` are the namespaces `mem_docs`, `ds_events` and
`ds_projection_ckpt`.  `th[t]` holds the locals of thread `t`; its `pc` says
which step comes next.

One action is one critical section, one store request or one call of the
retriever:

| code | actions |
|---|---|
| `Write` | `WriteStart` (pin statistics), then per record `WriteDedup` or `WriteRecord`, `WriteBuilt`, the batch, the upserts, `WriteRoute`, the eviction loop |
| `Pin` | `PinStart` (`LoadRecord` from the map), `PinGet` (from the store), `PinCheck` (governance, rows), the batch, the upsert, the eviction loop |
| `CompactInternal` | `CompactStart` (snapshot), `CompactTomb`*, `CompactDelete`*, `CompactBuilt`, the batch, upserts, removals, `CompactReport` |
| `BatchWrite` | `BatchWrite` once per partition in ascending order, or `BatchWriteFail` |
| `UpsertRecordInMemory` | `UpsertMap`, `UpsertIndex`, `UpsertAccount` |
| `RemoveRecordInMemory` | `RemoveMap`, `DropAccount`, `DropIndex` |
| `EnforceResidentHardLimit` | per round `EvictMap`, `DropAccount`, `DropIndex`; `EnforceDone` |
| `Warmup`, `ReplayProjectionEvents` | `WarmupScan`, `WarmupLoad` with the upsert per row, `ReplayCheckpoints`, `ReplayScan`, `ReplayEvent`, the eviction loop |

`acked`, `failed` and `unacked` are history: the events of requests that
succeeded, returned an error, or were cut off by a crash.

Abstractions, and why they are safe:

* A key is a (workspace, memory id) pair; contents are values with a size.
  Records that Write skips (empty content, too large) leave no trace and are not
  modelled.  Ttl, importance, hit counts and tiers only feed ranking and Query.
* `EvictionRank` is abstracted to any order: compaction and eviction may pick any
  unpinned record.
* Disk usage is not computed; `DiskPressure` says whether the watermark can be
  reached, and then the background thread may compact at any time.
* Term, posting and vector rows are written by the engine and read by nobody; of
  them this module keeps the partitions they go to, which decide where a batch can
  be cut.  `IndexRows` has the rows themselves.
* The look-up of a dedup key and the sequence number of the record built after it
  are one step, and so are the clock and the sequence number of one event.  Ids
  made up by `NextMemoryId` also consume sequence numbers; the model counts one
  per event, which is the tighter case for unique event keys.
* `node_id` is the same for all versions, so it never breaks a tie.
* The clock does not run backwards, and a restart takes at least a millisecond.
  Event keys are unique only because of this.
* External: a write of a partition is atomic and replaces the row of the same
  key; a scan of a partition that was never written answers "resource not
  found", which `RehashStoredEntries` (`eloqstore_adapter.cpp:589`) expects too.

### How `IndexRows` corresponds to the code

`rows` is what the store has under the keys of `mem_posting_blk`, `mem_vec_code`,
`mem_vec_fp` and `mem_term_dict`: for every key the version of the record it was
derived from.  `plan[t]` is the part of thread `t`'s batch that is about them.
Every action of `MemoryEngine` that calls `PersistRecord` or `DeleteRecordStorage`
is conjoined with what these append to the batch; every commit of a partition
carries out the entries of that partition; all other actions leave the rows alone.
A record's terms and the bucket of its embedding are functions of its content;
the bucket under which the code deletes a vector code is a function of the record's
id, as in the code.  `torn` is history: the keys for which a batch was built from a
version that is not the stored one (evicted, overtaken, cut off).

### How `StoreAdapter` corresponds to the code

`backend` is the adapter that `CreateStoreAdapter` chose.  In memory, every entry
of a batch is one hold of its shard's lock: `MemPut` changes the map, `Charge` the
counters, still under the lock.  A request carries the entry it is at and those
left (`next`, `left`) and the places it has written (`committed`).  With EloqStore, `EloqWrite` is one request to one
partition, in ascending order, with the last entry of every key (`Kept`); after the
last partition `EloqUsage` and `Charge` update `key_size_bytes_` and the counters,
entry by entry, under `usage_mu_`.  A Scan visits one shard or partition per step
and sorts, removes duplicates and cuts at the end.  With a limit, EloqStore returns one
page per partition, of at most `limit` entries and `PageBytes` bytes (2^20 in the code),
and what is behind it is not fetched (`Pages`); every caller scans without a limit.  A Put or a Delete is a batch of
one entry: the code does the same steps for them.  Keys are numbers in the order
of their strings, and the two counters change in one step, which loses nothing
because nothing reads both of them for one decision.  `was`, `others`, `short`
(the partitions whose page was cut off by its bytes) and `loose` are history.

### How `McpServer` corresponds to the code

A request is a record of what the code looks at: route, whether the body parses,
and for every member whether it is missing, of the right type, of another, or text
that rapidjson accepts and `read_json` does not.  The early returns of
`HandleMcpJsonRpc` are a ladder of conditions, of which the first that applies gives
the answer; it goes on in `RpcCall` for a JSON-RPC envelope, and there in `ToolCall`
or `MethodCall`.
A result is a function from its fields to what the handler puts into the property
tree; `ToJsonString` and `NormalizeResultByMethod` take it to JSON types the way
the code does, by its tables of field names; `++` joins the fields of two trees, as
the handlers put them into one.  The final score of a hit can be any double that
the weights of the request make (`Finals`): one below the normal numbers, which
`strtod` reports as an error, or infinity, which it takes and the Writer cannot write;
the body is then cut off (`Written`).  `HandleThrows` is the exception of
`write_json` in the middle of memory.write.  Inputs of the methods (defaults,
schemas of inputs, examples) are left out; what a method does is in the other
modules.

### How `EloqStoreLayout` corresponds to the code

`rows`, `dirs` and `meta` are what is on disk: the rows of every partition, the
`pgmem.<n>` directories, and the count in the layout file (`None` also for a file
that does not parse).  `n` is `num_partitions_`, which `main` sets from
`--core-number`, so it changes with the command line.  `RefreshLayoutOnStartup`
detects, loads and decides in one step (it only reads); after it every store
request and every change of the file system is a step of its own, in the order of
`RehashStoredEntries`: per partition and namespace `ScanSource`, `WriteTarget`
per target in ascending order, `DeleteSource`; then the two clean-ups, whose
errors the code ignores, and the layout file, truncated before it is written.
`Stop` can come between any two steps; a refresh that returns an error is a
`Stop` too.  A value is the number of its request, which is also its timestamp,
so `Newest` is the tie-break of `Scan`.  A routing schema is not modelled: only
one exists, and a file with another leads to a rehash as a missing one does.

One thing is assumed of the operator (`GoesBack = FALSE`): after a start that was cut
off, the next one does not go back to the number that the layout file still records;
the number of the cut-off start or any third one is allowed.  Without this TLC refutes
both `ReadsCurrent` and `NothingLost`: the file says 2, a start with 1 is cut off
after it moved an entry from partition 1 to partition 0, and the next start has 2
again.  It finds a file that agrees with it, moves nothing back, and `Get` looks in
partition 1, where the entry is not (or, cut off before the delete, leaves a copy
that the next write does not replace).

### How `Lifecycle` corresponds to the code

`main` is where `main` is, from `server.Start` to the end of the destructors,
which run in reverse order of declaration: server, engine (`Shutdown`), then its
member `store_`.  `h` is where each handler is, `gc` where `RunGcLoop` is; the
predicate of `wait_for` (`GcTest`) and the wait (`GcBlock`) are two steps, because
neither `Shutdown` nor `MaybeScheduleGc` holds `gc_mu_` when it sets its flag and
notifies.  `worker` is the `std::thread` member `compact_worker_` ("none" when not
joinable).  Only `TriggerStoreCompactAsync` holds `compact_mu_` over several steps.
A request goes through `HandleMcpJsonRpc` and `Handle`, which choose what it calls:
nothing, the engine or the store compaction.
External: `brpc::Server::Join` returns when no handler runs any more.

### How `Retriever` corresponds to the code

A writer changes `recs` (`records_`), then `docs` (the documents of the workspace
snapshot) with `total` (`total_doc_len`), then `vecs` (the vector index): three
locks, three steps, except that `Remove` of an absent document drops the vector
while it still holds the first lock (`RemoveAbsent`).  A snapshot is immutable in
the code, so a reader's copy of `docs` is its shared pointer.  A query is the
snapshot, the search in the vector index with merge and ranking, then one step per
hit, which looks at `records_` again for expiry, then the answer.  Scores, terms
and filter fields are abstract: a query has the set of contents it shares a term
with (these are exactly the ones with a positive `LexicalScore`, since the document
frequency never exceeds the number of documents) and the set that passes its
filter; the ranking is any order.  The document frequencies are recomputed from
the documents with every change and are left out, as are the hit counts.
`dirty` and `touched` are history: records whose changes overlapped, and records
that changed during a query.

## Runs

The instances have one workspace, up to two keys, one or two contents of different
size, one or two client threads, the main thread and the background thread.

| run | instance | checks |
|---|---|---|
| `serial` | 1 client, 3 requests of all kinds, quota 1, ratio 2/3, no resident limit, 2 partitions, failing commits, crashes, clock to 3 | `IndexAligned`, `AckedSurvives`, `RecoveryConverges` |
| `governance` | 1 client, 4 requests of all kinds, quota 1, one dedup key, evictions, crashes | `TypeOK`, `PinQuotaHolds`, `DedupUnique`, `IndexAligned` |
| `progress` | 2 clients under `FairSpec`, 2 partitions, failing commits, crashes | `ResidentAccounting`, `QuiescentWithinLimit`, `AckedDurable`, `EventKeysUnique`, `RequestsEnd`, `ImplementsLog` |
| `rows` | 1 client, 3 requests of all kinds on one record with 2 contents that share a term, documents and derived rows in different partitions, background compaction, failing commits, crashes | `RowsExact` |

Why the bounds are enough: two threads and one shared record give every order of
the steps of two updates; two records give an eviction something to choose from
and a limit to exceed; two partitions give a batch a place to be cut, with the
event before or after its document from one event to the next (`TwoEventPid`);
three requests reach write, tombstone, delete; without a limit, in `serial`, nothing
may be missing when the service becomes ready, while `governance` has evictions
(`AckedSurvives` is proved for every limit); a clock of 3 lets a retention
period pass after a restart.  `Mod` stands for 2^64: it is larger than all
charges together, so that wrapping below zero is visible as it is in the code.
Writes have one record each (`MaxBatch`); the theorems about types and the event
log hold for every `MaxBatch`, and with batches of two `serial` (clock to 2) and
`progress` (without crashes) pass as well but take minutes.

Fairness: `FairSpec` has weak fairness of the steps of every thread.  No step
waits for another thread except for mutexes held for a bounded time, and the
scheduler runs every thread.  Nothing is assumed about clients, the clock,
failures or crashes.

| run | instance | checks |
|---|---|---|
| `layout` | up to 3 partitions, 3 entries with different hashes in 2 namespaces, 4 requests, 4 starts, a stop anywhere | `LayoutTypeOK`, `NothingLost`, `ReadsCurrent`, `ImplementsKv` |
| `lifecycle` | 2 handlers with any number of requests, 2 partitions, a signal at any time, under `FairSpec` | `LifecycleTypeOK`, `NothingOutlivesStore`, `RequestNotForgotten`, `WorkerReplacedSafely`, `ShutdownEnds`, `GcHonoured`, `HandlersReturn` |
| `retriever` | 2 writers, 1 reader, 2 records, 2 contents, records with and without ttl, 3 changes, clock to 2, 2 kinds of queries, recall limits below `top_k` | `RetrieverTypeOK`, `PartsAgree`, `DocLenExact`, `HitsAreCurrent`, `RecallComplete`, `ExpiredHidden` |
| `store` | 2 threads, 3 requests, 3 keys in 2 places, 10 batches with repeated keys and deletes, Scans without a limit, with 1 and with 2, both adapters, failing partitions, restarts | `UsageNeverWraps`, `SizesFollowRows`, `BatchLastWins`, `PartitionsAtomic`, `ScanFaithful` |
| `mcp` | one connection sends some 400 requests, one per combination of members the code looks at, another competes for the compaction; Warmup ends at any time | `AnswersAsContracted`, `StrictTypes`, `NothingBeforeReady`, `RequestsAnswered` |

`retriever`: two writers give every overlap of two changes of one record, and a
third change shows that the next one alone repairs what they left; ids and writers
are symmetric.  `layout`: three partitions allow growing, shrinking and going back; four starts
allow a first layout, a change, a repetition after a cut and another change; two
entries of one namespace go to different targets of one scan.  `lifecycle` has no
bound besides its sets; two handlers are enough for one to find the other's
compaction running, ending, or ended and not joined.  `store`: three requests are
two overlapping batches, or two batches within a Scan; two keys share a place and
one lies apart, so a batch can be cut between places and not within one.  A page holds two entries of
the smaller value or one of the larger, so it can be cut by bytes before a limit of 2
and the limit before the bytes.  `mcp`
has no bound besides its requests: connections answer them for ever, and all that
one request can meet of another is the compaction flag.

Fairness in `McpServer`: a request that has arrived is worked on (weak fairness of
`Server`); brpc has a thread for it, and no method waits for another request but
under the locks of the other modules.  Nothing is assumed about Warmup: before it
has ended, requests are answered with 503.

Fairness in `Lifecycle`: every thread runs and `wait_for` times out.  The mutex
`compact_mu_` is got by a handler for which it is free again and again (strong
fairness of `TriggerLock`): with weak fairness alone one handler could start
compactions for ever between the attempts of another.  The system has no deadlock
there; this is only about a mutex that is not fair.  The timeout is essential: with
`wait` in place of `wait_for` both `ShutdownEnds` and `GcHonoured` fail, by a
notification between `GcTest` and `GcBlock`.

### What the code does not keep

Three runs end in a counterexample, each against a sentence of the repository
(quoted in `PROJECT.json`):

* `one_state`: two writes of one record commit as A, B and are applied as B, A.
  Memory and index then serve A until the next restart brings B.
* `pin_lost`: the background compaction copies a record, a Pin of it succeeds,
  and the compaction tombstones the unpinned copy.
* `rows_leak`: the vector code of a record is written under the bucket of its
  embedding and deleted under a bucket computed from its id, so the codes of old
  versions, tombstones and reclaimed records stay in the store.  The property speaks of
  records with no batch in hand, so the old code is there after the whole second batch.

The passing runs leave out, on purpose, what is known not to hold:

* `PinQuotaHolds` and `DedupUnique` need one client: two can both pass the check
  before either is applied.  They also need no background compaction: it can commit
  the tombstone of a record, a Pin of that record commits and is applied, and the
  tombstone is applied to the map last.  Another Pin then finds the quota free, and
  the next restart finds both documents pinned.  `DedupUnique` further needs one
  record per Write, since records of one batch do not see each other.
* `QuiescentWithinLimit` has no compactions: these upsert tombstones, possibly of
  records evicted meanwhile, and do not run the eviction loop.
* Between steps, `resident_used_bytes_` may have wrapped; `ResidentAccounting`
  says by how much it is off and that nothing is off at rest.
* `PartsAgree` and the query properties leave out records whose changes overlapped
  or that changed during the query: two overlapping changes can leave a vector
  without a document, and a hit whose record was evicted or rewritten after the
  snapshot is answered even if it is expired, because the check finds no record or
  another version.
* A failed batch is not undone: after a Write that failed on its second partition,
  the document on the first is served from the next restart on, while
  `docs/design/memory-mcp-storage-model.en.md:111` says "a failed batch must not be
  treated as committed".  `AckedSurvives` allows for such records.
* A crash after the partition with event and checkpoint and before the one with the
  document leaves an event without a document, which the replay skips because the
  checkpoint covers it; line 123 of the same document says "avoid persistent
  divergence where events exist but index state is absent".
* `PinQuotaHolds` and `DedupUnique` have one partition: a batch that was cut off
  between two is stored in part, so that a document is pinned, or has a dedup key,
  that neither `records_` nor `dedup_index_` knows of.
* `RowsExact` leaves out records that were overwritten while their stored version
  was not resident: the posting rows of the evicted version stay.  Dictionary rows
  are never deleted, and each holds the last record with its term only.
* `SizesFollowRows` leaves out what the eloqstore adapter cannot know: after a
  restart the estimates start at zero, the rows of a failed batch are not counted,
  and two batches with one key may be counted in the other order.
* `StrictTypes` is about results outside tool texts.  The text in the answer of
  `tools/call` is not normalised: all its numbers and booleans are strings, although
  `docs/api/memory-mcp-contract.en.md:536` says "external responses use strict JSON
  types: numeric fields as number/integer, boolean fields as boolean".  A counter of
  2^63 or more stays a string, so does a final score below the normal
  numbers, and metadata whose only key is "" is printed as a string.  The body is cut off
  (after `"final":`) only by an infinite score, of weights whose sum overflows.
* `AnswersAsContracted` is about requests with a `jsonrpc` member.  Without it there
  is no check of params, a string of digits as id comes back as a number and a
  missing id as "".  An id with a fraction is rounded to six digits, and an unknown
  tool that begins with `memory.` gives a result with `isError`, not -32601.
* The recovery properties assume that every partition was written once (`ScanFinds`).
  Otherwise `Scan` gives up at a partition that was not, `Warmup` takes the error for an
  empty namespace and drops what it has, and the server starts without any record.
* `IndexAligned`, `AckedSurvives` and `RecoveryConverges` are checked without background
  compaction.  Its thread runs from the constructor on, so its 30 seconds can end during
  a long Warmup.  It then tombstones a record that Warmup has put into `records_` and not
  yet into the retriever; Warmup indexes its own copy after that, and `Query` answers
  with the deleted record, because it looks at `records_` for expiry only.
* `ScanFaithful` promises a Scan with a limit only the keys up to the last hit, and of
  a partition whose page was full by its bytes only those that fitted: the code asks
  for one page and does not look whether there is more.

## Proofs

`TypeCorrect` (`MemoryEngineProofs`): `Spec => []TypeOK`.  The type invariant is
inductive with `LocalOK`, which says that a thread about to apply a record has
one, and that a Pin past its load has loaded a record.

`MemoryEngineProofs` also proves, for any number of clients, keys, partitions and any placement
of rows, `AckedEventsDurable`, `EventKeysStayUnique` and `EngineImplementsLog`
(refinement of `EventLog`).  None of the three is inductive.  The invariant
`LogInv` adds: every event in the store or in a thread's hands was made at or
before the present clock, and one made since `boot` has a sequence number of at
most `local_seq`; the events of a thread that are not in its unsent batch are in
the store; only a thread with an unsent batch has events that are not.  The
argument: a new event has a time of at least `boot`, so it cannot meet an event
of an earlier life of the process, and it has a fresh sequence number, so it
cannot meet one of this life.  Hence a commit replaces nothing, the log only
grows, and a thread that reaches the end of its request has all its events in it.

`RecoveryProofs` proves what the engine recovers, in four steps.  `FlowInvariant`
(`MemoryEngineProofs`) says which locals go with which program counter, for any number
of clients; the others need it in every case.  `RecoveryStaysComplete` (`RecoveryConverges`, any
number of clients) follows from `RecoveryInv`: until Warmup is through, a row of the
store is either in the list to be loaded or resident as it is; then every row, and
every event beyond the checkpoint that the replay has passed, is resident in its own
or a newer version.  At the end of the replay that is all of them, for any limit; the
eviction loop that follows only takes records away, so at `ready` no resident record is
older than its row or event, and with `Limit = 0` none is missing.
`IndexStaysAligned` (`IndexAligned`) and `AckedRecordsSurvive` (`AckedSurvives`) are for one client, `OneClient`, so that one thread is busy at a
time and an invariant can be stated with its locals: in `AlignInv` only the record in
hand may differ between map and retriever; in `CoverInv` the store covers every
acknowledged event (its row is that of the event or of a later one), will cover the
events of the running request once the rest of its batch is in, and the records do
likewise once its upserts and removals are done.  Later events have later stamps
(`LogInv`), so what covers an event goes on covering it when it is replaced.

These three theorems assume `NoGc`: the background thread finds nothing to compact,
because tombstone gc is off or the disk is not under pressure (compactions that a
client asks for are included).  Neither hypothesis can be dropped.  With the
background thread a compaction can commit rows while Warmup runs, and with a second
client two requests for one record can be applied in the other order than they were
committed (`one_state`), or in the map and in the retriever in different orders.

`LimitStaysKept` (`RecoveryProofs`, any number of clients): `QuiescentWithinLimit`,
when nobody compacts (`NoCompaction`) and the charges of all records together fit
into the counter (`ChargesFit`).  By `LimitInv`, as long as the limit is exceeded
some request has still to pass the eviction loop.  The one that leaves the loop last
finds the counter equal to the sum of the charges, by `ResidentAccounting`, because
no other thread owes it anything; so it stops evicting only within the limit or when
all that is left is pinned.

`RecoveryProofs` goes on to what the requests rely on when they check memory only, for
any number of records, requests, quotas and restarts: `StateStaysOne`
(`OneLogicalState`: what the run `one_state` shows not to hold in general),
`PinQuotaKept` (`PinQuotaHolds`), `PinsStayKept` and `DedupStaysUnique`
(`DedupUnique`).  They assume
`NoGc`, `OneClient` and `WholeBatches`: if commits can fail or the process can crash,
all rows are in one partition, so that a batch is stored as a whole or not at all.
`DedupStaysUnique` also assumes `WritesOne`, Writes of one record in upsert mode.
The run `governance` is an instance of all these hypotheses.  None of the properties is
inductive:

* `SettledInv` relates memory, store and the request under way.  The resident record
  is the row, or will be: the last record of the key in the list of upserts is the
  row as the batch leaves it, or the key is among the removals.  A record without a
  copy in memory was evicted, so it is not pinned, or is still to be loaded by
  Warmup.  A start finds all rows or none, and no event beyond the checkpoint, so the
  replay has nothing to apply.
* `PinInv` counts the keys that may hold a pinned record in memory, in the store, in
  the batch or in the list of upserts.  A Write or a Pin counts resident records
  only; by `SettledInv` that is enough.
* `SpareInv` says that no batch in hand would take a pinned document away.  A
  compaction goes by its snapshot, in which the records still to be looked at are,
  by `SettledInv`, the stored ones.  From it follows an action property,
  `PinsStayKept`: no step replaces a pinned document by a tombstone or deletes it.
  With the background thread one does, as the run `pin_lost` shows.
* `ClaimInv` says that rows of a workspace have different dedup keys, and that each
  of these keys is in `dedup_index_` unless its record is still to be applied.  An
  eviction keeps the entry of its victim; a removal deletes the entry under the
  dedup key of its record, which is its own because no other row has that key.

`RowsStayExact` (`RecoveryProofs`): `RowsExact`, with no hypothesis on the constants
beyond the named assumptions: any number of clients, keys, terms, buckets and
partitions, background compaction, failing partitions and crashes.  A step of
`IndexRows` is a step of `MemoryEngine`, so `TypeOK` and `FlowInv` hold here too.
`RowsExact` says nothing of a key while a batch with it is in hand; `RowsInv` does.  It
says that no two batches concern the same key unless it is torn, and that a batch turns
the derived rows of the stored version into those of the version it puts in its place:
as long as none of its partitions is committed the former are in the store, and what is
left of the batch always makes the latter of the rows that are there.  The commit of a
partition keeps this, and the last one leaves nothing to do.  The deletes of
`PersistRecord` are needed for exactly that, and are right only if the resident version
is the stored one.  That is what `torn` records: `RowsExact` promises nothing of a key
once a batch went by another version, overlapped or was cut off, so here, unlike for the
theorems above, the hypothesis is in the property and not on the constants.  Of vector
codes it states the one under the bucket of the content; what other buckets still hold
is the subject of `rows_leak`.

`LayoutProofs` proves, for any hash function and any number of partitions, entries
and namespaces, `RefreshLosesNothing`, `ReadsStayCurrent` and `LayoutImplementsKv`, all
under `~GoesBack`: any sequence of partition counts and stops, except going back to the
count in the layout file after a start that was cut off.
`NothingLost` is inductive only with what `Start` knows: rows lie in directories
that detection sees (`OnDisk`); a row in the wrong partition is still to be scanned
or among the deletes in hand (`WrongIsKnown`); what is in hand is at its source
until it is at its target (`InHand`); and a layout file is true unless a refresh to
another layout was begun (`MetaTrusted`), and the next start does not ask for what it records.  When nothing is left to scan, every row
is at home, so removing the outdated directories removes nothing.

`LifecycleProofs` proves, for any number of handlers and partitions,
`LifecycleTypeCorrect`, `StoreOutlivesThreads`, `RequestsAreKept` and
`WorkersAreReplacedSafely`, from an invariant that says which threads are gone at
each step of the teardown.

`RetrieverProofs` proves, for any number of writers, readers, records and contents,
`RetrieverTypeCorrect`, `PartsStayAligned`, `DocLenStaysExact`, `HitsStayCurrent`,
`ExpiredStayHidden` and `RecallStaysComplete`.  Agreement at rest (`Rested`) is
inductive only with what a writer on its way has done (`Half`: `records_` holds its
record, and from the second step on so does the document), and that is stable only
because a record that is not dirty has one writer (`Alone`).  The theorems about
queries follow from `QueryInvariant`: a hit of a reader is in its snapshot, and a
snapshot's document is what `records_` holds unless the record was touched since.

`ResidentStaysAccounted` (`MemoryEngineProofs`): `ResidentAccounting`, for any number
of threads.  It is inductive with `DebtKnown`: only a thread between the map and the
counter owes anything.  A step that changes a charge raises sum and debt by the same
amount; a step that pays moves it from the debt into the counter, modulo `Mod`.

`StoreAdapterProofs` proves all five properties of `StoreAdapter`, for both adapters
and any number of threads, keys, places and batches: `LastEntryWins`,
`PartitionsStayAtomic`, `ScansStayFaithful`, `SizesStayTrue`, `CountersNeverWrap`.
The first three follow from `RequestInv`, which says of every request what it has
written, what is left and what a Scan has collected from the places behind it: all that
stayed there, or, with a limit, all up to where its page ended.
`SizesInv` adds: the size of a key is that of its row unless a request that holds
the lock is between the two.  For the counters there is a ledger (`UsageInv`): for
some assignment of amounts to keys, the counter is the sum over the keys plus what
the threads in the middle of `Charge` have still to add or subtract, and each of
these holds the lock of its key.  So a subtraction never takes more than was added.

`McpServerProofs` proves `NothingRunsEarly` and `AnswersStayContracted`, for any set
of requests: an answer is what `Respond` gives for the request of its connection
(`ServerInv`), and the contract is checked branch by branch of its ladders.

`ResultsStayTyped`: `StrictTypes`, for any set of requests and connections, whatever
lists are empty and whatever the methods answer.  The argument is about the tables.  No
field is in two tables of one method, so the order in which
`NormalizeResultByMethod` goes through them does not matter (`TablesDisjoint`); a field
in a table has the type of the table in its schema (`TablesInSchemas`), and what is in
no table is printed with the type of its schema.  Every result of every
method has the fields its schema requires and no others, with values that print to what
their table reads, a counter of 2^63 or more, a score that is tiny or infinite and metadata
under "" excepted (`ResultsProper`).  A result is cut off only when one of its fields is
infinite, which only a score can be (`WrittenIs`).  `TypesInv` carries this to the answers that wait
to be sent: only a result outside a tool text claims it.

Sums and finite sets are handled in `SumTheorems`.  The provers cannot instantiate
the library's induction theorems, so what needs induction over a finite set is
proved by a least counterexample there.

Assumptions: the named `ASSUME`s of `RecordModel`, `MemoryEngine`, `IndexRows`,
`EloqStoreLayout`, `Lifecycle`, `Retriever`, `StoreAdapter` and `McpServer`, which
TLC evaluates on every run.  They say that sets of threads, keys and places are
finite, that placements map keys to places, and that sentinels differ from values;
`FitAssumption` of `StoreAdapter` says that what the keys can hold together fits
into a counter, 2^64 in the code.

Every invariant, every action property and every refinement that a passing run checks
is thus also a theorem.  Only model-checked:

* `RequestsEnd`, `ShutdownEnds`, `GcHonoured`, `HandlersReturn`, `RequestsAnswered`:
  liveness, which rests on fairness and `ENABLED` and is out of the prover's reach.

## Not modelled

Listed with reasons in `PROJECT.json`: metrics, text, json and embedding
functions, HTTP client and brpc glue, the installer, the io_uring probe, scripts.
Of modelled parts: the numbers of Stats (it only reads), the parsing of the command
line, the defaults of missing inputs, the input schemas and examples of describe.
These are pure functions of text or numbers, or start-up code without state.
Not modelled either: how keys are joined to texts (two workspaces whose names
contain ":" can share a record in memory), and the metadata of records, whose keys
with dots come back changed after a restart.

## Plan

The development is complete as far as it was planned.  What could be added:

* The theorems under `OneClient` and `NoGc` are false without them (`one_state`,
  `pin_lost`).  For several clients that never touch the same workspace at the same
  time they should hold; `SettledInv` would then have to be stated per workspace.
* The order of the partitions in a batch decides what a cut leaves behind.
  `AckedSurvives` covers every order; a theorem about a fixed placement could say more.
