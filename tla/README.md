# A TLA+ verification project for the DAS indexer

The repository indexes Solana's digital assets: it receives account and
transaction updates, turns them into guarded SQL upserts and serves the result
over a JSON-RPC interface.  This directory holds TLA+ models of its stateful
parts, TLC configurations that check them on small instances, and proofs that
TLAPS checks for every instance.

Commands, from this directory:

    tlc -config GrpcIngest_resume.cfg MCGrpcIngest      # one run
    tlapm GrpcIngest_proofs.tla                         # the proofs of a module

`PROJECT.json` lists the runs, the theorems, the source lines behind every
definition, the hazards and the disagreements between code and documentation.

## The system

    validator + plugin --> grpc_ingester --+
    validator + Redis  --> nft_ingester  --+--> program_transformers --> SQL --> digital_asset_types --> das_api
    ops tools, backfiller (RPC)          --+         |
                                                     +--> metadata downloader (HTTP)

| part | state | operations that change it |
|---|---|---|
| `grpc_ingester` cursor | in-flight count per slot, newest finalized slot, watermark; files `cursor`, `gaps.jsonl` | `begin`, `end`, `finalized`, `record_gap`, `save`, `load` |
| `grpc_ingester` stream | one subscription, a pool of permits, striped locks, spawned tasks | connect, replay, out-of-range, receive, dispatch, lock, write, disconnect, shutdown |
| `grpc_ingester` metadata | bounded queue, pending set, pause per host; `asset_data.reindex` | enqueue, fetch, retry later, store, redrive |
| `program_transformers` Bubblegum | `cl_items`, `cl_audits_v2`, `backfill_items` and the five tables of an asset | `insert_change_log`, nine handlers, each one transaction |
| `program_transformers` accounts (token metadata, core, SPL token, inscriptions, agents) | the same tables, `tokens`, `token_accounts` | slot-guarded upserts, burn, close |
| `nft_ingester` workers, acks | Redis streams, acknowledgement batches | receive, handle, ack, redeliver |
| `nft_ingester` tasks | table `tasks` | enqueue, select, lock, execute, save, purge |
| `nft_ingester` backfiller | `backfill_items` (`force_chk`, `locked`, `failed`, `backfilled`) | find trees, lock, plug gaps, delete extra rows, unlock |
| `ops` tools | none of their own; read `cl_audits_v2`, push messages | gap search, crawl, purge |
| `digital_asset_types`, `das_api` | none, except the cache of upstream answers | reads: assets, proofs, pages; cache fill |

Updates reach the database more than once and in any order: several ingesters
may write one database, a restart replays from the cursor, retries and
backfills repeat instructions.  Correctness therefore rests on two things:
every upsert's guard, and a cursor that never claims what was not written.

## What must hold, and where it is hard

* The cursor.  Updates are written concurrently and end in any order; the
  process may crash, be disconnected, be refused a replay (a gap) or run out of
  time during shutdown.  In every such history the persisted cursor must not
  claim an update that was neither written nor logged as missed, and it must
  get ahead eventually.
* The cursor's file.  A stop at any point of `save` must leave a readable
  cursor.
* The upserts.  Whatever the order, repetition and interruption of
  instructions, each group of columns must end with the newest value; a
  decompressed asset must not be touched by late instructions; the creators
  read back must be one list and the newest.
* The tree.  An asset's leaf must not be newer than the nodes that prove it; a
  row in `backfill_items` must stand for a complete path, and a tree whose start
  was missed must be marked.

* Off-chain documents.  Whichever service downloads them, a row that owes no
  download must hold the outcome for the URL it points to now, and an owed one
  must be made in the end.
* Backfills.  A tree that is marked as backfilled must have nothing missing, and
  the tools must find what is missing while the index grows.
* Queues.  A message leaves a stream only when it was handled, and no loop,
  pool or channel may wait for ever; where one can, the property names it.
* Reads.  A page, a proof or a search is several statements, or a condition
  over NULLs, against tables that are being written; a client must not be shown
  an asset twice, lose one, or get a proof of no tree.

The hazards in `PROJECT.json` give the lines where each of these bites and the
properties about it.

## Modules

| module | models |
|---|---|
| `GrpcIngest` | `cursor.rs`, `stream.rs` and `main.rs` of `grpc_ingester`: one process, its subscription, its write tasks and its two savers |
| `ResumeContract` | the abstract promise of the resume cursor, over the two files and the database only |
| `CursorFile` | `Cursor::save` and `Cursor::load` step by step over directory entries, inodes, page cache and disk |
| `AssetRows` | the rows of one compressed asset, each upsert of `bubblegum/db.rs`, and `filter_out_stale_creators` |
| `Bubblegum` | `insert_change_log` statement by statement and the nine handlers' transactions, run by concurrent workers |
| `Instructions` | `order_instructions`, the Bubblegum parser and the loop of `handle_transaction`: from a transaction to handler calls |
| `AssetColumns` | `asset_upserts.rs`: the column groups of `asset` and their guards |
| `TokenAssets` | handlers of mint, token account, metadata, edition, inscription and close, over `AssetColumns` |
| `CoreAssets` | handlers of MPL Core assets, collections, groups and of the agent registry, over `AssetColumns` |
| `OffchainDoc` | the abstract promise of `metadata_url`, `metadata` and `reindex` |
| `TaskQueue` | the `tasks` table of `nft_ingester`: notifier, listener, runner, download task, purge, and `bgtask_creator` |
| `MetadataDownload` | the downloader of `grpc_ingester`: queue, workers, hosts, retries, re-drive |
| `MessageWorkers` | the stream consumers of `nft_ingester` and their acknowledgements |
| `Backfiller` | `backfiller.rs` of `nft_ingester` for one tree |
| `QueuePool` | the pool of messenger connections in `core` |
| `TreeCrawl` | `ops bubblegum backfill` |
| `Purge` | `ops purge token-accounts` and `ops purge mints` |
| `AssetProof` | `getAssetProof(s)` racing `insert_change_log` |
| `Fallback` | the upstream fallback of `das_api` and its cache |
| `Pagination`, `PageRequests` | `validate_pagination`, `create_pagination`, `paginate`, and every request a client may make of them |
| `AssetListing` | a client that pages through a list while the ingester writes |
| `AssetSearch` | the condition of `searchAssets`, with SQL's three-valued logic |
| `GrpcIngest_proofs`, `Bubblegum_proofs`, `TokenAssets_proofs`, `CoreAssets_proofs`, `MetadataDownload_proofs` | theorems about the module they are named after |
| `Durable_proofs` | theorems about `CursorFile` and `TaskQueue` |
| `Delivery_proofs` | theorems about `MessageWorkers`, `QueuePool` and `Backfiller` |
| `Rpc_proofs` | theorems about `Fallback`, `TreeCrawl` and `Purge`, the parts that ask an RPC provider |
| `MCGrpcIngest`, `MCCursorFile`, `MCBubblegum`, `MCCoreAssets`, `MCTaskQueue`, `MCMetadataDownload`, `MCFallback`, `MCBackfiller` | instances of the module they are named after, for TLC |
| `MCTransformers` | `TokenAssets`, `Instructions` and `CursorFile`, for TLC |
| `MCReads` | `AssetListing`, `PageRequests`, `AssetSearch` and `AssetProof`, for TLC |
| `MCQueues` | `MessageWorkers`, `QueuePool`, `TreeCrawl` and `Purge`, for TLC |

The last three put modules side by side that share no state: a behaviour starts
in one of the parts (variable `part`) and stays there.  Modules that are put side by
side, there or in a module of theorems, name their specifications apart:
`FileSpec`, `StreamSpec`, `PoolSpec`, `TreeSpec`, `CrawlSpec`, `PurgeSpec`.

Operators whose comment begins with "Mutant:" are deliberate mistakes; nothing
uses them.  They are there to be put in place of the definition that follows
them, to see that the properties notice.

### GrpcIngest

The variables `pending`, `highest_finalized` and `watermark` are the fields of
`Inner`; `cursor` and `gaps` are the files; `writer` has one element per permit
of the semaphore, holding the spawned task and where it is (`queued` for the
stripe's lock, `locked`, `written`); `saving` is a call of `Cursor::save`
between reading the watermark and renaming the file, one for the reporter and
one for `run`.  `conn` follows `Ingest::run` through one subscription; `sent`
and `sentFin` are what it has received.  `done` stands for the database: the
updates that were written, skipped as not implemented, rejected on their
content or found unconvertible, which is when the code lets the cursor pass
them.  `base` is history: the first slot the index is meant to cover, that is
`--start-slot` or the slot after the live tip at the subscription.

The plugin is external.  It serves slots in order, within a slot the updates
and the Finalized status in any order (the code's own comment expects updates
after the status), forgets old slots at any time, and answers a subscription
from a forgotten slot with the oldest it has.  A retryable error leaves a task
where it is, which is what the loop of `write` does.  `Crash` stands for every
way the process ends without saving, the error return of `record_gap`
included; `Shutdown` may leave writes in flight, as the 60 s limit does.

### CursorFile

`save` is `BeginSave` (the watermark is read under the lock), `Create`
(truncates an existing `cursor.tmp`), `Write`, `Sync`, `Rename`.  `WriteBack`
lets the kernel write dirty pages and the directory at any time, `PowerLoss`
keeps only what reached the disk, `Load` is the next start.

### AssetRows and Bubblegum

A group of columns that is always written together is a cell `[by, seq]`: the
instruction that wrote it and its sequence number.  `NULL` is a value of its
own, and the guards keep SQL's three-valued logic (a comparison with `NULL` does
not hold, hence the `IS NULL` alternatives).  The hash of a node is identified
by the sequence number that produced it.  A worker goes through
`insert_change_log` one statement at a time (`UpsertNode` for each node of the
path, `InsertAudit` whose error is only logged, `FindTree`, `InsertBackfill`) and
then runs its handler's transaction in one step (`Commit`); it may `Fail`
between any two, and an instruction may be received again at any time, by any
worker.  A decompressed asset starts with the rows that `save_v1_asset` leaves.
That the transaction is one step rests on the database's serializable
isolation, which `grpc_ingester/README.md` states.

### Instructions

The program side runs first: `Invoke`, `Emit` and `Return` keep the call stack of
a transaction and write the flat record of it that the runtime keeps.  The
indexer's side is `order_instructions` with `hoist_known_programs`, `Slice` (the
inner instructions up to the next call of the same program), `payload` (what the
parser finds for each of the 34 instruction names) and the loop of
`handle_transaction`, which stops at the first error.  Every call remembers the
events that it really logged, which is what `EventsAreOwn`, a conjunct of
`HandledAsExecuted`, compares with.  Two
things are assumed of the programs: only Bubblegum's calls log compression
events, and Bubblegum is not re-entered from one of its own calls.  The parser's check
of the number of keys of an instruction is left out.

### TokenAssets and CoreAssets

`worker[w]` is a handler between two statements, or between two transactions
where the code opens one; any update of the instance may be begun at any time by
any idle worker, again and again, and may fail between statements.  A row is a
record of the columns that guards and readers tell apart; `None` is NULL or no
row.  The handlers of a token read each other's tables (`index_and_fetch_mint_data`,
`index_token_account_data`, the mint lookup of a token account), which is where
orders matter.  In `CoreAssets` the lookup of a collection's authority, the
transaction and the propagation to members are separate steps.

The constant `Histories` of both modules is a set of histories of the chain, one of
which a behaviour is about.  In `TokenAssets` a history says which versions of the
accounts there are, which mint was indexed before (none or one) and which workers
run.  In `CoreAssets` it says whether the updates are handled one slot after the
other (`order` = "handled") or in any order ("any").

### OffchainDoc, TaskQueue and MetadataDownload

`OffchainDoc` has three actions: the chain points an asset to a URL, a download
for the URL of that moment is settled, an operator asks again.  Both services
implement it with the mapping `url`, `doc`, `owed` = columns `metadata_url`,
`metadata`, `reindex`; that covers a download that ends after the URL has moved on
to another.

In `TaskQueue` a task is its asset and URL (`created_at` is not part of the hash).
`Select` and the lock are two statements, so executions overlap; a lock is
`null`, `held` or `expired`, and time is the action `LockExpires`.  The commands of
`bgtask_creator` that write (`reindex`, `delete`, `create`) are actions, `create`
page by page; an empty URI is stored and never asked for (`Empty`).  `Next` is the work
of the service (`Work`) or a `Disturbance`, a crash or a command.
In `MetadataDownload` a URL is a record of what `ipfs.rs` and
`guard.rs` look at; a worker goes through permit, request, classification of the
reply, store or retry; `later` is a job that sleeps; the pause of a host begins
with its 429 and ends at any time.

### MessageWorkers, QueuePool and Backfiller

Redis is external: a message is unsent, new, pending, acknowledged, or dropped at
the retry limit, and a pending one may be handed out while it is still being
handled.  `capture_result` decides by kind of error whether an
acknowledgement is sent; the ack worker collects and sends batches and forgets
one that failed.  A worker or ack worker that gets no connection when the process
starts ends at once, and nobody notices: `up` is the tasks that run, one of `Starts`.

`QueuePool` is the mutex, the channel of connections, and the early return of a
failed send, which drops the connection.

`Backfiller` keeps the rows of `backfill_items` of one tree as a bag, since rows
repeat.  The filler's pass is one statement per step: find, lock, gaps, plug,
delete, remove duplicates, mark, clear, unlock, and the marking of a tree as failed, which
may fail itself (`MarkingFails`).  `Insert` is the
ingester's part (`insert_change_log`).  `env` is what a behaviour has to reckon
with: the calls that may fail and whether the process may die (`faults`), the steps of
the filler during which the ingester inserts rows (`window`), how many changes there
are and how many rows fit.  `SlotOf` and `Chunk` replace the half million slots of a
range.

### TreeCrawl and Purge

Both are pipelines of three stages.  `TreeCrawl` has the three queries for gaps,
the crawlers that page through signatures newest first with exclusive bounds, and
the workers that fetch (`get_transaction`) and push (`push_transaction`), with two bounded
channels; `Index` is the ingester at work.  A push takes a connection of the command's
`QueuePool`, here the number of those that are left, and one that fails costs it one.  The
address may hold a tree, another account, or none, which `--only-trees` and the list of
all trees take differently.  A transaction is its position in the tree's history; `None` as the
newer or older bound of a `TreeGapFill` is the position after the last one or before the
first.  A query that fails ends the tree's task (`QueryFails`), and `try_join_all` does
not see the error: the command goes on and returns `Ok` (`pc` is `dropped`).  `Purge` has
the paginator by OFFSET, the markers that ask the chain, the purgers that delete and, for
mints, burn, in two statements that fail independently.  The paginator's query has no
ORDER BY, so a page is any set of rows of the size that LIMIT and OFFSET leave.

### AssetProof

`chain` is the history of changes of a tree of depth two, and hashes are terms, so
that a proof can be recomputed and compared with the tree after any change.  A
row of `cl_items` is its sequence number.  Leaf and nodes are read by two
statements, between which the writers go on; nodes that are missing get the hash
of an empty subtree, as in the code.

### Fallback

Time is a tick.  A call is followed through the local lookup, the cache, the
request, the timeout and the store, which may wait for a connection up to `StoreTime`.  Ages are kept, not times, and stop growing
where nothing depends on them.  `since[v]` is how long ago the provider ceased to
hold version `v`.

### Pagination, AssetListing and AssetSearch

`Pagination` has the three functions as operators; `PageRequests` feeds them every
combination of parameters and `AssetListing` uses them to page through tables that
are being written.  `holds` is the list that was written last for each asset, the
reference for what a row that was left behind may no longer claim.  An empty list of
creators is written as one empty creator by Bubblegum (`Compressed`) and not at all by the
others.  `AssetSearch`
evaluates the generated condition with TRUE, FALSE and NULL over joined rows, for
one asset and one query, and compares with what the comments of the code say the
filters mean.

## Runs

| run | instance | checks | distinct states |
|---|---|---|---|
| `resume` | 3 slots, the second without a block, 2 updates on one stripe, 2 permits; with `--start-slot 1`, and without it | `NoSilentLoss`, `PendingIsInFlight`, `KeepsContract`, `StartedCatchesUp` | 205 k |
| `reconnect` | every slot has a block, no `--start-slot` | violation of `ReconnectNeverSkips` | |
| `cursor_race` | both savers | violation of `PersistsAtomically` | |
| `bubblegum` | three stories: 4 instructions on one leaf; 3 on two leaves of a tree seen from its second change, by 2 workers; 4 on two leaves, one of them decompressed | `NewestWins`, `CreatorsAreNewest`, `DecompressionIsFinal`, `LeafHasProof`, `BackfillIsAccountedFor` | 572 k |
| `transformers` | five histories of a token's accounts; transactions of up to 4 calls nested 3 deep, all 34 instruction names in transactions of 2 calls; the cursor's file with one saver, 4 inodes, slots 0..2 | `MetadataIsNewest`, `OwnerIsNewest`, `SupplyIsNewest`, `SettledIsComplete`, `HandledAsExecuted`, `PersistsAtomically`, `VisibleNeverBack` | 1.1 M |
| `core` | three histories of the accounts of MPL Core and of the agent registry, 2 workers | `CoreIsNewest`, `MembersHaveAuthority` | 543 k |
| `tasks` | 1 asset, 3 URLs (one malformed and padded, one empty), 2 executions, 3 writes; or 2 writes and one disturbance: a crash or a command of the operator | `KeepsDocumentPromise`, `UndisturbedOwedIsAccountedFor` | 522 k |
| `downloads` | 2 assets, 3 kinds of URL, 1 worker, queue of 1, 2 writes by the chain, a crash | `OneJobPerPendingAsset`, `KeepsDocumentPromise`, `OwedIsSettled` | 76 k |
| `queues` | 2 workers and the redelivering one on a stream, with tasks that do not start; 3 pushers and 2 connections, which may both be lost; a crawl of every history of up to 4 transactions, or 3 of up to two changes, a crawl with faults, indexing and 2 connections; a purge on one page and one on two | `AckedWasHandled`, `BackfillsExactlyMissed`, `PurgesExactlyGone`, `ConnectionsAccountedFor`, `NothingWaitsForever` | 79 k |
| `backfiller` | up to 3 changes of a tree, 6 environments | `BackfilledIsComplete`, `OneStartingPoint`, `GapIsFilled`, `TreeIsReleased` | 132 k |
| `fallback` | 2 calls, 4 versions, lifetime and timeout of 2, a store of up to 1, failing database | `AnswerIsRecent`, `LocalWins`, `CallIsAnswered` | 644 k |
| `reads` | listings by creator (cursor), group (keyset) and owner (pages); every combination of paging parameters; searches; proofs in a tree of depth 2 with 3 changes and 2 writers | `ListingIsExact`, `ListedIsCurrent`, `PagedAsAsked`, `FoundAsAsked`, `ProofOfIndexedTree` | 1.9 M |

A run takes from a few seconds to about two minutes with two workers.

What the less obvious properties say:

* `KeepsContract` is the specification of `ResumeContract`, `KeepsDocumentPromise`
  that of `OffchainDoc`: refinements.
* `BackfillIsAccountedFor`: a row in `backfill_items` stands for a path that is fully
  written, and a tree whose first change was not seen has a row with `force_chk`.
* `SettledIsComplete`: once every update was handled, the URI of the asset was
  handed to the downloader, and an NFT's edition row is the newest and names the
  asset.
* `OneJobPerPendingAsset`: the pending set is exactly the assets with a job in the
  queue, in a worker or asleep, and each has one.
* `OneStartingPoint`: the backfilled rows of a tree agree on the number above which
  the next pass starts.
* `AnswerIsRecent`: an answer from upstream was the provider's less than the cache's
  lifetime, one timeout and the wait of the store ago.
* `UndisturbedOwedIsAccountedFor`: without a crash or a command, an owed download ends:
  made, given up after its tries, or dropped by the listener as identical to a finished
  task.
* `NothingWaitsForever`: the two commands end, every push returns and every message comes
  to rest, with the three exceptions below.
* `ListingIsExact`: nothing is listed twice, and an asset that nobody writes is on a
  page once the cursor has passed it, except after a page whose rows were all
  dropped as stale, where the response holds no cursor and the client stops.
* `HandledAsExecuted`: each Bubblegum call reaches its handler once, in the order of
  execution, with the events that this call logged.

### Bounds

Two updates that share a stripe make a task wait while it holds a permit, and two
permits let writes of different slots end out of order; three slots allow a gap
with slots before and after it.  Deliveries, crashes, reconnections and saves are
not bounded.  Four inodes are one for each of the two names, the name on disk and a
descriptor.  In the stories of `bubblegum` the lists of creators shrink from two to
one to none, two instructions share a slot, and any number of redeliveries is
allowed; only the race needs both workers, since the other two are about one
asset's transactions, which are single steps.

In the other modules two of each (workers, executions, writers, calls) are
enough for every overlap of two statements, and what needs a third actor has
one: three pushers for a pool of two, the redelivering worker beside two
others.  Queues and channels have room for one, so that "full" happens at once;
pages hold one or two rows so that lists have several; ranges, time-outs and
lifetimes are a few units.  Versions of an account differ in exactly the columns
a guard could mix up, and lists of creators and groups grow, shrink and
return.  Updates, redeliveries and failures of handlers are not bounded; writes
by the chain, crashes and failed sends are, by the constants `Max...`.

Four instances are cut further, in their `MC` modules.  In `resume` the server keeps the
newest of the three slots; a gap that ends after the newest block is left to the proofs
of `NoSilentLoss` and of the refinement, which have no such bound.  In `tasks` the servers
answer once the operator creates tasks, so that failing downloads and that command are
not combined, and a behaviour with a disturbance has one write less; the refinement is
proved without either, and the other property of the run is
about behaviours without the command.  In `bubblegum` inserts of audit rows fail in the
race only: nothing in `Bubblegum` reads those rows.  In `reads` every change of a leaf has
a hash of its own: hashes are only compared, so that a proof which is right for different
hashes is right when some of them are equal.

Permits, workers and inodes are interchangeable, hence the symmetry sets of `bubblegum`, `reads` and the two violation runs; a run with a liveness
property uses none.  `CHECK_DEADLOCK FALSE` is given where the program may come to
rest (`tasks`, `backfiller`).

### Limits of the properties

Some properties hold only within limits that their definitions state:
`BackfilledIsComplete` while no `getBlocks` call is lost and no pass gives up after its
last try, the process does not die in a pass, no row arrives between the statements of
the clean-up, and the rounding of slots to ranges does not cut a gap's end off
(`RangesReach`); `OneStartingPoint` while no row arrives in the clean-up; `GapIsFilled`
when nothing fails and no row arrives between `get_missing_data` and the end of the
clean-up, which would delete it or mark it as backfilled; `TreeIsReleased` when the process
does not die and `mark_tree_as_failed`, whose error is only logged, does not fail;
`MembersHaveAuthority` for updates handled in the order of their slots and members that
do not leave (an authority that does not change is not written and keeps its old slot,
so a repeated version of before the asset left may overwrite it);
`OwnerIsNewest` when the mint was indexed first and is that of an NFT whose accounts
are not closed; the agent token in `CoreIsNewest` for an asset that was indexed
before; "every missed transaction" in `BackfillsExactlyMissed` while nobody indexes
the tree, and for transactions of which no change is indexed (one of which a change is
bounds a gap, and the bounds are exclusive); "every account that is gone" in
`PurgesExactlyGone` for keys that fit on one page, and "none that exists" for accounts that
are not created again during the command; `MetadataIsNewest` for versions of different
slots, and for creators only when the newest version has some (a version without any
writes none, and those of before stay); `ListedIsCurrent` except for an asset of Token
Metadata or Core that lost its last creator, for the same reason; `ProofOfIndexedTree` for a proof whose
two queries see an index that ends at one change.

`UndisturbedOwedIsAccountedFor` excepts a download that is asked for again after the asset
went back to a URL whose task has a finished row: the listener finds the same hash and drops
it, and `reindex` stays true.  `NothingWaitsForever` excepts three waits that the code leaves
open: a push, and the backfill with it, when failed sends have used up every connection; a
crawl whose next page is full and holds failed transactions only, since the position moves
by successful ones; and the messages of a stream of which the redelivering worker, or every
other, did not start.  The states in which these happen are in the runs, so each property is
about everything else that happens there.  The comments of the properties name the statements of the code behind
each limit.

### Violations

Two runs check a sentence of the repository against the code, which does
something else; `PROJECT.json` quotes it with its place:

* `reconnect`: "If it falls far enough behind, the plugin disconnects it and it
  resumes from the cursor" (`grpc_ingester/README.md`).  An ingester started
  without a cursor that is disconnected before its first Finalized message has
  no watermark, subscribes at the live tip again, and nothing records the slots
  in between.
* `cursor_race`: "Persist atomically: write, fsync, rename" (`cursor.rs`).  The
  last save of a shutdown can overlap the reporter's; both use `cursor.tmp`, and
  a rename can publish the file that the other has just truncated.

### Fairness

A liveness property assumes weak fairness of every task that tokio polls and of
every loop over an interval, and the following.

* `resume` (`StartedCatchesUp`): a spawned task is scheduled and the database
  eventually accepts a retryable write (`write` retries for ever); the chain produces
  slots and the plugin sends what it holds; a stopped process is restarted.  The
  property speaks only of histories in which crashes, disconnections and
  shutdowns eventually stop; gaps may go on.  All of it is weak fairness.
* `downloads` (`OwedIsSettled`): a waiter for a permit or for room in the queue is
  served in its turn (tokio's semaphore and channel are first come, first served),
  hence strong fairness of `Permit` and `WakeFor`; and a host that is asked again and
  again for a document answers conclusively some time, and the database stores it
  some time (strong fairness of `Asks` and `Stores`).  Without the last two nothing
  could be settled by any downloader.
* `backfiller` (`GapIsFilled`, `TreeIsReleased`): the ingester inserts a row that it may
  insert again and again, and the check of `force_backfill` comes to its turn: strong
  fairness of both.
* `fallback` (`CallIsAnswered`): clocks go on (strong fairness of `Tick`).  Nothing is
  assumed of the provider; the client's timeout ends the request.
* `queues` (`NothingWaitsForever`): the pool's mutex is served in order (strong fairness
  of `Lock`); RPC calls end, with a result or an error, and no call has to fail; a message
  that was taken is handled.  All else is weak.
* `tasks` (`UndisturbedOwedIsAccountedFor`): a task that was started ends, and locks
  expire.  Weak fairness.

## Proofs

A theorem holds for every value of the constants that satisfies the named
assumptions of the module (TLC evaluates them on the instances).  In each proof an
inductive invariant `IInv` is shown to hold initially and to be kept by every action,
one lemma or step per action, and the theorems follow from it.

`GrpcIngest_proofs`, for every chain, set of updates, number of permits and start
slot: `TypeCorrect`, `CursorIsSound` (`NoSilentLoss`), `CountsAreTasks`
(`PendingIsInFlight`), `Refinement` (`KeepsContract`).

`NoSilentLoss` is not inductive.  The invariant `IInv` adds

* `ResumePointsSettled`: a position that a save has read but not yet renamed is
  as sound as the watermark and the file;
* `BelowFinalized`: every update from `base` to below the newest finalized slot
  is done, in a logged gap, or held by a task;
* `SubscriptionSound`: all before the subscription's start is settled, what it has
  received is done, in a gap or held by a task, and a gap is in the log before
  the watermark skips it;
* `PendingIsInFlight`, `WrittenIsDone` and `Fresh` (without a watermark nothing was
  finalized or saved).

The crucial steps are `ReceiveFinalized` and `End`.  When the watermark rises, it
rises below the newest finalized slot, where by `BelowFinalized` every update is
settled or held by a task; a task's slot has a positive count, and a positive
count keeps the candidate below its slot, so no claimed update is held by a task.
Assumptions: the chain's slots are a finite range, updates belong to blocks, the
permits are finitely many, `--start-slot` is absent or a slot.

`Bubblegum_proofs`, for every tree, set of instructions and number of workers: `TypeCorrect`, `NewestInstructionWins`
(`NewestWins`), `CreatorsStayNewest` (`CreatorsAreNewest`), `DecompressedStays`
(`DecompressionIsFinal`), `TreeLeadsAsset` (`LeafHasProof`), `BackfillRowsAreSound`
(`BackfillIsAccountedFor`).

Its invariant adds what each worker has already written of its path
(`WorkersWrite`), why a worker that is about to insert a row found the tree
(`WorkersFound`), and that a compressed asset never has sequence number 0
(`NotZero`), without which a guard could stop a newer instruction.  The handlers are
reduced, by one lemma per upsert, to the operator `After`: a cell takes the
newer of its value and the instruction's.

The creators need more, because a list is spread over one row per position and a
shorter list leaves the rows behind it alone.  `CreatorsSound` says that the newest
instruction which carried creators has every position that it lists, that every other
position is unset or of an older instruction, and, of a decompressed asset, that the
positions of its account are untouched and the others are not newer than it.  That a
reader then gets exactly one list, `filter_out_stale_creators` being applied to the
rows, is the lemma the theorem ends with.

Assumptions: sequence numbers are positive, distinct and ordered like slots; paths
are not empty; a decompressed asset is never burnt as a leaf (the reason `burn.rs`
gives for leaving out the guard), and its account is not older than its
instructions.

`TokenAssets_proofs`, for every set of versions of the accounts of a token, handled
any number of times in any order by any number of workers, with failures between
statements: `TypeCorrect`, `MetadataStaysNewest` (`MetadataIsNewest`),
`OwnerStaysNewest` (`OwnerIsNewest`), `SupplyStaysNewest` (`SupplyIsNewest`),
`SettledAndComplete` (`SettledIsComplete`).

None of the four is inductive, because a handler carries rows it has read over to
later statements and several handlers write the same columns.  `IInv` adds

* `TablesSound` and `WorkersSound`: the rows of `tokens` and `token_accounts`, and the
  copies of them that a handler of a metadata account carries, are those of versions
  of the accounts;
* `SupplySound` and `OwnerSound`: the copied columns of `asset` are those of a version,
  and not older than any version that was handled or whose handler is past its write
  of them; the row of a known NFT stays in `tokens`, so no handler returns early;
* `MetadataSound`: either no metadata account was saved yet, or the rows it is spread
  over are all of one version, older creators being left behind, and that version is
  not older than any handled or about to end (for mints without metadata of their
  own, as in the property);
* `EditionSound` and `UriSound`: what the two parts of `SettledIsComplete` rest on
  before everything is settled.

Assumptions (`HistoryAssumption`, `SentinelAssumption`): slots, supplies and amounts are
natural numbers; what was indexed before is at most one mint, without metadata of
its own; a slot tells the versions of a metadata account apart, and those of an
edition account (the statements compare nothing else); NULL is no row.

`CoreAssets_proofs`, for every set of versions of the accounts of MPL Core and of the
agent registry, handled any number of times by any number of workers, with failures:
`TypeCorrect`, `CoreStaysNewest` (`CoreIsNewest`), `MembersKeepAuthority`
(`MembersHaveAuthority`).

The first two rest on `IInv`: the rows under an account are all those of one version,
not older than any handled, and groups that the version is not in are older
(`RowsSound`); a handler is one for its kind of account (`WorkersSound`); the agent
token and its slot are those of one version of the registry's account, and nothing
newer was handled for an asset that was indexed before (`AgentsSound`, `AgentSound`).

`MembersKeepAuthority` needs a second layer, `AInv`, for updates handled in the order of
their slots.  While nothing is settled a member's row may be ahead of its collection's,
because `update_group_asset_authorities` runs before the statement that writes the
collection's own row.  So `AInv` says, of a member `i` that stays in `j`,

* where its row comes from (`Origin`): a version of `i`, or a version of `j` that has
  the row's slot and whose own row, once it is committed, has the same authority;
* that no version of `i` as new as the row would look up another authority
  (`Current`), so that repeating it changes nothing;
* that a handler of `i` holds what it would look up now, or is too old for the guard
  (`MemberHandler`): this is the stale read before the transaction;
* that while a transaction of `j` has updated the members and not committed, the version
  is new and every member has its slot (`LeadHandler`).

Only one transaction per collection is in that state (`TransactionsSound`), the row of a
collection is that of its newest version (`PlainSound`), and what came before a version on
the chain was handled before it (`Received`).  From these a new version of the
collection finds members that have the authority of before or its own already
(lemma `MemberRow`), which is what the guard of the update needs.

Assumptions (`ChainAssumption`, a definition that TLC evaluates for the instance of
`MCCoreAssets`): slots are natural numbers and tell the versions of an account that is
saved apart; NULL is no row, slot, account or group; an authority that is an address is
neither empty nor NULL.

`Durable_proofs`, of `CursorFile`, for any number of inodes and slots: `Atomic` (`PersistsAtomically`)
and `NeverBack` (`VisibleNeverBack`) under `OneSaver`: without it the first is false, as
`cursor_race` shows.  The invariant says that `cursor.tmp` is never the file named
`cursor`, that a file with that name is complete on disk and not above the watermark,
and how far the save in progress has got.  `FileTypeCorrect` needs no `OneSaver`: with any
number of tasks saving at once, what is read back is a slot or nothing.

`Durable_proofs`, of `TaskQueue`: `Types` (`TypeOK`, which is inductive as it stands) and `Refinement`
(`KeepsDocumentPromise`).  The refinement needs no invariant beyond the types,
because `Store` looks at the row's URL in the statement that writes the document.
Of the actions, only three touch the three columns: `NotifyPoints` shows that one
is a `Point`, `StoreSettles` that one is a `Settle`, `ReindexReopens` that one is a
`Reopen`, and `OnlyThreeWrite` that the others stutter.

`MetadataDownload_proofs`: `Types` and `Refinement` likewise, and `OneJobEach`
(`OneJobPerPendingAsset`).  Here a store takes its outcome from a job, so the invariant
must say that every job names an asset that has a row and a URL of the instance,
wherever it is (queue, worker, sleep, notification, page of the re-drive), that the
outcome a worker holds is one for its job's URL, and that the queue keeps its bound
when `later` returns a job.  For `OneJobEach` two more facts are carried along: `Apart`,
no asset has two jobs in the queue, asleep or in workers, and the pending assets are
exactly those with one; and `Counted`, the three numbers of jobs add up to that of the
pending assets, which are finitely many.  A crash empties all four.

`Delivery_proofs`, of `MessageWorkers`, for any messages, number of workers and size of
a batch: `StreamTypeCorrect` and `OnlyHandledIsAcked` (`AckedWasHandled`), which is
inductive together with the types because the property follows an id from the worker to
the batch; the step that matters is the lemma `CapturedIsFinal`, that `capture_result`
asks for an acknowledgement only of a message whose outcome is final.

Of `QueuePool`, for any number of pushers and connections: `PoolTypeCorrect` and
`NoConnectionLeaks` (`ConnectionsAccountedFor`).  The property counts the pushers that
are sending, and a count cannot be followed through a step unless it is known to be 0 or
1.  So `PoolInv` says that exactly the holder of the mutex is receiving or sending
(`HolderOnly`), and that the connections in the channel, those lost and the one of the
sender, if there is one, are all of them; `OneSender` turns this into the count.

Of `Backfiller`, for every history of a tree, every assignment of slots, size of a range,
number of tries and set of environments: `TreeTypeCorrect`, `StartsAtOneNumber`
(`OneStartingPoint`), `StartIsComplete` (`BackfilledIsComplete`) and `ListedHasRows`, that
the filler never finds a listed tree without rows, the error that `backfiller.rs` calls
unexpected.  The last two hold under the limits named above.  One lemma per statement
(`KeptRows`, `LockedRows`, `MarkedRows`, `ClearedRows`, `DedupedRows` and so on) reduces
the bag of rows to a set; `Listed`, `Planned` and `Retried` describe what a pass takes
over from one step to the next.

That backfilled rows agree needs `OneNumber`: between the DELETEs and the UPDATE all rows
have the number of the pass.  Completeness needs much more, as the clean-up believes that
the pass before it has sent what was missing.  `TreeInv` says,
whatever fails (`Sound`), that a pass is one over a forced tree or one over gaps, that the
ingester forces one number at most, and that a row that is not the finder's stands for a
transaction that was handled; and under the limits

* `Marked`: everything up to a backfilled row was handled or is on its way;
* `Based`: some row is complete in this sense, or a forced pass over the whole history
  is due, so that no pass starts above a number that nobody has looked below;
* `Rooted`: the finder's row is there until the last entry of a forced tree;
* `Plan`: what is missing below the number of the pass is in the gaps it is about to
  fetch;
* `Sent`: the clean-up comes after a pass that has sent it.

`Plan` is established by `GapsCover` (between a complete number and the highest row, every
number is a row's or within a gap between neighbours) and used by `GapReplayed` (the
ranges of slots of a gap contain its transactions).  `Based` is where the limits come
from: after a pass that gives up at its last try it is false, and the next rows of the
ingester make the tree start above the history that was never fetched.  Assumptions
(`BackfillAssumption`): slots do not decrease with sequence numbers; a range, and the
number of tries, is positive.

`Rpc_proofs`, of `Fallback`, for any number of calls and any lifetimes: `RecentAnswers`
(`AnswerIsRecent`), `LocalDataWins` (`LocalWins`, for a call whose own query does not
fail) and `Bounded` (`TypeOK`).  The invariant says that a version is outdated for no
longer than the age of the cache row or of the reply that carries it, plus, for a row
that was stored late, the timeout and the wait of the store.

Of `TreeCrawl`, for every history of a tree, content of `cl_audits_v2`, size of pages and
channels and number of workers: `CrawlTypeCorrect` and `BackfillIsExact`
(`BackfillsExactlyMissed`).  `CrawlInv` has two parts beside the types.  `OnlyMissed`: no
transaction within a gap, wherever the gap is (with the tree's task, in the channel, in a
crawl), has a known number, and what moves on from a crawl succeeded.  `AllPlaced`: what
each of the three queries leaves to the next ones, and from then on that a missed
transaction is within a gap, within what remains of an unfinished crawl, in a batch, in
the channel, with a worker, or pushed.  That the queries together leave nothing out is the
lemma `FindsMissed`: a number that is not known has known neighbours, or lies above or
below all of them, and numbers and transactions are in the same order (`SameOrder`).  That
a page loses nothing is `PageFacts`: a transaction that succeeded is on the page or below
the position from which the next one starts, and the crawl goes on, as a page that is not
full is all there was.  `FiniteBounded` and `HasLeast` give the neighbours their existence.
Assumptions (`CrawlAssumption`): numbers grow with the transactions, a failed one has none,
each has finitely many.

Of `Purge`, for every table, chain, size of pages and chunks and number of markers and
purgers: `PurgeTypeCorrect` and `PurgedAreGone` (`PurgesExactlyGone`).  `PurgeInv` says that
whatever is on its way to a purger is gone and, if its account is not created again, stays so
(`OnlyGone`); that nothing is on its way before the first page is read (`Unread`); and that
a key whose account was gone from the start is still to be read, is in one of the stages,
or has had both statements run or left to a purger (`Tracked`).  `FirstPage` is where the
limit to one page is needed.

Many leaves of the longer modules name the backend: tlapm becomes slow, and gives up on
easy leaves, in a long module.

### Only model-checked

* Every liveness property: fairness and ENABLED are beyond this prover.
* The pure functions (`order_instructions`, `paginate`, the hash of a proof, the
  search condition): what they compute for every input needs induction over data,
  which this prover cannot do.  They are checked over all bounded inputs, in
  `HandledAsExecuted`, `PagedAsAsked`, `ListingIsExact`, `ListedIsCurrent`,
  `ProofOfIndexedTree` and `FoundAsAsked`.
* `PersistsAtomically` with two savers and `ReconnectNeverSkips`, which are false.

## Not modelled, and why

* Parsers of account data (`blockbuster`), `convert.rs`, the transformation of Core
  plugins and the JSON of responses: pure functions of bytes without control that a
  property could be about.  Their failure is an action where a caller handles it.
* Schema migrations and generated entities, beyond the columns used.
* Configuration, metrics, logging, the HTTP server, health checks,
  `native_balance.rs`: no state.
* Reads of one asset by id (`getAsset`, `getAssets`) beyond the fallback, signatures of
  an asset, token accounts and editions: single statements, or lists without an
  order that could be checked.
* The special case for wrapped SOL in `save_v1_asset`, which replaces two constants.
* `ops bubblegum audit`, `ops account`, `metaplex-rpc-proxy` and the developers' tools,
  which print or forward what they fetch.
* Decompression as a step between `Bubblegum` and `TokenAssets`: `Bubblegum` starts with
  assets that are decompressed, and the statements that `save_v1_asset` runs before
  the one that sets the sequence number to 0 are not interleaved with
  instructions.
* Panics of a write task of `grpc_ingester`, after which the watermark stays where it
  is until a restart.
