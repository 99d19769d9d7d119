------------------------------ MODULE TreeCrawl ------------------------------
(***************************************************************************)
(* The "bubblegum backfill" command of ops (bubblegum/tree.rs,               *)
(* bubblegum/backfiller.rs) for one tree: three queries of cl_audits_v2 find *)
(* the gaps, a bounded channel hands them to crawlers that page through the  *)
(* signatures of the tree, a second one hands the signatures to workers that *)
(* fetch the transactions and push them to the backfill stream through a     *)
(* QueuePool, of which only the connections that are left matter here.  A    *)
(* transaction is its position in the tree's history; a failed one changes   *)
(* no tree.                                                                  *)
(***************************************************************************)
EXTENDS Integers, Sequences, FiniteSets, FiniteSetsExt

CONSTANTS
    Jobs,          \* executions: records of
                   \*   history: the tree's transactions, [ok, seqs], oldest first,
                   \*   crawlers: gap_worker_count,
                   \*   accounts: what the address may hold, a subset of {"tree", "other",
                   \*     "none"},
                   \*   onlyTrees: TRUE if the tree was named by --only-trees,
                   \*   live: TRUE if the ingester keeps indexing,
                   \*   faults: TRUE if calls fail after their retries,
                   \*   connections: messenger_queue_connections
    PageSize,      \* GET_SIGNATURES_FOR_ADDRESS_LIMIT
    GapChannel, SigChannel,     \* gap_channel_size, signature_channel_size
    Crawlers, TxWorkers         \* transaction_worker_count

\* Sequence numbers grow with the transactions, and a failed one has none.
InOrder(history) ==
    /\ \A t \in DOMAIN history : ~history[t].ok => history[t].seqs = {}
    /\ \A t, u \in DOMAIN history : t < u =>
          \A r \in history[t].seqs, s \in history[u].seqs : r < s

ASSUME CrawlAssumption ==
    /\ PageSize \in Nat \ {0} /\ GapChannel \in Nat /\ SigChannel \in Nat
    /\ \A j \in Jobs :
          /\ j.history \in Seq([ok : BOOLEAN, seqs : SUBSET (Nat \ {0})]) /\ InOrder(j.history)
          /\ \A t \in DOMAIN j.history : IsFiniteSet(j.history[t].seqs)
          /\ j.crawlers \subseteq Crawlers /\ j.connections \in Nat

VARIABLES
    job,          \* the execution
    known,        \* sequence numbers in cl_audits_v2
    main,         \* run() and the tree's gap worker: [pc, gaps]
    gaps,         \* the channel of TreeGapFill
    crawl,        \* [Crawlers -> a crawl, which has ended when last and its batch is empty]
    sigs,         \* the channel of Signature
    fetch,        \* [TxWorkers -> a transaction, or 0]
    pushed,       \* transactions pushed to the backfill stream
    pool,         \* the QueuePool: [idle: connections left, callers: workers in push]
    logged        \* TRUE: an error was logged

crawlVars == <<job, known, main, gaps, crawl, sigs, fetch, pushed, pool, logged>>

history == job.history

Txs == 1..Len(history)

Seqs == UNION {history[t].seqs : t \in Txs}

TxOf(s) == CHOOSE t \in Txs : s \in history[t].seqs

\* A TreeGapFill: signatures older than before and newer than until.
Gap(b, u) == [before |-> b, until |-> u]

\* before or until is None.
Newest == Len(history) + 1
Oldest == 0

TreeGapFill == [before : 0..Newest, until : 0..Newest]

Within(g) == {t \in Txs : g.until < t /\ t < g.before}

-----------------------------------------------------------------------------
(* run() and spawn_gap_worker *)

\* TreeResponse::all leaves out what is not a tree, TreeResponse::find fails on it, but
\* leaves out an address without an account.
FetchTree ==
    /\ main.pc = "start"
    /\ \/ "tree" \in job.accounts /\ main' = [main EXCEPT !.pc = "gaps"]
       \/ "other" \in job.accounts
          /\ main' = [main EXCEPT !.pc = IF job.onlyTrees THEN "error" ELSE "skipped"]
       \/ "none" \in job.accounts /\ main' = [main EXCEPT !.pc = "skipped"]
       \/ job.faults /\ main' = [main EXCEPT !.pc = "error"]
    /\ UNCHANGED <<job, known, gaps, crawl, sigs, fetch, pushed, pool, logged>>

\* A query fails: the task of the tree returns the error, which try_join_all finds
\* inside the result of a task that did not panic, and drops.
QueryFails ==
    /\ job.faults /\ main.pc \in {"gaps", "upper", "lower"}
    /\ main' = [pc |-> "dropped", gaps |-> {}]
    /\ UNCHANGED <<job, known, gaps, crawl, sigs, fetch, pushed, pool, logged>>

\* TREE_GAP_SQL: known numbers that are neighbours but not adjacent.
FindGaps ==
    /\ main.pc = "gaps"
    /\ LET pairs == {p \in known \X known :
                        p[2] - p[1] > 1 /\ \A m \in known : m <= p[1] \/ m >= p[2]} IN
       main' = [pc |-> "upper", gaps |-> {Gap(TxOf(p[2]), TxOf(p[1])) : p \in pairs}]
    /\ UNCHANGED <<job, known, gaps, crawl, sigs, fetch, pushed, pool, logged>>

\* Above the highest known number, or the whole tree when none is known.
FindUpper ==
    /\ main.pc = "upper"
    /\ main' = [pc |-> "lower", gaps |-> main.gaps \cup
          (IF known # {} THEN {Gap(Newest, TxOf(Max(known)))}
           ELSE IF Seqs # {} THEN {Gap(Newest, Oldest)} ELSE {})]
    /\ UNCHANGED <<job, known, gaps, crawl, sigs, fetch, pushed, pool, logged>>

\* Mutant: a tree whose lowest known number is 2 counts as complete.
FindLowerOffByOne ==
    /\ main.pc = "lower"
    /\ main' = [pc |-> "send", gaps |-> main.gaps \cup
          (IF known # {} /\ Min(known) > 2 THEN {Gap(TxOf(Min(known)), Oldest)} ELSE {})]
    /\ UNCHANGED <<job, known, gaps, crawl, sigs, fetch, pushed, pool, logged>>

\* Below the lowest known number, unless it is the first.
FindLower ==
    /\ main.pc = "lower"
    /\ main' = [pc |-> "send", gaps |-> main.gaps \cup
          (IF known # {} /\ Min(known) > 1 THEN {Gap(TxOf(Min(known)), Oldest)} ELSE {})]
    /\ UNCHANGED <<job, known, gaps, crawl, sigs, fetch, pushed, pool, logged>>

SendGap ==
    /\ main.pc = "send"
    /\ IF main.gaps = {} THEN main' = [main EXCEPT !.pc = "done"] /\ UNCHANGED gaps
       ELSE /\ Len(gaps) < GapChannel
            /\ \E g \in main.gaps : /\ gaps' = Append(gaps, g)
                                    /\ main' = [main EXCEPT !.gaps = @ \ {g}]
    /\ UNCHANGED <<job, known, crawl, sigs, fetch, pushed, pool, logged>>

\* The ingester handles a transaction of its own stream.
Index(s) ==
    /\ job.live /\ s \in Seqs \ known
    /\ known' = known \cup {s}
    /\ UNCHANGED <<job, main, gaps, crawl, sigs, fetch, pushed, pool, logged>>

-----------------------------------------------------------------------------
(* spawn_crawl_worker and TreeGapFill::crawl *)

Ended(c) == c.last /\ c.batch = {}

CrawlStart(w) ==
    /\ w \in job.crawlers /\ Ended(crawl[w]) /\ gaps # <<>>
    /\ crawl' = [crawl EXCEPT ![w] = [before |-> Head(gaps).before, until |-> Head(gaps).until,
                                      batch |-> {}, last |-> FALSE]]
    /\ gaps' = Tail(gaps)
    /\ UNCHANGED <<job, known, main, sigs, fetch, pushed, pool, logged>>

\* getSignaturesForAddress: the newest ones, a page of them at most.
Pages(c) ==
    {p \in SUBSET Within(c) : /\ Cardinality(p) = Min({PageSize, Cardinality(Within(c))})
                              /\ \A t \in p, u \in Within(c) \ p : u < t}

\* The next page starts below the last transaction that succeeded.
CrawlPage(w) ==
    /\ crawl[w].batch = {} /\ ~crawl[w].last
    /\ \E p \in Pages(crawl[w]) :
          LET good == {t \in p : history[t].ok} IN
          crawl' = [crawl EXCEPT ![w].batch = good, ![w].last = Cardinality(p) < PageSize,
                                 ![w].before = IF good = {} THEN @ ELSE Min(good)]
    /\ UNCHANGED <<job, known, main, gaps, sigs, fetch, pushed, pool, logged>>

CrawlSend(w) ==
    /\ crawl[w].batch # {} /\ Len(sigs) < SigChannel
    /\ sigs' = Append(sigs, Max(crawl[w].batch))
    /\ crawl' = [crawl EXCEPT ![w].batch = @ \ {Max(@)}]
    /\ UNCHANGED <<job, known, main, gaps, fetch, pushed, pool, logged>>

CrawlFails(w) ==
    /\ job.faults /\ crawl[w].batch = {} /\ ~crawl[w].last
    /\ crawl' = [crawl EXCEPT ![w].last = TRUE]
    /\ logged' = TRUE
    /\ UNCHANGED <<job, known, main, gaps, sigs, fetch, pushed, pool>>

-----------------------------------------------------------------------------
(* spawn_transaction_worker *)

FetchStart(w) ==
    /\ fetch[w] = 0 /\ sigs # <<>>
    /\ fetch' = [fetch EXCEPT ![w] = Head(sigs)]
    /\ sigs' = Tail(sigs)
    /\ UNCHANGED <<job, known, main, gaps, crawl, pushed, pool, logged>>

\* The first half of queue_transaction, which fetches and encodes.
get_transaction(w) ==
    /\ fetch[w] # 0 /\ w \notin pool.callers
    /\ pool' = [pool EXCEPT !.callers = @ \cup {w}]
    /\ UNCHANGED <<job, known, main, gaps, crawl, sigs, fetch, pushed, logged>>

FetchFails(w) ==
    /\ job.faults /\ fetch[w] # 0 /\ w \notin pool.callers
    /\ fetch' = [fetch EXCEPT ![w] = 0]
    /\ logged' = TRUE
    /\ UNCHANGED <<job, known, main, gaps, crawl, sigs, pushed, pool>>

\* The second half, QueuePool's push: it waits for a connection and gives it back.
push_transaction(w) ==
    /\ fetch[w] # 0 /\ w \in pool.callers /\ pool.idle > 0
    /\ pushed' = pushed \cup {fetch[w]}
    /\ fetch' = [fetch EXCEPT ![w] = 0]
    /\ pool' = [pool EXCEPT !.callers = @ \ {w}]
    /\ UNCHANGED <<job, known, main, gaps, crawl, sigs, logged>>

\* The send fails and its connection is dropped.
PushFails(w) ==
    /\ job.faults /\ fetch[w] # 0 /\ w \in pool.callers /\ pool.idle > 0
    /\ fetch' = [fetch EXCEPT ![w] = 0]
    /\ pool' = [idle |-> pool.idle - 1, callers |-> pool.callers \ {w}]
    /\ logged' = TRUE
    /\ UNCHANGED <<job, known, main, gaps, crawl, sigs, pushed>>

-----------------------------------------------------------------------------
CrawlInit ==
    /\ job \in Jobs
    /\ known \in SUBSET Seqs
    /\ main = [pc |-> "start", gaps |-> {}]
    /\ gaps = <<>>
    /\ crawl = [w \in Crawlers |-> [before |-> 0, until |-> 0, batch |-> {}, last |-> TRUE]]
    /\ sigs = <<>> /\ fetch = [w \in TxWorkers |-> 0]
    /\ pushed = {} /\ logged = FALSE
    /\ pool = [idle |-> job.connections, callers |-> {}]

Main == FetchTree \/ QueryFails \/ FindGaps \/ FindUpper \/ FindLower \/ SendGap

Crawl(w) == CrawlStart(w) \/ CrawlPage(w) \/ CrawlSend(w) \/ CrawlFails(w)

Fetch(w) == FetchStart(w) \/ get_transaction(w) \/ FetchFails(w) \/ push_transaction(w)
            \/ PushFails(w)

CrawlNext ==
    \/ Main \/ (\E s \in Seqs : Index(s))
    \/ (\E w \in Crawlers : Crawl(w)) \/ (\E w \in TxWorkers : Fetch(w))

\* What the tasks do unless a call fails.
CrawlProceeds(w) == CrawlStart(w) \/ CrawlPage(w) \/ CrawlSend(w)

FetchProceeds(w) == FetchStart(w) \/ get_transaction(w) \/ push_transaction(w)

CrawlSpec == CrawlInit /\ [][CrawlNext]_crawlVars

\* run() has joined the gap worker, the crawlers and the transaction workers, in the
\* order in which their channels close.
CrawlFinished ==
    /\ main.pc \in {"done", "dropped", "skipped", "error"} /\ gaps = <<>>
    /\ \A w \in Crawlers : Ended(crawl[w])
    /\ sigs = <<>> /\ \A w \in TxWorkers : fetch[w] = 0

\* A worker waits for a connection, and none is left.
PoolExhausted == pool.idle = 0 /\ \E w \in TxWorkers : fetch[w] # 0 /\ w \in pool.callers

\* The next page of a crawler is full and holds no transaction that succeeded, so the
\* page after it is the same.
PageRepeats(w) ==
    /\ crawl[w].batch = {} /\ ~crawl[w].last
    /\ \E p \in Pages(crawl[w]) : Cardinality(p) = PageSize /\ \A t \in p : ~history[t].ok

-----------------------------------------------------------------------------
CrawlTypeOK ==
    /\ job \in Jobs /\ known \subseteq Seqs /\ pushed \subseteq Txs /\ logged \in BOOLEAN
    /\ main \in [pc : {"start", "gaps", "upper", "lower", "send", "done", "dropped", "skipped",
                       "error"},
                 gaps : SUBSET TreeGapFill]
    /\ gaps \in Seq(TreeGapFill) /\ Len(gaps) <= GapChannel
    /\ crawl \in [Crawlers -> [before : 0..Newest, until : 0..Newest, batch : SUBSET Txs,
                               last : BOOLEAN]]
    /\ sigs \in Seq(Txs) /\ Len(sigs) <= SigChannel
    /\ fetch \in [TxWorkers -> 0..Len(history)]
    /\ pool \in [idle : Nat, callers : SUBSET TxWorkers]

Missed(t) == history[t].seqs # {} /\ history[t].seqs \cap known = {}

\* The command pushes what the index misses and nothing else.
\* One that ended without an error has pushed every transaction of the tree of which the
\* index has no change: the command "crawls through trees and backfills any missed tree
\* transactions".  (The ingester must not index the tree meanwhile: the three queries
\* are not a transaction, and a gap that opens between them is seen by none.)
\* And none is pushed that bounds a gap, of which the index has a change, or that failed.
BackfillsExactlyMissed ==
    /\ ~job.live /\ CrawlFinished /\ main.pc = "done" /\ ~logged =>
          \A t \in Txs : Missed(t) => t \in pushed
    /\ \A t \in pushed : history[t].ok /\ (job.live \/ history[t].seqs \cap known = {})

\* The command ends, "`Ok` if the backfilling process completes successfully, or an
\* `Err`", although its stages wait for each other and calls fail.  Two cases are
\* excepted.  Each failed push costs the pool a connection, and with none left a push
\* waits for ever, and the command with it (QueuePool's push).  And a full page of
\* signatures of which none succeeded leaves `before` where it is, so that the crawler
\* fetches it again for ever (TreeGapFill::crawl).
CrawlEnds == <>CrawlFinished \/ <>[](PoolExhausted \/ \E w \in Crawlers : PageRepeats(w))
=============================================================================
