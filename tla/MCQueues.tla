------------------------------- MODULE MCQueues -------------------------------
(***************************************************************************)
(* The queues of the system, for TLC: the consumers of the Redis streams     *)
(* (MessageWorkers), the pool of connections through which the tools of ops  *)
(* push (QueuePool), and the commands of ops that run as stages connected by *)
(* channels (TreeCrawl, Purge).  TreeCrawl pushes through a pool of its own,  *)
(* of which it counts the connections.  The parts share no state: a          *)
(* behaviour is one of them, while the others have not started.              *)
(***************************************************************************)
EXTENDS MessageWorkers, QueuePool, TreeCrawl, Purge

CONSTANTS c1, c2, t1, k1, k2, m1, m2, p1, p2, p3, w1, w2

VARIABLE part       \* what runs

parts == <<part, streamVars, poolVars, crawlVars, purgeVars>>

-----------------------------------------------------------------------------
\* A history from the changes that its transactions make, none if one failed.
FromCounts(f) ==
    LET upTo(i) == FoldFunctionOnSet(LAMBDA a, b : a + b, 0, f, 1 .. i) IN
    [i \in DOMAIN f |-> [ok |-> f[i] > 0, seqs |-> upTo(i - 1) + 1 .. upTo(i)]]

\* Up to n transactions of at most m changes; a page of two may hold failures only.
Mixed(n, m) == {FromCounts(f) : f \in UNION {[1 .. k -> 0 .. m] : k \in 0 .. n}}

\* Two crawlers, and nothing else happens; transactions with two changes; calls that fail
\* while the ingester goes on, with fewer connections than pushes; and an address that
\* holds no tree.
MCJobs ==
    [history : Mixed(4, 1), crawlers : {{c1, c2}}, accounts : {{"tree"}}, onlyTrees : {FALSE},
     live : {FALSE}, faults : {FALSE}, connections : {1}]
    \cup
    [history : Mixed(3, 2), crawlers : {{c1}}, accounts : {{"tree"}}, onlyTrees : {FALSE},
     live : {FALSE}, faults : {FALSE}, connections : {1}]
    \cup
    [history : Mixed(3, 1), crawlers : {{c1}}, accounts : {{"tree"}}, onlyTrees : {FALSE},
     live : {TRUE}, faults : {TRUE}, connections : {2}]
    \cup
    [history : Mixed(1, 1), crawlers : {{c1}}, accounts : {{"tree", "other", "none"}},
     onlyTrees : BOOLEAN, live : {FALSE}, faults : {TRUE}, connections : {1}]

\* Every task starts; or not the ack worker, the one that takes messages again, one of
\* the others, or any of them.
MCStarts ==
    LET all == Workers \cup {AckWorker} IN
    {all, all \ {AckWorker}, all \ {Redeliverer}, all \ {w2}, all \ NewWorkers}

\* All keys on one page, two purgers; and two pages, two markers, and an account that is
\* created again.
MCCommands ==
    {[mints |-> TRUE, batch |-> 2, markers |-> {m1}, purgers |-> {p1, p2}, faults |-> TRUE,
      reopened |-> {}],
     [mints |-> FALSE, batch |-> 1, markers |-> {m1, m2}, purgers |-> {p1}, faults |-> TRUE,
      reopened |-> {k1}]}

-----------------------------------------------------------------------------
NotStreamed == up = Workers \cup {AckWorker} /\ StreamInit

NotCrawled == job = (CHOOSE j \in Jobs : TRUE) /\ known = {} /\ CrawlInit

NotPurged == command = (CHOOSE c \in Commands : TRUE) /\ chain = [k \in Keys |-> "token"]
             /\ PurgeInit

PartsInit ==
    /\ PoolInit
    /\ \/ part = "crawl" /\ CrawlInit /\ NotPurged /\ NotStreamed
       \/ part = "purge" /\ PurgeInit /\ NotCrawled /\ NotStreamed
       \/ part = "stream" /\ StreamInit /\ NotCrawled /\ NotPurged
       \/ part = "pool" /\ NotCrawled /\ NotPurged /\ NotStreamed

\* The command has ended; the stream is empty.  Or nothing more can happen: a push waits
\* for a connection and none is left; a worker that the stream needs did not start.
Over ==
    /\ \/ part = "crawl" /\ (CrawlFinished \/ PoolExhausted)
       \/ part = "purge" /\ PurgeFinished
       \/ part = "pool" /\ failures = Connections
       \/ part = "stream" /\ ~Served
       \/ part = "stream" /\ \A m \in Messages : status[m] \in {"acked", "dropped"}
    /\ UNCHANGED parts

PartsNext ==
    \/ part = "crawl" /\ CrawlNext /\ UNCHANGED <<part, purgeVars, streamVars, poolVars>>
    \/ part = "purge" /\ PurgeNext /\ UNCHANGED <<part, crawlVars, streamVars, poolVars>>
    \/ part = "stream" /\ StreamNext /\ UNCHANGED <<part, crawlVars, purgeVars, poolVars>>
    \/ part = "pool" /\ PoolNext /\ UNCHANGED <<part, crawlVars, purgeVars, streamVars>>
    \/ Over

-----------------------------------------------------------------------------
(* The fairness of each command; the other parts state their own, and where they have *)
(* not started nothing that it is about can happen.                                   *)

\* tokio polls every task that can move; Solana's client has a timeout and the
\* retries are bounded.  No call has to fail.
FairCrawl ==
    /\ WF_crawlVars(part = "crawl" /\ Main)
    /\ \A w \in Crawlers : WF_crawlVars(part = "crawl" /\ CrawlProceeds(w))
    /\ \A w \in TxWorkers : WF_crawlVars(part = "crawl" /\ FetchProceeds(w))

\* join3 waits for the three stages, and each has its tasks polled.
FairPurge ==
    /\ WF_purgeVars(part = "purge" /\ Paging)
    /\ \A w \in Markers : WF_purgeVars(part = "purge" /\ Marking(w))
    /\ \A w \in Purgers : WF_purgeVars(part = "purge" /\ Purging(w))

PartsSpec ==
    PartsInit /\ [][PartsNext]_parts /\ FairCrawl /\ FairPurge
    /\ StreamFairness /\ PoolFairness

-----------------------------------------------------------------------------
\* What waits for ever, waits for one of three things that the code does not see to, and
\* which the conjuncts except by name.  The two commands end, although their stages wait
\* for each other and calls fail: the purge always, the backfill unless failed pushes have
\* used up its connections or a page of signatures holds failures only (CrawlEnds).
\* Every message comes to rest if the workers of its stream have started
\* (MessageSettles).  Every push returns while a connection is left (PushReturns).
NothingWaitsForever ==
    /\ part # "crawl" \/ CrawlEnds
    /\ <>(part = "purge" => PurgeFinished)
    /\ MessageSettles /\ PushReturns
=============================================================================
