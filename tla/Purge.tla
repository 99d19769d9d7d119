-------------------------------- MODULE Purge --------------------------------
(***************************************************************************)
(* The "purge token-accounts" and "purge mints" commands of ops               *)
(* (purge/purger.rs): a paginator reads the keys of a table page by page,     *)
(* markers ask the chain which of them are gone, purgers delete the rows of   *)
(* those.  The three stages run at the same time over unbounded channels.     *)
(*                                                                            *)
(* The query of the paginator has no ORDER BY, so a page is any set of rows   *)
(* of the right size, and so is a chunk of it.                                *)
(***************************************************************************)
EXTENDS Integers, Sequences, FiniteSets, FiniteSetsExt

CONSTANTS
    Keys,          \* addresses of token accounts or of mints
    Commands,      \* executions: records of
                   \*   mints: TRUE if the keys are mints,
                   \*   batch: batch_size, the rows of a page,
                   \*   markers, purgers: mark_deletion_worker_count, purge_worker_count,
                   \*   faults: TRUE if queries and RPC calls fail,
                   \*   reopened: keys whose account may be created again meanwhile
    Chunk,         \* MAX_GET_MULTIPLE_ACCOUNTS
    Markers, Purgers

ASSUME PurgeAssumption ==
    /\ IsFiniteSet(Keys) /\ Chunk \in Nat \ {0}
    /\ Commands \subseteq [mints : BOOLEAN, batch : Nat \ {0}, markers : SUBSET Markers,
                           purgers : SUBSET Purgers, faults : BOOLEAN, reopened : SUBSET Keys]

VARIABLES
    command,      \* the execution
    table,        \* keys in token_accounts or tokens
    chain,        \* owner of each account: a token program, another, none since before
                  \* the command, or none since it was closed
    burnt,        \* assets with burnt = true
    page,         \* the paginator: the next page, 0 once it stopped
    keys,         \* channel of pages
    mark,         \* [Markers -> the keys of a page that remain]
    marked,       \* channel of keys to purge
    purge,        \* [Purgers -> the keys and the statements that remain]
    failed        \* TRUE: something failed

purgeVars == <<command, table, chain, burnt, page, keys, mark, marked, purge, failed>>

Gone(k) == chain[k] # "token"

\* Any n keys of S, all of them if there are not more.
Some(S, n) == {T \in SUBSET S : Cardinality(T) = Min({n, Cardinality(S)})}

-----------------------------------------------------------------------------
\* fetch_and_next: LIMIT batch OFFSET (page - 1) * batch, until a page is empty.
Paginate ==
    /\ page > 0
    /\ LET left == Cardinality(table) - (page - 1) * command.batch IN
       IF left <= 0 THEN page' = 0 /\ UNCHANGED keys
       ELSE /\ page' = page + 1
            /\ \E rows \in Some(table, Min({left, command.batch})) : keys' = Append(keys, rows)
    /\ UNCHANGED <<command, table, chain, burnt, mark, marked, purge, failed>>

\* while let Ok(Some(..)): an error ends the loop like the last page does.
PaginateFails ==
    /\ command.faults /\ page > 0
    /\ page' = 0 /\ failed' = TRUE
    /\ UNCHANGED <<command, table, chain, burnt, keys, mark, marked, purge>>

MarkStart(w) ==
    /\ w \in command.markers /\ mark[w] = {} /\ keys # <<>>
    /\ mark' = [mark EXCEPT ![w] = Head(keys)] /\ keys' = Tail(keys)
    /\ UNCHANGED <<command, table, chain, burnt, page, marked, purge, failed>>

\* Mutant: an account whose lookup failed counts as gone.
MarkAll(w) ==
    /\ mark[w] # {}
    /\ \E chunk \in Some(mark[w], Chunk) :
          \E remove \in {{k \in chunk : Gone(k)}} \cup (IF command.faults THEN {chunk} ELSE {}) :
             /\ mark' = [mark EXCEPT ![w] = @ \ chunk]
             /\ marked' = IF remove = {} THEN marked ELSE Append(marked, remove)
    /\ UNCHANGED <<command, table, chain, burnt, page, keys, purge, failed>>

\* getMultipleAccounts for a chunk: missing, or owned by neither token program; a
\* failed call skips the chunk.
Mark(w) ==
    /\ mark[w] # {}
    /\ \E chunk \in Some(mark[w], Chunk) :
          LET remove == {k \in chunk : Gone(k)} IN
          /\ mark' = [mark EXCEPT ![w] = @ \ chunk]
          /\ \/ /\ marked' = IF remove = {} THEN marked ELSE Append(marked, remove)
                /\ UNCHANGED failed
             \/ command.faults /\ failed' = TRUE /\ UNCHANGED marked
    /\ UNCHANGED <<command, table, chain, burnt, page, keys, purge>>

PurgeStart(w) ==
    /\ w \in command.purgers /\ purge[w].left = {} /\ marked # <<>>
    /\ purge' = [purge EXCEPT ![w] = [keys |-> Head(marked),
                    left |-> IF command.mints THEN {"rows", "burnt"} ELSE {"rows"}]]
    /\ marked' = Tail(marked)
    /\ UNCHANGED <<command, table, chain, burnt, page, keys, mark, failed>>

\* One of the statements of purge(); MintPurge joins two, in no order, without a
\* transaction around them.
DeleteRows(w) ==
    /\ "rows" \in purge[w].left
    /\ purge' = [purge EXCEPT ![w].left = @ \ {"rows"}]
    /\ \/ table' = table \ purge[w].keys /\ UNCHANGED failed
       \/ command.faults /\ failed' = TRUE /\ UNCHANGED table
    /\ UNCHANGED <<command, chain, burnt, page, keys, mark, marked>>

MarkBurnt(w) ==
    /\ "burnt" \in purge[w].left
    /\ purge' = [purge EXCEPT ![w].left = @ \ {"burnt"}]
    /\ \/ burnt' = burnt \cup purge[w].keys /\ UNCHANGED failed
       \/ command.faults /\ failed' = TRUE /\ UNCHANGED burnt
    /\ UNCHANGED <<command, table, chain, page, keys, mark, marked>>

-----------------------------------------------------------------------------
\* The chain and the ingester move on: an account is closed; one is created again at
\* the same address and indexed.
Close(k) ==
    /\ chain[k] = "token"
    /\ chain' = [chain EXCEPT ![k] = "closed"]
    /\ UNCHANGED <<command, table, burnt, page, keys, mark, marked, purge, failed>>

Reopen(k) ==
    /\ k \in command.reopened /\ chain[k] \in {"none", "closed"}
    /\ chain' = [chain EXCEPT ![k] = "token"]
    /\ table' = table \cup {k}
    /\ burnt' = burnt \ {k}
    /\ UNCHANGED <<command, page, keys, mark, marked, purge, failed>>

PurgeInit ==
    /\ command \in Commands
    /\ table = Keys
    /\ chain \in [Keys -> {"token", "other", "none"}]
    /\ burnt = {} /\ page = 1 /\ keys = <<>> /\ marked = <<>> /\ failed = FALSE
    /\ mark = [w \in Markers |-> {}]
    /\ purge = [w \in Purgers |-> [keys |-> {}, left |-> {}]]

Paging == Paginate \/ PaginateFails

Marking(w) == MarkStart(w) \/ Mark(w)

Purging(w) == PurgeStart(w) \/ DeleteRows(w) \/ MarkBurnt(w)

PurgeNext ==
    \/ Paging
    \/ \E w \in Markers : Marking(w)
    \/ \E w \in Purgers : Purging(w)
    \/ \E k \in Keys : Close(k) \/ Reopen(k)

PurgeSpec == PurgeInit /\ [][PurgeNext]_purgeVars

\* start_ta_purge and start_mint_purge returned.
PurgeFinished ==
    /\ page = 0 /\ keys = <<>> /\ marked = <<>>
    /\ \A w \in Markers : mark[w] = {}
    /\ \A w \in Purgers : purge[w].left = {}

-----------------------------------------------------------------------------
PurgeTypeOK ==
    /\ command \in Commands /\ failed \in BOOLEAN
    /\ table \subseteq Keys /\ burnt \subseteq Keys
    /\ chain \in [Keys -> {"token", "other", "none", "closed"}]
    /\ page \in Nat
    /\ keys \in Seq(SUBSET Keys) /\ marked \in Seq(SUBSET Keys)
    /\ mark \in [Markers -> SUBSET Keys]
    /\ purge \in [Purgers -> [keys : SUBSET Keys, left : SUBSET {"rows", "burnt"}]]

\* The command purges what is gone and nothing else.
\* When it ends without an error, every account that was gone when it started, and was
\* not created again, has lost its row, and a mint's asset is burnt: what the tests of
\* the purge commands assert of the statements it sends.  (The keys must fit on one page:
\* a delete moves the rows behind it to lower offsets while the paginator goes on.)
\* And the row of an account that exists and belongs to a token program is not deleted
\* and its asset not burnt, whatever the order of the lookups and the deletes, lookups
\* that fail included.  (An account that is created again while its row is on its way to
\* a purger loses it: those that may be are left out.)
PurgesExactlyGone ==
    /\ Cardinality(Keys) <= command.batch /\ PurgeFinished /\ ~failed =>
          \A k \in Keys : chain[k] \in {"other", "none"} =>
                            k \notin table /\ (command.mints => k \in burnt)
    /\ \A k \in Keys \ command.reopened :
          chain[k] = "token" => k \in table /\ k \notin burnt
=============================================================================
