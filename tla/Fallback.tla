------------------------------- MODULE Fallback -------------------------------
(***************************************************************************)
(* The upstream fallback of das_api (das_api/src/fallback.rs) and its two  *)
(* callers, get_asset and get_asset_proof (api/api_impl.rs): what a client *)
(* is told about one asset while the local index, the upstream provider    *)
(* and the cache row das_fallback_cache(method, cache_key) change.         *)
(*                                                                         *)
(* Time is kept as ages that stop growing when nothing depends on them any *)
(* more.  upstream is the version of the asset that the provider holds;    *)
(* since[v] is the time since version v was replaced.                      *)
(***************************************************************************)
EXTENDS Integers

CONSTANTS
    Requests,       \* concurrent calls of get_asset for the asset
    MaxVersion,     \* bound: versions the provider goes through; 0 is "no such asset"
    Opaque,         \* versions that do not deserialize into an Asset
    TTL,            \* FALLBACK cache TTL, in ticks
    Timeout,        \* the reqwest client's timeout, in ticks
    StoreTime,      \* how long store() may wait for a connection, in ticks
    DbErrors,       \* whether a query of the local index may fail
    None

ASSUME TimeAssumption ==
    /\ TTL \in Nat \ {0} /\ Timeout \in Nat \ {0}
    /\ StoreTime \in Nat /\ MaxVersion \in Nat

VARIABLES
    local,          \* the asset is in the local index
    upstream,       \* version held by the provider
    since,          \* [version -> ticks since it was replaced, saturating]
    cache,          \* None or [version, age]
    call            \* [Requests -> the state of a call]

vars == <<local, upstream, since, cache, call>>

Versions == 0 .. MaxVersion
Limit == TTL + Timeout + StoreTime + 1
Idle == [pc |-> "idle"]
AtMost(bound, n) == IF n > bound THEN bound ELSE n
Goto(r, c) == call' = [call EXCEPT ![r] = c]

\* How long ago version v stopped being what the provider holds.
Outdated(v) == IF v = upstream THEN 0 ELSE since[v]

\* A call returns; present is whether the index had the asset when it began, and the
\* query of the index did not fail.
Answer(r, from, v) ==
    Goto(r, [pc |-> "done", from |-> from, present |-> call[r].present,
             outdated |-> IF from = "upstream" THEN Outdated(v) ELSE 0])

Miss(present) == [pc |-> "cached", present |-> present]

Waiting(r, pc, age, reply) ==
    [pc |-> pc, present |-> call[r].present, age |-> age, reply |-> reply]

----------------------------------------------------------------------------
(* The world outside. *)

\* The ingester indexes the asset.
LocalArrives == local = FALSE /\ local' = TRUE /\ UNCHANGED <<upstream, since, cache, call>>

\* The provider's answer changes.
UpstreamChanges ==
    /\ upstream < MaxVersion
    /\ upstream' = upstream + 1
    /\ UNCHANGED <<local, since, cache, call>>

\* Time passes.  A request in flight is cut off at Timeout, the wait of a store for
\* a connection at StoreTime.
Tick ==
    /\ \A r \in Requests : /\ call[r].pc = "sent" => call[r].age < Timeout
                           /\ call[r].pc = "store" => call[r].age < StoreTime
    /\ call' = [r \in Requests |-> IF call[r].pc \in {"sent", "store"}
                                     THEN Waiting(r, call[r].pc, call[r].age + 1, call[r].reply)
                                     ELSE call[r]]
    /\ cache' = IF cache = None THEN None
                ELSE [version |-> cache.version, age |-> AtMost(TTL, cache.age + 1)]
    /\ since' = [v \in Versions |-> IF v < upstream THEN AtMost(Limit, since[v] + 1) ELSE 0]
    /\ UNCHANGED <<local, upstream>>

----------------------------------------------------------------------------
(* get_asset, get_asset_proof. *)

Ask(r) ==
    /\ call[r].pc \in {"idle", "done"}
    /\ Goto(r, [pc |-> "lookup", present |-> local])
    /\ UNCHANGED <<local, upstream, since, cache>>

\* Mutant: the cache is asked first.
LookupCacheFirst(r) ==
    /\ call[r].pc = "lookup"
    /\ IF local /\ cache = None THEN Answer(r, "local", None)
                                ELSE Goto(r, Miss(call[r].present))
    /\ UNCHANGED <<local, upstream, since, cache>>

\* The query of the local index: "Local data always wins".
Lookup(r) ==
    /\ call[r].pc = "lookup"
    /\ IF local THEN Answer(r, "local", None) ELSE Goto(r, Miss(call[r].present))
    /\ UNCHANGED <<local, upstream, since, cache>>

\* Any error of that query, not only "not found", leads to the fallback.
LookupFails(r) ==
    /\ DbErrors
    /\ call[r].pc = "lookup"
    /\ Goto(r, Miss(FALSE))
    /\ UNCHANGED <<local, upstream, since, cache>>

----------------------------------------------------------------------------
(* Fallback::get *)

Send(r) == Goto(r, Waiting(r, "sent", 0, None))

\* Mutant: a cached answer never expires.
CachedForever(r) ==
    /\ call[r].pc = "cached"
    /\ IF cache # None /\ cache.version \notin Opaque
         THEN Answer(r, "upstream", cache.version)
         ELSE Send(r)
    /\ UNCHANGED <<local, upstream, since, cache>>

\* Fallback::cached: "fetched_at > now() - ttl", and the row must deserialize;
\* else the request is sent.
Cached(r) ==
    /\ call[r].pc = "cached"
    /\ IF cache # None /\ cache.age < TTL /\ cache.version \notin Opaque
         THEN Answer(r, "upstream", cache.version)
         ELSE Send(r)
    /\ UNCHANGED <<local, upstream, since, cache>>

\* The query of the cache fails: ".ok()??" makes that a miss.
CachedFails(r) ==
    /\ DbErrors
    /\ call[r].pc = "cached"
    /\ Send(r)
    /\ UNCHANGED <<local, upstream, since, cache>>

\* The provider computes its reply.
Serve(r) ==
    /\ call[r].pc = "sent" /\ call[r].reply = None
    /\ Goto(r, Waiting(r, "sent", call[r].age, upstream))
    /\ UNCHANGED <<local, upstream, since, cache>>

\* The reply arrives; an error or a null result ends the call.
Receive(r) ==
    /\ call[r].pc = "sent" /\ call[r].reply # None
    /\ IF call[r].reply = 0
         THEN Answer(r, "error", None)
         ELSE Goto(r, Waiting(r, "store", 0, call[r].reply))
    /\ UNCHANGED <<local, upstream, since, cache>>

\* Mutant: only a reply ends the request.
RequestFailsWithReply(r) ==
    /\ call[r].pc = "sent" /\ call[r].reply # None
    /\ Answer(r, "error", None)
    /\ UNCHANGED <<local, upstream, since, cache>>

\* Timeout, refused connection, status that is not a success, unreadable body.
RequestFails(r) ==
    /\ call[r].pc = "sent"
    /\ Answer(r, "error", None)
    /\ UNCHANGED <<local, upstream, since, cache>>

\* reqwest's timeout fires.
TimesOut(r) == call[r].pc = "sent" /\ call[r].age = Timeout /\ RequestFails(r)

\* The caller gets the result if it deserializes.
Decoded(r) == IF call[r].reply \in Opaque THEN Answer(r, "error", None)
                                          ELSE Answer(r, "upstream", call[r].reply)

\* Fallback::store: UPSERT with fetched_at = now(), the time the statement begins.
Store(r) ==
    /\ call[r].pc = "store"
    /\ cache' = [version |-> call[r].reply, age |-> 0]
    /\ Decoded(r)
    /\ UNCHANGED <<local, upstream, since>>

\* A failure to store is only logged.
StoreFails(r) ==
    /\ DbErrors
    /\ call[r].pc = "store"
    /\ Decoded(r)
    /\ UNCHANGED <<local, upstream, since, cache>>

----------------------------------------------------------------------------

Init ==
    /\ local \in BOOLEAN
    /\ upstream = 0
    /\ since = [v \in Versions |-> 0]
    /\ cache = None
    /\ call = [r \in Requests |-> Idle]

Step(r) == \/ Lookup(r) \/ LookupFails(r) \/ Cached(r) \/ CachedFails(r)
           \/ Receive(r) \/ RequestFails(r) \/ Store(r) \/ StoreFails(r)

Next ==
    \/ LocalArrives \/ UpstreamChanges \/ Tick
    \/ \E r \in Requests : Ask(r) \/ Serve(r) \/ Step(r)

Spec == Init /\ [][Next]_vars

\* Clocks never stop for ever (hence SF: a wait that is over holds a tick back), and a call
\* that can go on does; the provider owes nothing.
FairSpec == Spec /\ SF_vars(Tick)
                 /\ \A r \in Requests : /\ WF_vars(Lookup(r)) /\ WF_vars(Cached(r))
                                        /\ WF_vars(Store(r))
                                        /\ WF_vars(TimesOut(r))

----------------------------------------------------------------------------
(* Properties. *)

\* A cache row and a request in flight are never older than what ends them.
TypeOK ==
    /\ local \in BOOLEAN /\ upstream \in Versions /\ since \in [Versions -> 0 .. Limit]
    /\ cache # None => cache.version \in Versions \ {0} /\ cache.age \in 0 .. TTL
    /\ \A r \in Requests :
          /\ call[r].pc = "sent" =>
                call[r].age \in 0 .. Timeout /\ call[r].reply \in Versions \cup {None}
          /\ call[r].pc = "store" =>
                call[r].age \in 0 .. StoreTime /\ call[r].reply \in Versions \ {0}

\* An answer that comes from upstream was the provider's less than TTL + Timeout +
\* StoreTime ago, with the cache, and with requests that overtake one another:
\* store() stamps a row with the time of the store, not of the request, so the age
\* of a reply and its wait for a connection add to the TTL, and no more than that.
AnswerIsRecent ==
    \A r \in Requests : call[r].pc = "done" => call[r].outdated < TTL + Timeout + StoreTime

\* "Local data always wins": a call that begins when the index has the asset is
\* answered from the index, unless the query of the index itself fails: get_asset
\* takes any error for a missing asset.  (api_impl.rs: from_upstream)
LocalWins ==
    \A r \in Requests : call[r].pc = "done" /\ call[r].present => call[r].from = "local"

\* Every call is answered, also when the provider never replies: the client
\* carries a timeout (Fallback::new).
CallIsAnswered ==
    \A r \in Requests : call[r].pc = "lookup" ~> call[r].pc = "done"
=============================================================================
