------------------------------ MODULE Rpc_proofs ------------------------------
(***************************************************************************)
(* Proofs about the parts that ask an RPC provider.                         *)
(*                                                                          *)
(* Fallback, for every number of concurrent calls, versions and every TTL,  *)
(* timeout and wait: how old an answer from upstream can be, and that local data *)
(* wins unless the query of the index fails.                                *)
(*                                                                          *)
(* TreeCrawl and Purge, the backfill and purge commands of ops, for every   *)
(* tree or table, size of page and channel and number of workers: that they *)
(* push, or purge, what they should and nothing else.                       *)
(***************************************************************************)
EXTENDS Fallback, TreeCrawl, Purge, FiniteSetTheorems, WellFoundedInduction, TLAPS

-----------------------------------------------------------------------------
(* The fallback of the API *)

\* Version v is, or was until at most n ticks ago, what the provider holds.
Fresh(v, n) == v \in 0 .. upstream /\ since[v] <= n

\* What a call knows at each of its places.
CallInv(r) ==
    /\ call[r].pc \in {"idle", "lookup", "cached", "sent", "store", "done"}
    /\ call[r].pc = "lookup" => (call[r].present => local)
    /\ call[r].pc \in {"cached", "sent", "store"} => ~call[r].present
    /\ call[r].pc = "sent" =>
          /\ call[r].age \in 0 .. Timeout
          /\ call[r].reply # None => Fresh(call[r].reply, call[r].age)
    /\ call[r].pc = "store" =>
          /\ call[r].age \in 0 .. StoreTime
          /\ call[r].reply # 0 /\ Fresh(call[r].reply, Timeout + call[r].age)
    /\ call[r].pc = "done" =>
          /\ call[r].outdated < TTL + Timeout + StoreTime
          /\ call[r].present => call[r].from = "local"

CacheInv ==
    cache # None => /\ cache.version \in 1 .. upstream
                    /\ cache.age \in 0 .. TTL
                    /\ cache.age < TTL => since[cache.version] <= cache.age + Timeout + StoreTime

\* The inductive invariant: the age of what a reply and a cache row say is
\* bounded by their own age.
IInv ==
    /\ local \in BOOLEAN /\ upstream \in Versions
    /\ since \in [Versions -> 0 .. Limit]
    /\ \A v \in Versions : v >= upstream => since[v] = 0
    /\ CacheInv
    /\ DOMAIN call = Requests
    /\ \A r \in Requests : CallInv(r)

\* No call is running and the cache is empty when the server starts.
LEMMA InitIInv == Init => IInv
BY TimeAssumption DEF Init, IInv, CacheInv, CallInv, Versions, Limit, Idle

\* A version outlives a change of the provider's.
LEMMA ChangeKeepsFresh ==
    ASSUME IInv, UpstreamChanges, NEW v, NEW n, Fresh(v, n) PROVE Fresh(v, n)'
BY TimeAssumption DEF IInv, UpstreamChanges, Fresh, Versions

\* A change upstream keeps the invariant: what was current stops being so only now.
LEMMA ChangeIInv == ASSUME IInv, UpstreamChanges PROVE IInv'
<1>1. upstream' = upstream + 1 /\ upstream \in Nat /\ upstream' \in Versions
  BY TimeAssumption DEF IInv, UpstreamChanges, Versions
<1>2. \A v \in Versions : v >= upstream' => since'[v] = 0
  BY <1>1 DEF IInv, UpstreamChanges, Versions
<1>3. CacheInv'
  BY <1>1 DEF IInv, UpstreamChanges, CacheInv
<1>4. ASSUME NEW r \in Requests PROVE CallInv(r)'
  <2>1. CallInv(r) /\ call' = call /\ local' = local
    BY DEF IInv, UpstreamChanges
  <2>2. /\ call[r].pc = "sent" =>
              (call[r].reply # None => Fresh(call[r].reply, call[r].age)')
        /\ call[r].pc = "store" => Fresh(call[r].reply, Timeout + call[r].age)'
    <3>1. ASSUME NEW v, NEW n, Fresh(v, n) PROVE v \in 0 .. upstream' /\ since'[v] <= n
      BY <3>1, ChangeKeepsFresh DEF Fresh
    <3> QED  BY <2>1, <3>1 DEF CallInv, Fresh
  <2> QED  BY <2>1, <2>2 DEF CallInv
<1> QED  BY <1>1, <1>2, <1>3, <1>4 DEF IInv, UpstreamChanges

\* A tick makes everything one older.
LEMMA TickIInv == ASSUME IInv, Tick PROVE IInv'
<1>1. since' = [v \in Versions |-> IF v < upstream THEN AtMost(Limit, since[v] + 1) ELSE 0]
  BY DEF Tick
<1>2. upstream' = upstream /\ local' = local /\ upstream \in Nat /\ upstream <= MaxVersion
  BY TimeAssumption DEF Tick, IInv, Versions
<1>3. Limit \in Nat
  BY TimeAssumption DEF Limit
<1>4. since' \in [Versions -> 0 .. Limit]
  BY <1>1, <1>3 DEF IInv, AtMost, Versions
<1>5. \A v \in Versions : v >= upstream' => since'[v] = 0
  BY <1>1, <1>2 DEF Versions
<1>6. \A v \in 0 .. upstream : v \in Versions /\ since[v] \in Nat /\ since'[v] <= since[v] + 1
  BY <1>1, <1>2, <1>3, TimeAssumption DEF IInv, AtMost, Versions
<1>7. CacheInv'
  <2>1. CASE cache = None
    BY <2>1 DEF Tick, CacheInv
  <2>2. CASE cache # None
    <3>1. cache.version \in 1 .. upstream /\ cache.age \in 0 .. TTL
          /\ (cache.age < TTL => since[cache.version] <= cache.age + Timeout + StoreTime)
      BY <2>2 DEF IInv, CacheInv
    <3>2. cache'.version = cache.version /\ cache'.age = AtMost(TTL, cache.age + 1)
      BY <2>2 DEF Tick
    <3>3. since'[cache.version] <= since[cache.version] + 1 /\ since[cache.version] \in Nat
          /\ since'[cache.version] \in Nat
      BY <1>2, <1>3, <1>4, <1>6, <3>1 DEF Versions
    <3> QED  BY <1>2, <3>1, <3>2, <3>3, TimeAssumption DEF CacheInv, AtMost
  <2> QED  BY <2>1, <2>2
<1>8. ASSUME NEW r \in Requests PROVE CallInv(r)'
  <2>1. CallInv(r)
    BY DEF IInv
  <2>2. CASE call[r].pc = "sent"
    <3>1. call'[r] = Waiting(r, "sent", call[r].age + 1, call[r].reply) /\ call[r].age < Timeout
      BY <2>2 DEF Tick
    <3>2. /\ call'[r].pc = "sent" /\ call'[r].age = call[r].age + 1
          /\ call'[r].reply = call[r].reply /\ call'[r].present = call[r].present
      BY <3>1 DEF Waiting
    <3>3. call'[r].age \in 0 .. Timeout
      BY <2>1, <2>2, <3>1, <3>2, TimeAssumption DEF CallInv
    <3>4. ASSUME call[r].reply # None PROVE Fresh(call[r].reply, call[r].age)'
      <4>1. call[r].reply \in 0 .. upstream /\ since[call[r].reply] <= call[r].age
            /\ call[r].age \in 0 .. Timeout
        BY <2>1, <2>2, <3>4 DEF CallInv, Fresh
      <4>2. since'[call[r].reply] <= call[r].age + 1
        <5>1. since[call[r].reply] \in Nat /\ since'[call[r].reply] <= since[call[r].reply] + 1
              /\ since'[call[r].reply] \in Nat
          BY <1>3, <1>4, <1>6, <4>1
        <5> QED  BY <4>1, <5>1, TimeAssumption
      <4> QED  BY <1>2, <3>2, <4>1, <4>2 DEF Fresh
    <3> QED  BY <1>2, <2>1, <2>2, <3>2, <3>3, <3>4 DEF CallInv, Fresh
  <2>3. CASE call[r].pc = "store"
    <3>1. call'[r] = Waiting(r, "store", call[r].age + 1, call[r].reply) /\ call[r].age < StoreTime
      BY <2>3 DEF Tick
    <3>2. /\ call'[r].pc = "store" /\ call'[r].age = call[r].age + 1
          /\ call'[r].reply = call[r].reply /\ call'[r].present = call[r].present
      BY <3>1 DEF Waiting
    <3>3. /\ call[r].reply \in 0 .. upstream /\ since[call[r].reply] <= Timeout + call[r].age
          /\ call[r].age \in 0 .. StoreTime
      BY <2>1, <2>3 DEF CallInv, Fresh
    <3>4. call'[r].age \in 0 .. StoreTime
      BY <3>1, <3>2, <3>3, TimeAssumption
    <3>5. since'[call[r].reply] <= Timeout + call'[r].age
      <4>1. since[call[r].reply] \in Nat /\ since'[call[r].reply] <= since[call[r].reply] + 1
            /\ since'[call[r].reply] \in Nat
        BY <1>3, <1>4, <1>6, <3>3
      <4> QED  BY <3>2, <3>3, <4>1, TimeAssumption
    <3> QED  BY <1>2, <2>1, <2>3, <3>2, <3>3, <3>4, <3>5 DEF CallInv, Fresh
  <2>4. CASE call[r].pc \notin {"sent", "store"}
    <3>1. call'[r] = call[r]
      BY <2>4 DEF Tick
    <3> QED  BY <1>2, <2>1, <2>4, <3>1 DEF CallInv
  <2> QED  BY <2>2, <2>3, <2>4
<1> QED  BY <1>2, <1>4, <1>5, <1>7, <1>8 DEF IInv, Tick

\* The asset is indexed: calls that found nothing stay as they are.
LEMMA ArrivesIInv == ASSUME IInv, LocalArrives PROVE IInv'
<1>1. ASSUME NEW r \in Requests PROVE CallInv(r)'
  BY DEF IInv, LocalArrives, CallInv, Fresh
<1> QED  BY <1>1 DEF IInv, LocalArrives, CacheInv

\* A step of one call that leaves the provider and the index alone.
LEMMA StepIInv ==
    ASSUME IInv, NEW r \in Requests, NEW c, Goto(r, c), CacheInv', CallInv(r)',
           UNCHANGED <<local, upstream, since>>
    PROVE  IInv'
<1>1. ASSUME NEW q \in Requests, q # r PROVE CallInv(q)'
  <2>1. call'[q] = call[q] /\ CallInv(q)
    BY <1>1 DEF IInv, Goto
  <2> QED  BY <2>1 DEF CallInv, Fresh
<1>2. DOMAIN call' = Requests
  BY DEF IInv, Goto
<1> QED  BY <1>1, <1>2 DEF IInv

\* A call that is over: its answer is recent, and local if it must be.
LEMMA AnswerIInv ==
    ASSUME IInv, NEW r \in Requests, NEW from, NEW v, Answer(r, from, v), CacheInv',
           UNCHANGED <<local, upstream, since>>,
           from = "upstream" => v \in Versions /\ since[v] < TTL + Timeout + StoreTime,
           call[r].present => from = "local"
    PROVE  IInv'
<1> DEFINE o == IF from = "upstream" THEN Outdated(v) ELSE 0
           c == [pc |-> "done", from |-> from, present |-> call[r].present, outdated |-> o]
<1>1. o < TTL + Timeout + StoreTime
  BY TimeAssumption DEF Outdated
<1>2. Goto(r, c) /\ call'[r] = c
  BY DEF Answer, Goto, IInv
<1>3. /\ call'[r].pc = "done" /\ call'[r].outdated = o
      /\ call'[r].present = call[r].present /\ call'[r].from = from
  BY <1>2
<1>4. CallInv(r)'
  BY <1>1, <1>3 DEF CallInv
<1> HIDE DEF c
<1> QED  BY <1>2, <1>4, StepIInv

\* The query of the index.
LEMMA LookupIInv ==
    ASSUME IInv, NEW r \in Requests, Ask(r) \/ Lookup(r) \/ LookupFails(r) PROVE IInv'
<1>0. CallInv(r) /\ DOMAIN call = Requests
  BY DEF IInv
<1>1. CASE Ask(r)
  <2>1. Goto(r, [pc |-> "lookup", present |-> local]) /\ UNCHANGED <<local, upstream, since, cache>>
    BY <1>1 DEF Ask
  <2>2. call'[r].pc = "lookup" /\ call'[r].present = local
    BY <1>0, <2>1 DEF Goto
  <2>3. CallInv(r)' /\ CacheInv'
    BY <2>1, <2>2 DEF CallInv, CacheInv, IInv
  <2> QED  BY <2>1, <2>3, StepIInv
<1>2. CASE Lookup(r) /\ local
  <2>1. Answer(r, "local", None) /\ UNCHANGED <<local, upstream, since, cache>>
    BY <1>2 DEF Lookup
  <2>2. CacheInv'
    BY <2>1 DEF CacheInv, IInv
  <2> QED  BY <2>1, <2>2, AnswerIInv
<1>3. CASE (Lookup(r) /\ ~local) \/ LookupFails(r)
  <2>1. PICK present \in {call[r].present, FALSE} :
            /\ Goto(r, Miss(present)) /\ UNCHANGED <<local, upstream, since, cache>>
            /\ call[r].pc = "lookup" /\ (present = FALSE \/ ~local)
    BY Zenon, <1>3 DEF Lookup, LookupFails
  <2>2. call'[r].pc = "cached" /\ call'[r].present = present
    BY <1>0, <2>1 DEF Goto, Miss
  <2>3. CallInv(r)' /\ CacheInv'
    BY <1>0, <2>1, <2>2 DEF CallInv, CacheInv, IInv
  <2> QED  BY <2>1, <2>3, StepIInv
<1> QED  BY <1>1, <1>2, <1>3 DEF Lookup

\* The cache, and the request that is sent on a miss.
LEMMA CachedIInv ==
    ASSUME IInv, NEW r \in Requests, Cached(r) \/ CachedFails(r) \/ Serve(r) PROVE IInv'
<1>0. CallInv(r) /\ DOMAIN call = Requests /\ UNCHANGED <<local, upstream, since, cache>>
  BY DEF IInv, Cached, CachedFails, Serve
<1>1. CacheInv'
  BY <1>0 DEF CacheInv, IInv
<1>2. CASE call[r].pc = "cached" /\ Send(r)
  <2>1. Goto(r, Waiting(r, "sent", 0, None))
    BY <1>2 DEF Send
  <2>2. /\ call'[r].pc = "sent" /\ call'[r].age = 0 /\ call'[r].reply = None
        /\ call'[r].present = call[r].present
    BY <1>0, <2>1 DEF Goto, Waiting
  <2>3. CallInv(r)'
    BY <1>0, <1>2, <2>2, TimeAssumption DEF CallInv
  <2> QED  BY <1>0, <1>1, <2>1, <2>3, StepIInv
<1>3. CASE Cached(r) /\ ~Send(r)
  <2>1. /\ call[r].pc = "cached" /\ cache # None /\ cache.age < TTL
        /\ Answer(r, "upstream", cache.version)
    BY <1>3 DEF Cached
  <2>2. cache.version \in Versions /\ since[cache.version] < TTL + Timeout + StoreTime
    <3>1. /\ cache.version \in 1 .. upstream /\ cache.age \in 0 .. TTL
          /\ since[cache.version] <= cache.age + Timeout + StoreTime
      BY <2>1 DEF IInv, CacheInv
    <3>2. cache.version \in Versions
      BY <3>1, TimeAssumption DEF IInv, Versions
    <3>3. since[cache.version] \in Nat
      BY <3>2, TimeAssumption DEF IInv, Limit
    <3> QED  BY <2>1, <3>1, <3>2, <3>3, TimeAssumption
  <2>3. ~call[r].present
    BY <1>0, <2>1 DEF CallInv
  <2> QED  BY <1>0, <1>1, <2>1, <2>2, <2>3, AnswerIInv
<1>4. CASE Serve(r)
  <2>1. call[r].pc = "sent" /\ Goto(r, Waiting(r, "sent", call[r].age, upstream))
    BY <1>4 DEF Serve
  <2>2. /\ call'[r].pc = "sent" /\ call'[r].age = call[r].age /\ call'[r].reply = upstream
        /\ call'[r].present = call[r].present
    BY <1>0, <2>1 DEF Goto, Waiting
  <2>3. upstream \in 0 .. upstream /\ since[upstream] <= call[r].age
    BY <1>0, <2>1, TimeAssumption DEF IInv, Versions, CallInv
  <2>4. CallInv(r)'
    BY <1>0, <2>1, <2>2, <2>3 DEF CallInv, Fresh
  <2> QED  BY <1>0, <1>1, <2>1, <2>4, StepIInv
<1> QED  BY <1>2, <1>3, <1>4 DEF Cached, CachedFails

\* The reply and the end of the call.
LEMMA ReplyIInv ==
    ASSUME IInv, NEW r \in Requests,
           Receive(r) \/ RequestFails(r) \/ Store(r) \/ StoreFails(r)
    PROVE  IInv'
<1>0. CallInv(r) /\ DOMAIN call = Requests /\ UNCHANGED <<local, upstream, since>>
  BY DEF IInv, Receive, RequestFails, Store, StoreFails
<1>1. CASE call[r].pc = "sent" /\ Answer(r, "error", None) /\ cache' = cache
  <2>1. CacheInv' /\ ~call[r].present
    BY <1>0, <1>1 DEF CacheInv, CallInv, IInv
  <2> QED  BY <1>0, <1>1, <2>1, AnswerIInv
<1>2. CASE Receive(r) /\ call[r].reply # 0
  <2>1. /\ call[r].pc = "sent" /\ call[r].reply # None /\ cache' = cache
        /\ Goto(r, Waiting(r, "store", 0, call[r].reply))
    BY <1>2 DEF Receive
  <2>2. /\ call'[r].pc = "store" /\ call'[r].age = 0 /\ call'[r].reply = call[r].reply
        /\ call'[r].present = call[r].present
    BY <1>0, <2>1 DEF Goto, Waiting
  <2>3. CacheInv'
    BY <1>0, <2>1 DEF CacheInv, IInv
  <2>4. call[r].reply \in 0 .. upstream /\ since[call[r].reply] <= Timeout
    <3>1. /\ call[r].reply \in 0 .. upstream /\ since[call[r].reply] <= call[r].age
          /\ call[r].age \in 0 .. Timeout
      BY <1>0, <2>1 DEF CallInv, Fresh
    <3>2. since[call[r].reply] \in Nat
      BY <3>1, TimeAssumption DEF IInv, Versions, Limit
    <3> QED  BY <3>1, <3>2, TimeAssumption
  <2>5. CallInv(r)'
    <3>1. /\ call'[r].age \in 0 .. StoreTime
          /\ since[call[r].reply] <= Timeout + call'[r].age
      BY <2>2, <2>4, TimeAssumption
    <3>2. call[r].reply # 0 /\ ~call[r].present
      BY <1>0, <1>2, <2>1 DEF CallInv
    <3> QED  BY <1>0, <2>2, <2>4, <3>1, <3>2, Zenon DEF CallInv, Fresh
  <2> QED  BY <1>0, <2>1, <2>3, <2>5, StepIInv
<1>3. CASE Store(r) \/ StoreFails(r)
  <2>1. /\ call[r].pc = "store" /\ Decoded(r)
        /\ cache' = cache \/ cache' = [version |-> call[r].reply, age |-> 0]
    BY <1>3 DEF Store, StoreFails
  <2>2. /\ call[r].reply \in 1 .. upstream /\ call[r].age \in 0 .. StoreTime
        /\ since[call[r].reply] <= Timeout + call[r].age
    BY <1>0, <2>1 DEF CallInv, Fresh, IInv
  <2>3. call[r].reply \in Versions /\ since[call[r].reply] \in Nat
    BY <2>2, TimeAssumption DEF IInv, Versions, Limit
  <2>4. CacheInv'
    <3>1. CASE cache' = cache
      BY <1>0, <3>1, Zenon DEF CacheInv, IInv
    <3>2. CASE cache' = [version |-> call[r].reply, age |-> 0]
      <4>1. cache'.version = call[r].reply /\ cache'.age = 0
        BY <3>2
      <4>2. /\ cache'.age \in 0 .. TTL
            /\ since[call[r].reply] <= cache'.age + Timeout + StoreTime
        BY <2>2, <2>3, <4>1, TimeAssumption
      <4> QED  BY <1>0, <2>2, <4>1, <4>2, Zenon DEF CacheInv
    <3> QED  BY <2>1, <3>1, <3>2
  <2>5. since[call[r].reply] < TTL + Timeout + StoreTime /\ ~call[r].present
    BY <1>0, <2>1, <2>2, <2>3, TimeAssumption DEF CallInv
  <2> QED  BY <1>0, <2>1, <2>3, <2>4, <2>5, AnswerIInv DEF Decoded
<1> QED  BY <1>1, <1>2, <1>3 DEF Receive, RequestFails

\* Every step of the server, of the provider and of time keeps the invariant.
LEMMA NextIInv == IInv /\ [Next]_vars => IInv'
<1> SUFFICES ASSUME IInv, [Next]_vars PROVE IInv'
  OBVIOUS
<1>1. CASE UNCHANGED vars
  <2>1. ASSUME NEW r \in Requests PROVE CallInv(r)'
    BY <1>1 DEF IInv, vars, CallInv, Fresh
  <2> QED  BY <1>1, <2>1 DEF IInv, vars, CacheInv
<1> QED  BY <1>1, ArrivesIInv, ChangeIInv, TickIInv, LookupIInv, CachedIInv, ReplyIInv
         DEF Next, Step

\* The age of a cached answer, and that of an answer on its way, bounds how long
\* ago it stopped being what the provider holds (Fallback::get, Fallback::cached).
THEOREM Invariance == Spec => []IInv
BY InitIInv, NextIInv, PTL DEF Spec

\* An answer that comes from upstream was the provider's less than TTL + Timeout +
\* StoreTime ago, whatever the number of calls that share the cache row (Fallback::get).
THEOREM RecentAnswers == Spec => []AnswerIsRecent
<1>1. IInv => AnswerIsRecent
  BY DEF IInv, CallInv, AnswerIsRecent
<1> QED  BY <1>1, Invariance, PTL

\* A cache row and a request in flight are never older than what ends them.
THEOREM Bounded == Spec => []TypeOK
<1>1. IInv => TypeOK
  BY TimeAssumption DEF IInv, CallInv, CacheInv, TypeOK, Fresh, Versions
<1> QED  BY <1>1, Invariance, PTL

\* A call that begins when the index has the asset is answered from the index,
\* unless its own query of the index failed (get_asset).
THEOREM LocalDataWins == Spec => []LocalWins
<1>1. IInv => LocalWins
  BY DEF IInv, CallInv, LocalWins
<1> QED  BY <1>1, Invariance, PTL

-----------------------------------------------------------------------------
(* Numbers and channels *)

\* A non-empty set of natural numbers has a least element.
LEMMA HasLeast ==
    ASSUME NEW S \in SUBSET Nat, S # {}
    PROVE  \E x \in S : \A y \in S : x <= y
<1> DEFINE Less == {ss \in Nat \X Nat : ss[1] < ss[2]}
<1>1. IsWellFoundedOn(Less, Nat)
  BY NatLessThanWellFounded, Zenon DEF OpToRel
<1>2. PICK x \in S : \A y \in S : ~(<<y, x>> \in Less)
  <2> HIDE DEF Less
  <2> QED  BY <1>1, WFMin, Zenon
<1>3. ASSUME NEW y \in S PROVE x <= y
  <2>1. x \in Nat /\ y \in Nat /\ ~(<<y, x>> \in Less)
    BY Zenon, <1>2
  <2>2. y < x => <<y, x>> \in Less
    BY Zenon, <2>1
  <2> QED  BY <2>1, <2>2
<1> QED  BY Zenon, <1>3

\* A bounded one has a greatest element.
LEMMA HasGreatest ==
    ASSUME NEW n \in Nat, NEW S \in SUBSET (0..n), S # {}
    PROVE  \E x \in S : \A y \in S : y <= x
<1> DEFINE T == {n - x : x \in S}
<1>1. T \in SUBSET Nat /\ T # {}
  <2>1. \A x \in 0..n : n - x \in Nat
    OBVIOUS
  <2> QED  BY <2>1, Zenon
<1>2. PICK t \in T : \A y \in T : t <= y
  BY Zenon, <1>1, HasLeast
<1>3. PICK x \in S : t = n - x
  BY Zenon, <1>2
<1>4. \A y \in S : y <= x
  BY <1>2, <1>3
<1> QED  BY Zenon, <1>4

\* A finite one is bounded.
LEMMA FiniteBounded ==
    ASSUME NEW S \in SUBSET Nat, IsFiniteSet(S)
    PROVE  \E n \in Nat : S \subseteq 0..n
<1>1. PICK n \in Nat : ExistsSurjection(1..n, S)
  BY FS_NatSurjection, Zenon
<1>2. PICK f \in [1..n -> S] : \A x \in S : \E i \in 1..n : f[i] = x
  BY <1>1, Zenon DEF ExistsSurjection, Surjection
<1> DEFINE Bound(i, b) == \A j \in 1..n : j <= i => f[j] <= b
           Bad == {i \in 0..n : ~\E b \in Nat : Bound(i, b)}
<1>3. Bad = {}
  <2> SUFFICES ASSUME Bad # {} PROVE FALSE
    BY Zenon
  <2>1. Bad \in SUBSET Nat
    OBVIOUS
  <2> HIDE DEF Bad
  <2>2. PICK i \in Bad : \A y \in Bad : i <= y
    BY <2>1, HasLeast, Zenon
  <2>3. i \in 0..n /\ ~\E b \in Nat : Bound(i, b)
    BY <2>2, Zenon DEF Bad
  <2>4. CASE i = 0
    <3>1. Bound(0, 0)
      OBVIOUS
    <3> QED  BY <2>3, <2>4, <3>1
  <2>5. CASE i # 0
    <3>1. i - 1 \in 0..n /\ i \in 1..n /\ ~(i <= i - 1)
      BY <2>3, <2>5
    <3>2. i - 1 \notin Bad
      BY <2>2, <3>1, Zenon
    <3>3. PICK b \in Nat : Bound(i - 1, b)
      BY <3>1, <3>2, Zenon DEF Bad
    <3>4. f[i] \in Nat
      BY <3>1, Zenon
    <3>5. \A j \in 1..n : j <= i => j = i \/ j <= i - 1
      BY <3>1
    <3>6. \A j \in 1..n : f[j] \in Nat
      BY Zenon
    <3>7. Bound(i, IF b <= f[i] THEN f[i] ELSE b)
      BY <3>3, <3>4, <3>5, <3>6
    <3>8. (IF b <= f[i] THEN f[i] ELSE b) \in Nat
      BY <3>4
    <3> QED  BY <2>3, <3>7, <3>8, Zenon
  <2> QED  BY <2>4, <2>5, Zenon
<1>4. n \in 0..n
  OBVIOUS
<1>5. PICK b \in Nat : Bound(n, b)
  BY <1>3, <1>4, Zenon
<1>6. \A j \in 1..n : f[j] \in Nat /\ f[j] <= b
  <2>1. \A j \in 1..n : j <= n
    OBVIOUS
  <2>2. \A j \in 1..n : f[j] \in Nat
    BY Zenon
  <2> QED  BY <1>5, <2>1, <2>2, Zenon
<1>7. \A x \in S : x \in Nat /\ x <= b
  BY <1>2, <1>6, Zenon
<1> QED  BY <1>7

\* Max names the greatest element of a finite one.
LEMMA MaxOfFinite ==
    ASSUME NEW S \in SUBSET Nat, IsFiniteSet(S), S # {}
    PROVE  Max(S) \in S /\ \A y \in S : y <= Max(S)
<1>1. \E x \in S : \A y \in S : x >= y
  <2>1. PICK n \in Nat : S \in SUBSET (0..n)
    BY FiniteBounded, Zenon
  <2> QED  BY <2>1, HasGreatest, Zenon
<1> QED  BY Zenon, <1>1 DEF Max

\* Min names the least element.
LEMMA MinOfNumbers ==
    ASSUME NEW S \in SUBSET Nat, S # {}
    PROVE  Min(S) \in S /\ \A y \in S : Min(S) <= y
<1>1. \E x \in S : \A y \in S : x <= y
  BY Zenon, HasLeast
<1> QED  BY Zenon, <1>1 DEF Min

\* A channel holds only what its type allows.
LEMMA ElementOf ==
    ASSUME NEW S, NEW s \in Seq(S), NEW i \in DOMAIN s PROVE s[i] \in S
  OBVIOUS

\* Putting in adds one element and loses none.
LEMMA AppendRange ==
    ASSUME NEW S PROVE
    \A s \in Seq(S) : \A e \in S :
        Append(s, e) \in Seq(S) /\ \A x : x \in Range(Append(s, e)) <=> x \in Range(s) \/ x = e
<1> SUFFICES ASSUME NEW s \in Seq(S), NEW e \in S
             PROVE  /\ Append(s, e) \in Seq(S)
                    /\ \A x : x \in Range(Append(s, e)) <=> x \in Range(s) \/ x = e
  BY Zenon
<1>1. Append(s, e) \in Seq(S) /\ Len(s) \in Nat /\ Len(Append(s, e)) = Len(s) + 1
  OBVIOUS
<1>2. \A i \in 1..Len(s) : Append(s, e)[i] = s[i]
  OBVIOUS
<1>3. DOMAIN s = 1..Len(s) /\ DOMAIN Append(s, e) = 1..(Len(s) + 1)
  BY <1>1
<1>4. Append(s, e)[Len(s) + 1] = e
  OBVIOUS
<1>5. \A i \in 1..(Len(s) + 1) : i \in 1..Len(s) \/ i = Len(s) + 1
  BY <1>1
<1>6. (\A i \in 1..Len(s) : i \in 1..(Len(s) + 1)) /\ Len(s) + 1 \in 1..(Len(s) + 1)
  BY <1>1
<1>7. ASSUME NEW x PROVE x \in Range(Append(s, e)) <=> x \in Range(s) \/ x = e
  <2>1. x \in Range(Append(s, e)) <=> \E i \in 1..(Len(s) + 1) : x = Append(s, e)[i]
    BY <1>3, Zenon DEF Range
  <2>2. x \in Range(s) <=> \E i \in 1..Len(s) : x = s[i]
    BY <1>3, Zenon DEF Range
  <2> QED  BY <1>2, <1>4, <1>5, <1>6, <2>1, <2>2, Zenon
<1> QED  BY <1>1, <1>7, Zenon

\* Taking out loses none but the one taken.
LEMMA TailRange ==
    ASSUME NEW S, NEW s \in Seq(S), s # <<>>
    PROVE  /\ Head(s) \in S /\ Tail(s) \in Seq(S) /\ Len(Tail(s)) <= Len(s)
           /\ \A x : x \in Range(s) <=> x = Head(s) \/ x \in Range(Tail(s))
<1>1. Tail(s) \in Seq(S) /\ Head(s) = s[1] /\ Head(s) \in S
  OBVIOUS
<1>2. Len(s) \in Nat \ {0} /\ Len(Tail(s)) = Len(s) - 1
  OBVIOUS
<1>3. \A i \in 1..Len(Tail(s)) : Tail(s)[i] = s[i + 1] /\ i + 1 \in 1..Len(s)
  BY <1>2
<1>4. \A i \in 1..Len(s) : i = 1 \/ (i - 1 \in 1..Len(Tail(s)) /\ (i - 1) + 1 = i)
  BY <1>2
<1>5. DOMAIN s = 1..Len(s) /\ DOMAIN Tail(s) = 1..Len(Tail(s)) /\ 1 \in 1..Len(s)
  BY <1>1, <1>2
<1>6. ASSUME NEW x PROVE x \in Range(s) <=> x = Head(s) \/ x \in Range(Tail(s))
  <2>1. x \in Range(s) <=> \E i \in 1..Len(s) : x = s[i]
    BY <1>5, Zenon DEF Range
  <2>2. x \in Range(Tail(s)) <=> \E i \in 1..Len(Tail(s)) : x = Tail(s)[i]
    BY <1>5, Zenon DEF Range
  <2>3. \A i \in 1..Len(s) : i = 1 \/ \E j \in 1..Len(Tail(s)) : Tail(s)[j] = s[i]
    BY <1>3, <1>4, Zenon
  <2> QED  BY <1>1, <1>3, <1>5, <2>1, <2>2, <2>3, Zenon
<1>7. Len(Tail(s)) <= Len(s)
  BY <1>2
<1> QED  BY <1>1, <1>6, <1>7, Zenon

-----------------------------------------------------------------------------
(* The backfill command *)

\* The index has no change of the transaction.
Clean(t) == job.live \/ history[t].seqs \cap known = {}

Wanted(t) == history[t].ok /\ Clean(t)

\* Nothing between the ends of a gap is known, and only such transactions move on.
OnlyMissed ==
    /\ \A g \in main.gaps \cup Range(gaps) \cup Range(crawl) : \A t \in Within(g) : Clean(t)
    /\ \A w \in Crawlers : \A t \in crawl[w].batch : Wanted(t)
    /\ \A t \in Range(sigs) \cup pushed : Wanted(t)
    /\ \A w \in TxWorkers : fetch[w] # 0 => Wanted(fetch[w])

\* The tree's task has found the transaction.
Found(t) == \E g \in main.gaps : t \in Within(g)

Crawled(t) == \E w \in Crawlers : \/ ~crawl[w].last /\ t \in Within(crawl[w])
                                  \/ t \in crawl[w].batch

\* Some stage has it, or has pushed it.
Placed(t) ==
    \/ Found(t) \/ (\E g \in Range(gaps) : t \in Within(g)) \/ Crawled(t)
    \/ t \in Range(sigs) \/ (\E w \in TxWorkers : fetch[w] = t) \/ t \in pushed

KnownBefore(t) == \E k \in known : TxOf(k) < t
KnownAfter(t) == \E k \in known : t < TxOf(k)

\* What each query leaves to the next ones.
AllPlaced ==
    /\ main.pc = "done" => main.gaps = {}
    /\ ~job.live /\ ~logged => \A t \in Txs : Missed(t) =>
          /\ main.pc = "upper" /\ KnownBefore(t) /\ KnownAfter(t) => Found(t)
          /\ main.pc = "lower" /\ (known = {} \/ KnownBefore(t)) => Found(t)
          /\ main.pc \in {"send", "done"} => Placed(t)

\* The inductive invariant.
CrawlInv == CrawlTypeOK /\ OnlyMissed /\ AllPlaced

-----------------------------------------------------------------------------
(* The history of the tree *)

\* What CrawlAssumption says of the history of the job's tree.
LEMMA HistoryFacts ==
    ASSUME job \in Jobs
    PROVE  /\ Len(history) \in Nat /\ Newest \in Nat
           /\ \A t \in Txs : t \in Nat /\ 0 < t /\ t < Newest /\ t \in 0..Len(history)
           /\ \A t \in Txs : /\ history[t].ok \in BOOLEAN
                             /\ history[t].seqs \in SUBSET (Nat \ {0})
                             /\ ~history[t].ok => history[t].seqs = {}
           /\ \A t, u \in Txs : t < u =>
                 \A r \in history[t].seqs, s \in history[u].seqs : r < s
           /\ Seqs \in SUBSET (Nat \ {0}) /\ Seqs \in SUBSET Nat /\ IsFiniteSet(Seqs)
           /\ \A g : Within(g) \in SUBSET Txs /\ IsFiniteSet(Within(g))
<1>1. /\ history \in Seq([ok : BOOLEAN, seqs : SUBSET (Nat \ {0})]) /\ InOrder(history)
      /\ \A t \in DOMAIN history : IsFiniteSet(history[t].seqs)
  BY CrawlAssumption, Zenon DEF history
<1>2. Len(history) \in Nat /\ DOMAIN history = Txs
  BY <1>1 DEF Txs
<1>3. Newest \in Nat /\ \A t \in Txs : t \in Nat /\ 0 < t /\ t < Newest /\ t \in 0..Len(history)
  BY <1>2 DEF Txs, Newest
<1>4. \A t \in Txs : history[t] \in [ok : BOOLEAN, seqs : SUBSET (Nat \ {0})]
  <2> DEFINE S == [ok : BOOLEAN, seqs : SUBSET (Nat \ {0})]
  <2>1. history \in Seq(S)
    BY <1>1, Zenon
  <2> HIDE DEF S
  <2>2. \A t \in Txs : history[t] \in S
    BY <1>2, <2>1, ElementOf, Zenon
  <2> QED  BY <2>2, Zenon DEF S
<1>5. \A t \in Txs : history[t].ok \in BOOLEAN /\ history[t].seqs \in SUBSET (Nat \ {0})
  BY <1>4, Zenon
<1>6. /\ \A t \in Txs : ~history[t].ok => history[t].seqs = {}
      /\ \A t, u \in Txs : t < u =>
            \A r \in history[t].seqs, s \in history[u].seqs : r < s
  BY <1>1, <1>2, Zenon DEF InOrder
<1>7. Seqs \in SUBSET (Nat \ {0})
  BY <1>5, Zenon DEF Seqs
<1>8. IsFiniteSet(Txs)
  BY <1>2, FS_Interval DEF Txs
<1>9. IsFiniteSet(Seqs)
  <2> DEFINE S == {history[t].seqs : t \in Txs}
  <2>1. IsFiniteSet(S)
    <3> DEFINE f == [t \in Txs |-> history[t].seqs]
    <3>1. f \in Surjection(Txs, S)
      BY Zenon DEF Surjection
    <3> HIDE DEF f, S
    <3> QED  BY <1>8, <3>1, FS_Surjection, Zenon
  <2>2. \A T \in S : IsFiniteSet(T)
    BY <1>1, <1>2, Zenon
  <2> HIDE DEF S
  <2>3. IsFiniteSet(UNION S)
    BY <2>1, <2>2, FS_UNION, Zenon
  <2> QED  BY <2>3, Zenon DEF Seqs, S
<1>10. \A g : Within(g) \in SUBSET Txs /\ IsFiniteSet(Within(g))
  <2> SUFFICES ASSUME NEW g PROVE Within(g) \in SUBSET Txs /\ IsFiniteSet(Within(g))
    BY Zenon
  <2>1. Within(g) \in SUBSET Txs
    BY Zenon DEF Within
  <2> QED  BY <1>8, <2>1, FS_Subset, Zenon
<1>11. Seqs \in SUBSET Nat
  BY <1>7, Zenon
<1> QED  BY <1>2, <1>3, <1>5, <1>6, <1>7, <1>9, <1>10, <1>11, Zenon

\* The transaction that a known number belongs to.
LEMMA TxOfSeq ==
    ASSUME job \in Jobs
    PROVE  \A s \in Seqs : TxOf(s) \in Txs /\ s \in history[TxOf(s)].seqs
<1> SUFFICES ASSUME NEW s \in Seqs PROVE TxOf(s) \in Txs /\ s \in history[TxOf(s)].seqs
  BY Zenon
<1>1. \E t \in Txs : s \in history[t].seqs
  BY Zenon DEF Seqs
<1> QED  BY <1>1, Zenon DEF TxOf

\* Numbers and transactions are in the same order.
LEMMA SameOrder ==
    ASSUME job \in Jobs, NEW k \in Seqs, NEW t \in Txs, NEW s \in history[t].seqs
    PROVE  /\ t < TxOf(k) => s < k
           /\ TxOf(k) < t => k < s
           /\ s < k /\ k \notin history[t].seqs => t < TxOf(k)
           /\ k < s /\ k \notin history[t].seqs => TxOf(k) < t
<1>1. TxOf(k) \in Txs /\ k \in history[TxOf(k)].seqs
  BY TxOfSeq, Zenon
<1>2. t \in Nat /\ TxOf(k) \in Nat /\ k \in Nat /\ s \in Nat
  BY <1>1, HistoryFacts, Zenon
<1>3. (t < TxOf(k) => s < k) /\ (TxOf(k) < t => k < s)
  BY <1>1, HistoryFacts, Zenon
<1>4. k \notin history[t].seqs => t # TxOf(k)
  BY <1>1, Zenon
<1> QED  BY <1>2, <1>3, <1>4

-----------------------------------------------------------------------------
\* Nothing was found.
LEMMA InitCrawl == CrawlInit => CrawlInv
<1> SUFFICES ASSUME CrawlInit PROVE CrawlInv
  OBVIOUS
<1>0. job \in Jobs
  BY Zenon DEF CrawlInit
<1>1. Newest \in Nat /\ Len(history) \in Nat
  BY <1>0, HistoryFacts, Zenon
<1>2. CrawlTypeOK
  <2>1. 0 \in 0..Newest /\ 0 \in 0..Len(history)
    BY <1>1
  <2>2. <<>> \in Seq(Txs) /\ <<>> \in Seq(TreeGapFill)
    OBVIOUS
  <2>3. Len(<<>>) <= GapChannel /\ Len(<<>>) <= SigChannel
    BY CrawlAssumption
  <2>4. main \in [pc : {"start", "gaps", "upper", "lower", "send", "done", "dropped", "skipped",
                        "error"},
                  gaps : SUBSET TreeGapFill]
    BY Zenon DEF CrawlInit
  <2>5. crawl \in [Crawlers -> [before : 0..Newest, until : 0..Newest, batch : SUBSET Txs,
                                last : BOOLEAN]]
    BY <2>1, Zenon DEF CrawlInit
  <2>6. fetch \in [TxWorkers -> 0..Len(history)]
    BY <2>1, Zenon DEF CrawlInit
  <2>7. known \subseteq Seqs /\ pushed \subseteq Txs /\ logged \in BOOLEAN
    BY Zenon DEF CrawlInit
  <2>8. gaps = <<>> /\ sigs = <<>>
    BY Zenon DEF CrawlInit
  <2>9. pool \in [idle : Nat, callers : SUBSET TxWorkers]
    <3>1. job.connections \in Nat
      BY <1>0, CrawlAssumption, Zenon
    <3> QED  BY <3>1, Zenon DEF CrawlInit
  <2> QED  BY <1>0, <2>2, <2>3, <2>4, <2>5, <2>6, <2>7, <2>8, <2>9, Zenon DEF CrawlTypeOK
<1>3. OnlyMissed
  <2>1. DOMAIN gaps = {} /\ DOMAIN sigs = {}
    <3>1. gaps = <<>> /\ sigs = <<>>
      BY Zenon DEF CrawlInit
    <3> QED  BY <3>1
  <2>2. Range(gaps) = {} /\ Range(sigs) = {}
    BY <2>1, Zenon DEF Range
  <2>3. \A g \in Range(crawl) : g.before = 0
    <3>1. DOMAIN crawl = Crawlers /\ \A w \in Crawlers : crawl[w].before = 0
      BY Zenon DEF CrawlInit
    <3> QED  BY <3>1, Zenon DEF Range
  <2>4. \A t \in Txs : ~(t < 0)
    BY <1>1 DEF Txs
  <2>5. \A g \in Range(crawl) : Within(g) = {}
    BY <2>3, <2>4, Zenon DEF Within
  <2>6. main.gaps = {} /\ pushed = {} /\ \A w \in Crawlers : crawl[w].batch = {}
    BY Zenon DEF CrawlInit
  <2>7. \A w \in TxWorkers : fetch[w] = 0
    BY Zenon DEF CrawlInit
  <2> QED  BY <2>2, <2>5, <2>6, <2>7, Zenon DEF OnlyMissed
<1>4. AllPlaced
  BY DEF CrawlInit, AllPlaced
<1> QED  BY <1>2, <1>3, <1>4, Zenon DEF CrawlInv

\* The history depends on the job alone.
LEMMA SameHistory ==
    ASSUME job' = job
    PROVE  /\ history' = history /\ Txs' = Txs /\ Newest' = Newest /\ Seqs' = Seqs
           /\ TreeGapFill' = TreeGapFill /\ \A g : Within(g)' = Within(g)
<1>1. history' = history
  BY Zenon DEF history
<1>2. Txs' = Txs /\ Newest' = Newest
  BY <1>1, Zenon DEF Txs, Newest
<1>3. Seqs' = Seqs
  BY <1>1, <1>2, Zenon DEF Seqs
<1>4. TreeGapFill' = TreeGapFill /\ \A g : Within(g)' = Within(g)
  BY <1>2, Zenon DEF TreeGapFill, Within
<1> QED  BY <1>1, <1>2, <1>3, <1>4, Zenon

\* No step changes the job.
LEMMA JobKept == [CrawlNext]_crawlVars => job' = job
<1> SUFFICES ASSUME [CrawlNext]_crawlVars PROVE job' = job
  OBVIOUS
<1>1. Main => job' = job
  BY Zenon DEF Main, FetchTree, QueryFails, FindGaps, FindUpper, FindLower, SendGap
<1>2. \A s : Index(s) => job' = job
  BY Zenon DEF Index
<1>3. \A w : Crawl(w) => job' = job
  BY Zenon DEF Crawl, CrawlStart, CrawlPage, CrawlSend, CrawlFails
<1>4. \A w : Fetch(w) => job' = job
  BY Zenon DEF Fetch, FetchStart, get_transaction, FetchFails,
                 push_transaction, PushFails
<1> QED  BY <1>1, <1>2, <1>3, <1>4, Zenon DEF CrawlNext, crawlVars

\* A transaction worker fetches or pushes.
Queues(w) == get_transaction(w) \/ FetchFails(w) \/ push_transaction(w) \/ PushFails(w)

\* It goes on with its transaction, has pushed it, or has logged an error.
LEMMA QueueFacts ==
    ASSUME NEW w \in TxWorkers, Queues(w)
    PROVE  /\ sigs' = sigs
           /\ \/ UNCHANGED <<fetch, pushed, logged>>
              \/ /\ fetch[w] # 0 /\ fetch' = [fetch EXCEPT ![w] = 0]
                 /\ \/ pushed' = pushed \cup {fetch[w]} /\ logged' = logged
                    \/ pushed' = pushed /\ logged' = TRUE
BY Zenon DEF Queues, get_transaction, FetchFails, push_transaction, PushFails

\* The pool keeps its type: a connection is dropped only while one is left.
LEMMA CrawlPoolStep ==
    ASSUME CrawlTypeOK, [CrawlNext]_crawlVars
    PROVE  pool' \in [idle : Nat, callers : SUBSET TxWorkers]
<1>0. pool \in [idle : Nat, callers : SUBSET TxWorkers]
  BY Zenon DEF CrawlTypeOK
<1>1. CASE pool' = pool
  BY <1>0, <1>1, Zenon
<1>2. ASSUME NEW w \in TxWorkers, get_transaction(w)
      PROVE  pool' \in [idle : Nat, callers : SUBSET TxWorkers]
  BY <1>0, <1>2 DEF get_transaction
<1>3. ASSUME NEW w \in TxWorkers, push_transaction(w)
      PROVE  pool' \in [idle : Nat, callers : SUBSET TxWorkers]
  BY <1>0, <1>3 DEF push_transaction
<1>4. ASSUME NEW w \in TxWorkers, PushFails(w)
      PROVE  pool' \in [idle : Nat, callers : SUBSET TxWorkers]
  <2>1. pool.idle \in Nat /\ pool.idle > 0 /\ pool.callers \in SUBSET TxWorkers
    BY <1>0, <1>4 DEF PushFails
  <2>2. pool.idle - 1 \in Nat
    BY <2>1
  <2> QED  BY <1>4, <2>1, <2>2, Zenon DEF PushFails
<1>5. pool' = pool \/ \E w \in TxWorkers : get_transaction(w) \/ push_transaction(w) \/ PushFails(w)
  BY Zenon DEF CrawlNext, crawlVars, Main, Crawl, Fetch, FetchTree, QueryFails, FindGaps,
               FindUpper, FindLower, SendGap, Index, CrawlStart, CrawlPage, CrawlSend,
               CrawlFails, FetchStart, FetchFails
<1> QED  BY <1>1, <1>2, <1>3, <1>4, <1>5, Zenon

CrawlType == [before : 0..Newest, until : 0..Newest, batch : SUBSET Txs, last : BOOLEAN]

MainType ==
    [pc : {"start", "gaps", "upper", "lower", "send", "done", "dropped", "skipped", "error"},
     gaps : SUBSET TreeGapFill]

\* What a page is, and what it does to the crawl of worker w.
LEMMA PageFacts ==
    ASSUME CrawlTypeOK, NEW w \in Crawlers, CrawlPage(w)
    PROVE  /\ crawl'[w].batch \subseteq Within(crawl[w])
           /\ \A t \in crawl'[w].batch : history[t].ok
           /\ crawl'[w].before = crawl[w].before \/ crawl'[w].before \in Within(crawl[w])
           /\ crawl'[w].until = crawl[w].until
           /\ \A t \in Within(crawl[w]) : history[t].ok =>
                 t \in crawl'[w].batch \/ (~crawl'[w].last /\ t < crawl'[w].before)
           /\ crawl' \in [Crawlers -> CrawlType]
           /\ \A v \in Crawlers : v # w => crawl'[v] = crawl[v]
<1> DEFINE W == Within(crawl[w])
           good(p) == {t \in p : history[t].ok}
<1>1. PICK p \in Pages(crawl[w]) :
         crawl' = [crawl EXCEPT ![w].batch = good(p), ![w].last = Cardinality(p) < PageSize,
                                ![w].before = IF good(p) = {} THEN @ ELSE Min(good(p))]
  BY Zenon DEF CrawlPage
<1>2. /\ p \in SUBSET W /\ Cardinality(p) = Min({PageSize, Cardinality(W)})
      /\ \A t \in p, u \in W \ p : u < t
  BY Zenon DEF Pages
<1>3. job \in Jobs /\ crawl \in [Crawlers -> CrawlType]
  BY Zenon DEF CrawlTypeOK, CrawlType
<1>4. IsFiniteSet(W) /\ W \in SUBSET Txs /\ \A t \in Txs : t \in Nat
  BY <1>3, HistoryFacts, Zenon
<1>5. Cardinality(p) < PageSize => p = W
  <2> SUFFICES ASSUME Cardinality(p) < PageSize PROVE p = W
    BY Zenon
  <2> HIDE DEF W
  <2>1. Cardinality(W) \in Nat /\ PageSize \in Nat
    BY <1>4, FS_CardinalityType, CrawlAssumption, Zenon
  <2>2. Cardinality(p) \in {PageSize, Cardinality(W)}
    <3>1. {PageSize, Cardinality(W)} \in SUBSET Nat /\ {PageSize, Cardinality(W)} # {}
      BY <2>1, Zenon
    <3> QED  BY <1>2, <3>1, MinOfNumbers, Zenon
  <2>3. Cardinality(p) = Cardinality(W)
    BY <2>1, <2>2
  <2> QED  BY <1>2, <1>4, <2>3, FS_Subset, Zenon
<1>6. good(p) = {} \/ (Min(good(p)) \in good(p) /\ \A t \in good(p) : Min(good(p)) <= t)
  <2> DEFINE G == good(p)
  <2>1. G \in SUBSET Nat
    BY <1>2, <1>4, Zenon
  <2> HIDE DEF G
  <2>2. G = {} \/ (Min(G) \in G /\ \A t \in G : Min(G) <= t)
    BY <2>1, MinOfNumbers, Zenon
  <2> QED  BY <2>2, Zenon DEF G
<1> DEFINE G == good(p)
           m == IF G = {} THEN crawl[w].before ELSE Min(G)
           d == [crawl[w] EXCEPT !.batch = G, !.last = Cardinality(p) < PageSize, !.before = m]
<1>7. G \in SUBSET Txs /\ crawl[w] \in CrawlType
  BY <1>2, <1>3, <1>4, Zenon
<1>8. m \in 0..Newest
  <2>1. \A t \in Txs : t \in 0..Newest
    BY <1>3, HistoryFacts
  <2> QED  BY <1>6, <1>7, <2>1, Zenon DEF CrawlType
<1>9. crawl' = [crawl EXCEPT ![w] = d]
  BY Zenon, <1>1, <1>3
<1>10. (Cardinality(p) < PageSize) \in BOOLEAN
  <2>1. Cardinality(p) \in Nat
    BY <1>2, <1>4, FS_Subset, FS_CardinalityType, Zenon
  <2> QED  BY <2>1, CrawlAssumption
<1> HIDE DEF G, m
<1>11. /\ d \in CrawlType /\ d.before = m /\ d.until = crawl[w].until
       /\ d.batch = G /\ (d.last <=> Cardinality(p) < PageSize)
  <2>1. DOMAIN crawl[w] = {"before", "until", "batch", "last"} /\ crawl[w].until \in 0..Newest
    BY <1>7 DEF CrawlType
  <2>2. d.before = m /\ d.until = crawl[w].until /\ d.batch = G
    BY <2>1
  <2>3. d.last <=> Cardinality(p) < PageSize
    BY <2>1, Zenon
  <2>4. d \in CrawlType
    BY <1>7, <1>8, <1>10, <2>1 DEF CrawlType
  <2> QED  BY <2>2, <2>3, <2>4, Zenon
<1> HIDE DEF d
<1>12. /\ crawl'[w] = d
       /\ crawl' \in [Crawlers -> CrawlType] /\ \A v \in Crawlers : v # w => crawl'[v] = crawl[v]
  BY <1>3, <1>9, <1>11, Zenon
<1>13. m = crawl[w].before \/ m \in W
  BY <1>2, <1>6, Zenon DEF G, m
<1>14. ASSUME NEW t \in W, history[t].ok, t \notin G
       PROVE  ~(Cardinality(p) < PageSize) /\ t < m
  <2>1. t \notin p
    BY <1>14, Zenon DEF G
  <2>2. \A s \in p : t < s
    BY <1>2, <2>1, Zenon
  <2>3. t < crawl[w].before
    BY Zenon DEF Within
  <2>4. t < m
    BY <1>2, <1>6, <2>2, <2>3, Zenon DEF G, m
  <2> QED  BY <1>5, <2>1, <2>4, Zenon
<1>15. G \subseteq W /\ \A t \in G : history[t].ok
  BY <1>2, Zenon DEF G
<1> QED  BY <1>11, <1>12, <1>13, <1>14, <1>15, Zenon

\* What a signature that is sent does to the crawl of worker w.
LEMMA SendFacts ==
    ASSUME CrawlTypeOK, NEW w \in Crawlers, CrawlSend(w)
    PROVE  \E m \in crawl[w].batch :
              /\ m \in Txs /\ sigs' = Append(sigs, m) /\ crawl' \in [Crawlers -> CrawlType]
              /\ crawl'[w].batch = crawl[w].batch \ {m} /\ crawl'[w].last = crawl[w].last
              /\ crawl'[w].before = crawl[w].before /\ crawl'[w].until = crawl[w].until
              /\ \A v \in Crawlers : v # w => crawl'[v] = crawl[v]
<1> DEFINE m == Max(crawl[w].batch)
           d == [crawl[w] EXCEPT !.batch = @ \ {m}]
<1>1. job \in Jobs /\ crawl \in [Crawlers -> CrawlType]
  BY Zenon DEF CrawlTypeOK, CrawlType
<1>2. crawl[w] \in CrawlType
  BY <1>1, Zenon
<1>3. crawl[w].batch \in SUBSET Txs
  BY <1>2, Zenon DEF CrawlType
<1>4. Len(history) \in Nat /\ \A t \in Txs : t \in Nat
  BY <1>1, HistoryFacts, Zenon
<1>5. IsFiniteSet(crawl[w].batch)
  <2>1. IsFiniteSet(Txs)
    BY <1>4, FS_Interval DEF Txs
  <2> QED  BY <1>3, <2>1, FS_Subset, Zenon
<1>6. m \in crawl[w].batch
  <2>1. crawl[w].batch \in SUBSET Nat /\ crawl[w].batch # {}
    BY <1>3, <1>4, Zenon DEF CrawlSend
  <2> QED  BY <1>5, <2>1, MaxOfFinite, Zenon
<1>7. sigs' = Append(sigs, m) /\ crawl' = [crawl EXCEPT ![w].batch = @ \ {m}]
  BY Zenon DEF CrawlSend
<1> HIDE DEF m
<1>8. crawl' = [crawl EXCEPT ![w] = d]
  BY <1>1, <1>7
<1>9. DOMAIN crawl[w] = {"before", "until", "batch", "last"}
  BY <1>2 DEF CrawlType
<1>10. d.before = crawl[w].before /\ d.until = crawl[w].until /\ d.batch = crawl[w].batch \ {m}
  BY <1>9
<1>11. d.last = crawl[w].last
  BY <1>9, Zenon
<1>12. d \in CrawlType
  BY <1>2, <1>9 DEF CrawlType
<1> HIDE DEF d
<1>13. crawl'[w] = d /\ crawl' \in [Crawlers -> CrawlType]
  BY <1>1, <1>8, <1>12, Zenon
<1>14. \A v \in Crawlers : v # w => crawl'[v] = crawl[v]
  BY <1>1, <1>8, Zenon
<1> QED  BY <1>3, <1>6, <1>7, <1>10, <1>11, <1>13, <1>14, Zenon

\* What a gap that is taken from the channel does.
LEMMA StartFacts ==
    ASSUME CrawlTypeOK, NEW w \in Crawlers, CrawlStart(w)
    PROVE  /\ crawl' \in [Crawlers -> CrawlType] /\ Head(gaps) \in TreeGapFill
           /\ crawl'[w].before = Head(gaps).before /\ crawl'[w].until = Head(gaps).until
           /\ crawl'[w].batch = {} /\ ~crawl'[w].last
           /\ \A v \in Crawlers : v # w => crawl'[v] = crawl[v]
           /\ gaps' \in Seq(TreeGapFill) /\ Len(gaps') <= GapChannel
           /\ \A x : x \in Range(gaps) <=> x = Head(gaps) \/ x \in Range(gaps')
<1> DEFINE d == [before |-> Head(gaps).before, until |-> Head(gaps).until, batch |-> {},
                 last |-> FALSE]
<1>1. crawl \in [Crawlers -> CrawlType] /\ gaps \in Seq(TreeGapFill) /\ Len(gaps) <= GapChannel
  BY Zenon DEF CrawlTypeOK, CrawlType
<1>2. gaps # <<>> /\ gaps' = Tail(gaps) /\ crawl' = [crawl EXCEPT ![w] = d]
  BY Zenon DEF CrawlStart
<1>3. /\ Head(gaps) \in TreeGapFill /\ gaps' \in Seq(TreeGapFill) /\ Len(gaps') <= Len(gaps)
      /\ \A x : x \in Range(gaps) <=> x = Head(gaps) \/ x \in Range(gaps')
  BY <1>1, <1>2, TailRange, Zenon
<1>4. Len(gaps') <= GapChannel
  BY <1>1, <1>3, CrawlAssumption
<1>5. d \in CrawlType
  BY <1>3, Zenon DEF CrawlType, TreeGapFill
<1>6. crawl'[w] = d /\ crawl' \in [Crawlers -> CrawlType]
  <2> HIDE DEF d
  <2> QED  BY <1>1, <1>2, <1>5, Zenon
<1>7. /\ crawl'[w].before = Head(gaps).before /\ crawl'[w].until = Head(gaps).until
      /\ crawl'[w].batch = {} /\ ~crawl'[w].last
  BY <1>6
<1>8. \A v \in Crawlers : v # w => crawl'[v] = crawl[v]
  <2> HIDE DEF d
  <2> QED  BY <1>1, <1>2, Zenon
<1> QED  BY <1>3, <1>4, <1>6, <1>7, <1>8, Zenon

\* A gap moves from the tree's task to the channel, until none is left.
LEMMA SendGapFacts ==
    ASSUME CrawlTypeOK, SendGap
    PROVE  /\ main'.gaps \subseteq main.gaps
           /\ \A x \in Range(gaps') : x \in Range(gaps) \/ x \in main.gaps
           /\ \A x \in main.gaps : x \in main'.gaps \/ x \in Range(gaps')
           /\ \A x \in Range(gaps) : x \in Range(gaps')
           /\ main'.pc = "done" => main'.gaps = {}
<1>1. main \in MainType /\ gaps \in Seq(TreeGapFill)
  BY Zenon DEF CrawlTypeOK, MainType
<1>2. CASE main.gaps = {}
  <2>1. main' = [main EXCEPT !.pc = "done"] /\ gaps' = gaps
    BY <1>2, Zenon DEF SendGap
  <2>2. main'.gaps = main.gaps
    BY <1>1, <2>1 DEF MainType
  <2> QED  BY <1>2, <2>1, <2>2, Zenon
<1>3. CASE main.gaps # {}
  <2>1. PICK g \in main.gaps : gaps' = Append(gaps, g) /\ main' = [main EXCEPT !.gaps = @ \ {g}]
    BY <1>3, Zenon DEF SendGap
  <2>2. main'.gaps = main.gaps \ {g} /\ main'.pc = "send"
    BY <1>1, <2>1 DEF MainType, SendGap
  <2>3. main.gaps \in SUBSET TreeGapFill
    BY <1>1, Zenon DEF MainType
  <2>4. \A x : x \in Range(gaps') <=> x \in Range(gaps) \/ x = g
    BY <1>1, <2>1, <2>3, AppendRange, Zenon
  <2> QED  BY <2>2, <2>4, Zenon
<1> QED  BY <1>2, <1>3, Zenon

\* The ends of what is known.
LEMMA KnownEnds ==
    ASSUME CrawlTypeOK, known # {}
    PROVE  /\ Max(known) \in known /\ \A k \in known : k <= Max(known)
           /\ Min(known) \in known /\ \A k \in known : Min(known) <= k
<1>1. job \in Jobs /\ known \in SUBSET Seqs
  BY Zenon DEF CrawlTypeOK
<1>2. known \in SUBSET Nat /\ IsFiniteSet(known)
  BY <1>1, HistoryFacts, FS_Subset, Zenon
<1> QED  BY <1>2, MaxOfFinite, MinOfNumbers, Zenon

\* The gaps that the three queries find.
LEMMA FoundTypes ==
    ASSUME CrawlTypeOK
    PROVE  \A s, r \in known : /\ Gap(TxOf(s), TxOf(r)) \in TreeGapFill
                               /\ Gap(Newest, TxOf(r)) \in TreeGapFill
                               /\ Gap(TxOf(s), Oldest) \in TreeGapFill
<1> SUFFICES ASSUME NEW s \in known, NEW r \in known
             PROVE  /\ Gap(TxOf(s), TxOf(r)) \in TreeGapFill
                    /\ Gap(Newest, TxOf(r)) \in TreeGapFill
                    /\ Gap(TxOf(s), Oldest) \in TreeGapFill
  BY Zenon
<1>1. job \in Jobs /\ s \in Seqs /\ r \in Seqs
  BY Zenon DEF CrawlTypeOK
<1>2. TxOf(s) \in Txs /\ TxOf(r) \in Txs
  BY <1>1, TxOfSeq, Zenon
<1>3. Newest \in Nat /\ \A t \in Txs : t \in Nat /\ t < Newest
  BY <1>1, HistoryFacts, Zenon
<1>4. TxOf(s) \in 0..Newest /\ TxOf(r) \in 0..Newest /\ Newest \in 0..Newest /\ Oldest \in 0..Newest
  BY <1>2, <1>3 DEF Oldest
<1> QED  BY <1>4, Zenon DEF Gap, TreeGapFill

\* Every step keeps the types.
LEMMA CrawlTypeStep == CrawlTypeOK /\ [CrawlNext]_crawlVars => CrawlTypeOK'
<1> SUFFICES ASSUME CrawlTypeOK, [CrawlNext]_crawlVars PROVE CrawlTypeOK'
  OBVIOUS
<1>0. /\ job \in Jobs /\ known \subseteq Seqs /\ pushed \subseteq Txs /\ logged \in BOOLEAN
      /\ main \in MainType /\ gaps \in Seq(TreeGapFill) /\ Len(gaps) <= GapChannel
      /\ crawl \in [Crawlers -> CrawlType]
      /\ sigs \in Seq(Txs) /\ Len(sigs) <= SigChannel
      /\ fetch \in [TxWorkers -> 0..Len(history)]
  BY Zenon DEF CrawlTypeOK, MainType, CrawlType
<1>1. job' = job
  BY JobKept, Zenon
<1>2. /\ Txs' = Txs /\ Seqs' = Seqs /\ TreeGapFill' = TreeGapFill /\ history' = history
      /\ Newest' = Newest
  BY <1>1, SameHistory, Zenon
<1>3. MainType' = MainType /\ CrawlType' = CrawlType
  BY <1>2, Zenon DEF MainType, CrawlType
<1>4. SUFFICES /\ known' \subseteq Seqs /\ pushed' \subseteq Txs /\ logged' \in BOOLEAN
               /\ main' \in MainType /\ gaps' \in Seq(TreeGapFill) /\ Len(gaps') <= GapChannel
               /\ crawl' \in [Crawlers -> CrawlType]
               /\ sigs' \in Seq(Txs) /\ Len(sigs') <= SigChannel
               /\ fetch' \in [TxWorkers -> 0..Len(history)]
  BY <1>0, <1>1, <1>2, <1>3, CrawlPoolStep, Zenon DEF CrawlTypeOK, MainType, CrawlType
<1>5. CASE Main
  <2>1. UNCHANGED <<known, crawl, sigs, fetch, pushed, logged>>
    BY <1>5, Zenon DEF Main, FetchTree, QueryFails, FindGaps, FindUpper, FindLower, SendGap
  <2>2. SUFFICES main' \in MainType /\ gaps' \in Seq(TreeGapFill) /\ Len(gaps') <= GapChannel
    BY <1>0, <2>1, Zenon
  <2>3. main.gaps \in SUBSET TreeGapFill
    BY <1>0, Zenon DEF MainType
  <2>4. CASE FetchTree
    <3>1. gaps' = gaps
      BY <2>4, Zenon DEF FetchTree
    <3>2. \E pc \in {"gaps", "error", "skipped"} : main' = [main EXCEPT !.pc = pc]
      BY <2>4, Zenon DEF FetchTree
    <3>3. main' \in MainType
      BY <1>0, <3>2 DEF MainType
    <3> QED  BY <1>0, <3>1, <3>3, Zenon
  <2>5. CASE QueryFails
    BY <1>0, <2>5, Zenon DEF QueryFails, MainType
  <2>6. CASE FindGaps
    <3>1. \A p \in known \X known : Gap(TxOf(p[2]), TxOf(p[1])) \in TreeGapFill
      BY FoundTypes, Zenon
    <3>2. main'.pc = "upper" /\ main'.gaps \in SUBSET TreeGapFill /\ gaps' = gaps
      BY <2>6, <3>1, Zenon DEF FindGaps
    <3>3. main' = [pc |-> main'.pc, gaps |-> main'.gaps]
      BY <2>6, Zenon DEF FindGaps
    <3> QED  BY <1>0, <3>2, <3>3, Zenon DEF MainType
  <2>7. CASE FindUpper
    <3>1. known # {} => Gap(Newest, TxOf(Max(known))) \in TreeGapFill
      BY <1>0, KnownEnds, FoundTypes, Zenon
    <3>2. Gap(Newest, Oldest) \in TreeGapFill
      <4>1. Newest \in 0..Newest /\ Oldest \in 0..Newest
        BY <1>0, HistoryFacts DEF Oldest
      <4> QED  BY <4>1, Zenon DEF Gap, TreeGapFill
    <3>3. main'.pc = "lower" /\ main'.gaps \in SUBSET TreeGapFill /\ gaps' = gaps
      BY <2>3, <2>7, <3>1, <3>2, Zenon DEF FindUpper
    <3>4. main' = [pc |-> main'.pc, gaps |-> main'.gaps]
      BY <2>7, Zenon DEF FindUpper
    <3> QED  BY <1>0, <3>3, <3>4, Zenon DEF MainType
  <2>8. CASE FindLower
    <3>1. known # {} => Gap(TxOf(Min(known)), Oldest) \in TreeGapFill
      BY <1>0, KnownEnds, FoundTypes, Zenon
    <3>2. main'.pc = "send" /\ main'.gaps \in SUBSET TreeGapFill /\ gaps' = gaps
      BY <2>3, <2>8, <3>1, Zenon DEF FindLower
    <3>3. main' = [pc |-> main'.pc, gaps |-> main'.gaps]
      BY <2>8, Zenon DEF FindLower
    <3> QED  BY <1>0, <3>2, <3>3, Zenon DEF MainType
  <2>9. CASE SendGap
    <3>1. CASE main.gaps = {}
      <4>1. main' = [main EXCEPT !.pc = "done"] /\ gaps' = gaps
        BY <2>9, <3>1, Zenon DEF SendGap
      <4>2. main' \in MainType
        BY <1>0, <4>1 DEF MainType
      <4> QED  BY <1>0, <4>1, <4>2, Zenon
    <3>2. CASE main.gaps # {}
      <4>1. Len(gaps) < GapChannel
        BY <2>9, <3>2, Zenon DEF SendGap
      <4>2. PICK g \in main.gaps : gaps' = Append(gaps, g) /\ main' = [main EXCEPT !.gaps = @ \ {g}]
        BY <2>9, <3>2, Zenon DEF SendGap
      <4>3. main' \in MainType
        BY <1>0, <4>2 DEF MainType
      <4>4. gaps' \in Seq(TreeGapFill)
        BY <1>0, <2>3, <4>2, AppendRange, Zenon
      <4>5. g \in TreeGapFill
        BY <2>3, Zenon
      <4>6. Len(gaps') <= GapChannel
        BY <1>0, <4>1, <4>2, <4>5, CrawlAssumption
      <4> QED  BY <4>3, <4>4, <4>6, Zenon
    <3> QED  BY <3>1, <3>2, Zenon
  <2> QED  BY <1>5, <2>4, <2>5, <2>6, <2>7, <2>8, <2>9, Zenon DEF Main
<1> DEFINE Typed ==
        /\ known' \subseteq Seqs /\ pushed' \subseteq Txs /\ logged' \in BOOLEAN
        /\ main' \in MainType /\ gaps' \in Seq(TreeGapFill) /\ Len(gaps') <= GapChannel
        /\ crawl' \in [Crawlers -> CrawlType]
        /\ sigs' \in Seq(Txs) /\ Len(sigs') <= SigChannel
        /\ fetch' \in [TxWorkers -> 0..Len(history)]
<1>6. ASSUME NEW s \in Seqs, Index(s) PROVE Typed
  BY <1>0, <1>6, Zenon DEF Index
<1>7. ASSUME NEW w \in Crawlers, Crawl(w) PROVE Typed
  <2>1. UNCHANGED <<known, main, fetch, pushed>>
    BY <1>7, Zenon DEF Crawl, CrawlStart, CrawlPage, CrawlSend, CrawlFails
  <2>2. CASE CrawlStart(w)
    <3>1. UNCHANGED <<sigs, logged>>
      BY <2>2, Zenon DEF CrawlStart
    <3> QED  BY <1>0, <2>1, <2>2, <3>1, StartFacts, Zenon
  <2>3. CASE CrawlPage(w)
    <3>1. UNCHANGED <<sigs, logged, gaps>>
      BY <2>3, Zenon DEF CrawlPage
    <3>2. crawl' \in [Crawlers -> CrawlType]
      BY <2>3, PageFacts, Zenon
    <3> QED  BY <1>0, <2>1, <3>1, <3>2, Zenon
  <2>4. CASE CrawlSend(w)
    <3>1. UNCHANGED <<gaps, logged>> /\ Len(sigs) < SigChannel
      BY <2>4, Zenon DEF CrawlSend
    <3>2. PICK m \in crawl[w].batch :
             m \in Txs /\ sigs' = Append(sigs, m) /\ crawl' \in [Crawlers -> CrawlType]
      BY <2>4, SendFacts, Zenon
    <3>3. sigs' \in Seq(Txs)
      BY <1>0, <3>2, AppendRange, Zenon
    <3>4. Len(sigs') <= SigChannel
      BY <1>0, <3>1, <3>2, CrawlAssumption
    <3> QED  BY <1>0, <2>1, <3>1, <3>2, <3>3, <3>4, Zenon
  <2>5. CASE CrawlFails(w)
    <3>1. UNCHANGED <<sigs, gaps>> /\ logged' \in BOOLEAN
      BY <2>5, Zenon DEF CrawlFails
    <3>2. crawl' = [crawl EXCEPT ![w].last = TRUE]
      BY <2>5, Zenon DEF CrawlFails
    <3>3. crawl' \in [Crawlers -> CrawlType]
      BY <1>0, <3>2 DEF CrawlType
    <3> QED  BY <1>0, <2>1, <3>1, <3>3, Zenon
  <2> QED  BY <1>7, <2>2, <2>3, <2>4, <2>5, Zenon DEF Crawl
<1>8. ASSUME NEW w \in TxWorkers, Fetch(w) PROVE Typed
  <2>1. UNCHANGED <<known, main, gaps, crawl>>
    BY <1>8, Zenon DEF Fetch, FetchStart, get_transaction, FetchFails,
                 push_transaction, PushFails
  <2>2. \A t \in Txs : t \in 0..Len(history)
    BY <1>0, HistoryFacts, Zenon
  <2>3. CASE FetchStart(w)
    <3>1. /\ sigs # <<>> /\ sigs' = Tail(sigs) /\ fetch' = [fetch EXCEPT ![w] = Head(sigs)]
          /\ UNCHANGED <<pushed, logged>>
      BY <2>3, Zenon DEF FetchStart
    <3>2. Head(sigs) \in Txs /\ sigs' \in Seq(Txs) /\ Len(sigs') <= Len(sigs)
      BY <1>0, <3>1, TailRange, Zenon
    <3>3. Len(sigs') <= SigChannel
      BY <1>0, <3>2, CrawlAssumption
    <3>4. fetch' \in [TxWorkers -> 0..Len(history)]
      BY <1>0, <2>2, <3>1, <3>2, Zenon
    <3> QED  BY <1>0, <2>1, <3>1, <3>2, <3>3, <3>4, Zenon
  <2>4. CASE Queues(w)
    <3>1. /\ sigs' = sigs
          /\ \/ UNCHANGED <<fetch, pushed, logged>>
             \/ /\ fetch[w] # 0 /\ fetch' = [fetch EXCEPT ![w] = 0]
                /\ \/ pushed' = pushed \cup {fetch[w]} /\ logged' = logged
                   \/ pushed' = pushed /\ logged' = TRUE
      BY <2>4, QueueFacts, Zenon
    <3>2. 0 \in 0..Len(history) /\ (fetch[w] # 0 => fetch[w] \in Txs)
      <4>1. fetch[w] \in 0..Len(history) /\ Len(history) \in Nat
        BY <1>0, HistoryFacts, Zenon
      <4> QED  BY <4>1 DEF Txs
    <3>3. fetch' \in [TxWorkers -> 0..Len(history)]
      BY <1>0, <3>1, <3>2, Zenon
    <3>4. pushed' \subseteq Txs /\ logged' \in BOOLEAN
      BY <1>0, <3>1, <3>2, Zenon
    <3> QED  BY <1>0, <2>1, <3>1, <3>3, <3>4, Zenon
  <2> QED  BY <1>8, <2>3, <2>4, Zenon DEF Fetch, Queues
<1>9. CASE UNCHANGED crawlVars
  BY <1>0, <1>9, Zenon DEF crawlVars
<1> QED  BY <1>5, <1>6, <1>7, <1>8, <1>9, Zenon DEF CrawlNext

-----------------------------------------------------------------------------
\* A gap between two known numbers holds no known number but those between them.
LEMMA KnownWithin ==
    ASSUME CrawlTypeOK, NEW t \in Txs, NEW k \in known, k \in history[t].seqs
    PROVE  \A s \in known : /\ s \in Nat /\ k \in Nat
                            /\ TxOf(s) < t => s < k
                            /\ t < TxOf(s) => k < s
<1>1. job \in Jobs /\ known \subseteq Seqs
  BY Zenon DEF CrawlTypeOK
<1>2. known \subseteq Nat
  BY <1>1, HistoryFacts, Zenon
<1> QED  BY <1>1, <1>2, SameOrder, Zenon

\* Each of the queries finds gaps that hold no known number.
LEMMA FindsClean ==
    ASSUME CrawlTypeOK, FindGaps \/ FindUpper \/ FindLower
    PROVE  \A g \in main'.gaps : g \in main.gaps \/ \A t \in Within(g) : Clean(t)
<1> SUFFICES ASSUME NEW g \in main'.gaps, g \notin main.gaps,
                    NEW t \in Within(g), NEW k \in known, k \in history[t].seqs
             PROVE  FALSE
  BY Zenon DEF Clean
<1>1. t \in Txs /\ g.until < t /\ t < g.before
  BY Zenon DEF Within
<1>2. \A s \in known : /\ s \in Nat /\ k \in Nat
                       /\ TxOf(s) < t => s < k
                       /\ t < TxOf(s) => k < s
  BY <1>1, KnownWithin, Zenon
<1>3. CASE FindGaps
  <2>1. PICK p \in known \X known : /\ g = Gap(TxOf(p[2]), TxOf(p[1]))
                                    /\ \A m \in known : m <= p[1] \/ m >= p[2]
    BY <1>3, Zenon DEF FindGaps
  <2>2. p[1] \in known /\ p[2] \in known /\ TxOf(p[1]) < t /\ t < TxOf(p[2])
    BY <1>1, <2>1, Zenon DEF Gap
  <2>3. p[1] < k /\ k < p[2] /\ p[1] \in Nat /\ p[2] \in Nat /\ k \in Nat
    BY <1>2, <2>2, Zenon
  <2>4. k <= p[1] \/ k >= p[2]
    BY <2>1, Zenon
  <2> QED  BY <2>3, <2>4
<1>4. CASE FindUpper
  <2>1. known # {}
    OBVIOUS
  <2>2. g = Gap(Newest, TxOf(Max(known)))
    BY <1>4, <2>1, Zenon DEF FindUpper
  <2>3. TxOf(Max(known)) < t
    BY <1>1, <2>2, Zenon DEF Gap
  <2>4. Max(known) \in known /\ k <= Max(known)
    BY <2>1, KnownEnds, Zenon
  <2>5. Max(known) < k /\ k \in Nat /\ Max(known) \in Nat
    BY <1>2, <2>3, <2>4, Zenon
  <2> QED  BY <2>4, <2>5
<1>5. CASE FindLower
  <2>1. known # {}
    OBVIOUS
  <2>2. g = Gap(TxOf(Min(known)), Oldest)
    BY <1>5, <2>1, Zenon DEF FindLower
  <2>3. t < TxOf(Min(known))
    BY <1>1, <2>2, Zenon DEF Gap
  <2>4. Min(known) \in known /\ Min(known) <= k
    BY <2>1, KnownEnds, Zenon
  <2>5. k < Min(known) /\ k \in Nat /\ Min(known) \in Nat
    BY <1>2, <2>3, <2>4, Zenon
  <2> QED  BY <2>4, <2>5
<1> QED  BY <1>3, <1>4, <1>5, Zenon

\* A gap is as clean as one that holds it.
LEMMA OnlyMissedStep == CrawlTypeOK /\ OnlyMissed /\ [CrawlNext]_crawlVars => OnlyMissed'
<1> SUFFICES ASSUME CrawlTypeOK, OnlyMissed, [CrawlNext]_crawlVars PROVE OnlyMissed'
  OBVIOUS
<1>0. /\ job \in Jobs /\ known \subseteq Seqs /\ pushed \subseteq Txs
      /\ main \in MainType /\ gaps \in Seq(TreeGapFill)
      /\ crawl \in [Crawlers -> CrawlType] /\ sigs \in Seq(Txs)
      /\ fetch \in [TxWorkers -> 0..Len(history)]
  BY Zenon DEF CrawlTypeOK, MainType, CrawlType
<1>1. job' = job
  BY JobKept, Zenon
<1>2. history' = history /\ \A g : Within(g)' = Within(g)
  BY <1>1, SameHistory, Zenon
<1>3. \A t : Clean(t) => Clean(t)'
  <2>1. job.live \/ known' = known
    BY Zenon DEF CrawlNext, crawlVars, Main, Crawl, Fetch, FetchTree, QueryFails, FindGaps,
                 FindUpper, FindLower, SendGap, Index, CrawlStart, CrawlPage, CrawlSend,
                 CrawlFails, FetchStart, get_transaction, FetchFails,
                 push_transaction, PushFails
  <2> QED  BY <1>1, <1>2, <2>1, Zenon DEF Clean
<1>4. \A t : Wanted(t) => Wanted(t)'
  BY <1>2, <1>3, Zenon DEF Wanted
<1> DEFINE CleanGap(g) == \A t \in Within(g) : Clean(t)
           Holds ==
             /\ \A g \in main'.gaps \cup Range(gaps') : CleanGap(g)
             /\ \A w \in Crawlers : CleanGap(crawl'[w])
             /\ \A w \in Crawlers : \A t \in crawl'[w].batch : Wanted(t)
             /\ \A t \in Range(sigs') \cup pushed' : Wanted(t)
             /\ \A w \in TxWorkers : fetch'[w] # 0 => Wanted(fetch'[w])
<1>5. SUFFICES Holds
  <2>1. DOMAIN crawl' = Crawlers
    BY CrawlTypeStep, Zenon DEF CrawlTypeOK
  <2> QED  BY <1>2, <1>3, <1>4, <2>1, Zenon DEF OnlyMissed, Range
<1>6. /\ \A g \in main.gaps : CleanGap(g)
      /\ \A g \in Range(gaps) : CleanGap(g)
      /\ \A w \in Crawlers : CleanGap(crawl[w])
      /\ \A w \in Crawlers : \A t \in crawl[w].batch : Wanted(t)
      /\ \A t \in Range(sigs) : Wanted(t)
      /\ \A t \in pushed : Wanted(t)
      /\ \A w \in TxWorkers : fetch[w] # 0 => Wanted(fetch[w])
  BY <1>0, Zenon DEF OnlyMissed, Range
<1>7. CASE Main
  <2>1. UNCHANGED <<crawl, sigs, fetch, pushed>>
    BY <1>7, Zenon DEF Main, FetchTree, QueryFails, FindGaps, FindUpper, FindLower, SendGap
  <2>2. SUFFICES (\A g \in main'.gaps : CleanGap(g)) /\ (\A g \in Range(gaps') : CleanGap(g))
    BY <1>6, <2>1, Zenon
  <2>3. CASE FetchTree
    <3>1. gaps' = gaps /\ \E pc : main' = [main EXCEPT !.pc = pc]
      BY <2>3, Zenon DEF FetchTree
    <3>2. main'.gaps = main.gaps
      BY <1>0, <3>1 DEF MainType
    <3> QED  BY <1>6, <3>1, <3>2, Zenon
  <2>4. CASE QueryFails
    BY <1>6, <2>4, Zenon DEF QueryFails
  <2>5. CASE FindGaps \/ FindUpper \/ FindLower
    <3>1. gaps' = gaps
      BY <2>5, Zenon DEF FindGaps, FindUpper, FindLower
    <3> QED  BY <1>6, <2>5, <3>1, FindsClean, Zenon
  <2>6. CASE SendGap
    <3>1. main'.gaps \subseteq main.gaps /\ \A x \in Range(gaps') : x \in Range(gaps) \/ x \in main.gaps
      BY <2>6, SendGapFacts, Zenon
    <3> QED  BY <1>6, <3>1, Zenon
  <2> QED  BY <1>7, <2>3, <2>4, <2>5, <2>6, Zenon DEF Main
<1>8. ASSUME NEW s \in Seqs, Index(s) PROVE Holds
  <2>1. UNCHANGED <<main, gaps, crawl, sigs, fetch, pushed>>
    BY <1>8, Zenon DEF Index
  <2> QED  BY <1>6, <2>1, Zenon
<1>9. ASSUME NEW w \in Crawlers, Crawl(w) PROVE Holds
  <2>1. UNCHANGED <<main, fetch, pushed>>
    BY <1>9, Zenon DEF Crawl, CrawlStart, CrawlPage, CrawlSend, CrawlFails
  <2>2. CASE CrawlStart(w)
    <3>1. sigs' = sigs
      BY <2>2, Zenon DEF CrawlStart
    <3>2. /\ crawl'[w].before = Head(gaps).before /\ crawl'[w].until = Head(gaps).until
          /\ crawl'[w].batch = {} /\ \A v \in Crawlers : v # w => crawl'[v] = crawl[v]
          /\ \A x : x \in Range(gaps) <=> x = Head(gaps) \/ x \in Range(gaps')
      BY <2>2, StartFacts, Zenon
    <3>3. CleanGap(crawl'[w])
      BY <1>6, <3>2, Zenon DEF Within
    <3> QED  BY <1>6, <2>1, <3>1, <3>2, <3>3, Zenon
  <2>3. CASE CrawlPage(w)
    <3>1. sigs' = sigs /\ gaps' = gaps
      BY <2>3, Zenon DEF CrawlPage
    <3> DEFINE W == Within(crawl[w])
    <3>2. /\ crawl'[w].batch \in SUBSET W /\ \A t \in crawl'[w].batch : history[t].ok
          /\ crawl'[w].before = crawl[w].before \/ crawl'[w].before \in W
          /\ crawl'[w].until = crawl[w].until
          /\ \A v \in Crawlers : v # w => crawl'[v] = crawl[v]
      BY <2>3, PageFacts, Zenon
    <3>3. Within(crawl'[w]) \subseteq W
      <4>1. \A t, u \in Txs : t \in Nat /\ u \in Nat
        BY <1>0, HistoryFacts, Zenon
      <4>2. crawl[w].before \in Nat
        <5>1. crawl[w].before \in 0..Newest /\ Newest \in Nat
          BY <1>0, HistoryFacts, Zenon DEF CrawlType
        <5> QED  BY <5>1
      <4>3. crawl'[w].before = crawl[w].before \/ (crawl'[w].before \in Txs /\ crawl'[w].before < crawl[w].before)
        BY <3>2, Zenon DEF Within
      <4>4. \A t \in Txs : t < crawl'[w].before => t < crawl[w].before
        BY <4>1, <4>2, <4>3
      <4> QED  BY <3>2, <4>4, Zenon DEF Within
    <3>4. CleanGap(crawl'[w]) /\ \A t \in crawl'[w].batch : Wanted(t)
      BY <1>6, <3>2, <3>3, Zenon DEF Wanted
    <3> QED  BY <1>6, <2>1, <3>1, <3>2, <3>4, Zenon
  <2>4. CASE CrawlSend(w)
    <3>1. gaps' = gaps
      BY <2>4, Zenon DEF CrawlSend
    <3>2. PICK m \in crawl[w].batch :
              /\ m \in Txs /\ sigs' = Append(sigs, m)
              /\ crawl'[w].batch = crawl[w].batch \ {m}
              /\ crawl'[w].before = crawl[w].before /\ crawl'[w].until = crawl[w].until
              /\ \A v \in Crawlers : v # w => crawl'[v] = crawl[v]
      BY <2>4, SendFacts, Zenon
    <3>3. \A x \in Range(sigs') : x \in Range(sigs) \/ x = m
      BY <1>0, <3>2, AppendRange, Zenon
    <3>4. CleanGap(crawl'[w])
      BY <1>6, <3>2, Zenon DEF Within
    <3> QED  BY <1>6, <2>1, <3>1, <3>2, <3>3, <3>4, Zenon
  <2>5. CASE CrawlFails(w)
    <3>1. sigs' = sigs /\ gaps' = gaps /\ crawl' = [crawl EXCEPT ![w].last = TRUE]
      BY <2>5, Zenon DEF CrawlFails
    <3>2. /\ crawl'[w].batch = crawl[w].batch /\ crawl'[w].before = crawl[w].before
          /\ crawl'[w].until = crawl[w].until
          /\ \A v \in Crawlers : v # w => crawl'[v] = crawl[v]
      BY <1>0, <3>1 DEF CrawlType
    <3>3. CleanGap(crawl'[w])
      BY <1>6, <3>2, Zenon DEF Within
    <3> QED  BY <1>6, <2>1, <3>1, <3>2, <3>3, Zenon
  <2> QED  BY <1>9, <2>2, <2>3, <2>4, <2>5, Zenon DEF Crawl
<1>10. ASSUME NEW w \in TxWorkers, Fetch(w) PROVE Holds
  <2>1. UNCHANGED <<main, gaps, crawl>>
    BY <1>10, Zenon DEF Fetch, FetchStart, get_transaction, FetchFails,
                 push_transaction, PushFails
  <2>2. CASE FetchStart(w)
    <3>1. /\ sigs # <<>> /\ sigs' = Tail(sigs) /\ fetch' = [fetch EXCEPT ![w] = Head(sigs)]
          /\ pushed' = pushed
      BY <2>2, Zenon DEF FetchStart
    <3>2. \A x : x \in Range(sigs) <=> x = Head(sigs) \/ x \in Range(sigs')
      BY <1>0, <3>1, TailRange, Zenon
    <3>3. fetch'[w] = Head(sigs) /\ \A v \in TxWorkers : v # w => fetch'[v] = fetch[v]
      BY <1>0, <3>1, Zenon
    <3> QED  BY <1>6, <2>1, <3>1, <3>2, <3>3, Zenon
  <2>3. CASE Queues(w)
    <3>1. /\ sigs' = sigs
          /\ fetch' = fetch \/ fetch' = [fetch EXCEPT ![w] = 0]
          /\ pushed' = pushed \/ (fetch[w] # 0 /\ pushed' = pushed \cup {fetch[w]})
      BY <2>3, QueueFacts, Zenon
    <3>2. \A v \in TxWorkers : fetch'[v] = 0 \/ fetch'[v] = fetch[v]
      BY <1>0, <3>1, Zenon
    <3> QED  BY <1>6, <2>1, <3>1, <3>2, Zenon
  <2> QED  BY <1>10, <2>2, <2>3, Zenon DEF Fetch, Queues
<1>11. CASE UNCHANGED crawlVars
  <2>1. UNCHANGED <<main, gaps, crawl, sigs, fetch, pushed>>
    BY <1>11, Zenon DEF crawlVars
  <2> QED  BY <1>6, <2>1, Zenon
<1> QED  BY <1>7, <1>8, <1>9, <1>10, <1>11, Zenon DEF CrawlNext

-----------------------------------------------------------------------------
\* What the queries find of a transaction that is missed.
LEMMA FindsMissed ==
    ASSUME CrawlTypeOK, NEW t \in Txs, Missed(t)
    PROVE  /\ FindGaps /\ KnownBefore(t) /\ KnownAfter(t) =>
                 \E g \in main'.gaps : t \in Within(g)
           /\ FindUpper /\ (known = {} \/ ~KnownAfter(t)) =>
                 \E g \in main'.gaps : t \in Within(g)
           /\ FindLower /\ known # {} /\ ~KnownBefore(t) =>
                 \E g \in main'.gaps : t \in Within(g)
<1>1. job \in Jobs /\ known \subseteq Seqs
  BY Zenon DEF CrawlTypeOK
<1>2. PICK n \in history[t].seqs : n \notin known
  BY Zenon DEF Missed
<1>3. /\ n \in Nat \ {0} /\ known \subseteq Nat /\ 0 < t /\ t < Newest /\ t \in Nat
      /\ \A k \in known : TxOf(k) \in Txs /\ TxOf(k) \in Nat
  BY <1>1, HistoryFacts, TxOfSeq, Zenon
<1>4. \A k \in known : /\ k \notin history[t].seqs
                       /\ t < TxOf(k) => n < k
                       /\ TxOf(k) < t => k < n
                       /\ n < k => t < TxOf(k)
                       /\ k < n => TxOf(k) < t
  <2>1. \A k \in known : k \in Seqs /\ k \notin history[t].seqs
    BY <1>1, Zenon DEF Missed
  <2> QED  BY <1>1, <2>1, SameOrder, Zenon
<1>5. \A k \in known : n < k \/ k < n
  <2>1. \A k \in known : k # n /\ k \in Nat
    BY <1>2, <1>3, Zenon
  <2> QED  BY <1>3, <2>1
<1>6. ASSUME FindGaps, KnownBefore(t), KnownAfter(t) PROVE \E g \in main'.gaps : t \in Within(g)
  <2> DEFINE Lo == {k \in known : k < n}
             Hi == {k \in known : n < k}
  <2>1. Lo \in SUBSET (0..n) /\ Hi \in SUBSET Nat
    <3>1. n \in Nat /\ \A k \in known : k \in Nat
      BY <1>3, Zenon
    <3> QED  BY <3>1
  <2>2. Lo # {} /\ Hi # {}
    BY <1>4, <1>6, Zenon DEF KnownBefore, KnownAfter
  <2>3. PICK a \in Lo : \A k \in Lo : k <= a
    <3> HIDE DEF Lo
    <3> QED  BY <1>3, <2>1, <2>2, HasGreatest, Zenon
  <2>4. PICK b \in Hi : \A k \in Hi : b <= k
    <3> HIDE DEF Hi
    <3> QED  BY <2>1, <2>2, HasLeast, Zenon
  <2>5. a \in known /\ b \in known /\ a < n /\ n < b
    BY <2>3, <2>4, Zenon
  <2>6. \A m \in known : m <= a \/ m >= b
    <3>1. \A m \in known : m <= a \/ b <= m
      BY <1>5, <2>3, <2>4, Zenon
    <3>2. \A m \in known : m \in Nat
      BY <1>3, Zenon
    <3> QED  BY <1>3, <2>5, <3>1, <3>2
  <2>7. b - a > 1
    BY <1>3, <2>5
  <2> HIDE DEF Lo, Hi
  <2> DEFINE p == <<a, b>>
  <2>8. /\ p \in known \X known /\ p[1] = a /\ p[2] = b
    BY <2>5, Zenon
  <2>9. Gap(TxOf(b), TxOf(a)) \in main'.gaps
    <3> DEFINE pairs == {q \in known \X known :
                            q[2] - q[1] > 1 /\ \A m \in known : m <= q[1] \/ m >= q[2]}
    <3>1. main'.gaps = {Gap(TxOf(q[2]), TxOf(q[1])) : q \in pairs}
      BY <1>6, Zenon DEF FindGaps
    <3>2. p \in pairs
      BY <2>6, <2>7, <2>8, Zenon
    <3> HIDE DEF pairs, p
    <3> QED  BY <2>8, <3>1, <3>2, Zenon
  <2>10. TxOf(a) < t /\ t < TxOf(b)
    BY <1>4, <2>5, Zenon
  <2>11. t \in Within(Gap(TxOf(b), TxOf(a)))
    BY <2>10, Zenon DEF Within, Gap
  <2> QED  BY <2>9, <2>11, Zenon
<1>7. ASSUME FindUpper, known = {} \/ ~KnownAfter(t) PROVE \E g \in main'.gaps : t \in Within(g)
  <2>1. CASE known = {}
    <3>1. Seqs # {}
      BY <1>2, Zenon DEF Seqs
    <3>2. Gap(Newest, Oldest) \in main'.gaps
      BY <1>7, <2>1, <3>1, Zenon DEF FindUpper
    <3>3. t \in Within(Gap(Newest, Oldest))
      BY <1>3, Zenon DEF Within, Gap, Oldest
    <3> QED  BY <3>2, <3>3, Zenon
  <2>2. CASE known # {} /\ ~KnownAfter(t)
    <3>1. Max(known) \in known
      BY <2>2, KnownEnds, Zenon
    <3>2. ~(t < TxOf(Max(known)))
      BY <2>2, <3>1, Zenon DEF KnownAfter
    <3>3. TxOf(Max(known)) < t
      BY <1>4, <1>5, <3>1, <3>2, Zenon
    <3>4. Gap(Newest, TxOf(Max(known))) \in main'.gaps
      BY <1>7, <2>2, Zenon DEF FindUpper
    <3>5. t \in Within(Gap(Newest, TxOf(Max(known))))
      BY <1>3, <3>3, Zenon DEF Within, Gap
    <3> QED  BY <3>4, <3>5, Zenon
  <2> QED  BY <1>7, <2>1, <2>2, Zenon
<1>8. ASSUME FindLower, known # {}, ~KnownBefore(t) PROVE \E g \in main'.gaps : t \in Within(g)
  <2>1. Min(known) \in known
    BY <1>8, KnownEnds, Zenon
  <2>2. ~(TxOf(Min(known)) < t)
    BY <1>8, <2>1, Zenon DEF KnownBefore
  <2>3. n < Min(known) /\ t < TxOf(Min(known))
    BY <1>4, <1>5, <2>1, <2>2, Zenon
  <2>4. Min(known) > 1
    <3>1. n \in Nat \ {0} /\ Min(known) \in Nat
      BY <1>3, <2>1, Zenon
    <3> QED  BY <2>3, <3>1
  <2>5. Gap(TxOf(Min(known)), Oldest) \in main'.gaps
    BY <1>8, <2>4, Zenon DEF FindLower
  <2>6. t \in Within(Gap(TxOf(Min(known)), Oldest))
    BY <1>3, <2>3, Zenon DEF Within, Gap, Oldest
  <2> QED  BY <2>5, <2>6, Zenon
<1> QED  BY <1>6, <1>7, <1>8, Zenon

\* A transaction that is missed stays in some stage until it is pushed.
LEMMA AllPlacedStep == CrawlTypeOK /\ AllPlaced /\ [CrawlNext]_crawlVars => AllPlaced'
<1> SUFFICES ASSUME CrawlTypeOK, AllPlaced, [CrawlNext]_crawlVars PROVE AllPlaced'
  OBVIOUS
<1>0. /\ job \in Jobs /\ known \subseteq Seqs /\ pushed \subseteq Txs
      /\ main \in MainType /\ gaps \in Seq(TreeGapFill)
      /\ crawl \in [Crawlers -> CrawlType] /\ sigs \in Seq(Txs)
      /\ fetch \in [TxWorkers -> 0..Len(history)]
  BY Zenon DEF CrawlTypeOK, MainType, CrawlType
<1>1. job' = job
  BY JobKept, Zenon
<1>2. history' = history /\ Txs' = Txs /\ \A g : Within(g)' = Within(g)
  BY <1>1, SameHistory, Zenon
<1>3. (main.pc = "done" => main.gaps = {}) => (main'.pc = "done" => main'.gaps = {})
  <2>1. \/ main' = main \/ main'.pc # "done" \/ SendGap
    <3>1. FetchTree => main'.pc \in {"gaps", "error", "skipped"}
      BY <1>0 DEF FetchTree, MainType
    <3>2. /\ QueryFails => main'.pc = "dropped"
          /\ FindGaps => main'.pc = "upper"
          /\ FindUpper => main'.pc = "lower"
          /\ FindLower => main'.pc = "send"
      <4>1. QueryFails => main'.pc = "dropped"
        BY DEF QueryFails
      <4>2. ASSUME FindGaps PROVE main'.pc = "upper"
        BY <4>2, Zenon DEF FindGaps
      <4>3. ASSUME FindUpper PROVE main'.pc = "lower"
        BY <4>3, Zenon DEF FindUpper
      <4>4. ASSUME FindLower PROVE main'.pc = "send"
        BY <4>4, Zenon DEF FindLower
      <4> QED  BY <4>1, <4>2, <4>3, <4>4, Zenon
    <3>3. Main \/ main' = main
      BY Zenon DEF CrawlNext, crawlVars, Crawl, Fetch, Index, CrawlStart, CrawlPage, CrawlSend,
                   CrawlFails, FetchStart, get_transaction, FetchFails,
                 push_transaction, PushFails
    <3> QED  BY <3>1, <3>2, <3>3 DEF Main
  <2> QED  BY <2>1, SendGapFacts, Zenon
<1>4. SUFFICES ASSUME ~job.live, ~logged', NEW t \in Txs, Missed(t)'
               PROVE  /\ main'.pc = "upper" /\ KnownBefore(t)' /\ KnownAfter(t)' => Found(t)'
                      /\ main'.pc = "lower" /\ (known' = {} \/ KnownBefore(t)') => Found(t)'
                      /\ main'.pc \in {"send", "done"} => Placed(t)'
  BY <1>1, <1>2, <1>3, Zenon DEF AllPlaced
<1>5. known' = known /\ ~logged
  <2>1. known' = known
    BY <1>4, Zenon DEF CrawlNext, crawlVars, Main, Crawl, Fetch, FetchTree, QueryFails, FindGaps,
                 FindUpper, FindLower, SendGap, Index, CrawlStart, CrawlPage, CrawlSend,
                 CrawlFails, FetchStart, get_transaction, FetchFails,
                 push_transaction, PushFails
  <2>2. logged => logged'
    BY Zenon DEF CrawlNext, crawlVars, Main, Crawl, Fetch, FetchTree, QueryFails, FindGaps,
                 FindUpper, FindLower, SendGap, Index, CrawlStart, CrawlPage, CrawlSend,
                 CrawlFails, FetchStart, get_transaction, FetchFails,
                 push_transaction, PushFails
  <2> QED  BY <1>4, <2>1, <2>2, Zenon
<1>6. Missed(t)
  BY <1>2, <1>4, <1>5, Zenon DEF Missed
<1>7. (KnownBefore(t)' <=> KnownBefore(t)) /\ (KnownAfter(t)' <=> KnownAfter(t))
  BY <1>2, <1>5, Zenon DEF KnownBefore, KnownAfter, TxOf
<1> DEFINE FoundThen == \E g \in main'.gaps : t \in Within(g)
           PlacedThen ==
             \/ FoundThen \/ (\E g \in Range(gaps') : t \in Within(g))
             \/ (\E w \in Crawlers : \/ ~crawl'[w].last /\ t \in Within(crawl'[w])
                                     \/ t \in crawl'[w].batch)
             \/ t \in Range(sigs') \/ (\E w \in TxWorkers : fetch'[w] = t) \/ t \in pushed'
           Goal == /\ main'.pc = "upper" /\ KnownBefore(t) /\ KnownAfter(t) => FoundThen
                   /\ main'.pc = "lower" /\ (known = {} \/ KnownBefore(t)) => FoundThen
                   /\ main'.pc \in {"send", "done"} => PlacedThen
<1>8. SUFFICES Goal
  BY <1>2, <1>5, <1>7, Zenon DEF Found, Placed, Crawled
<1>9. /\ main.pc = "upper" /\ KnownBefore(t) /\ KnownAfter(t) => Found(t)
      /\ main.pc = "lower" /\ (known = {} \/ KnownBefore(t)) => Found(t)
      /\ main.pc \in {"send", "done"} => Placed(t)
  BY <1>4, <1>5, <1>6, Zenon DEF AllPlaced
<1>10. CASE Main
  <2>1. UNCHANGED <<crawl, sigs, fetch, pushed>>
    BY <1>10, Zenon DEF Main, FetchTree, QueryFails, FindGaps, FindUpper, FindLower, SendGap
  <2>2. CASE FetchTree
    <3>1. main'.pc \in {"gaps", "error", "skipped"}
      BY <1>0, <2>2 DEF FetchTree, MainType
    <3> QED  BY <3>1
  <2>3. CASE QueryFails
    BY Zenon, <2>3 DEF QueryFails
  <2>4. CASE FindGaps
    <3>1. main'.pc = "upper"
      BY <2>4, Zenon DEF FindGaps
    <3>2. KnownBefore(t) /\ KnownAfter(t) => FoundThen
      BY <1>6, <2>4, FindsMissed, Zenon
    <3> QED  BY <3>1, <3>2
  <2>5. CASE FindUpper
    <3>1. main.pc = "upper" /\ main'.pc = "lower" /\ main.gaps \subseteq main'.gaps
      BY <2>5, Zenon DEF FindUpper
    <3>2. known = {} \/ ~KnownAfter(t) => FoundThen
      BY <1>6, <2>5, FindsMissed, Zenon
    <3>3. KnownBefore(t) /\ KnownAfter(t) => FoundThen
      BY <1>9, <3>1, Zenon DEF Found
    <3>4. known = {} \/ KnownBefore(t) => FoundThen
      BY <3>2, <3>3, Zenon
    <3> QED  BY <3>1, <3>4
  <2>6. CASE FindLower
    <3>1. main.pc = "lower" /\ main'.pc = "send" /\ main.gaps \subseteq main'.gaps
      BY <2>6, Zenon DEF FindLower
    <3>2. known # {} /\ ~KnownBefore(t) => FoundThen
      BY <1>6, <2>6, FindsMissed, Zenon
    <3>3. known = {} \/ KnownBefore(t) => FoundThen
      BY <1>9, <3>1, Zenon DEF Found
    <3>4. FoundThen
      BY <3>2, <3>3, Zenon
    <3> QED  BY <3>1, <3>4
  <2>7. CASE SendGap
    <3>1. main.pc = "send" /\ main'.pc \in {"send", "done"}
      BY <1>0, <2>7 DEF SendGap, MainType
    <3>2. Placed(t)
      BY <1>9, <3>1, Zenon
    <3>3. /\ \A x \in main.gaps : x \in main'.gaps \/ x \in Range(gaps')
          /\ \A x \in Range(gaps) : x \in Range(gaps')
      BY <2>7, SendGapFacts, Zenon
    <3>4. PlacedThen
      BY <2>1, <3>2, <3>3, Zenon DEF Placed, Found, Crawled
    <3> QED  BY <3>1, <3>4
  <2> QED  BY <1>10, <2>2, <2>3, <2>4, <2>5, <2>6, <2>7, Zenon DEF Main
<1>11. CASE main' = main /\ (Placed(t) => PlacedThen)
  BY <1>9, <1>11, Zenon DEF Found
<1>12. ASSUME NEW s \in Seqs, Index(s) PROVE Goal
  BY <1>4, <1>12, Zenon DEF Index
<1>13. ASSUME NEW w \in Crawlers, Crawl(w) PROVE Goal
  <2>1. UNCHANGED <<main, fetch, pushed>>
    BY <1>13, Zenon DEF Crawl, CrawlStart, CrawlPage, CrawlSend, CrawlFails
  <2>2. CASE CrawlStart(w)
    <3>1. sigs' = sigs /\ crawl[w].batch = {} /\ crawl[w].last
      BY <2>2, Zenon DEF CrawlStart, Ended
    <3>2. /\ crawl'[w].before = Head(gaps).before /\ crawl'[w].until = Head(gaps).until
          /\ ~crawl'[w].last /\ \A v \in Crawlers : v # w => crawl'[v] = crawl[v]
          /\ \A x : x \in Range(gaps) <=> x = Head(gaps) \/ x \in Range(gaps')
      BY <2>2, StartFacts, Zenon
    <3>3. t \in Within(Head(gaps)) => t \in Within(crawl'[w])
      BY <3>2, Zenon DEF Within
    <3>4. Placed(t) => PlacedThen
      BY <2>1, <3>1, <3>2, <3>3, Zenon DEF Placed, Found, Crawled
    <3> QED  BY <1>11, <2>1, <3>4, Zenon
  <2>3. CASE CrawlPage(w)
    <3>1. sigs' = sigs /\ gaps' = gaps /\ crawl[w].batch = {}
      BY <2>3, Zenon DEF CrawlPage
    <3> DEFINE W == Within(crawl[w])
    <3>2. \A v \in Crawlers : v # w => crawl'[v] = crawl[v]
      BY <2>3, PageFacts, Zenon
    <3>3. history[t].ok
      BY <1>0, <1>6, HistoryFacts, Zenon DEF Missed
    <3>4. ASSUME t \in W PROVE t \in crawl'[w].batch \/ (~crawl'[w].last /\ t \in Within(crawl'[w]))
      <4>1. /\ t \in crawl'[w].batch \/ (~crawl'[w].last /\ t < crawl'[w].before)
            /\ crawl'[w].until = crawl[w].until
        BY <2>3, <3>3, <3>4, PageFacts, Zenon
      <4> QED  BY <3>4, <4>1, Zenon DEF Within
    <3>5. Placed(t) => PlacedThen
      BY <2>1, <3>1, <3>2, <3>4, Zenon DEF Placed, Found, Crawled
    <3> QED  BY <1>11, <2>1, <3>5, Zenon
  <2>4. CASE CrawlSend(w)
    <3>1. gaps' = gaps
      BY <2>4, Zenon DEF CrawlSend
    <3>2. PICK m \in crawl[w].batch :
              /\ m \in Txs /\ sigs' = Append(sigs, m)
              /\ crawl'[w].batch = crawl[w].batch \ {m} /\ crawl'[w].last = crawl[w].last
              /\ crawl'[w].before = crawl[w].before /\ crawl'[w].until = crawl[w].until
              /\ \A v \in Crawlers : v # w => crawl'[v] = crawl[v]
      BY <2>4, SendFacts, Zenon
    <3>3. \A x : x \in Range(sigs') <=> x \in Range(sigs) \/ x = m
      BY <1>0, <3>2, AppendRange, Zenon
    <3>4. t \in Within(crawl[w]) => t \in Within(crawl'[w])
      BY <3>2, Zenon DEF Within
    <3>5. Placed(t) => PlacedThen
      BY <2>1, <3>1, <3>2, <3>3, <3>4, Zenon DEF Placed, Found, Crawled
    <3> QED  BY <1>11, <2>1, <3>5, Zenon
  <2>5. CASE CrawlFails(w)
    BY <1>4, <2>5, Zenon DEF CrawlFails
  <2> QED  BY <1>13, <2>2, <2>3, <2>4, <2>5, Zenon DEF Crawl
<1>14. ASSUME NEW w \in TxWorkers, Fetch(w) PROVE Goal
  <2>1. UNCHANGED <<main, gaps, crawl>>
    BY <1>14, Zenon DEF Fetch, FetchStart, get_transaction, FetchFails,
                 push_transaction, PushFails
  <2>2. t # 0
    BY <1>0, HistoryFacts
  <2>3. CASE FetchStart(w)
    <3>1. /\ fetch[w] = 0 /\ sigs # <<>> /\ sigs' = Tail(sigs)
          /\ fetch' = [fetch EXCEPT ![w] = Head(sigs)] /\ pushed' = pushed
      BY <2>3, Zenon DEF FetchStart
    <3>2. \A x : x \in Range(sigs) <=> x = Head(sigs) \/ x \in Range(sigs')
      BY <1>0, <3>1, TailRange, Zenon
    <3>3. fetch'[w] = Head(sigs) /\ \A v \in TxWorkers : v # w => fetch'[v] = fetch[v]
      BY <1>0, <3>1, Zenon
    <3>4. Placed(t) => PlacedThen
      BY <2>1, <2>2, <3>1, <3>2, <3>3, Zenon DEF Placed, Found, Crawled
    <3> QED  BY <1>11, <2>1, <3>4, Zenon
  <2>4. CASE Queues(w)
    <3>1. /\ sigs' = sigs
          /\ \/ fetch' = fetch /\ pushed' = pushed
             \/ fetch' = [fetch EXCEPT ![w] = 0] /\ pushed' = pushed \cup {fetch[w]}
      BY <1>4, <2>4, QueueFacts, Zenon
    <3>2. pushed \subseteq pushed' /\ \A v \in TxWorkers : fetch'[v] = fetch[v] \/ fetch[v] \in pushed'
      BY <1>0, <3>1, Zenon
    <3>3. Placed(t) => PlacedThen
      BY <2>1, <3>1, <3>2, Zenon DEF Placed, Found, Crawled
    <3> QED  BY <1>11, <2>1, <3>3, Zenon
  <2> QED  BY <1>14, <2>3, <2>4, Zenon DEF Fetch, Queues
<1>15. CASE UNCHANGED crawlVars
  <2>1. UNCHANGED <<main, gaps, crawl, sigs, fetch, pushed>>
    BY <1>15, Zenon DEF crawlVars
  <2>2. Placed(t) => PlacedThen
    BY <2>1, Zenon DEF Placed, Found, Crawled
  <2> QED  BY <1>11, <2>1, <2>2, Zenon
<1> QED  BY <1>10, <1>12, <1>13, <1>14, <1>15, Zenon DEF CrawlNext

\* The variables of bubblegum backfill keep their types, and the two channels their
\* capacities (gap_channel_size, signature_channel_size).
THEOREM CrawlTypeCorrect == CrawlSpec => []CrawlTypeOK
<1>1. CrawlInit => CrawlTypeOK
  BY InitCrawl, Zenon DEF CrawlInv
<1> QED  BY <1>1, CrawlTypeStep, PTL DEF CrawlSpec

\* bubblegum backfill (spawn_gap_worker, spawn_crawl_worker, TreeGapFill::crawl,
\* spawn_transaction_worker) pushes exactly what the index misses, for any history of the
\* tree, any content of cl_audits_v2, sizes of pages and channels, and numbers of workers,
\* within the limits of the property.
THEOREM BackfillIsExact == CrawlSpec => []BackfillsExactlyMissed
<1>1. CrawlInv /\ [CrawlNext]_crawlVars => CrawlInv'
  BY CrawlTypeStep, OnlyMissedStep, AllPlacedStep, Zenon DEF CrawlInv
<1>2. CrawlInv => BackfillsExactlyMissed
  <2> SUFFICES ASSUME CrawlInv PROVE BackfillsExactlyMissed
    OBVIOUS
  <2>1. CrawlTypeOK /\ OnlyMissed /\ AllPlaced
    BY Zenon DEF CrawlInv
  <2>2. \A t \in pushed : history[t].ok /\ (job.live \/ history[t].seqs \cap known = {})
    BY <2>1, Zenon DEF OnlyMissed, Wanted, Clean
  <2>3. ASSUME ~job.live, CrawlFinished, main.pc = "done", ~logged, NEW t \in Txs, Missed(t)
        PROVE  t \in pushed
    <3>1. Placed(t) /\ main.gaps = {}
      BY <2>1, <2>3, Zenon DEF AllPlaced
    <3>2. /\ gaps = <<>> /\ sigs = <<>>
          /\ \A w \in Crawlers : crawl[w].last /\ crawl[w].batch = {}
          /\ \A w \in TxWorkers : fetch[w] = 0
      BY <2>3, Zenon DEF CrawlFinished, Ended
    <3>3. DOMAIN gaps = {} /\ DOMAIN sigs = {}
      BY <3>2
    <3>4. Range(gaps) = {} /\ Range(sigs) = {}
      BY <3>3, Zenon DEF Range
    <3>5. t # 0
      <4>1. job \in Jobs
        BY <2>1, Zenon DEF CrawlTypeOK
      <4> QED  BY <4>1, HistoryFacts
    <3> QED  BY <3>1, <3>2, <3>4, <3>5, Zenon DEF Placed, Found, Crawled
  <2> QED  BY <2>2, <2>3, Zenon DEF BackfillsExactlyMissed
<1> QED  BY InitCrawl, <1>1, <1>2, PTL DEF CrawlSpec

-----------------------------------------------------------------------------
(* The purge commands *)

\* The keys that a channel or a stage holds.
Held(s) == UNION Range(s)

Queued(k) == k \in Held(keys) \/ k \in Held(mark) \/ k \in Held(marked)

\* A purger still has to run this statement for the key.
Left(k, stmt) == \E w \in Purgers : k \in purge[w].keys /\ stmt \in purge[w].left

\* The keys whose account is not created again.
Lasting == Keys \ command.reopened

\* Which of them is to be purged was gone when it was looked up, and is gone for good.
OnlyGone ==
    /\ \A k \in Lasting : chain[k] = "token" => k \in table /\ k \notin burnt
    /\ \A k \in Lasting \cap Held(marked) : Gone(k)
    /\ \A w \in Purgers : \A k \in Lasting \cap purge[w].keys : Gone(k)

\* Until the first page is read, nothing is on its way.
Unread ==
    page = 1 => /\ keys = <<>> /\ marked = <<>>
                /\ \A w \in Markers : mark[w] = {}
                /\ \A w \in Purgers : purge[w].left = {}

\* A key whose account was gone from the start is in some stage, or has been purged.
Tracked ==
    Cardinality(Keys) <= command.batch /\ ~failed =>
        \A k \in Keys : chain[k] \in {"other", "none"} =>
            \/ page = 1 /\ k \in table
            \/ Queued(k)
            \/ /\ k \notin table \/ Left(k, "rows")
               /\ command.mints => k \in burnt \/ Left(k, "burnt")

\* The inductive invariant.
PurgeInv == PurgeTypeOK /\ OnlyGone /\ Unread /\ Tracked

\* Channels: what is put in is held, and only what is taken out is not.
LEMMA AppendHeld ==
    \A s \in Seq(SUBSET Keys) : \A e \in SUBSET Keys :
        /\ Append(s, e) \in Seq(SUBSET Keys)
        /\ \A x : x \in Held(Append(s, e)) <=> x \in Held(s) \/ x \in e
  BY AppendRange, ZenonT(40) DEF Held

\* The same for taking out.
LEMMA TailHeld ==
    ASSUME NEW s \in Seq(SUBSET Keys), s # <<>>
    PROVE  /\ Head(s) \in SUBSET Keys /\ Tail(s) \in Seq(SUBSET Keys)
           /\ Held(s) = Head(s) \cup Held(Tail(s))
<1>1. /\ Head(s) \in SUBSET Keys /\ Tail(s) \in Seq(SUBSET Keys)
      /\ \A x : x \in Range(s) <=> x = Head(s) \/ x \in Range(Tail(s))
  BY TailRange, Zenon
<1> QED  BY <1>1, Zenon DEF Held

\* The smaller of two numbers.
LEMMA MinOfTwo ==
    ASSUME NEW a \in Nat, NEW b \in Nat, a <= b PROVE Min({a, b}) = a /\ Min({b, a}) = a
<1>1. {a, b} \in SUBSET Nat /\ {a, b} # {} /\ {a, b} = {b, a}
  BY Zenon
<1>2. Min({a, b}) \in {a, b} /\ Min({a, b}) <= a
  BY <1>1, MinOfNumbers, Zenon
<1> QED  BY <1>1, <1>2

\* A page or chunk that is not smaller than the set it is taken from is the set.
LEMMA SomeIsAll ==
    ASSUME NEW S, IsFiniteSet(S), NEW n \in Nat, Cardinality(S) <= n, NEW T \in Some(S, n)
    PROVE  T = S
<1>1. T \in SUBSET S /\ Cardinality(T) = Min({n, Cardinality(S)})
  BY Zenon DEF Some
<1>2. Cardinality(S) \in Nat
  BY FS_CardinalityType, Zenon
<1>4. Min({n, Cardinality(S)}) = Cardinality(S)
  BY <1>2, MinOfTwo, Zenon
<1> QED  BY <1>1, <1>4, FS_Subset, Zenon

\* A key leaves a chunk's task only through its look-up.
LEMMA ChangedHeld ==
    ASSUME NEW S, NEW W, NEW f \in [W -> SUBSET S], NEW w \in W, NEW e \in SUBSET S
    PROVE  LET g == [f EXCEPT ![w] = e] IN
           /\ g \in [W -> SUBSET S] /\ e \subseteq Held(g)
           /\ \A x \in Held(f) : x \in Held(g) \/ x \in f[w]
<1> DEFINE g == [f EXCEPT ![w] = e]
<1>1. g \in [W -> SUBSET S] /\ g[w] = e /\ DOMAIN g = W /\ DOMAIN f = W
  BY Zenon
<1>2. \A v \in W : v = w \/ g[v] = f[v]
  BY Zenon
<1> HIDE DEF g
<1>3. e \subseteq Held(g)
  BY <1>1, Zenon DEF Held, Range
<1>4. ASSUME NEW x \in Held(f) PROVE x \in Held(g) \/ x \in f[w]
  BY <1>1, <1>2, Zenon DEF Held, Range
<1> QED  BY <1>1, <1>3, <1>4, Zenon DEF g

\* Nothing was looked at.
LEMMA InitPurge == PurgeInit => PurgeInv
<1> SUFFICES ASSUME PurgeInit PROVE PurgeInv
  OBVIOUS
<1>1. PurgeTypeOK
  <2>1. <<>> \in Seq(SUBSET Keys)
    OBVIOUS
  <2>2. chain \in [Keys -> {"token", "other", "none", "closed"}]
    BY DEF PurgeInit
  <2>3. page \in Nat
    BY DEF PurgeInit
  <2>4. purge \in [Purgers -> [keys : SUBSET Keys, left : SUBSET {"rows", "burnt"}]]
    BY DEF PurgeInit
  <2> QED  BY <2>1, <2>2, <2>3, <2>4, Zenon DEF PurgeInit, PurgeTypeOK
<1>2. Held(marked) = {} /\ \A w \in Purgers : purge[w].keys = {}
  <2>1. DOMAIN marked = {}
    BY DEF PurgeInit
  <2> QED  BY <2>1, Zenon DEF PurgeInit, Held, Range
<1>3. OnlyGone
  BY <1>2, Zenon DEF PurgeInit, OnlyGone, Lasting
<1>4. Tracked
  BY Zenon DEF PurgeInit, Tracked
<1>5. Unread
  BY Zenon DEF PurgeInit, Unread
<1> QED  BY <1>1, <1>3, <1>4, <1>5, Zenon DEF PurgeInv

Purges == [keys : SUBSET Keys, left : SUBSET {"rows", "burnt"}]

\* A purger has one statement less to run.
LEMMA StatementRun ==
    ASSUME NEW f \in [Purgers -> Purges], NEW w \in Purgers, NEW st
    PROVE  [f EXCEPT ![w].left = @ \ {st}] \in [Purgers -> Purges]
<1> DEFINE p == [f[w] EXCEPT !.left = @ \ {st}]
<1>1. f[w] \in Purges
  OBVIOUS
<1>2. f[w] = [keys |-> f[w].keys, left |-> f[w].left]
      /\ f[w].keys \in SUBSET Keys /\ f[w].left \in SUBSET {"rows", "burnt"}
  BY <1>1 DEF Purges
<1>3. p = [keys |-> f[w].keys, left |-> f[w].left \ {st}]
  BY <1>2
<1>4. f[w].left \ {st} \in SUBSET {"rows", "burnt"}
  BY <1>2
<1>5. p \in Purges
  BY <1>2, <1>3, <1>4 DEF Purges
<1> HIDE DEF p
<1>6. [f EXCEPT ![w] = p] \in [Purgers -> Purges]
  BY <1>5, Zenon
<1> QED  BY <1>6 DEF p

\* Every step keeps the types.
LEMMA PurgeTypeStep == PurgeTypeOK /\ [PurgeNext]_purgeVars => PurgeTypeOK'
<1> SUFFICES ASSUME PurgeTypeOK, [PurgeNext]_purgeVars PROVE PurgeTypeOK'
  OBVIOUS
<1>0. /\ command \in Commands /\ failed \in BOOLEAN
      /\ table \subseteq Keys /\ burnt \subseteq Keys
      /\ chain \in [Keys -> {"token", "other", "none", "closed"}]
      /\ page \in Nat /\ page + 1 \in Nat /\ 0 \in Nat
      /\ keys \in Seq(SUBSET Keys) /\ marked \in Seq(SUBSET Keys)
      /\ mark \in [Markers -> SUBSET Keys]
      /\ purge \in [Purgers -> [keys : SUBSET Keys, left : SUBSET {"rows", "burnt"}]]
  BY DEF PurgeTypeOK
<1>1. CASE Paginate
  <2>1. keys' = keys \/ \E rows \in SUBSET Keys : keys' = Append(keys, rows)
    <3>1. keys' = keys \/ \E rows \in SUBSET table : keys' = Append(keys, rows)
      BY <1>1 DEF Paginate, Some
    <3> QED  BY <1>0, <3>1, Zenon
  <2>2. keys' \in Seq(SUBSET Keys)
    BY <1>0, <2>1, AppendHeld, Zenon
  <2> QED  BY <1>0, <1>1, <2>2, Zenon DEF Paginate, PurgeTypeOK
<1>2. CASE PaginateFails
  BY <1>0, <1>2, Zenon DEF PaginateFails, PurgeTypeOK
<1>3. ASSUME NEW w \in Markers, MarkStart(w) PROVE PurgeTypeOK'
  <2>1. Head(keys) \in SUBSET Keys /\ Tail(keys) \in Seq(SUBSET Keys)
    BY <1>0, <1>3, TailHeld, Zenon DEF MarkStart
  <2>2. mark' \in [Markers -> SUBSET Keys]
    BY <1>0, <1>3, <2>1, ChangedHeld, Zenon DEF MarkStart
  <2> QED  BY <1>0, <1>3, <2>1, <2>2, Zenon DEF MarkStart, PurgeTypeOK
<1>4. ASSUME NEW w \in Markers, Mark(w) PROVE PurgeTypeOK'
  <2>1. PICK chunk \in Some(mark[w], Chunk) :
          LET remove == {k \in chunk : Gone(k)} IN
          /\ mark' = [mark EXCEPT ![w] = @ \ chunk]
          /\ \/ /\ marked' = IF remove = {} THEN marked ELSE Append(marked, remove)
                /\ UNCHANGED failed
             \/ command.faults /\ failed' = TRUE /\ UNCHANGED marked
    BY <1>4, Zenon DEF Mark
  <2>2. chunk \in SUBSET Keys /\ mark[w] \ chunk \in SUBSET Keys
    BY <1>0, Zenon DEF Some
  <2>3. mark' \in [Markers -> SUBSET Keys]
    BY <1>0, <2>1, <2>2, ChangedHeld, Zenon
  <2>4. {k \in chunk : Gone(k)} \in SUBSET Keys
    BY <2>2, Zenon
  <2>5. Append(marked, {k \in chunk : Gone(k)}) \in Seq(SUBSET Keys)
    BY <1>0, <2>4, AppendHeld, Zenon
  <2>6. marked' \in Seq(SUBSET Keys) /\ failed' \in BOOLEAN
    BY <1>0, <2>1, <2>5, Zenon
  <2> QED  BY <1>0, <1>4, <2>3, <2>6, Zenon DEF Mark, PurgeTypeOK
<1>5. ASSUME NEW w \in Purgers, PurgeStart(w) PROVE PurgeTypeOK'
  <2>1. Head(marked) \in SUBSET Keys /\ Tail(marked) \in Seq(SUBSET Keys)
    BY <1>0, <1>5, TailHeld, Zenon DEF PurgeStart
  <2>2. purge' \in [Purgers -> [keys : SUBSET Keys, left : SUBSET {"rows", "burnt"}]]
    BY <1>0, <1>5, <2>1 DEF PurgeStart
  <2> QED  BY <1>0, <1>5, <2>1, <2>2, Zenon DEF PurgeStart, PurgeTypeOK
<1>6. ASSUME NEW w \in Purgers, DeleteRows(w) PROVE PurgeTypeOK'
  <2>1. purge' \in [Purgers -> [keys : SUBSET Keys, left : SUBSET {"rows", "burnt"}]]
    BY <1>0, <1>6, StatementRun, Zenon DEF DeleteRows, Purges
  <2> QED  BY <1>0, <1>6, <2>1, Zenon DEF DeleteRows, PurgeTypeOK
<1>7. ASSUME NEW w \in Purgers, MarkBurnt(w) PROVE PurgeTypeOK'
  <2>1. purge' \in [Purgers -> [keys : SUBSET Keys, left : SUBSET {"rows", "burnt"}]]
    BY <1>0, <1>7, StatementRun, Zenon DEF MarkBurnt, Purges
  <2>2. purge[w].keys \subseteq Keys
    BY <1>0
  <2> QED  BY <1>0, <1>7, <2>1, <2>2, Zenon DEF MarkBurnt, PurgeTypeOK
<1>8. ASSUME NEW k \in Keys, Close(k) \/ Reopen(k) PROVE PurgeTypeOK'
  <2>1. chain' \in [Keys -> {"token", "other", "none", "closed"}]
    BY <1>0, <1>8 DEF Close, Reopen
  <2> QED  BY <1>0, <1>8, <2>1, Zenon DEF Close, Reopen, PurgeTypeOK
<1>9. CASE UNCHANGED purgeVars
  BY <1>0, <1>9, Zenon DEF purgeVars, PurgeTypeOK
<1> QED
  BY <1>1, <1>2, <1>3, <1>4, <1>5, <1>6, <1>7, <1>8, <1>9, Zenon
     DEF PurgeNext, Paging, Marking, Purging

\* Nothing that exists is on its way to a purger.
LEMMA OnlyGoneStep ==
    PurgeTypeOK /\ OnlyGone /\ [PurgeNext]_purgeVars => OnlyGone'
<1> SUFFICES ASSUME PurgeTypeOK, OnlyGone, [PurgeNext]_purgeVars PROVE OnlyGone'
  OBVIOUS
<1> DEFINE L == Lasting
           Goal == /\ \A k \in L : chain'[k] = "token" => k \in table' /\ k \notin burnt'
                   /\ \A k \in L : k \in Held(marked') => chain'[k] # "token"
                   /\ \A w \in Purgers : \A k \in L : k \in purge'[w].keys => chain'[k] # "token"
<1>0. /\ chain \in [Keys -> {"token", "other", "none", "closed"}]
      /\ keys \in Seq(SUBSET Keys) /\ marked \in Seq(SUBSET Keys)
      /\ mark \in [Markers -> SUBSET Keys]
      /\ purge \in [Purgers -> [keys : SUBSET Keys, left : SUBSET {"rows", "burnt"}]]
  BY Zenon DEF PurgeTypeOK
<1>1. command' = command
  BY Zenon DEF PurgeNext, Paging, Marking, Purging, Paginate, PaginateFails, MarkStart, Mark,
     PurgeStart, DeleteRows, MarkBurnt, Close, Reopen, purgeVars
<1>2. /\ L \subseteq Keys /\ L \cap command.reopened = {}
      /\ \A k \in L : chain[k] = "token" => k \in table /\ k \notin burnt
      /\ \A k \in L : k \in Held(marked) => chain[k] # "token"
      /\ \A w \in Purgers : \A k \in L : k \in purge[w].keys => chain[k] # "token"
  BY Zenon DEF OnlyGone, Gone, Lasting
<1>9. Goal => OnlyGone'
  <2>1. Lasting' = L
    BY <1>1, Zenon DEF Lasting
  <2> HIDE DEF L
  <2> QED  BY <2>1, Zenon DEF OnlyGone, Gone
<1> HIDE DEF L
<1>3. ASSUME Paging \/ (\E w \in Markers : MarkStart(w)) \/ UNCHANGED purgeVars
      PROVE  Goal
  BY <1>2, <1>3, Zenon DEF Paging, Paginate, PaginateFails, MarkStart, purgeVars
<1>4. ASSUME NEW w \in Markers, Mark(w) PROVE Goal
  <2>1. PICK chunk \in Some(mark[w], Chunk) :
          LET remove == {k \in chunk : Gone(k)} IN
          marked' = (IF remove = {} THEN marked ELSE Append(marked, remove)) \/ marked' = marked
    BY Zenon, <1>4 DEF Mark
  <2> DEFINE remove == {k \in chunk : Gone(k)}
  <2>2. remove \in SUBSET Keys
    BY <1>0, Zenon DEF Some
  <2>3. marked' = marked \/ marked' = Append(marked, remove)
    BY <2>1, Zenon
  <2>4. \A k \in remove : chain[k] # "token"
    BY Zenon DEF Gone
  <2> HIDE DEF remove
  <2>5. \A x : x \in Held(Append(marked, remove)) <=> x \in Held(marked) \/ x \in remove
    BY <1>0, <2>2, AppendHeld, Zenon
  <2>6. \A k \in Held(marked') : k \in Held(marked) \/ k \in remove
    BY <2>3, <2>5, Zenon
  <2> QED  BY <1>2, <1>4, <2>4, <2>6, Zenon DEF Mark
<1>5. ASSUME NEW w \in Purgers, PurgeStart(w) PROVE Goal
  <2>1. Held(marked) = Head(marked) \cup Held(Tail(marked)) /\ marked' = Tail(marked)
    BY <1>0, <1>5, TailHeld, Zenon DEF PurgeStart
  <2>2. \A v \in Purgers : purge'[v].keys = purge[v].keys \/ purge'[v].keys = Head(marked)
    BY <1>0, <1>5 DEF PurgeStart
  <2> QED  BY <1>2, <1>5, <2>1, <2>2, Zenon DEF PurgeStart
<1>6. ASSUME NEW w \in Purgers, DeleteRows(w) \/ MarkBurnt(w) PROVE Goal
  <2>1. \A v \in Purgers : purge'[v].keys = purge[v].keys
    <3>1. CASE DeleteRows(w)
      BY <1>0, <3>1 DEF DeleteRows
    <3>2. CASE MarkBurnt(w)
      BY <1>0, <3>2 DEF MarkBurnt
    <3> QED  BY <1>6, <3>1, <3>2, Zenon
  <2>2. /\ table' = table \/ table' = table \ purge[w].keys
        /\ burnt' = burnt \/ burnt' = burnt \cup purge[w].keys
    BY <1>6, Zenon DEF DeleteRows, MarkBurnt
  <2>3. chain' = chain /\ marked' = marked
    BY <1>6, Zenon DEF DeleteRows, MarkBurnt
  <2> QED  BY <1>2, <2>1, <2>2, <2>3, Zenon
<1>7. ASSUME NEW k \in Keys, Close(k) PROVE Goal
  <2>1. \A x \in Keys : chain'[x] = "token" => chain[x] = "token"
    BY <1>0, <1>7 DEF Close
  <2> QED  BY <1>2, <1>7, <2>1, Zenon DEF Close
<1>8. ASSUME NEW k \in Keys, Reopen(k) PROVE Goal
  <2>1. k \notin L /\ \A x \in L : chain'[x] = chain[x]
    BY <1>0, <1>2, <1>8, Zenon DEF Reopen
  <2> QED  BY <1>2, <1>8, <2>1, Zenon DEF Reopen
<1> QED
  BY <1>3, <1>4, <1>5, <1>6, <1>7, <1>8, <1>9, Zenon DEF PurgeNext, Marking, Purging

\* The first page has every row when the table is not larger than a page.
LEMMA FirstPage ==
    ASSUME PurgeTypeOK, Cardinality(Keys) <= command.batch, page = 1, Paginate, table # {}
    PROVE  keys' = Append(keys, table) /\ page' = 2
<1>1. IsFiniteSet(table) /\ Cardinality(table) <= Cardinality(Keys) /\ table \in SUBSET Keys
  BY PurgeAssumption, FS_Subset, Zenon DEF PurgeTypeOK
<1>2. Cardinality(table) \in Nat /\ Cardinality(Keys) \in Nat /\ Cardinality(table) # 0
  BY <1>1, PurgeAssumption, FS_CardinalityType, FS_EmptySet, Zenon
<1>3. command.batch \in Nat
  BY PurgeAssumption, Zenon DEF PurgeTypeOK
<1>4. Cardinality(table) - (page - 1) * command.batch = Cardinality(table)
  BY <1>2, <1>3
<1>5. Cardinality(table) <= command.batch /\ ~(Cardinality(table) <= 0)
  BY <1>1, <1>2, <1>3
<1>6. Min({Cardinality(table), command.batch}) = Cardinality(table)
  BY <1>2, <1>3, <1>5, MinOfTwo, Zenon
<1>7. page' = page + 1 /\ \E rows \in Some(table, Cardinality(table)) : keys' = Append(keys, rows)
  BY <1>4, <1>5, <1>6 DEF Paginate
<1>8. Cardinality(table) <= Cardinality(table)
  BY <1>2
<1>9. \A rows \in Some(table, Cardinality(table)) : rows = table
  BY <1>1, <1>2, <1>8, SomeIsAll, Zenon
<1> QED  BY <1>7, <1>9

\* The first page comes first.
LEMMA UnreadStep == PurgeTypeOK /\ Unread /\ [PurgeNext]_purgeVars => Unread'
<1> SUFFICES ASSUME PurgeTypeOK, Unread, [PurgeNext]_purgeVars, page' = 1
             PROVE  Unread'
  BY Zenon DEF Unread
<1>1. page \in Nat
  BY Zenon DEF PurgeTypeOK
<1>2. ~Paginate /\ ~PaginateFails
  BY <1>1 DEF Paginate, PaginateFails
<1>3. page = 1
  BY <1>2, Zenon DEF PurgeNext, Paging, Marking, Purging, MarkStart, Mark, PurgeStart,
     DeleteRows, MarkBurnt, Close, Reopen, purgeVars
<1>4. /\ keys = <<>> /\ marked = <<>>
      /\ \A w \in Markers : mark[w] = {}
      /\ \A w \in Purgers : purge[w].left = {}
  BY <1>3, Zenon DEF Unread
<1>5. UNCHANGED <<keys, mark, marked, purge>>
  BY <1>2, <1>4, Zenon DEF PurgeNext, Paging, Marking, Purging, MarkStart, Mark, PurgeStart,
     DeleteRows, MarkBurnt, Close, Reopen, purgeVars
<1> QED  BY <1>4, <1>5, Zenon DEF Unread

\* No key is lost between the stages.
LEMMA TrackedStep ==
    PurgeTypeOK /\ Unread /\ Tracked /\ [PurgeNext]_purgeVars => Tracked'
<1> DEFINE Purged(k) == /\ k \notin table \/ Left(k, "rows")
                        /\ command.mints => k \in burnt \/ Left(k, "burnt")
           Where(k) == (page = 1 /\ k \in table) \/ Queued(k) \/ Purged(k)
<1> SUFFICES ASSUME PurgeTypeOK, Unread, Tracked, [PurgeNext]_purgeVars,
                    (Cardinality(Keys) <= command.batch)', ~failed',
                    NEW k \in Keys, chain'[k] \in {"other", "none"}
             PROVE  Where(k)'
  BY Zenon DEF Tracked
<1>0. /\ chain \in [Keys -> {"token", "other", "none", "closed"}]
      /\ keys \in Seq(SUBSET Keys) /\ marked \in Seq(SUBSET Keys)
      /\ mark \in [Markers -> SUBSET Keys] /\ command \in Commands
      /\ purge \in [Purgers -> [keys : SUBSET Keys, left : SUBSET {"rows", "burnt"}]]
      /\ table \in SUBSET Keys
  BY Zenon DEF PurgeTypeOK
<1>1. command' = command /\ Cardinality(Keys) <= command.batch
  BY Zenon DEF PurgeNext, Paging, Marking, Purging, Paginate, PaginateFails, MarkStart, Mark,
     PurgeStart, DeleteRows, MarkBurnt, Close, Reopen, purgeVars
<1>2. ~failed
  BY Zenon DEF PurgeNext, Paging, Marking, Purging, Paginate, PaginateFails, MarkStart, Mark,
     PurgeStart, DeleteRows, MarkBurnt, Close, Reopen, purgeVars
<1>3. chain[k] \in {"other", "none"}
  <2>1. CASE \E x \in Keys : Close(x) \/ Reopen(x)
    BY <1>0, <2>1 DEF Close, Reopen
  <2>2. CASE chain' = chain
    BY <2>2, Zenon
  <2> QED
    BY <2>1, <2>2, Zenon DEF PurgeNext, Paging, Marking, Purging, Paginate, PaginateFails,
       MarkStart, Mark, PurgeStart, DeleteRows, MarkBurnt, purgeVars
<1>4. Where(k)
  BY <1>1, <1>2, <1>3, Zenon DEF Tracked
<1>5. CASE Paginate
  <2>1. UNCHANGED <<command, table, chain, burnt, mark, marked, purge, failed>>
    BY <1>5, Zenon DEF Paginate
  <2>2. CASE page = 1 /\ k \in table
    <3>1. keys' = Append(keys, table)
      BY <1>1, <1>5, <2>2, FirstPage, Zenon
    <3>2. \A x : x \in Held(keys') <=> x \in Held(keys) \/ x \in table
      BY <1>0, <3>1, AppendHeld, Zenon
    <3> QED  BY <2>2, <3>2, Zenon DEF Queued
  <2>3. CASE Queued(k)
    <3>1. keys' = keys \/ \E rows \in SUBSET Keys : keys' = Append(keys, rows)
      <4>1. keys' = keys \/ \E rows \in SUBSET table : keys' = Append(keys, rows)
        BY <1>5 DEF Paginate, Some
      <4> QED  BY <1>0, <4>1, Zenon
    <3>2. \A rows \in SUBSET Keys : \A x \in Held(keys) : x \in Held(Append(keys, rows))
      BY <1>0, AppendHeld, Zenon
    <3>3. Held(keys) \subseteq Held(keys')
      BY <3>1, <3>2, Zenon
    <3> QED  BY <2>1, <2>3, <3>3, Zenon DEF Queued
  <2>4. CASE Purged(k)
    BY <2>1, <2>4, Zenon DEF Left
  <2> QED  BY <1>4, <2>2, <2>3, <2>4, Zenon
<1>6. CASE PaginateFails
  BY <1>6, Zenon DEF PaginateFails
<1>7. ASSUME NEW w \in Markers, MarkStart(w) PROVE Where(k)'
  <2>1. UNCHANGED <<command, table, chain, burnt, page, marked, purge, failed>>
    BY <1>7, Zenon DEF MarkStart
  <2>2. CASE (page = 1 /\ k \in table) \/ Purged(k)
    BY <2>1, <2>2, Zenon DEF Left
  <2>3. CASE Queued(k)
    <3>1. Head(keys) \in SUBSET Keys /\ Held(keys) = Head(keys) \cup Held(keys')
      BY <1>0, <1>7, TailHeld, Zenon DEF MarkStart
    <3>2. Head(keys) \subseteq Held(mark') /\ \A x \in Held(mark) : x \in Held(mark') \/ x \in mark[w]
      BY <1>0, <1>7, <3>1, ChangedHeld, Zenon DEF MarkStart
    <3>3. mark[w] = {}
      BY <1>7, Zenon DEF MarkStart
    <3> QED  BY <2>1, <2>3, <3>1, <3>2, <3>3, Zenon DEF Queued
  <2> QED  BY <1>4, <2>2, <2>3, Zenon
<1>8. ASSUME NEW w \in Markers, Mark(w) PROVE Where(k)'
  <2>1. UNCHANGED <<command, table, chain, burnt, page, keys, purge>>
    BY <1>8, Zenon DEF Mark
  <2>2. CASE (page = 1 /\ k \in table) \/ Purged(k)
    BY <2>1, <2>2, Zenon DEF Left
  <2>3. CASE Queued(k)
    <3>1. PICK chunk \in Some(mark[w], Chunk) :
            /\ mark' = [mark EXCEPT ![w] = mark[w] \ chunk]
            /\ LET remove == {x \in chunk : Gone(x)} IN
               marked' = IF remove = {} THEN marked ELSE Append(marked, remove)
      BY <1>8 DEF Mark
    <3> DEFINE remove == {x \in chunk : Gone(x)}
    <3>2. remove \in SUBSET Keys /\ mark[w] \ chunk \in SUBSET Keys
      BY <1>0, Zenon DEF Some
    <3>3. Gone(k)
      BY <1>3, Zenon DEF Gone
    <3>4. k \in chunk => k \in remove
      BY <3>3, Zenon
    <3>5. remove # {} => marked' = Append(marked, remove)
      BY <3>1, Zenon
    <3>6. remove = {} => marked' = marked
      BY <3>1, Zenon
    <3> HIDE DEF remove
    <3>7. \A x : x \in Held(Append(marked, remove)) <=> x \in Held(marked) \/ x \in remove
      BY <1>0, <3>2, AppendHeld, Zenon
    <3>8. /\ mark[w] \ chunk \subseteq Held(mark')
          /\ \A x \in Held(mark) : x \in Held(mark') \/ x \in mark[w]
      <4>1. mark' = [mark EXCEPT ![w] = mark[w] \ chunk]
        BY <3>1, Zenon
      <4> DEFINE rest == mark[w] \ chunk
      <4>2. mark \in [Markers -> SUBSET Keys] /\ rest \in SUBSET Keys
        BY <1>0, <3>2, Zenon
      <4>3. mark' = [mark EXCEPT ![w] = rest]
        BY <4>1, Zenon
      <4> HIDE DEF rest
      <4>4. rest \subseteq Held(mark') /\ \A x \in Held(mark) : x \in Held(mark') \/ x \in mark[w]
        BY <4>2, <4>3, ChangedHeld, Zenon
      <4> QED  BY <4>4, Zenon DEF rest
    <3>9. Held(marked) \cup remove \subseteq Held(marked')
      BY <3>5, <3>6, <3>7, Zenon
    <3> QED  BY <2>1, <2>3, <3>4, <3>8, <3>9, Zenon DEF Queued
  <2> QED  BY <1>4, <2>2, <2>3, Zenon
<1>9. ASSUME NEW w \in Purgers, PurgeStart(w) PROVE Where(k)'
  <2>1. UNCHANGED <<command, table, chain, burnt, page, keys, mark, failed>>
    BY <1>9, Zenon DEF PurgeStart
  <2>2. Held(marked) = Head(marked) \cup Held(marked')
    BY <1>0, <1>9, TailHeld, Zenon DEF PurgeStart
  <2>3. /\ purge'[w].keys = Head(marked) /\ purge[w].left = {}
        /\ "rows" \in purge'[w].left /\ (command.mints => "burnt" \in purge'[w].left)
        /\ \A v \in Purgers : v # w => purge'[v] = purge[v]
    BY <1>0, <1>9 DEF PurgeStart
  <2>4. CASE page = 1 /\ k \in table
    BY <2>1, <2>4, Zenon
  <2>5. CASE Queued(k)
    BY <2>1, <2>2, <2>3, <2>5, Zenon DEF Queued, Left
  <2>6. CASE Purged(k)
    <3>1. \A s \in {"rows", "burnt"} : Left(k, s) => Left(k, s)'
      BY <2>3, Zenon DEF Left
    <3> QED  BY <2>1, <2>6, <3>1, Zenon
  <2> QED  BY <1>4, <2>4, <2>5, <2>6, Zenon
<1>10. ASSUME NEW w \in Purgers, DeleteRows(w) PROVE Where(k)'
  <2>1. UNCHANGED <<command, chain, burnt, page, keys, mark, marked>>
    BY <1>10, Zenon DEF DeleteRows
  <2>2. table' = table \ purge[w].keys
    BY <1>10, Zenon DEF DeleteRows
  <2>3. /\ \A v \in Purgers : purge'[v].keys = purge[v].keys
        /\ \A v \in Purgers : "burnt" \in purge[v].left => "burnt" \in purge'[v].left
        /\ \A v \in Purgers : v # w => purge'[v].left = purge[v].left
    BY <1>0, <1>10 DEF DeleteRows
  <2>4. CASE page = 1 /\ k \in table
    BY <1>10, <2>4, Zenon DEF Unread, DeleteRows
  <2>5. CASE Queued(k)
    BY <2>1, <2>5, Zenon DEF Queued
  <2>6. CASE Purged(k)
    BY <2>1, <2>2, <2>3, <2>6, Zenon DEF Left
  <2> QED  BY <1>4, <2>4, <2>5, <2>6, Zenon
<1>11. ASSUME NEW w \in Purgers, MarkBurnt(w) PROVE Where(k)'
  <2>1. UNCHANGED <<command, table, chain, page, keys, mark, marked>>
    BY <1>11, Zenon DEF MarkBurnt
  <2>2. burnt' = burnt \cup purge[w].keys
    BY <1>11, Zenon DEF MarkBurnt
  <2>3. /\ \A v \in Purgers : purge'[v].keys = purge[v].keys
        /\ \A v \in Purgers : "rows" \in purge[v].left => "rows" \in purge'[v].left
        /\ \A v \in Purgers : v # w => purge'[v].left = purge[v].left
    BY <1>0, <1>11 DEF MarkBurnt
  <2>4. CASE page = 1 /\ k \in table
    BY <2>1, <2>4, Zenon
  <2>5. CASE Queued(k)
    BY <2>1, <2>5, Zenon DEF Queued
  <2>6. CASE Purged(k)
    BY <2>1, <2>2, <2>3, <2>6, Zenon DEF Left
  <2> QED  BY <1>4, <2>4, <2>5, <2>6, Zenon
<1>12. ASSUME NEW x \in Keys, Close(x) \/ Reopen(x) PROVE Where(k)'
  <2>1. UNCHANGED <<command, page, keys, mark, marked, purge>>
    BY <1>12, Zenon DEF Close, Reopen
  <2>2. CASE Close(x)
    <3>1. UNCHANGED <<table, burnt>>
      BY <2>2, Zenon DEF Close
    <3> QED  BY <1>4, <2>1, <3>1, Zenon DEF Queued, Left
  <2>3. CASE Reopen(x)
    <3>1. chain'[x] = "token"
      BY <1>0, <2>3 DEF Reopen
    <3>2. x # k
      BY <3>1, Zenon
    <3>3. (k \in table' <=> k \in table) /\ (k \in burnt' <=> k \in burnt)
      BY <2>3, <3>2, Zenon DEF Reopen
    <3> QED  BY <1>4, <2>1, <3>3, Zenon DEF Queued, Left
  <2> QED  BY <1>12, <2>2, <2>3, Zenon
<1>13. CASE UNCHANGED purgeVars
  BY <1>4, <1>13, Zenon DEF purgeVars, Queued, Left
<1> QED
  BY <1>5, <1>6, <1>7, <1>8, <1>9, <1>10, <1>11, <1>12, <1>13, Zenon
     DEF PurgeNext, Paging, Marking, Purging

\* Every step of the three stages, and of the chain, keeps the invariant.
LEMMA PurgeStep == PurgeInv /\ [PurgeNext]_purgeVars => PurgeInv'
BY PurgeTypeStep, OnlyGoneStep, UnreadStep, TrackedStep, Zenon DEF PurgeInv

\* The variables of the purge commands keep their types.
THEOREM PurgeTypeCorrect == PurgeSpec => []PurgeTypeOK
<1>1. PurgeInv => PurgeTypeOK
  BY DEF PurgeInv
<1> QED  BY <1>1, InitPurge, PurgeStep, PTL DEF PurgeSpec

\* The purge commands delete and burn what is gone and nothing that exists (Paginate,
\* MarkDeletion, TokenAccountPurge, MintPurge), for any table, chain, sizes of pages and
\* chunks, and numbers of markers and purgers, within the limits of the property.
THEOREM PurgedAreGone == PurgeSpec => []PurgesExactlyGone
<1>1. ASSUME PurgeInv PROVE PurgesExactlyGone
  <2>1. PurgeTypeOK /\ OnlyGone /\ Tracked
    BY <1>1, Zenon DEF PurgeInv
  <2>2. ASSUME Cardinality(Keys) <= command.batch, PurgeFinished, ~failed,
               NEW k \in Keys, chain[k] \in {"other", "none"}
        PROVE  k \notin table /\ (command.mints => k \in burnt)
    <3>1. page # 1
      BY <2>2 DEF PurgeFinished
    <3>2. Held(keys) = {} /\ Held(marked) = {}
      <4>1. DOMAIN keys = {} /\ DOMAIN marked = {}
        BY <2>2 DEF PurgeFinished
      <4> QED  BY <4>1, Zenon DEF Held, Range
    <3>3. Held(mark) = {}
      <4>1. DOMAIN mark = Markers
        BY <2>1, Zenon DEF PurgeTypeOK
      <4>2. \A w \in Markers : mark[w] = {}
        BY <2>2, Zenon DEF PurgeFinished
      <4> QED  BY <4>1, <4>2, Zenon DEF Held, Range
    <3>4. \A s \in {"rows", "burnt"} : ~Left(k, s)
      BY <2>2, Zenon DEF Left, PurgeFinished
    <3> QED  BY <2>1, <2>2, <3>1, <3>2, <3>3, <3>4, Zenon DEF Tracked, Queued
  <2> QED  BY <2>1, <2>2, Zenon DEF PurgesExactlyGone, OnlyGone, Lasting
<1> QED  BY <1>1, InitPurge, PurgeStep, PTL DEF PurgeSpec
===============================================================================
