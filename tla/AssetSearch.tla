---------------------------- MODULE AssetSearch ----------------------------
(***************************************************************************)
(* searchAssets: the condition that SearchAssetsQuery::conditions builds   *)
(* (digital_asset_types/src/dao/mod.rs), evaluated as SQL does, and what   *)
(* search_assets (dapi/search_assets.rs) drops from the answer.  One asset *)
(* with its creator, grouping and token account rows is searched for with  *)
(* every query; None is a field the query leaves out.                      *)
(*                                                                         *)
(* frozen stands for the filters that compare a column with a value        *)
(* (delegate, compressed, royalty, agent ... are treated alike), class for *)
(* specification_asset_class.  A grouping row is current if hydration keeps *)
(* it: newer than the others of its key, and verified or asked for anyway.  *)
(***************************************************************************)
EXTENDS Integers, FiniteSets

CONSTANTS
    None, Null,
    Assets,         \* assets with the rows that belong to them
    Queries         \* SearchAssetsQuery values

VARIABLES
    asset,          \* the asset in the index
    query,          \* None or the query being answered
    found           \* None, or whether the page read and the answer have it

vars == <<asset, query, found>>

----------------------------------------------------------------------------
(* SQL's three-valued logic. *)

Eq(column, value) == IF column = Null THEN Null ELSE column = value
In(column, values) == IF column = Null THEN Null ELSE column \in values
All(terms) == IF FALSE \in terms THEN FALSE ELSE IF Null \in terms THEN Null ELSE TRUE
Any(terms) == IF TRUE \in terms THEN TRUE ELSE IF Null \in terms THEN Null ELSE FALSE
Not(term) == IF term = Null THEN Null ELSE ~term

\* Condition::add_option
Given(field, term) == IF field = None THEN {} ELSE {term}

----------------------------------------------------------------------------
(* SearchAssetsQuery *)

Nfts == {"nft", "core"}
Fungibles == {"fungible"}

validate(q) ==
    q.token_type # None =>
        q.owner_type = None /\ q.owner_address # None /\ q.interface = None

token_type(q, a) ==
    CASE q.token_type = "compressed" -> a.tree # Null
      [] q.token_type = "nft" -> All({a.tree = Null, In(a.class, Nfts)})
      [] q.token_type = "fungible" -> In(a.class, Fungibles)
      [] OTHER -> a.class # Null

\* Fungible tokens and "all" also match by the owner of a token account.
owner_address(q, a, account) ==
    IF q.token_type \in {"fungible", "all"}
      THEN Any({Eq(a.owner, q.owner_address), Eq(account, q.owner_address)})
      ELSE Eq(a.owner, q.owner_address)

\* "By default, we ignore malformed tokens by ignoring tokens with supply=0
\* unless they are burnt."
supply(q, a) ==
    IF q.supply # None THEN Eq(a.supply, q.supply)
                       ELSE Any({a.supply # 0, Eq(a.burnt, TRUE)})

owner_type(q, a) ==
    CASE q.owner_type # None -> Eq(a.owner_type, q.owner_type)
      [] q.token_type = "fungible" -> All({Eq(a.owner_type, "token"), In(a.class, Fungibles)})
      [] q.token_type = "all" -> a.class # Null
      [] OTHER -> All({Eq(a.owner_type, "single"), a.supply =< 1})

\* The terms of the condition, for one joined row of each kind.
terms(q, a, creator, group, account) ==
    Given(q.token_type, token_type(q, a))
    \cup Given(q.interface, Eq(a.class, q.interface))
    \cup Given(q.owner_address, owner_address(q, a, account))
    \cup Given(q.frozen, Eq(a.frozen, q.frozen))
    \cup Given(q.burnt, Eq(a.burnt, q.burnt))
    \cup {supply(q, a), owner_type(q, a)}
    \cup Given(q.creator_address, Eq(creator.who, q.creator_address))
    \cup Given(q.creator_verified, Eq(creator.verified, q.creator_verified))
    \cup Given(q.grouping, Eq(group.value, q.grouping))

\* A LEFT JOIN: the rows, or one row of NULLs.
Joined(rows, nulls) == IF rows = {} THEN {nulls} ELSE rows
NoCreator == [who |-> Null, verified |-> Null]
NoGroup == [value |-> Null, current |-> FALSE]

\* Mutant: creator and verification are looked up in different rows.
SelectsAnyRow(q, a) ==
    \E creator \in Joined(a.creators, NoCreator), other \in Joined(a.creators, NoCreator),
       group \in Joined(a.groups, NoGroup), account \in Joined(a.accounts, Null) :
        LET row == [who |-> creator.who, verified |-> other.verified]
        IN  All(terms(q, a, row, group, account)) = TRUE

\* conditions, and the statement that get_assets_by_condition runs with them.
Selects(q, a) ==
    \E creator \in Joined(a.creators, NoCreator), group \in Joined(a.groups, NoGroup),
       account \in Joined(a.accounts, Null) :
        LET ts == terms(q, a, creator, group, account)
            condition == IF q.condition_type = "any" THEN Any(ts) ELSE All(ts)
        IN  (IF q.negate THEN Not(condition) ELSE condition) = TRUE

\* search_assets: "drop assets whose latest grouping state no longer matches".
Retained(q, a) ==
    q.grouping # None => \E g \in a.groups : g.value = q.grouping /\ g.current

----------------------------------------------------------------------------

Search ==
    /\ query = None
    /\ query' \in Queries
    /\ LET page == validate(query') /\ Selects(query', asset)
       IN  found' = [page |-> page, answer |-> page /\ Retained(query', asset)]
    /\ UNCHANGED asset

Return == query # None /\ query' = None /\ found' = None /\ UNCHANGED asset

Init == asset \in Assets /\ query = None /\ found = None

Next == Search \/ Return

Spec == Init /\ [][Next]_vars

----------------------------------------------------------------------------
(* Properties. *)

Found == found # None /\ found.answer

\* Every condition of the query must hold: the default.  With "any", or
\* negated, the terms that keep malformed tokens out are alternatives too.
Plain == query # None /\ query.condition_type = "all" /\ ~query.negate

\* "By default, we ignore malformed tokens": a search that does not ask for a
\* supply finds no asset with supply 0 that is not burnt.
IgnoresMalformed ==
    Plain /\ Found /\ query.supply = None => asset.supply # 0 \/ asset.burnt = TRUE

\* "The supply check guarentees we do not include those": without a token or
\* owner type, a search finds no fungible that was marked as owned by one.
DefaultsToNfts ==
    Plain /\ Found /\ query.owner_type = None /\ query.token_type \in {None, "compressed", "nft"}
        => asset.owner_type = "single" /\ asset.supply =< 1

\* A search by token type finds only what the owner it names holds, as owner
\* of the asset or, if fungibles are wanted, of a token account of its mint.
TokenTypeIsHeld ==
    Plain /\ Found /\ query.token_type # None =>
        \/ asset.owner = query.owner_address
        \/ query.token_type \in {"fungible", "all"} /\ query.owner_address \in asset.accounts

\* A search for a verified creator finds assets that this creator verified, not
\* assets that have the creator and that someone else verified.
VerifiedByCreator ==
    Plain /\ Found /\ query.creator_address # None /\ query.creator_verified = TRUE =>
        [who |-> query.creator_address, verified |-> TRUE] \in asset.creators

\* What search_assets drops from a page is what a stale grouping row brought
\* in: the asset has a row of the group that is no longer current.
DropsOnlyStale ==
    Plain /\ found.page /\ ~found.answer =>
        \E g \in asset.groups : g.value = query.grouping /\ ~g.current
=============================================================================
