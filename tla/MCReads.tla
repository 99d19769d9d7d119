------------------------------ MODULE MCReads ------------------------------
(***************************************************************************)
(* The read side of das_api, for TLC: a client pages through a listing      *)
(* (AssetListing, by creator, by group and page by page), sends requests    *)
(* with any parameters (PageRequests), searches (AssetSearch), and asks     *)
(* for proofs (AssetProof), while the ingester writes what is read.  The    *)
(* calls share no state of the server: a behaviour is one of these parts.   *)
(***************************************************************************)
EXTENDS Integers, FiniteSetsExt, SequencesExt

CONSTANTS None, Invalid, Nobody, Null, Empty, a, b, c, w1, w2, x, y, g

VARIABLES
    part,           \* which of the parts this behaviour is about
    supply, data, slot, rows, holds, listing, page, changed,            \* AssetListing
    request,                                                            \* one at a time
    options, pagination,                                                \* PageRequests
    asset, query, found,                                                \* AssetSearch
    chain, cl_items, assets, writer, begun, indexed, answer             \* AssetProof

listed == <<supply, data, slot, rows, holds, listing, page, changed>>
paged == <<options, pagination>>
searched == <<asset, query, found>>
proved == <<chain, cl_items, assets, writer, begun, indexed, answer>>
vars == <<part, listed, request, paged, searched, proved>>

Creator == INSTANCE AssetListing WITH Ids <- 1 .. 3, Who <- {x, y}, Wanted <- x,
    Compressed <- {1, 3}, Kind <- "creator", Mode <- "cursor", Direction <- "desc", Limit <- 2,
    Late <- {}, MaxList <- 2, MaxSlot <- 2

Group == INSTANCE AssetListing WITH Ids <- 1 .. 3, Who <- {x, y}, Wanted <- x,
    Compressed <- {}, Kind <- "group", Mode <- "keyset", Direction <- "asc", Limit <- 1,
    Late <- {1}, MaxList <- 1, MaxSlot <- 2

Owner == INSTANCE AssetListing WITH Ids <- 1 .. 3, Who <- {x, y}, Wanted <- x,
    Compressed <- {}, Kind <- "owner", Mode <- "page", Direction <- "asc", Limit <- 2, Late <- {2},
    MaxList <- 1, MaxSlot <- 2

Paging == INSTANCE PageRequests WITH Limits <- {1, 1000, 1001}, Pages <- {0, 1, 2},
    Keys <- {5, 6}, Sorts <- {None, "id", "created"}

Opt(S) == S \cup {None}

SearchedAssets ==
    [supply : {0, 1, 2}, burnt : BOOLEAN, class : {"nft", "fungible", Null},
     tree : {"tree", Null}, owner_type : {"single", "token"}, owner : {x, Null}, frozen : {FALSE},
     creators : {{}, {[who |-> x, verified |-> FALSE], [who |-> y, verified |-> TRUE]},
                 {[who |-> x, verified |-> TRUE]}},
     groups : {{}, {[value |-> g, current |-> FALSE]}, {[value |-> g, current |-> TRUE]}},
     accounts : {{}, {x}}]

SearchQueries ==
    [condition_type : {"all", "any"}, negate : BOOLEAN,
     token_type : {None, "compressed", "nft", "fungible", "all"},
     interface : {None}, owner_type : Opt({"single"}), owner_address : Opt({x}),
     frozen : {None}, supply : Opt({0}), burnt : {None}, creator_address : Opt({x}),
     creator_verified : Opt({TRUE}), grouping : Opt({g})]

\* Alternatives and negations with few terms only.
FewQueries ==
    {q \in SearchQueries :
        \/ q.condition_type = "all" /\ ~q.negate
        \/ /\ q.creator_verified = None /\ q.owner_type = None /\ q.token_type = None
           /\ q.owner_address = None}

Search == INSTANCE AssetSearch WITH Assets <- SearchedAssets, Queries <- FewQueries

\* A tree of four leaves with three changes of two of them.  Each change has a hash of its
\* own: hashes are only compared, so that what holds of these holds when some are equal.
Proof == INSTANCE AssetProof WITH Depth <- 2, Touched <- {4, 7}, Values <- {a, b, c}, MaxSeq <- 3,
    Writers <- {w1, w2}

Hashes == <<a, b, c>>

Symmetric == Permutations({w1, w2})

-----------------------------------------------------------------------------
NotListed ==
    /\ supply = None /\ data = None /\ slot = None /\ rows = None /\ holds = None
    /\ listing = None /\ page = None /\ changed = None
NotPaged == options = None /\ pagination = None
NotSearched == asset = None /\ query = None /\ found = None
NotProved ==
    /\ chain = None /\ cl_items = None /\ assets = None /\ writer = None /\ begun = None
    /\ indexed = None /\ answer = None

Init ==
    \/ /\ \/ part = "creator" /\ Creator!Init
          \/ part = "group" /\ Group!Init
          \/ part = "owner" /\ Owner!Init
       /\ request = None /\ NotPaged /\ NotSearched /\ NotProved
    \/ part = "paging" /\ Paging!Init /\ NotListed /\ NotSearched /\ NotProved
    \/ part = "search" /\ Search!Init /\ request = None /\ NotListed /\ NotPaged /\ NotProved
    \/ /\ part = "proof" /\ Proof!Init /\ \A s \in 1 .. 3 : chain[s].value = Hashes[s]
       /\ NotListed /\ NotPaged /\ NotSearched

Next ==
    \/ part = "creator" /\ Creator!Next /\ UNCHANGED <<part, request, paged, searched, proved>>
    \/ part = "group" /\ Group!Next /\ UNCHANGED <<part, request, paged, searched, proved>>
    \/ part = "owner" /\ Owner!Next /\ UNCHANGED <<part, request, paged, searched, proved>>
    \/ part = "paging" /\ Paging!Next /\ UNCHANGED <<part, listed, searched, proved>>
    \/ part = "search" /\ Search!Next /\ UNCHANGED <<part, request, listed, paged, proved>>
    \/ part = "proof" /\ Proof!Next /\ UNCHANGED <<part, listed, paged, searched>>

Spec == Init /\ [][Next]_vars

-----------------------------------------------------------------------------
\* A listing has what the index has.  No asset is on two pages of a listing that is
\* continued with a cursor or a keyset, whatever is written meanwhile (paginate,
\* build_asset_response).  It does not step over an asset: once the cursor has passed
\* one that qualifies and that nobody writes, it was on a page, and so was every such
\* asset when the listing ends, unless it ended because all rows of a page were dropped
\* when their relations were read.  Page after page of an index that nobody writes has
\* every asset that qualifies, once, with the same reservation.  getGrouping counts the
\* assets whose newest list has the group, whatever rows were left behind ("Only count
\* rows whose slot_updated matches the max for that (asset_id, group_key)").
ListingIsExact ==
    /\ part = "creator" => Creator!TypeOK /\ Creator!ListedOnce /\ Creator!NothingSkipped
    /\ part = "group" => /\ Group!TypeOK /\ Group!ListedOnce /\ Group!NothingSkipped
                         /\ Group!GroupSizeIsExact
    /\ part = "owner" => Owner!TypeOK /\ Owner!PagesTile

\* An asset is listed under a creator or group only if the list written last
\* has it at the moment its rows are read: "Only retain those assets that have
\* the required creator" (get_related_for_assets), and the same for groups
\* (get_by_grouping).  An asset of Token Metadata or Core that lost its last
\* creator is excepted: its update writes no creator, the earlier ones keep the
\* newest slot, and it stays listed under them (save_v1_asset).
ListedIsCurrent ==
    [][/\ part = "creator" => Creator!ReadsCurrent
       /\ part = "group" => Group!ReadsCurrent]_vars

\* A request that validate_pagination lets through never ends in create_pagination's
\* "Invalid Pagination", and a list is paged the way the request says: every parameter
\* that was given and accepted is used, by the methods that have a sorting.
PagedAsAsked ==
    part = "paging" => Paging!AcceptedIsPaged /\ Paging!AskedIsUsed

\* A search finds what it asks for.  Without a supply, no asset with supply 0 that is
\* not burnt ("By default, we ignore malformed tokens"); without a token or owner type,
\* no fungible that was marked as owned by one ("The supply check guarentees we do not
\* include those"); by token type, only what the owner it names holds, as owner of the
\* asset or, if fungibles are wanted, of a token account of its mint; for a verified
\* creator, assets that this creator verified, not that someone else did.  And what
\* search_assets drops from a page is what a stale grouping row brought in.
FoundAsAsked ==
    part = "search" =>
        /\ Search!IgnoresMalformed /\ Search!DefaultsToNfts /\ Search!TokenTypeIsHeld
        /\ Search!VerifiedByCreator /\ Search!DropsOnlyStale

\* The proof of an asset is its proof in the tree on chain after the changes
\* indexed so far, in whatever order and however often their events were
\* handled, as long as the two queries of get_proof_for_asset and
\* get_asset_proofs see an index that ends at one change.  (Otherwise a proof
\* may be served that does not lead to its root: get_proof_for_asset only
\* fails when the leaf itself is missing.)
ProofOfIndexedTree ==
    part = "proof" => Proof!TypeOK /\ Proof!ProofOfIndexedTree
=============================================================================
