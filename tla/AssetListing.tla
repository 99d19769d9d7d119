---------------------------- MODULE AssetListing ----------------------------
(***************************************************************************)
(* A client pages through getAssetsByOwner, getAssetsByAuthority,          *)
(* getAssetsByCreator or getAssetsByGroup while the ingester writes.  One  *)
(* page takes several statements: the page of asset rows                   *)
(* (get_by_related_condition, get_assets_by_condition), then their         *)
(* asset_data, creators and groupings (get_related_for_assets), each seen  *)
(* at another moment.                                                      *)
(*                                                                         *)
(* Kind says what the list is by.  A relation row is [at, who, slot]: at   *)
(* is what makes the row unique for its asset (the position of a creator,  *)
(* the value of a group, nothing for an owner or an authority), so that a  *)
(* later write leaves rows behind that are no longer true.                 *)
(***************************************************************************)
EXTENDS Pagination, FiniteSetsExt, SequencesExt

CONSTANTS
    Ids,            \* ids of assets, 1..n in their order
    Who,            \* owners, creators or groups
    Wanted,         \* the one that is asked for
    Compressed,     \* the assets that Bubblegum writes
    Nobody,         \* the NULL group value
    Kind,           \* "owner", "creator" or "group"
    Mode,           \* "cursor", "keyset" or "page"
    Direction,      \* "asc" or "desc"
    Limit,
    Late,           \* assets whose asset_data is not indexed at first
    MaxList,        \* bound: creators or groups of an asset
    MaxSlot         \* bound: the last slot with a write

VARIABLES
    supply,         \* [Ids -> supply]
    data,           \* ids with an asset_data row
    slot,           \* slot of the newest write
    rows,           \* [Ids -> set of relation rows]
    holds,          \* [Ids -> the list written last]
    listing,        \* None or [next, listed, over, emptied]
    page,           \* None, or how far the current request is
    changed         \* ids written since the listing began

vars == <<supply, data, slot, rows, holds, listing, page, changed>>

----------------------------------------------------------------------------
(* The ingester. *)

\* An empty list is a group whose value is NULL, or one empty creator; but
\* Token Metadata and Core write no creators then.
Named(i, list) ==
    IF list # <<>> THEN list
    ELSE IF Kind = "creator" /\ i \notin Compressed THEN <<>> ELSE <<Nobody>>

\* A new list for the asset: creators by position, groups by value, an owner or
\* authority in place.
Written(i, list, s) ==
    LET named == Named(i, list)
    IN  {[at |-> CASE Kind = "creator" -> k [] Kind = "group" -> named[k] [] OTHER -> 0,
          who |-> named[k], slot |-> s] : k \in DOMAIN named}

Replaced(i, list) == {r \in rows[i] : \E n \in Written(i, list, 0) : n.at = r.at}

\* No one is on a list twice.
Lists == UNION {{list \in [1 .. n -> Who] : IsInjective(list)} :
                   n \in IF Kind = "owner" THEN {1} ELSE 0 .. MaxList}

Write(i) ==
    /\ slot < MaxSlot /\ slot' = slot + 1
    /\ \E list \in Lists :
          /\ rows' = [rows EXCEPT ![i] = (@ \ Replaced(i, list)) \cup Written(i, list, slot')]
          /\ holds' = [holds EXCEPT ![i] = list]
    /\ changed' = changed \cup {i}
    /\ UNCHANGED <<supply, data, listing, page>>

\* The asset's metadata is indexed.
WriteData(i) ==
    /\ i \notin data
    /\ data' = data \cup {i}
    /\ changed' = changed \cup {i}
    /\ UNCHANGED <<supply, slot, rows, holds, listing, page>>

\* The mint is burnt.
Burn(i) ==
    /\ supply[i] > 0
    /\ supply' = [supply EXCEPT ![i] = 0]
    /\ changed' = changed \cup {i}
    /\ UNCHANGED <<data, slot, rows, holds, listing, page>>

----------------------------------------------------------------------------
(* A request. *)

\* What the client sends next: where the last response ended.
Request ==
    LET at == listing.next
        none == [limit |-> Limit, page |-> None, before |-> None, after |-> None,
                 cursor |-> None, sort |-> "id"]
    IN  CASE Mode = "cursor" -> [none EXCEPT !.cursor = at]
          [] Mode = "keyset" -> IF Direction = "asc" THEN [none EXCEPT !.after = at]
                                                     ELSE [none EXCEPT !.before = at]
          [] Mode = "page" -> [none EXCEPT !.page = IF at = None THEN 1 ELSE at]

Begin ==
    /\ listing # None => listing.over
    /\ listing' = [next |-> None, listed |-> <<>>, over |-> FALSE, emptied |-> FALSE]
    /\ changed' = {}
    /\ UNCHANGED <<supply, data, slot, rows, holds, page>>

\* The statement for the page: the assets joined with their relation rows, a
\* row for each match, in the order of their ids.
Selected ==
    LET matches(i) == IF supply[i] > 0 THEN {r \in rows[i] : r.who = Wanted} ELSE {}
        n == Cardinality(Ids)
        id(k) == IF Direction = "asc" THEN k ELSE n + 1 - k
    IN  FlattenSeq([k \in 1 .. n |-> [j \in 1 .. Cardinality(matches(id(k))) |-> id(k)]])

SelectPage ==
    /\ listing # None /\ ~listing.over /\ page = None
    /\ LET options == validate_pagination(Request)
           found == paginate(create_pagination(options), options.limit, Selected, Direction)
       IN  page' = [step |-> "data", some |-> found # <<>>, ids |-> found]
    /\ UNCHANGED <<supply, data, slot, rows, holds, listing, changed>>

\* asset_data: an asset without a row is dropped.  Assets are kept in an
\* IndexMap, so that one asset appears once.
ReadData ==
    /\ page # None /\ page.step = "data"
    /\ page' = [page EXCEPT !.step = "related",
                            !.ids = SetToSortSeq(ToSet(page.ids) \cap data,
                                       LAMBDA i, j : IF Direction = "asc" THEN i < j ELSE i > j)]
    /\ UNCHANGED <<supply, data, slot, rows, holds, listing, changed>>

\* Mutant: a creator that was left behind counts.
ReadRelatedStale ==
    /\ page # None /\ page.step = "related"
    /\ page' = [page EXCEPT !.step = "respond",
                            !.ids = SelectSeq(page.ids,
                               LAMBDA i : \E r \in rows[i] : r.who = Wanted)]
    /\ UNCHANGED <<supply, data, slot, rows, holds, listing, changed>>

\* filter_out_stale_creators, filter_out_stale_asset_groupings
Current(i) == {r \in rows[i] : \A s \in rows[i] : s.slot =< r.slot}

\* Creators or groupings: the asset must still have the one asked for.  An
\* owner or an authority is not looked at again.
ReadRelated ==
    /\ page # None /\ page.step = "related"
    /\ page' = [page EXCEPT !.step = "respond",
                            !.ids = SelectSeq(page.ids,
                               LAMBDA i : Kind # "owner" => \E r \in Current(i) : r.who = Wanted)]
    /\ UNCHANGED <<supply, data, slot, rows, holds, listing, changed>>

\* build_asset_response: the cursor is the last asset of the response, if there
\* is one.  The client stops when it gets nothing to go on from.
Respond ==
    /\ page # None /\ page.step = "respond"
    /\ LET ids == page.ids
           over == ids = <<>>
           next == IF over THEN listing.next
                   ELSE IF Mode = "page" THEN Request.page + 1 ELSE Last(ids)
       IN  listing' = [next |-> next, listed |-> listing.listed \o ids, over |-> over,
                       emptied |-> over /\ page.some]
    /\ page' = None
    /\ UNCHANGED <<supply, data, slot, rows, holds, changed>>

\* getGrouping: one statement, which looks at neither supply nor asset_data.
get_grouping(w) ==
    Cardinality(UNION {{<<i, r>> : r \in {n \in Current(i) : n.who = w}} : i \in Ids})

----------------------------------------------------------------------------

Init ==
    /\ supply = [i \in Ids |-> 1]
    /\ data = Ids \ Late
    /\ slot = 1
    /\ holds \in [Ids -> Lists]
    /\ rows = [i \in Ids |-> Written(i, holds[i], 1)]
    /\ listing = None /\ page = None /\ changed = {}

Next ==
    \/ \E i \in Ids : Write(i) \/ WriteData(i) \/ Burn(i)
    \/ Begin \/ SelectPage \/ ReadData \/ ReadRelated \/ Respond

Spec == Init /\ [][Next]_vars

----------------------------------------------------------------------------
(* Properties. *)

Listed == IF listing = None THEN {} ELSE ToSet(listing.listed)

\* An asset that qualifies and was not written since the listing began.
Settled(i) == i \notin changed /\ supply[i] > 0 /\ i \in data /\ Wanted \in ToSet(holds[i])

Passed(i) == listing.next # None /\ IF Direction = "asc" THEN i =< listing.next
                                                         ELSE i >= listing.next

\* The creators of the asset are those of an earlier write: the last one had none
\* and no row says so.
LeftBehind(i) == Named(i, holds[i]) = <<>>

\* The rows of an asset that are of the newest slot are the list written last,
\* unless it had no row to write, and no row is newer than the bound.
TypeOK ==
    /\ slot =< MaxSlot
    /\ \A i \in Ids : /\ \A r \in rows[i] : r.slot =< slot
                      /\ LeftBehind(i)
                         \/ {r.who : r \in Current(i)} \ {Nobody} = ToSet(holds[i])
    /\ listing # None => listing.next \in Ids \cup {None} \cup 1 .. Cardinality(Ids) + 1
    /\ page # None => page.step \in {"data", "related", "respond"}

\* No asset is on two pages of a listing that is continued with a cursor or a
\* keyset, whatever is written meanwhile.  (paginate, build_asset_response)
ListedOnce == listing # None => IsInjective(listing.listed)

\* An asset is listed under a creator or group only if the list written last
\* has it at the moment its rows are read: "Only retain those assets that have
\* the required creator" (get_related_for_assets), and the same for groups
\* (get_by_grouping).  An asset of Token Metadata or Core that lost its last
\* creator is excepted: its update writes no creator, the earlier ones keep the
\* newest slot, and it stays listed under them (save_v1_asset).
ReadsCurrent ==
    page # None /\ page.step = "related" /\ page' # page =>
        \A i \in ToSet(page'.ids) : Wanted \in ToSet(holds[i]) \/ LeftBehind(i)

\* A listing does not step over an asset: once the cursor has passed an asset
\* that qualifies and that nobody writes, it was on a page, and so was every
\* such asset when the listing ends, unless it ended because all rows of a
\* page were dropped when their relations were read.
NothingSkipped ==
    listing # None =>
        \A i \in Ids : Settled(i) /\ (Passed(i) \/ (listing.over /\ ~listing.emptied))
                       => i \in Listed

\* Page after page of an index that nobody writes has every asset that
\* qualifies, once, with the same reservation.
PagesTile ==
    listing # None /\ changed = {} =>
        /\ IsInjective(listing.listed)
        /\ listing.over /\ ~listing.emptied => \A i \in Ids : Settled(i) => i \in Listed

\* getGrouping counts the assets whose newest list has the group, whatever
\* rows were left behind (get_grouping: "Only count rows whose slot_updated
\* matches the max for that (asset_id, group_key)").
GroupSizeIsExact ==
    \A w \in Who : get_grouping(w) = Cardinality({i \in Ids : w \in ToSet(holds[i])})
=============================================================================
