---------------------------- MODULE PageRequests ----------------------------
(***************************************************************************)
(* One list request after another goes through validate_pagination and     *)
(* create_pagination: every combination of parameters a client may send.   *)
(***************************************************************************)
EXTENDS Pagination

CONSTANTS
    Limits, Pages, Keys,        \* values a client gives
    Sorts                       \* sortings of the methods; None for no sorting

VARIABLES
    request,        \* None or the parameters of the call
    options,        \* None, Invalid or the PageOptions
    pagination      \* None, Invalid or the Pagination

vars == <<request, options, pagination>>

Requests ==
    [limit : Limits \cup {None}, page : Pages \cup {None}, before : Keys \cup {None},
     after : Keys \cup {None}, cursor : Keys \cup {None}, sort : Sorts]

Ask ==
    /\ request = None
    /\ request' \in Requests
    /\ UNCHANGED <<options, pagination>>

Validate ==
    /\ request # None /\ options = None
    /\ options' = validate_pagination(request)
    /\ UNCHANGED <<request, pagination>>

\* The call fails, or the page is read and returned.
Return ==
    /\ options # None
    /\ options = Invalid \/ pagination # None
    /\ request' = None /\ options' = None /\ pagination' = None

Create ==
    /\ options \notin {None, Invalid} /\ pagination = None
    /\ pagination' = create_pagination(options)
    /\ UNCHANGED <<request, options>>

Init == request = None /\ options = None /\ pagination = None

Next == Ask \/ Validate \/ Create \/ Return

Spec == Init /\ [][Next]_vars

----------------------------------------------------------------------------

\* A request that validate_pagination lets through never ends in
\* create_pagination's "Invalid Pagination".
AcceptedIsPaged == pagination # Invalid

\* A list is paged the way the request says: every parameter that was given
\* and accepted is used, by the methods that have a sorting.
AskedIsUsed ==
    pagination \notin {None, Invalid} /\ request.sort # None =>
        /\ request.page # None => pagination.by = "page" /\ pagination.page = request.page
        /\ request.before # None => pagination.by = "keyset" /\ pagination.before = request.before
        /\ request.after # None => pagination.by = "keyset" /\ pagination.after = request.after
        /\ request.cursor # None => pagination.by = "cursor" /\ pagination.id = request.cursor
=============================================================================
