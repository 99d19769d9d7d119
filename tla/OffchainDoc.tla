----------------------------- MODULE OffchainDoc -----------------------------
(***************************************************************************)
(* What the columns metadata_url, metadata and reindex of asset_data        *)
(* promise to their readers, whoever downloads the documents: a row that    *)
(* does not owe a download holds the outcome for the URL it points to now.  *)
(* Both download services implement this: the background tasks of           *)
(* nft_ingester (TaskQueue) and the workers of grpc_ingester                *)
(* (MetadataDownload).                                                      *)
(***************************************************************************)
CONSTANTS
    Assets, Urls,
    NoRow,        \* the asset has no row yet
    Processing,   \* the document of a row that nothing was stored for
    Outcome(_)    \* what may be stored for a URL; GaveUp keeps the document
CONSTANT GaveUp

VARIABLES url, doc, owed

Init ==
    /\ url = [a \in Assets |-> NoRow]
    /\ doc = [a \in Assets |-> NoRow]
    /\ owed = [a \in Assets |-> FALSE]

\* The chain says that the asset's document is at u, again or for the first time.
Point(a, u) ==
    /\ url' = [url EXCEPT ![a] = u]
    /\ doc' = [doc EXCEPT ![a] = IF url[a] = NoRow THEN Processing ELSE @]
    /\ owed' = [owed EXCEPT ![a] = TRUE]

\* A download for the URL that the row points to at this moment is over.
Settle(a, o) ==
    /\ url[a] # NoRow /\ o \in Outcome(url[a])
    /\ doc' = [doc EXCEPT ![a] = IF o = GaveUp THEN @ ELSE o]
    /\ owed' = [owed EXCEPT ![a] = FALSE]
    /\ UNCHANGED url

\* An operator asks for documents again.
Reopen ==
    /\ owed' = [a \in Assets |-> owed[a] \/ doc[a] = Processing]
    /\ UNCHANGED <<url, doc>>

Next ==
    \/ \E a \in Assets, u \in Urls : Point(a, u)
    \/ \E a \in Assets : \E o \in UNION {Outcome(u) : u \in Urls} : Settle(a, o)
    \/ Reopen

Spec == Init /\ [][Next]_<<url, doc, owed>>
=============================================================================
