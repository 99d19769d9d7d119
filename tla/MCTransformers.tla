--------------------------- MODULE MCTransformers ---------------------------
(***************************************************************************)
(* What the gRPC ingester does with what it receives, for TLC.  The handlers of  *)
(* a token's accounts (TokenAssets), the decoding of a transaction                *)
(* (Instructions) and the file of its cursor, written by one task at a time       *)
(* (CursorFile), share no state: a behaviour is one of these parts, while the     *)
(* others have not started.                                                      *)
(***************************************************************************)
EXTENDS TokenAssets, CursorFile, FiniteSetsExt, SequencesExt

CONSTANTS w1, w2, a1, a2, A, B, C, u1, u2

VARIABLES
    part,           \* which of the parts this behaviour is about
    tx, stack, calls, pending, applied, failures, result        \* Instructions

transaction == <<tx, stack, calls, pending, applied, failures, result>>
parts == <<part, vars, transaction, fileVars>>

-----------------------------------------------------------------------------
(* Accounts of a token. *)

Mint(supply, s) == [kind |-> "mint", key |-> "mint", slot |-> s, supply |-> supply, uri |-> None]

Ext(uri, s) == [kind |-> "mint", key |-> "mint", slot |-> s, supply |-> 1, uri |-> uri]

Acc(key, owner, amount, s) ==
    [kind |-> "account", key |-> key, slot |-> s, owner |-> owner, amount |-> amount]

Meta(standard, uri, auth, coll, crs, s) ==
    [kind |-> "metadata", key |-> "metadata", slot |-> s, standard |-> standard, uri |-> uri,
     authority |-> auth, collection |-> coll, creators |-> crs]

Edition(type, s) == [kind |-> "edition", key |-> "edition", slot |-> s, type |-> type]

Other(kind, key, s) == [kind |-> kind, key |-> key, slot |-> s]

\* Three versions of a metadata account: it leaves its collection, then its uri is cleared.
MCVersions ==
    {Meta("nft", u1, A, C, <<A, B>>, 1), Meta("nft", u2, A, None, <<A>>, 2),
     Meta("nft", Empty, A, None, <<B, A>>, 3), Mint(1, 1)}

\* The accounts attached to an NFT, and the instructions that close its accounts.
MCAttached ==
    {Meta("nft", u1, A, None, <<>>, 1), Edition("MasterEditionV1", 2), Edition("Edition", 3),
     Other("empty", "metadata", 4), Other("empty", "metadata", 5), Acc(a1, A, 1, 1),
     Other("inscription", "inscription", 2), Other("inscription", "inscription", 3),
     Other("close", "mint", 5), Other("close", a1, 5)}

\* An NFT that changes hands by a new owner of its account, of a standard known from its
\* supply alone; its mint is known.
MCHandOver ==
    {Acc(a1, A, 1, 2), Acc(a1, B, 1, 4), Acc(a1, C, 1, 5),
     Meta(None, u1, A, None, <<>>, 6)}

\* An NFT is transferred to another token account, and back.
MCTransfer ==
    {Acc(a1, A, 1, 1), Acc(a1, A, 0, 2), Acc(a2, B, 1, 2), Acc(a1, A, 1, 3), Acc(a2, B, 0, 3),
     Meta("nft", u1, A, None, <<>>, 1)}

\* A token of Token-2022 whose metadata and supply change.
MCExtension == {Ext(Empty, 1), Ext(u1, 2), [Ext(u2, 3) EXCEPT !.supply = 2],
                Meta(None, u1, A, None, <<>>, 2)}

MCMintKnown == {Mint(1, 1)}

History(updates, indexed, workers) ==
    [updates |-> updates, indexed |-> indexed, workers |-> workers]

MCHistories ==
    {History(MCVersions, {}, {w1, w2}), History(MCAttached, MCMintKnown, {w1}),
     History(MCHandOver, MCMintKnown, {w1, w2}), History(MCExtension, {}, {w1, w2}),
     History(MCTransfer, MCMintKnown, {w1})}

-----------------------------------------------------------------------------
(* Instructions. *)

\* InstructionName
AllNames ==
    {"Unknown", "MintV1", "MintToCollectionV1", "Redeem", "CancelRedeem", "Transfer",
     "Delegate", "DecompressV1", "Compress", "Burn", "CreateTree", "VerifyCreator",
     "UnverifyCreator", "VerifyCollection", "UnverifyCollection", "SetAndVerifyCollection",
     "SetDecompressibleState", "UpdateMetadata", "BurnV2", "CollectV2", "CreateTreeV2",
     "DelegateAndFreezeV2", "DelegateV2", "FreezeV2", "MintV2", "SetCollectionV2",
     "SetNonTransferableV2", "ThawAndRevokeV2", "ThawV2", "TransferV2", "UnverifyCreatorV2",
     "UpdateAssetDataV2", "UpdateMetadataV2", "VerifyCreatorV2"}

SomeNames == {"MintV1", "Burn", "DecompressV1", "Core", "CloseAccount", "Other"}

-----------------------------------------------------------------------------
\* Few instructions in transactions of four calls, nested three deep, with an error.
Nested == INSTANCE Instructions WITH Names <- SomeNames, MaxCalls <- 4, MaxDepth <- 3,
            MaxFailures <- 1

\* Every instruction, in transactions of two calls.
Named == INSTANCE Instructions WITH Names <- AllNames, MaxCalls <- 2, MaxDepth <- 2,
            MaxFailures <- 0

\* No account of the token is handled.
NoToken == Init /\ history = CHOOSE h \in Histories : TRUE

PartsInit ==
    /\ Nested!Init /\ FileInit
    /\ \/ part = "token" /\ Init
       \/ part \in {"nested", "named", "cursor"} /\ NoToken

\* Nothing is left to do for the transaction.
Over == /\ part \in {"nested", "named"} /\ result \in {"ok", "not_implemented", "parsing_error"}
        /\ UNCHANGED parts

PartsNext ==
    \/ part = "token" /\ Next /\ UNCHANGED <<part, transaction, fileVars>>
    \/ part = "nested" /\ Nested!Next /\ UNCHANGED <<part, vars, fileVars>>
    \/ part = "named" /\ Named!Next /\ UNCHANGED <<part, vars, fileVars>>
    \/ part = "cursor" /\ FileNext /\ UNCHANGED <<part, vars, transaction>>
    \/ Over

PartsSpec == PartsInit /\ [][PartsNext]_parts

-----------------------------------------------------------------------------
\* A transaction is handled as it was executed.  However calls are nested and logs
\* interleaved, a handler gets the leaf and the change of the tree that its own call
\* logged; handle_transaction applies the Bubblegum calls in the order they ran, each
\* once, also in an attempt after a failed one; a transaction is done with only when each
\* of its calls has been applied, and nothing that ran is refused as unparsable.
HandledAsExecuted ==
    /\ Nested!EventsAreOwn /\ Nested!AppliedInOrder /\ Nested!DoneIsComplete
    /\ Nested!NothingUnparsable /\ Nested!TypeOK
=============================================================================
