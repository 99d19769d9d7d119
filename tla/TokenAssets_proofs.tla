-------------------------- MODULE TokenAssets_proofs --------------------------
(***************************************************************************)
(* Proofs about TokenAssets for every set of histories: any versions of the  *)
(* accounts of a token, handled in any order and any number of times by any  *)
(* number of workers, with statements that fail.  Zenon is named where a    *)
(* step needs no arithmetic.                                                *)
(***************************************************************************)
EXTENDS TokenAssets, TLAPS

IsMint(row) == \E v \in Updates \cup Indexed :
    v.kind = "mint" /\ row.supply = v.supply /\ row.slot = v.slot

IsAccount(row) == \E v \in Updates :
    v.kind = "account" /\ row.owner = v.owner /\ row.slot = v.slot

\* The copies of the rows come from versions of the accounts, ...
TablesSound ==
    /\ tokens # None => IsMint(tokens)
    /\ \A a \in Accounts : token_accounts[a] # None => IsAccount(token_accounts[a])

\* A handler has what it is about to write.
Ready(h) ==
    /\ h.u.kind = "metadata" /\ h.pc = "mint" => h.token # None
    /\ h.u.kind = "metadata" /\ h.pc = "account" => h.account # None
    /\ h.u.kind = "mint" /\ h.pc \in {"data", "meta"} => h.u.uri # None

\* ... those that a handler carries too.
WorkersSound == \A w \in Workers : worker[w] # None =>
    /\ worker[w].token # None => IsMint(worker[w].token)
    /\ worker[w].account # None => IsAccount(worker[w].account)
    /\ Ready(worker[w])

\* The asset's columns of the mint are not older than u.
MintCopied(u) ==
    /\ asset["mint"] # None /\ asset["mint"].slotMint # None
    /\ u.slot <= asset["mint"].slotMint

\* The supply is that of a version of the mint, and every version whose handler has come
\* past its write of the asset is reflected.
SupplySound ==
    /\ asset["mint"] # None /\ asset["mint"].slotMint # None =>
          \E v \in Updates \cup Indexed :
              /\ v.kind = "mint" /\ asset["mint"].supply = v.supply
              /\ asset["mint"].slotMint = v.slot
    /\ \A u \in Of("mint") : MintCopied(u)
    /\ \A w \in Workers : At(w, "mint", "data") \/ At(w, "mint", "meta") => MintCopied(worker[w].u)

OwnerCopied(u) ==
    /\ asset["mint"] # None /\ asset["mint"].slotTA # None
    /\ u.slot <= asset["mint"].slotTA

\* The owner is that of a version of a token account.  The row of a known NFT stays in
\* tokens, so that no handler of an account returns early.
OwnerSound ==
    /\ asset["mint"] # None /\ asset["mint"].slotTA # None =>
          \E v \in Updates :
              /\ v.kind = "account" /\ asset["mint"].owner = v.owner
              /\ asset["mint"].slotTA = v.slot
    /\ KnownNft => tokens # None /\ \A u \in Of("account") : OwnerCopied(u)

PlainMint == \A u \in Updates : u.kind = "mint" => u.uri = None

\* No metadata account was saved yet.
NoMetadata ==
    /\ asset_data = None /\ collection = None
    /\ \A p \in Positions : creators[p] = None
    /\ asset["mint"] # None => asset["mint"].slotMeta = None
    /\ Of("metadata") = {} /\ \A w \in Workers : ~At(w, "metadata", "attach")

\* The rows are those of the version v; creators that v does not have are older.
MetadataOf(v) ==
    /\ asset_data = [uri |-> v.uri, slot |-> v.slot]
    /\ collection = [value |-> v.collection, slot |-> v.slot]
    /\ \A p \in DOMAIN v.creators : creators[p] = [who |-> v.creators[p], slot |-> v.slot]
    /\ \A p \in Positions : creators[p] # None => creators[p].slot <= v.slot
    /\ asset["mint"] # None /\ asset["mint"].slotMeta = v.slot
    /\ \A u \in Of("metadata") : u.slot <= v.slot
    /\ \A w \in Workers : At(w, "metadata", "attach") => worker[w].u.slot <= v.slot

MetadataSound ==
    PlainMint => NoMetadata \/ \E v \in Updates : v.kind = "metadata" /\ MetadataOf(v)

IsNft(u) == u.kind = "metadata" /\ u.standard \in {"nft", "pnft"}

\* The edition's row was inserted for the metadata account or is a version of the edition.
EditionSound ==
    LET row == attachments["edition"] IN
    /\ row # None => \E v \in Updates :
          /\ row.slot = v.slot
          /\ \/ v.kind = "metadata" /\ row.data = None
             \/ v.kind = "edition" /\ row.type = v.type /\ row.data = v.slot
    /\ \A u \in handled : IsNft(u) => row # None /\ row.asset
    /\ \A w \in Workers : At(w, "metadata", "attach") => row # None
    /\ HasEdition => \A u \in Of("edition") : row # None /\ row.data # None /\ u.slot <= row.slot

HasUri(u) == u.kind = "metadata" \/ (u.kind = "mint" /\ u.uri # None)

\* What was handled was requested, and the asset's uri is that of some version.
UriSound ==
    /\ asset_data # None => \E v \in Updates : HasUri(v) /\ asset_data.uri = v.uri
    /\ \A u \in handled : HasUri(u) => u.uri \in requested \cup {Empty}

IInv ==
    /\ TypeOK /\ TablesSound /\ WorkersSound /\ SupplySound /\ OwnerSound
    /\ MetadataSound /\ EditionSound /\ UriSound

-----------------------------------------------------------------------------
(* Facts about the histories and about the columns of asset *)

\* What HistoryAssumption says of the updates of this behaviour.
LEMMA UpdateFacts ==
    ASSUME TypeOK
    PROVE  /\ \A u \in Updates \cup Indexed : u \in Versions /\ u.slot \in Nat
           /\ \A u \in Updates \cup Indexed : u.kind = "mint" => u.supply \in Nat /\ u.uri \in Uris
           /\ \A u \in Updates : u.kind = "account" =>
                 u.key \in Accounts /\ u.amount \in Nat /\ u.owner \in Owners
           /\ \A u \in Updates : u.kind = "metadata" =>
                 DOMAIN u.creators \subseteq Positions /\ u.uri \in Uris /\ u.standard \in Classes
           /\ \A u, v \in Indexed : u.kind = "mint" /\ u.uri = None /\ u = v
           /\ \A u, v \in Updates :
                 u.kind = v.kind /\ u.kind \in {"metadata", "edition"} /\ u.slot = v.slot => u = v
    <1>1. Updates \cup Indexed \subseteq Versions
        BY Zenon DEF TypeOK, Versions, Updates, Indexed
    <1>2. \A k : \A u \in Versions : u.kind = k => u \in VersionsOf(k)
        BY Zenon DEF VersionsOf
    <1>3. \A u \in VersionsOf("mint") : u.supply \in Nat /\ u.uri \in Uris
        BY Zenon, HistoryAssumption DEF Uris
    <1>4. \A u \in VersionsOf("account") : u.key \in Accounts /\ u.amount \in Nat /\ u.owner \in Owners
        BY Zenon, HistoryAssumption DEF Owners
    <1>5. \A u \in VersionsOf("metadata") :
             DOMAIN u.creators \subseteq Positions /\ u.uri \in Uris /\ u.standard \in Classes
        BY Zenon, HistoryAssumption DEF Uris, Classes
    <1>6. /\ \A u, v \in Indexed : u.kind = "mint" /\ u.uri = None /\ u = v
          /\ \A u, v \in Updates :
                u.kind = v.kind /\ u.kind \in {"metadata", "edition"} /\ u.slot = v.slot => u = v
        BY Zenon, HistoryAssumption DEF TypeOK, Updates, Indexed
    <1> QED  BY Zenon, <1>1, <1>2, <1>3, <1>4, <1>5, <1>6, HistoryAssumption

\* A row's columns other than the owner's are left alone, and the owner's are the newer ones.
LEMMA OwnerColumns ==
    ASSUME NEW row \in Opt(AssetRow), NEW o \in Owners, NEW s \in Nat
    PROVE  LET new == upsert_assets_token_account_columns(row, o, s) IN
           /\ new \in AssetRow
           /\ new.slotTA \in Nat /\ s <= new.slotTA
           /\ row # None /\ row.slotTA # None => row.slotTA <= new.slotTA
           /\ \/ new.owner = o /\ new.slotTA = s
              \/ row # None /\ row.slotTA # None /\ new.owner = row.owner /\ new.slotTA = row.slotTA
           /\ row # None => /\ new.slotMint = row.slotMint /\ new.supply = row.supply
                            /\ new.slotMeta = row.slotMeta
           /\ row = None => new.slotMint = None /\ new.slotMeta = None
    <1>1. None \notin Nat /\ None \notin AssetRow /\ None \in Classes
        BY Zenon, SentinelAssumption DEF Classes
    <1> DEFINE new == upsert_assets_token_account_columns(row, o, s)
    <1>2. CASE row = None
        <2>1. new \in AssetRow
            BY Zenon, <1>1, <1>2 DEF upsert_assets_token_account_columns, NoAsset, AssetRow, Opt
        <2>2. /\ new.owner = o /\ new.slotTA = s
              /\ new.slotMint = None /\ new.slotMeta = None
            BY Zenon, <1>2 DEF upsert_assets_token_account_columns, NoAsset
        <2> QED  BY <1>2, <2>1, <2>2
    <1>3. CASE row # None /\ NotOlder(s, row.slotTA)
        <2>1. GREATEST(row.slot, s) \in Opt(Nat)
            BY Zenon, <1>3 DEF GREATEST, Opt, AssetRow
        <2>2. new \in AssetRow
            BY Zenon, <1>3, <2>1 DEF upsert_assets_token_account_columns, AssetRow, Opt
        <2>3. /\ new.owner = o /\ new.slotTA = s
              /\ new.slotMint = row.slotMint /\ new.supply = row.supply
              /\ new.slotMeta = row.slotMeta
            BY Zenon, <1>3 DEF upsert_assets_token_account_columns, AssetRow, Opt
        <2>4. row.slotTA # None => row.slotTA <= s
            BY Zenon, <1>3 DEF NotOlder, AssetRow, Opt
        <2> QED  BY <1>3, <2>2, <2>3, <2>4
    <1>4. CASE row # None /\ ~NotOlder(s, row.slotTA)
        BY <1>1, <1>4 DEF upsert_assets_token_account_columns, AssetRow, Opt, NotOlder
    <1> QED  BY Zenon, <1>2, <1>3, <1>4

\* upsert_assets_mint_account_columns moves its own columns, and only to a slot that is not
\* older.
LEMMA MintColumns ==
    ASSUME NEW row \in Opt(AssetRow), NEW n \in Nat, NEW s \in Nat
    PROVE  LET new == upsert_assets_mint_account_columns(row, n, s) IN
           /\ new \in AssetRow
           /\ new.slotMint \in Nat /\ s <= new.slotMint
           /\ row # None /\ row.slotMint # None => row.slotMint <= new.slotMint
           /\ \/ new.supply = n /\ new.slotMint = s
              \/ row # None /\ row.slotMint # None /\ new.supply = row.supply /\ new.slotMint = row.slotMint
           /\ row # None => /\ new.slotTA = row.slotTA /\ new.owner = row.owner
                            /\ new.slotMeta = row.slotMeta
           /\ row = None => new.slotTA = None /\ new.slotMeta = None
    <1>1. None \notin Nat /\ None \notin AssetRow /\ "fungible" \in Classes
        BY Zenon, SentinelAssumption DEF Classes
    <1> DEFINE new == upsert_assets_mint_account_columns(row, n, s)
    <1>2. CASE row = None
        <2>1. new \in AssetRow
            BY Zenon, <1>1, <1>2 DEF upsert_assets_mint_account_columns, NoAsset, AssetRow, Opt
        <2>2. /\ new.supply = n /\ new.slotMint = s
              /\ new.slotTA = None /\ new.slotMeta = None
            BY Zenon, <1>2 DEF upsert_assets_mint_account_columns, NoAsset
        <2> QED  BY <1>2, <2>1, <2>2
    <1>3. CASE row # None /\ NotOlder(s, row.slotMint)
        <2>1. GREATEST(row.slot, s) \in Opt(Nat)
            BY Zenon, <1>3 DEF GREATEST, Opt, AssetRow
        <2>2. new \in AssetRow
            BY Zenon, <1>3, <2>1 DEF upsert_assets_mint_account_columns, AssetRow, Opt
        <2>3. /\ new.supply = n /\ new.slotMint = s
              /\ new.slotTA = row.slotTA /\ new.owner = row.owner
              /\ new.slotMeta = row.slotMeta
            BY Zenon, <1>3 DEF upsert_assets_mint_account_columns, AssetRow, Opt
        <2>4. row.slotMint # None => row.slotMint <= s
            BY Zenon, <1>3 DEF NotOlder, AssetRow, Opt
        <2> QED  BY <1>3, <2>2, <2>3, <2>4
    <1>4. CASE row # None /\ ~NotOlder(s, row.slotMint)
        BY <1>1, <1>4 DEF upsert_assets_mint_account_columns, AssetRow, Opt, NotOlder
    <1> QED  BY Zenon, <1>2, <1>3, <1>4

\* upsert_assets_metadata_account_columns likewise moves only the metadata's columns.
LEMMA MetadataColumns ==
    ASSUME NEW row \in Opt(AssetRow), NEW c \in Classes, NEW t \in {"single", "token", "unknown"},
           NEW s \in Nat
    PROVE  LET new == upsert_assets_metadata_account_columns(row, c, t, s) IN
           /\ new \in AssetRow
           /\ new.slotMeta = IF row = None THEN s
                             ELSE IF NotOlder(s, row.slotMeta) THEN s ELSE row.slotMeta
           /\ row # None => /\ new.slotTA = row.slotTA /\ new.owner = row.owner
                            /\ new.slotMint = row.slotMint /\ new.supply = row.supply
           /\ row = None => new.slotTA = None /\ new.slotMint = None
    <1>2. CASE row = None
        BY Zenon, <1>2 DEF upsert_assets_metadata_account_columns, NoAsset, AssetRow, Opt
    <1>3. CASE row # None /\ NotOlder(s, row.slotMeta)
        <2>1. GREATEST(row.slot, s) \in Opt(Nat)
            BY Zenon, <1>3 DEF GREATEST, Opt, AssetRow
        <2> QED  BY Zenon, <1>3, <2>1 DEF upsert_assets_metadata_account_columns, AssetRow, Opt
    <1>4. CASE row # None /\ ~NotOlder(s, row.slotMeta)
        BY Zenon, <1>4 DEF upsert_assets_metadata_account_columns, AssetRow, Opt
    <1> QED  BY Zenon, <1>2, <1>3, <1>4

\* The upsert of a token extension's slot leaves what the other handlers write alone.
LEMMA ExtensionColumns ==
    ASSUME NEW row \in Opt(AssetRow), NEW s \in Nat
    PROVE  LET new == upsert_assets_metadata_cols(row, s) IN
           /\ new \in AssetRow
           /\ row # None => /\ new.slotTA = row.slotTA /\ new.owner = row.owner
                            /\ new.slotMint = row.slotMint /\ new.supply = row.supply
           /\ row = None => new.slotTA = None /\ new.slotMint = None
    <1>1. None \in Classes
        BY Zenon DEF Classes
    <1> QED  BY ZenonT(40), <1>1 DEF upsert_assets_metadata_cols, NoAsset, AssetRow, Opt

-----------------------------------------------------------------------------
(* What a step leaves alone *)

\* What is derived from the history of the chain is the same after a step that indexes nothing.
LEMMA SameHistory ==
    ASSUME UNCHANGED history
    PROVE  /\ Updates' = Updates /\ Indexed' = Indexed /\ Workers' = Workers /\ Handler' = Handler
           /\ KnownNft' = KnownNft /\ PlainMint' = PlainMint /\ HasEdition' = HasEdition
    BY Zenon DEF Updates, Indexed, Workers, Handler, KnownNft, PlainMint, HasEdition

GoneOn(w, pc) == \A x \in Workers : worker'[x] # None =>
    /\ worker[x] # None /\ worker'[x].u = worker[x].u
    /\ worker'[x].token = worker[x].token /\ worker'[x].account = worker[x].account
    /\ worker'[x].pc = IF x = w THEN pc ELSE worker[x].pc

\* A handler goes on to its next statement.
LEMMA Going ==
    ASSUME TypeOK, UNCHANGED history, NEW w \in Workers, worker[w] # None,
           NEW pc \in Pcs, Goto(w, pc)
    PROVE  /\ worker' \in [Workers -> Opt(Handler)] /\ handled' = handled
           /\ GoneOn(w, pc)
    <1>1. worker[w] \in Handler
        BY Zenon DEF TypeOK, Opt
    <1>2. [worker[w] EXCEPT !.pc = pc] \in Handler
        BY Zenon, <1>1 DEF Handler
    <1>3. worker' = [worker EXCEPT ![w] = [worker[w] EXCEPT !.pc = pc]] /\ handled' = handled
        BY Zenon DEF Goto
    <1> QED  BY Zenon, <1>1, <1>2, <1>3 DEF TypeOK, Opt, Handler, GoneOn

\* A handler ends.
LEMMA Ending ==
    ASSUME TypeOK, UNCHANGED history, NEW w \in Workers, worker[w] # None,
           worker' = [worker EXCEPT ![w] = None]
    PROVE  /\ worker' \in [Workers -> Opt(Handler)] /\ worker[w].u \in Updates
           /\ \A x \in Workers : worker'[x] # None => x # w /\ worker'[x] = worker[x]
    BY Zenon DEF TypeOK, Opt, Handler

\* The handlers stay sound when a step leaves what each of them has read alone.
LEMMA WorkersKept ==
    ASSUME WorkersSound, UNCHANGED history,
           \A x \in Workers : worker'[x] # None =>
               /\ worker[x] # None
               /\ worker'[x].token = worker[x].token /\ worker'[x].account = worker[x].account
               /\ worker'[x] = worker[x] \/ Ready(worker'[x])
    PROVE  WorkersSound'
    BY SameHistory DEF WorkersSound, IsMint, IsAccount

\* A handler goes on with what it has read.
LEMMA WorkerMoved ==
    ASSUME WorkersSound, UNCHANGED history, NEW w \in Workers, NEW h, Ready(h),
           h.token # None => IsMint(h.token), h.account # None => IsAccount(h.account),
           worker'[w] = h, \A x \in Workers : x # w => worker'[x] = worker[x]
    PROVE  WorkersSound'
    BY SameHistory DEF WorkersSound, IsMint, IsAccount

\* The token tables stay sound while nothing writes them.
LEMMA TablesKept ==
    ASSUME TablesSound, UNCHANGED <<history, tokens, token_accounts>>
    PROVE  TablesSound'
    BY Zenon, SameHistory DEF TablesSound, IsMint, IsAccount

\* The columns of the mint, of the token account, of the metadata account stay.
SameMint(old, new) ==
    /\ old # None => new # None /\ new.slotMint = old.slotMint /\ new.supply = old.supply
    /\ old = None /\ new # None => new.slotMint = None

SameOwner(old, new) ==
    /\ old # None => new # None /\ new.slotTA = old.slotTA /\ new.owner = old.owner
    /\ old = None /\ new # None => new.slotTA = None

SameMeta(old, new) ==
    /\ old # None => new # None /\ new.slotMeta = old.slotMeta
    /\ old = None /\ new # None => new.slotMeta = None

\* The supply stays sound while its columns stay and no mint is handled anew.
LEMMA SupplyKept ==
    ASSUME SupplySound, UNCHANGED history, SameMint(asset["mint"], asset'["mint"]),
           \A u \in handled' : u \in handled \/ u.kind # "mint" \/ MintCopied(u),
           \A x \in Workers : (At(x, "mint", "data") \/ At(x, "mint", "meta"))' =>
               (At(x, "mint", "data") \/ At(x, "mint", "meta")) /\ worker'[x].u = worker[x].u
    PROVE  SupplySound'
    BY Zenon, SameHistory DEF SupplySound, MintCopied, SameMint, Of

\* The owner stays sound while its columns stay and no account is handled anew.
LEMMA OwnerKept ==
    ASSUME OwnerSound, UNCHANGED history, SameOwner(asset["mint"], asset'["mint"]),
           KnownNft /\ tokens # None => tokens' # None,
           \A u \in handled' : u \in handled \/ u.kind # "account" \/ ~KnownNft
    PROVE  OwnerSound'
    BY SameHistory DEF OwnerSound, OwnerCopied, SameOwner, Of

\* The metadata's rows stay sound while they stay and no metadata is handled anew.
LEMMA MetadataKept ==
    ASSUME MetadataSound, UNCHANGED <<history, asset_data, collection, creators>>,
           SameMeta(asset["mint"], asset'["mint"]),
           \A u \in handled' : u \in handled \/ u.kind # "metadata"
               \/ \E x \in Workers : At(x, "metadata", "attach") /\ worker[x].u = u,
           \A x \in Workers : At(x, "metadata", "attach")' =>
               At(x, "metadata", "attach") /\ worker'[x].u = worker[x].u
    PROVE  MetadataSound'
    <1>1. NoMetadata => NoMetadata'
        BY Zenon, SameHistory DEF NoMetadata, SameMeta, Of
    <1>2. ASSUME NEW v, MetadataOf(v) PROVE MetadataOf(v)'
        BY Zenon, <1>2, SameHistory DEF MetadataOf, SameMeta, Of
    <1> QED  BY Zenon, <1>1, <1>2, SameHistory DEF MetadataSound

\* The edition stays sound while its attachment stays and no edition is handled anew.
LEMMA EditionKept ==
    ASSUME EditionSound, UNCHANGED history, attachments'["edition"] = attachments["edition"],
           \A u \in handled' : u \in handled \/ (~IsNft(u) /\ u.kind # "edition"),
           \A x \in Workers : At(x, "metadata", "attach")' => At(x, "metadata", "attach")
    PROVE  EditionSound'
    BY SameHistory DEF EditionSound, Of

\* The requested downloads stay sound while requests are only added.
LEMMA UriKept ==
    ASSUME UriSound, UNCHANGED <<history, asset_data>>, requested \subseteq requested',
           \A u \in handled' : u \in handled \/ ~HasUri(u) \/ u.uri \in requested' \cup {Empty}
    PROVE  UriSound'
    BY Zenon, SameHistory DEF UriSound

-----------------------------------------------------------------------------
(* Token accounts *)

\* A handler starts: it carries nothing yet.
LEMMA BeginKeeps ==
    ASSUME IInv, NEW w \in Workers, NEW u \in Updates, Begin(w, u)
    PROVE  IInv'
    <1> DEFINE h == [u |-> u, pc |-> "start", token |-> None, account |-> None]
    <1>1. /\ UNCHANGED <<history, tokens, token_accounts, asset, asset_data, authority, collection,
                         creators, attachments, requested, handled>>
          /\ worker[w] = None /\ worker' = [worker EXCEPT ![w] = h]
        BY Zenon DEF Begin
    <1>2. h \in Handler
        BY Zenon DEF Handler, Opt, Pcs
    <1>3. TypeOK'
        BY Zenon, <1>1, <1>2, SameHistory DEF IInv, TypeOK, Opt
    <1>4. \A x \in Workers : x # w => worker'[x] = worker[x]
        BY Zenon, <1>1 DEF IInv, TypeOK
    <1>5. worker'[w] = h
        BY Zenon, <1>1 DEF IInv, TypeOK
    <1>6. WorkersSound'
        <2>1. Ready(h) /\ h.token = None /\ h.account = None
            BY Zenon DEF Ready
        <2> QED  BY Zenon, <1>1, <1>4, <1>5, <2>1, WorkerMoved DEF IInv
    <1>7. \A x \in Workers : worker'[x] # worker[x] => worker'[x].pc = "start"
        BY <1>4, <1>5
    <1>8. SupplySound' /\ OwnerSound'
        BY Zenon, <1>1, <1>7, SupplyKept, OwnerKept DEF IInv, At, SameMint, SameOwner
    <1>9. MetadataSound' /\ EditionSound'
        BY Zenon, <1>1, <1>7, MetadataKept, EditionKept DEF IInv, At, SameMeta
    <1> QED  BY Zenon, <1>1, <1>3, <1>6, <1>8, <1>9, TablesKept, UriKept DEF IInv

\* A handler that fails leaves the rest undone.
LEMMA FailKeeps ==
    ASSUME IInv, NEW w \in Workers, Fail(w)
    PROVE  IInv'
    <1>1. /\ UNCHANGED <<history, tokens, token_accounts, asset, asset_data, authority, collection,
                         creators, attachments, requested, handled>>
          /\ worker[w] # None /\ worker' = [worker EXCEPT ![w] = None]
        BY Zenon DEF Fail
    <1>2. /\ worker' \in [Workers -> Opt(Handler)]
          /\ \A x \in Workers : worker'[x] # None => worker'[x] = worker[x]
        BY Zenon, <1>1, Ending DEF IInv
    <1>3. TypeOK'
        BY Zenon, <1>1, <1>2, SameHistory DEF IInv, TypeOK
    <1>4. WorkersSound'
        BY Zenon, <1>1, <1>2, WorkersKept DEF IInv
    <1>5. SupplySound' /\ OwnerSound'
        BY Zenon, <1>1, <1>2, SupplyKept, OwnerKept DEF IInv, At, SameMint, SameOwner
    <1>6. MetadataSound' /\ EditionSound'
        BY Zenon, <1>1, <1>2, MetadataKept, EditionKept DEF IInv, At, SameMeta
    <1> QED  BY Zenon, <1>1, <1>3, <1>4, <1>5, <1>6, TablesKept, UriKept DEF IInv

\* The account's row is that of one of its versions.
LEMMA UpsertTokenAccountKeeps ==
    ASSUME IInv, NEW w \in Workers, UpsertTokenAccount(w)
    PROVE  IInv'
    <1> DEFINE u == worker[w].u
    <1>1. /\ UNCHANGED <<history, tokens, asset, asset_data, authority, collection, creators,
                         attachments, requested>>
          /\ worker[w] # None /\ u.kind = "account" /\ Goto(w, "token")
          /\ \/ UNCHANGED token_accounts
             \/ token_accounts' = [token_accounts EXCEPT ![u.key] =
                    [owner |-> u.owner, amount |-> u.amount, slot |-> u.slot]]
        BY Zenon DEF UpsertTokenAccount, At
    <1>2. /\ worker' \in [Workers -> Opt(Handler)] /\ handled' = handled
          /\ GoneOn(w, "token")
        BY Zenon, <1>1, Going DEF IInv, Pcs
    <1>3. /\ u \in Updates /\ u.slot \in Nat /\ u.key \in Accounts /\ u.amount \in Nat
          /\ u.owner \in Owners
        BY Zenon, <1>1, UpdateFacts DEF IInv, TypeOK, Opt, Handler
    <1>4. TypeOK'
        <2>1. token_accounts' \in [Accounts -> Opt(AccountRow)]
            BY <1>1, <1>3 DEF IInv, TypeOK, Opt, AccountRow
        <2> QED  BY Zenon, <1>1, <1>2, <2>1, SameHistory DEF IInv, TypeOK
    <1>5. WorkersSound'
        BY <1>1, <1>2, WorkersKept DEF IInv, GoneOn, Ready, WorkersSound
    <1>6. TablesSound'
        BY <1>1, <1>3, SameHistory DEF IInv, GoneOn, TablesSound, IsMint, IsAccount, TypeOK
    <1>7. SupplySound' /\ OwnerSound'
        BY Zenon, <1>1, <1>2, SupplyKept, OwnerKept DEF IInv, GoneOn, At, SameMint, SameOwner
    <1>8. MetadataSound' /\ EditionSound'
        BY Zenon, <1>1, <1>2, MetadataKept, EditionKept DEF IInv, GoneOn, At, SameMeta
    <1> QED  BY Zenon, <1>1, <1>2, <1>4, <1>5, <1>6, <1>7, <1>8, UriKept DEF IInv

\* A handler of a token account ends here only if the mint is no known NFT.
LEMMA FindTokenKeeps ==
    ASSUME IInv, NEW w \in Workers, FindToken(w)
    PROVE  IInv'
    <1>1. /\ UNCHANGED <<history, tokens, token_accounts, asset, asset_data, authority, collection,
                         creators, attachments, requested>>
          /\ worker[w] # None /\ worker[w].u.kind = "account"
        BY Zenon DEF FindToken, At
    <1>2. CASE Goto(w, "owner")
        <2>1. /\ worker' \in [Workers -> Opt(Handler)] /\ handled' = handled
              /\ GoneOn(w, "owner")
            BY Zenon, <1>1, <1>2, Going DEF IInv, Pcs
        <2>2. TypeOK'
            BY Zenon, <1>1, <2>1, SameHistory DEF IInv, TypeOK
        <2>3. WorkersSound'
            BY ZenonT(40), <1>1, <2>1, WorkersKept DEF IInv, GoneOn, Ready, WorkersSound
        <2>4. SupplySound' /\ OwnerSound'
            BY Zenon, <1>1, <2>1, SupplyKept, OwnerKept DEF IInv, GoneOn, At, SameMint, SameOwner
        <2>5. MetadataSound' /\ EditionSound'
            BY Zenon, <1>1, <2>1, MetadataKept, EditionKept DEF IInv, GoneOn, At, SameMeta
        <2> QED  BY Zenon, <1>1, <2>1, <2>2, <2>3, <2>4, <2>5, TablesKept, UriKept DEF IInv
    <1>3. CASE Return(w) /\ ~(tokens # None /\ tokens.supply = 1)
        <2>1. /\ worker' \in [Workers -> Opt(Handler)] /\ handled' = handled \cup {worker[w].u}
              /\ \A x \in Workers : worker'[x] # None => worker'[x] = worker[x]
              /\ worker[w].u \in Updates
            BY Zenon, <1>1, <1>3, Ending DEF IInv, Return
        <2>2. ~KnownNft
            BY Zenon, <1>3 DEF IInv, OwnerSound, TablesSound, IsMint, KnownNft
        <2>3. TypeOK'
            BY Zenon, <1>1, <2>1, SameHistory DEF IInv, TypeOK
        <2>4. WorkersSound'
            BY Zenon, <1>1, <2>1, WorkersKept DEF IInv
        <2>5. SupplySound' /\ OwnerSound'
            BY Zenon, <1>1, <2>1, <2>2, SupplyKept, OwnerKept DEF IInv, At, SameMint, SameOwner
        <2>6. MetadataSound' /\ EditionSound'
            BY Zenon, <1>1, <2>1, MetadataKept, EditionKept DEF IInv, At, SameMeta, IsNft
        <2> QED  BY Zenon, <1>1, <2>1, <2>3, <2>4, <2>5, <2>6, TablesKept, UriKept DEF IInv, HasUri
    <1> QED  BY Zenon, <1>2, <1>3 DEF FindToken

\* A version that is copied to the asset leaves its owner there, or a newer one.
LEMMA OwnerWritten ==
    ASSUME IInv, UNCHANGED <<history, tokens>>, NEW o \in Owners, NEW s \in Nat,
           asset' = [asset EXCEPT !["mint"] = upsert_assets_token_account_columns(@, o, s)],
           \E v \in Updates : v.kind = "account" /\ v.owner = o /\ v.slot = s,
           \A u \in handled' : u \in handled \/ u.kind # "account" \/ u.slot = s
    PROVE  /\ asset' \in [{"mint", "metadata"} -> Opt(AssetRow)] /\ OwnerSound'
           /\ SameMint(asset["mint"], asset'["mint"]) /\ SameMeta(asset["mint"], asset'["mint"])
    <1> DEFINE row == asset["mint"]
               new == upsert_assets_token_account_columns(row, o, s)
    <1>1. row \in Opt(AssetRow) /\ asset'["mint"] = new
        BY Zenon DEF IInv, TypeOK
    <1>2. /\ new \in AssetRow
          /\ new.slotTA \in Nat /\ s <= new.slotTA
          /\ row # None /\ row.slotTA # None => row.slotTA <= new.slotTA
          /\ \/ new.owner = o /\ new.slotTA = s
             \/ row # None /\ row.slotTA # None /\ new.owner = row.owner /\ new.slotTA = row.slotTA
          /\ row # None => /\ new.slotMint = row.slotMint /\ new.supply = row.supply
                           /\ new.slotMeta = row.slotMeta
          /\ row = None => new.slotMint = None /\ new.slotMeta = None
        BY Zenon, <1>1, OwnerColumns
    <1>3. new # None /\ new.slotTA # None
        BY Zenon, <1>2, SentinelAssumption
    <1> HIDE DEF new
    <1>4. asset' \in [{"mint", "metadata"} -> Opt(AssetRow)]
        BY Zenon, <1>1, <1>2 DEF IInv, TypeOK, Opt
    <1>5. SameMint(row, new) /\ SameMeta(row, new)
        BY Zenon, <1>2, <1>3 DEF SameMint, SameMeta
    <1>6. \E v \in Updates : v.kind = "account" /\ new.owner = v.owner /\ new.slotTA = v.slot
        BY Zenon, <1>2 DEF IInv, OwnerSound
    <1>7. ASSUME KnownNft, NEW u \in handled', u.kind = "account"
          PROVE  u.slot <= new.slotTA
        <2>1. CASE u.slot = s
            BY Zenon, <2>1, <1>2
        <2>2. CASE u \in handled
            <3>1. OwnerCopied(u)
                BY Zenon, <1>7, <2>2 DEF IInv, OwnerSound, Of
            <3>2. u.slot \in Nat /\ row.slotTA \in Nat
                BY Zenon, <2>2, <3>1, <1>1, UpdateFacts DEF IInv, TypeOK, OwnerCopied, Opt, AssetRow
            <3> QED  BY <3>1, <3>2, <1>2 DEF OwnerCopied
        <2> QED  BY Zenon, <2>1, <2>2, <1>7
    <1>8. OwnerSound'
        BY <1>1, <1>3, <1>6, <1>7, SameHistory DEF IInv, OwnerSound, OwnerCopied, Of
    <1> QED  BY Zenon, <1>1, <1>4, <1>5, <1>8

\* upsert_assets_token_account_columns, the last statement of a token account's handler.
LEMMA UpsertOwnerKeeps ==
    ASSUME IInv, NEW w \in Workers, UpsertOwner(w)
    PROVE  IInv'
    <1> DEFINE u == worker[w].u
    <1>1. /\ UNCHANGED <<history, tokens, token_accounts, asset_data, authority, collection,
                         creators, attachments, requested>>
          /\ worker[w] # None /\ u.kind = "account" /\ Return(w)
          /\ asset' = [asset EXCEPT !["mint"] =
                           upsert_assets_token_account_columns(@, u.owner, u.slot)]
        BY Zenon DEF UpsertOwner, At
    <1>2. /\ worker' \in [Workers -> Opt(Handler)] /\ handled' = handled \cup {u}
          /\ \A x \in Workers : worker'[x] # None => worker'[x] = worker[x]
          /\ u \in Updates
        BY Zenon, <1>1, Ending DEF IInv, Return
    <1>3. u.slot \in Nat /\ u.owner \in Owners
        BY Zenon, <1>1, <1>2, UpdateFacts DEF IInv
    <1>4. /\ asset' \in [{"mint", "metadata"} -> Opt(AssetRow)] /\ OwnerSound'
          /\ SameMint(asset["mint"], asset'["mint"]) /\ SameMeta(asset["mint"], asset'["mint"])
        BY Zenon, <1>1, <1>2, <1>3, OwnerWritten
    <1>5. TypeOK'
        BY Zenon, <1>1, <1>2, <1>4, SameHistory DEF IInv, TypeOK
    <1>6. WorkersSound'
        BY Zenon, <1>1, <1>2, WorkersKept DEF IInv
    <1>7. SupplySound'
        BY Zenon, <1>1, <1>2, <1>4, SupplyKept DEF IInv, At
    <1>8. MetadataSound' /\ EditionSound'
        BY Zenon, <1>1, <1>2, <1>4, MetadataKept, EditionKept DEF IInv, At, IsNft
    <1> QED  BY Zenon, <1>1, <1>2, <1>4, <1>5, <1>6, <1>7, <1>8, TablesKept, UriKept DEF IInv, HasUri

-----------------------------------------------------------------------------
(* The mint *)

\* The tokens row of a mint, the first statement of a mint's handler.
LEMMA UpsertTokenKeeps ==
    ASSUME IInv, NEW w \in Workers, UpsertToken(w)
    PROVE  IInv'
    <1> DEFINE u == worker[w].u
    <1>1. /\ UNCHANGED <<history, token_accounts, asset, asset_data, authority, collection,
                         creators, attachments, requested>>
          /\ worker[w] # None /\ u.kind = "mint" /\ Goto(w, "asset")
          /\ UNCHANGED tokens \/ tokens' = [supply |-> u.supply, slot |-> u.slot]
        BY Zenon DEF UpsertToken, At
    <1>2. worker' \in [Workers -> Opt(Handler)] /\ handled' = handled /\ GoneOn(w, "asset")
        BY Zenon, <1>1, Going DEF IInv, Pcs
    <1>3. u \in Updates /\ u.slot \in Nat /\ u.supply \in Nat
        BY Zenon, <1>1, UpdateFacts DEF IInv, TypeOK, Opt, Handler
    <1>4. tokens' \in Opt(TokenRow) /\ (tokens # None => tokens' # None)
        BY <1>1, <1>3, SentinelAssumption DEF IInv, TypeOK, Opt, TokenRow
    <1>5. TypeOK'
        BY Zenon, <1>1, <1>2, <1>4, SameHistory DEF IInv, TypeOK
    <1>6. WorkersSound'
        BY <1>1, <1>2, WorkersKept DEF IInv, GoneOn, Ready, WorkersSound
    <1>7. TablesSound'
        BY <1>1, <1>3, SameHistory DEF IInv, TablesSound, IsMint, IsAccount
    <1>8. SupplySound' /\ OwnerSound'
        BY Zenon, <1>1, <1>2, <1>4, SupplyKept, OwnerKept DEF IInv, GoneOn, At, SameMint, SameOwner
    <1>9. MetadataSound' /\ EditionSound'
        BY Zenon, <1>1, <1>2, MetadataKept, EditionKept DEF IInv, GoneOn, At, SameMeta
    <1> QED  BY Zenon, <1>1, <1>2, <1>5, <1>6, <1>7, <1>8, <1>9, UriKept DEF IInv

\* A version that is copied to the asset leaves its supply there, or a newer one.
LEMMA SupplyWritten ==
    ASSUME IInv, UNCHANGED history, NEW n \in Nat, NEW s \in Nat,
           asset' = [asset EXCEPT !["mint"] = upsert_assets_mint_account_columns(@, n, s)],
           \E v \in Updates \cup Indexed : v.kind = "mint" /\ v.supply = n /\ v.slot = s,
           \A u \in handled' : u \in handled \/ u.kind # "mint" \/ u.slot = s,
           \A x \in Workers : (At(x, "mint", "data") \/ At(x, "mint", "meta"))' =>
               \/ (At(x, "mint", "data") \/ At(x, "mint", "meta")) /\ worker'[x].u = worker[x].u
               \/ worker'[x].u.slot = s
    PROVE  /\ asset' \in [{"mint", "metadata"} -> Opt(AssetRow)] /\ SupplySound'
           /\ SameOwner(asset["mint"], asset'["mint"]) /\ SameMeta(asset["mint"], asset'["mint"])
    <1> DEFINE row == asset["mint"]
               new == upsert_assets_mint_account_columns(row, n, s)
    <1>1. row \in Opt(AssetRow) /\ asset'["mint"] = new
        BY Zenon DEF IInv, TypeOK
    <1>2. /\ new \in AssetRow
          /\ new.slotMint \in Nat /\ s <= new.slotMint
          /\ row # None /\ row.slotMint # None => row.slotMint <= new.slotMint
          /\ \/ new.supply = n /\ new.slotMint = s
             \/ row # None /\ row.slotMint # None /\ new.supply = row.supply /\ new.slotMint = row.slotMint
          /\ row # None => /\ new.slotTA = row.slotTA /\ new.owner = row.owner
                           /\ new.slotMeta = row.slotMeta
          /\ row = None => new.slotTA = None /\ new.slotMeta = None
        BY <1>1, MintColumns
    <1>3. new # None /\ new.slotMint # None
        BY Zenon, <1>2, SentinelAssumption
    <1> HIDE DEF new
    <1>4. asset' \in [{"mint", "metadata"} -> Opt(AssetRow)]
        BY Zenon, <1>1, <1>2 DEF IInv, TypeOK, Opt
    <1>5. SameOwner(row, new) /\ SameMeta(row, new)
        BY Zenon, <1>2, <1>3 DEF SameOwner, SameMeta
    <1>6. \E v \in Updates \cup Indexed :
              v.kind = "mint" /\ new.supply = v.supply /\ new.slotMint = v.slot
        BY Zenon, <1>2 DEF IInv, SupplySound
    <1>7. ASSUME NEW u \in Updates \cup Indexed, MintCopied(u) PROVE u.slot <= new.slotMint
        <2>1. u.slot \in Nat /\ row.slotMint \in Nat
            BY Zenon, <1>1, <1>7, UpdateFacts DEF IInv, MintCopied, Opt, AssetRow
        <2> QED  BY <2>1, <1>2, <1>7 DEF MintCopied
    <1>8. \A u \in handled' : u.kind = "mint" => u.slot <= new.slotMint
        BY Zenon, <1>2, <1>7 DEF IInv, SupplySound, Of, TypeOK
    <1>9. \A x \in Workers : (At(x, "mint", "data") \/ At(x, "mint", "meta"))' =>
              worker'[x].u.slot <= new.slotMint
        BY Zenon, <1>2, <1>7 DEF IInv, SupplySound, TypeOK, At, Opt, Handler
    <1>10. SupplySound'
        BY Zenon, <1>1, <1>3, <1>6, <1>8, <1>9, SameHistory DEF SupplySound, MintCopied, Of
    <1> QED  BY Zenon, <1>1, <1>4, <1>5, <1>10

\* The asset columns of a mint.
LEMMA UpsertMintKeeps ==
    ASSUME IInv, NEW w \in Workers, UpsertMint(w)
    PROVE  IInv'
    <1> DEFINE u == worker[w].u
    <1>1. /\ UNCHANGED <<history, tokens, token_accounts, asset_data, authority, collection,
                         creators, attachments, requested>>
          /\ worker[w] # None /\ u.kind = "mint"
          /\ asset' = [asset EXCEPT !["mint"] =
                           upsert_assets_mint_account_columns(@, u.supply, u.slot)]
        BY Zenon DEF UpsertMint, At
    <1>2. u \in Updates /\ u.slot \in Nat /\ u.supply \in Nat
        BY Zenon, <1>1, UpdateFacts DEF IInv, TypeOK, Opt, Handler
    <1> DEFINE Written(v) == v.kind = "mint" /\ v.supply = u.supply /\ v.slot = u.slot
    <1>0. \E v \in Updates \cup Indexed : Written(v)
        BY Zenon, <1>1, <1>2
    <1>3. CASE u.uri = None /\ Return(w)
        <2>1. /\ worker' \in [Workers -> Opt(Handler)] /\ handled' = handled \cup {u}
              /\ \A x \in Workers : worker'[x] # None => worker'[x] = worker[x]
            BY Zenon, <1>1, <1>3, Ending DEF IInv, Return
        <2>2. /\ asset' \in [{"mint", "metadata"} -> Opt(AssetRow)] /\ SupplySound'
              /\ SameOwner(asset["mint"], asset'["mint"]) /\ SameMeta(asset["mint"], asset'["mint"])
            <3>1. \A v \in handled' : v \in handled \/ v.kind # "mint" \/ v.slot = u.slot
                BY Zenon, <2>1
            <3>2. \A x \in Workers : (At(x, "mint", "data") \/ At(x, "mint", "meta"))' =>
                      /\ At(x, "mint", "data") \/ At(x, "mint", "meta")
                      /\ worker'[x].u = worker[x].u
                BY Zenon, <2>1 DEF At
            <3> QED  BY ZenonT(40), <1>0, <1>1, <1>2, <3>1, <3>2, SupplyWritten
        <2>3. TypeOK'
            BY Zenon, <1>1, <1>2, <2>1, <2>2, SameHistory DEF IInv, TypeOK
        <2>4. WorkersSound'
            BY Zenon, <1>1, <2>1, WorkersKept DEF IInv
        <2>5. OwnerSound'
            BY Zenon, <1>1, <2>1, <2>2, OwnerKept DEF IInv
        <2>6. MetadataSound' /\ EditionSound'
            BY Zenon, <1>1, <2>1, <2>2, MetadataKept, EditionKept DEF IInv, At, IsNft
        <2> QED  BY Zenon, <1>1, <1>3, <2>1, <2>2, <2>3, <2>4, <2>5, <2>6, TablesKept, UriKept
                 DEF IInv, HasUri
    <1>4. CASE u.uri # None /\ Goto(w, "data")
        <2>1. worker' \in [Workers -> Opt(Handler)] /\ handled' = handled /\ GoneOn(w, "data")
            BY Zenon, <1>1, <1>4, Going DEF IInv, Pcs
        <2>2. /\ asset' \in [{"mint", "metadata"} -> Opt(AssetRow)] /\ SupplySound'
              /\ SameOwner(asset["mint"], asset'["mint"]) /\ SameMeta(asset["mint"], asset'["mint"])
            <3>1. \A v \in handled' : v \in handled \/ v.kind # "mint" \/ v.slot = u.slot
                BY Zenon, <2>1
            <3>2. \A x \in Workers : (At(x, "mint", "data") \/ At(x, "mint", "meta"))' =>
                      \/ /\ At(x, "mint", "data") \/ At(x, "mint", "meta")
                         /\ worker'[x].u = worker[x].u
                      \/ worker'[x].u.slot = u.slot
                BY Zenon, <2>1 DEF At, GoneOn
            <3> QED  BY Zenon, <1>0, <1>1, <1>2, <3>1, <3>2, SupplyWritten
        <2>3. TypeOK'
            BY Zenon, <1>1, <2>1, <2>2, SameHistory DEF IInv, TypeOK
        <2>4. WorkersSound'
            <3>1. \A x \in Workers : worker'[x] # None => Ready(worker'[x])
                BY ZenonT(40), <1>4, <2>1 DEF IInv, GoneOn, Ready, WorkersSound
            <3> QED  BY Zenon, <1>1, <2>1, <3>1, WorkersKept DEF IInv, GoneOn
        <2>5. OwnerSound'
            BY Zenon, <1>1, <2>1, <2>2, OwnerKept DEF IInv
        <2>6. MetadataSound' /\ EditionSound'
            BY Zenon, <1>1, <2>1, <2>2, MetadataKept, EditionKept DEF IInv, GoneOn, At
        <2> QED  BY Zenon, <1>1, <2>1, <2>2, <2>3, <2>4, <2>5, <2>6, TablesKept, UriKept DEF IInv
    <1> QED  BY Zenon, <1>3, <1>4 DEF UpsertMint

\* The metadata of a mint of Token-2022: MetadataSound says nothing of such a history.
LEMMA UpsertExtensionDataKeeps ==
    ASSUME IInv, NEW w \in Workers, UpsertExtensionData(w)
    PROVE  IInv'
    <1> DEFINE u == worker[w].u
    <1>1. /\ UNCHANGED <<history, tokens, token_accounts, asset, authority, collection,
                         creators, attachments, requested>>
          /\ At(w, "mint", "data") /\ worker[w] # None /\ u.kind = "mint" /\ Goto(w, "meta")
          /\ UNCHANGED asset_data \/ asset_data' = [uri |-> u.uri, slot |-> u.slot]
        BY Zenon DEF UpsertExtensionData, At
    <1>2. worker' \in [Workers -> Opt(Handler)] /\ handled' = handled /\ GoneOn(w, "meta")
        BY Zenon, <1>1, Going DEF IInv, Pcs
    <1>3. u \in Updates /\ u.slot \in Nat /\ u.uri \in Uris
        BY Zenon, <1>1, UpdateFacts DEF IInv, TypeOK, Opt, Handler
    <1>4. u.uri # None
        BY Zenon, <1>1 DEF IInv, WorkersSound, Ready, At
    <1>5. TypeOK'
        <2>1. asset_data' \in Opt(DataRow)
            BY <1>1, <1>3 DEF IInv, TypeOK, Opt, DataRow
        <2> QED  BY Zenon, <1>1, <1>2, <2>1, SameHistory DEF IInv, TypeOK
    <1>6. WorkersSound'
        BY <1>1, <1>2, <1>4, WorkersKept DEF IInv, GoneOn, Ready, WorkersSound
    <1>7. SupplySound' /\ OwnerSound'
        BY Zenon, <1>1, <1>2, SupplyKept, OwnerKept DEF IInv, GoneOn, At, SameMint, SameOwner
    <1>8. MetadataSound'
        BY Zenon, <1>1, <1>3, <1>4, SameHistory DEF MetadataSound, PlainMint
    <1>9. EditionSound'
        BY Zenon, <1>1, <1>2, EditionKept DEF IInv, GoneOn, At
    <1>10. UriSound'
        BY <1>1, <1>2, <1>3, <1>4, SameHistory DEF IInv, UriSound, HasUri
    <1> QED  BY Zenon, <1>1, <1>2, <1>5, <1>6, <1>7, <1>8, <1>9, <1>10, TablesKept DEF IInv

\* The asset's slot, after the data of a metadata extension.
LEMMA UpsertExtensionSlotKeeps ==
    ASSUME IInv, NEW w \in Workers, UpsertExtensionSlot(w)
    PROVE  IInv'
    <1> DEFINE u == worker[w].u
               row == asset["mint"]
               new == upsert_assets_metadata_cols(row, u.slot)
    <1>1. /\ UNCHANGED <<history, tokens, token_accounts, asset_data, authority, collection,
                         creators, attachments>>
          /\ At(w, "mint", "meta") /\ worker[w] # None /\ u.kind = "mint" /\ Return(w)
          /\ requested' = requested \cup ({u.uri} \ {Empty})
          /\ asset' = [asset EXCEPT !["mint"] = new]
        BY Zenon DEF UpsertExtensionSlot, ReturnInfo, At
    <1>2. /\ worker' \in [Workers -> Opt(Handler)] /\ handled' = handled \cup {u}
          /\ \A x \in Workers : worker'[x] # None => worker'[x] = worker[x]
          /\ u \in Updates
        BY Zenon, <1>1, Ending DEF IInv, Return
    <1>3. u.slot \in Nat /\ u.uri \in Uris /\ u.uri # None
        BY Zenon, <1>1, <1>2, UpdateFacts DEF IInv, WorkersSound, Ready, At
    <1>4. /\ new \in AssetRow /\ new # None
          /\ row # None => /\ new.slotTA = row.slotTA /\ new.owner = row.owner
                           /\ new.slotMint = row.slotMint /\ new.supply = row.supply
          /\ row = None => new.slotTA = None /\ new.slotMint = None
        BY <1>3, ExtensionColumns, SentinelAssumption DEF IInv, TypeOK
    <1> HIDE DEF new
    <1>5. /\ asset' \in [{"mint", "metadata"} -> Opt(AssetRow)]
          /\ SameMint(row, asset'["mint"]) /\ SameOwner(row, asset'["mint"])
        BY Zenon, <1>1, <1>4 DEF IInv, TypeOK, Opt, SameMint, SameOwner
    <1>6. TypeOK'
        BY Zenon, <1>1, <1>2, <1>3, <1>5, SameHistory DEF IInv, TypeOK
    <1>7. WorkersSound'
        BY Zenon, <1>1, <1>2, WorkersKept DEF IInv
    <1>8. SupplySound' /\ OwnerSound'
        <2>1. MintCopied(u)
            BY Zenon, <1>1 DEF IInv, SupplySound
        <2> QED  BY Zenon, <1>1, <1>2, <1>5, <2>1, SupplyKept, OwnerKept DEF IInv, At
    <1>9. MetadataSound'
        BY Zenon, <1>1, <1>2, <1>3, SameHistory DEF MetadataSound, PlainMint
    <1>10. EditionSound'
        BY Zenon, <1>1, <1>2, EditionKept DEF IInv, At, IsNft
    <1>11. UriSound'
        BY Zenon, <1>1, <1>2, UriKept DEF IInv
    <1> QED  BY Zenon, <1>1, <1>6, <1>7, <1>8, <1>9, <1>10, <1>11, TablesKept DEF IInv

-----------------------------------------------------------------------------
(* The metadata account *)

\* The handler takes a copy of the mint's row.
LEMMA FindMintKeeps ==
    ASSUME IInv, NEW w \in Workers, FindMint(w)
    PROVE  IInv'
    <1> DEFINE pc == IF tokens = None THEN "owner" ELSE "mint"
               h == [worker[w] EXCEPT !.token = tokens, !.pc = pc]
    <1>1. /\ UNCHANGED <<history, tokens, token_accounts, asset, asset_data, authority, collection,
                         creators, attachments, requested, handled>>
          /\ worker[w] # None /\ worker[w].u.kind = "metadata"
          /\ worker' = [worker EXCEPT ![w].token = tokens, ![w].pc = pc]
        BY Zenon DEF FindMint, At
    <1>2. worker[w] \in Handler /\ pc \in Pcs
        BY Zenon, <1>1 DEF IInv, TypeOK, Opt, Pcs
    <1>3. h \in Handler /\ worker' = [worker EXCEPT ![w] = h]
        BY Zenon, <1>1, <1>2 DEF IInv, TypeOK, Handler
    <1>4. /\ worker' \in [Workers -> Opt(Handler)] /\ worker'[w] = h
          /\ \A x \in Workers : x # w => worker'[x] = worker[x]
        BY Zenon, <1>3 DEF IInv, TypeOK, Opt
    <1>5. /\ h.u = worker[w].u /\ h.token = tokens /\ h.account = worker[w].account
          /\ h.pc = pc
        BY Zenon, <1>2 DEF Handler
    <1> HIDE DEF h
    <1>6. TypeOK'
        BY Zenon, <1>1, <1>4, SameHistory DEF IInv, TypeOK
    <1>7. WorkersSound'
        <2>1. Ready(h)
            BY Zenon, <1>1, <1>5 DEF Ready
        <2>2. /\ h.token # None => IsMint(h.token)
              /\ h.account # None => IsAccount(h.account)
            BY Zenon, <1>1, <1>5 DEF IInv, TablesSound, WorkersSound
        <2> QED  BY Zenon, <1>1, <1>4, <2>1, <2>2, WorkerMoved DEF IInv
    <1>8. \A x \in Workers : worker'[x] = worker[x] \/
              (worker'[x].u.kind = "metadata" /\ worker'[x].pc \in {"owner", "mint"})
        BY Zenon, <1>1, <1>4, <1>5
    <1>9. SupplySound' /\ OwnerSound'
        BY Zenon, <1>1, <1>8, SupplyKept, OwnerKept DEF IInv, At, SameMint, SameOwner
    <1>10. MetadataSound' /\ EditionSound'
        BY Zenon, <1>1, <1>8, MetadataKept, EditionKept DEF IInv, At, SameMeta
    <1> QED  BY Zenon, <1>1, <1>6, <1>7, <1>9, <1>10, TablesKept, UriKept DEF IInv

\* The copy may be older than the asset's columns by now.
LEMMA CopyMintKeeps ==
    ASSUME IInv, NEW w \in Workers, CopyMint(w)
    PROVE  IInv'
    <1> DEFINE token == worker[w].token
    <1>1. /\ UNCHANGED <<history, tokens, token_accounts, asset_data, authority, collection,
                         creators, attachments, requested>>
          /\ At(w, "metadata", "mint") /\ worker[w] # None /\ worker[w].u.kind = "metadata"
          /\ asset' = [asset EXCEPT !["mint"] =
                           upsert_assets_mint_account_columns(@, token.supply, token.slot)]
          /\ Goto(w, "owner")
        BY Zenon DEF CopyMint, At
    <1>2. worker' \in [Workers -> Opt(Handler)] /\ handled' = handled /\ GoneOn(w, "owner")
        BY Zenon, <1>1, Going DEF IInv, Pcs
    <1>3. token # None /\ IsMint(token) /\ worker[w] \in Handler
        BY Zenon, <1>1 DEF IInv, WorkersSound, Ready, At, TypeOK, Opt
    <1>4. token.supply \in Nat /\ token.slot \in Nat
        BY Zenon, <1>3 DEF Handler, Opt, TokenRow
    <1>5. /\ asset' \in [{"mint", "metadata"} -> Opt(AssetRow)] /\ SupplySound'
          /\ SameOwner(asset["mint"], asset'["mint"]) /\ SameMeta(asset["mint"], asset'["mint"])
        <2>1. \E v \in Updates \cup Indexed :
                  v.kind = "mint" /\ v.supply = token.supply /\ v.slot = token.slot
            BY Zenon, <1>3 DEF IsMint
        <2>2. \A x \in Workers : (At(x, "mint", "data") \/ At(x, "mint", "meta"))' =>
                  /\ At(x, "mint", "data") \/ At(x, "mint", "meta")
                  /\ worker'[x].u = worker[x].u
            BY Zenon, <1>2 DEF At, GoneOn
        <2>3. \A v \in handled' : v \in handled \/ v.kind # "mint" \/ v.slot = token.slot
            BY Zenon, <1>2
        <2> QED  BY ZenonT(40), <1>1, <1>4, <2>1, <2>2, <2>3, SupplyWritten
    <1>6. TypeOK'
        BY Zenon, <1>1, <1>2, <1>5, SameHistory DEF IInv, TypeOK
    <1>7. WorkersSound'
        <2>1. \A x \in Workers : worker'[x] # None => Ready(worker'[x])
            BY <1>1, <1>2 DEF IInv, GoneOn, Ready, WorkersSound
        <2> QED  BY Zenon, <1>1, <1>2, <2>1, WorkersKept DEF IInv, GoneOn
    <1>8. OwnerSound'
        BY Zenon, <1>1, <1>2, <1>5, OwnerKept DEF IInv
    <1>9. MetadataSound' /\ EditionSound'
        BY Zenon, <1>1, <1>2, <1>5, MetadataKept, EditionKept DEF IInv, GoneOn, At
    <1> QED  BY Zenon, <1>1, <1>2, <1>5, <1>6, <1>7, <1>8, <1>9, TablesKept, UriKept DEF IInv

\* The handler takes a copy of a token account's row.
LEMMA FindAccountKeeps ==
    ASSUME IInv, NEW w \in Workers, FindAccount(w)
    PROVE  IInv'
    <1>1. /\ UNCHANGED <<history, tokens, token_accounts, asset, asset_data, authority, collection,
                         creators, attachments, requested, handled>>
          /\ worker[w] # None /\ worker[w].u.kind = "metadata"
        BY Zenon DEF FindAccount, At, Goto
    <1>2. \/ worker' = [worker EXCEPT ![w].pc = "txn"]
          \/ \E a \in Accounts :
                /\ token_accounts[a] # None
                /\ worker' = [worker EXCEPT ![w].pc = "account", ![w].account = token_accounts[a]]
        BY Zenon DEF FindAccount, Goto
    <1>3. PICK h \in Handler :
              /\ worker' = [worker EXCEPT ![w] = h]
              /\ h.u = worker[w].u /\ h.token = worker[w].token
              /\ \/ h.account = worker[w].account /\ h.pc = "txn"
                 \/ h.account # None /\ IsAccount(h.account) /\ h.pc = "account"
        <2>1. worker[w] \in Handler
            BY Zenon, <1>1 DEF IInv, TypeOK, Opt
        <2>2. CASE worker' = [worker EXCEPT ![w].pc = "txn"]
            <3> DEFINE g == [worker[w] EXCEPT !.pc = "txn"]
            <3>1. /\ g \in Handler /\ g.u = worker[w].u /\ g.token = worker[w].token
                  /\ g.account = worker[w].account /\ g.pc = "txn"
                BY Zenon, <2>1 DEF Handler, Pcs
            <3>2. worker' = [worker EXCEPT ![w] = g]
                BY Zenon, <2>2 DEF IInv, TypeOK
            <3> QED  BY Zenon, <3>1, <3>2
        <2>3. CASE \E a \in Accounts :
                /\ token_accounts[a] # None
                /\ worker' = [worker EXCEPT ![w].pc = "account", ![w].account = token_accounts[a]]
            <3>1. PICK a \in Accounts :
                /\ token_accounts[a] # None
                /\ worker' = [worker EXCEPT ![w].pc = "account", ![w].account = token_accounts[a]]
                BY Zenon, <2>3
            <3> DEFINE g == [worker[w] EXCEPT !.pc = "account", !.account = token_accounts[a]]
            <3>2. token_accounts[a] \in Opt(AccountRow) /\ IsAccount(token_accounts[a])
                BY Zenon, <3>1 DEF IInv, TypeOK, TablesSound
            <3>3. /\ g \in Handler /\ g.u = worker[w].u /\ g.token = worker[w].token
                  /\ g.account = token_accounts[a] /\ g.pc = "account"
                BY Zenon, <2>1, <3>2 DEF Handler, Pcs
            <3>4. worker' = [worker EXCEPT ![w] = g]
                BY Zenon, <2>1, <3>1 DEF IInv, TypeOK, Handler
            <3> QED  BY Zenon, <3>1, <3>2, <3>3, <3>4
        <2> QED  BY Zenon, <1>2, <2>2, <2>3
    <1>4. /\ worker' \in [Workers -> Opt(Handler)] /\ worker'[w] = h
          /\ \A x \in Workers : x # w => worker'[x] = worker[x]
        BY Zenon, <1>3 DEF IInv, TypeOK, Opt
    <1>5. TypeOK'
        BY Zenon, <1>1, <1>4, SameHistory DEF IInv, TypeOK
    <1>6. WorkersSound'
        <2>1. Ready(h)
            BY Zenon, <1>1, <1>3 DEF Ready
        <2>2. /\ h.token # None => IsMint(h.token)
              /\ h.account # None => IsAccount(h.account)
            BY Zenon, <1>1, <1>3 DEF IInv, WorkersSound
        <2> QED  BY Zenon, <1>1, <1>4, <2>1, <2>2, WorkerMoved DEF IInv
    <1>7. \A x \in Workers : worker'[x] = worker[x] \/
              (worker'[x].u.kind = "metadata" /\ worker'[x].pc \in {"txn", "account"})
        BY Zenon, <1>1, <1>3, <1>4
    <1>8. SupplySound' /\ OwnerSound'
        BY Zenon, <1>1, <1>7, SupplyKept, OwnerKept DEF IInv, At, SameMint, SameOwner
    <1>9. MetadataSound' /\ EditionSound'
        BY Zenon, <1>1, <1>7, MetadataKept, EditionKept DEF IInv, At, SameMeta
    <1> QED  BY Zenon, <1>1, <1>5, <1>6, <1>8, <1>9, TablesKept, UriKept DEF IInv

\* The copy may be older than the asset's columns by now.
LEMMA CopyAccountKeeps ==
    ASSUME IInv, NEW w \in Workers, CopyAccount(w)
    PROVE  IInv'
    <1> DEFINE account == worker[w].account
    <1>1. /\ UNCHANGED <<history, tokens, token_accounts, asset_data, authority, collection,
                         creators, attachments, requested>>
          /\ At(w, "metadata", "account") /\ worker[w] # None /\ worker[w].u.kind = "metadata"
          /\ asset' = [asset EXCEPT !["mint"] =
                           upsert_assets_token_account_columns(@, account.owner, account.slot)]
          /\ Goto(w, "txn")
        BY Zenon DEF CopyAccount, At
    <1>2. worker' \in [Workers -> Opt(Handler)] /\ handled' = handled /\ GoneOn(w, "txn")
        BY Zenon, <1>1, Going DEF IInv, Pcs
    <1>3. account # None /\ IsAccount(account) /\ worker[w] \in Handler
        BY Zenon, <1>1 DEF IInv, WorkersSound, Ready, At, TypeOK, Opt
    <1>4. account.owner \in Owners /\ account.slot \in Nat
        BY Zenon, <1>3 DEF Handler, Opt, AccountRow
    <1>5. /\ asset' \in [{"mint", "metadata"} -> Opt(AssetRow)] /\ OwnerSound'
          /\ SameMint(asset["mint"], asset'["mint"]) /\ SameMeta(asset["mint"], asset'["mint"])
        <2>1. \E v \in Updates :
                  v.kind = "account" /\ v.owner = account.owner /\ v.slot = account.slot
            BY Zenon, <1>3 DEF IsAccount
        <2>2. \A v \in handled' : v \in handled \/ v.kind # "account" \/ v.slot = account.slot
            BY Zenon, <1>2
        <2> QED  BY Zenon, <1>1, <1>4, <2>1, <2>2, OwnerWritten
    <1>6. TypeOK'
        BY Zenon, <1>1, <1>2, <1>5, SameHistory DEF IInv, TypeOK
    <1>7. WorkersSound'
        BY <1>1, <1>2, WorkersKept DEF IInv, GoneOn, Ready, WorkersSound
    <1>8. SupplySound'
        BY Zenon, <1>1, <1>2, <1>5, SupplyKept DEF IInv, GoneOn, At
    <1>9. MetadataSound' /\ EditionSound'
        BY Zenon, <1>1, <1>2, <1>5, MetadataKept, EditionKept DEF IInv, GoneOn, At
    <1> QED  BY Zenon, <1>1, <1>2, <1>5, <1>6, <1>7, <1>8, <1>9, TablesKept, UriKept DEF IInv

\* The class and the owner type that save_v1_asset derives are ones the table knows.
LEMMA OwnerTypes ==
    ASSUME NEW standard \in Classes, NEW token \in Opt(TokenRow)
    PROVE  /\ Class(standard, token) \in Classes
           /\ OwnerType(standard, token) \in {"single", "token", "unknown"}
    BY Zenon DEF Class, Classes, OwnerType

\* The rows of a metadata account after its transaction, whatever was there.
LEMMA MetadataWritten ==
    ASSUME IInv, UNCHANGED history, NEW u \in Updates, u.kind = "metadata", u.slot \in Nat,
           asset_data' = IF asset_data = None \/ u.slot > asset_data.slot
                         THEN [uri |-> u.uri, slot |-> u.slot] ELSE asset_data,
           asset'["mint"] # None,
           asset'["mint"].slotMeta =
               IF asset["mint"] = None THEN u.slot
               ELSE IF NotOlder(u.slot, asset["mint"].slotMeta) THEN u.slot
               ELSE asset["mint"].slotMeta,
           SaveCollection(u), SaveCreators(u),
           \A x \in handled' : x \in handled \/ x = u,
           \A x \in Workers : At(x, "metadata", "attach")' =>
               \/ At(x, "metadata", "attach") /\ worker'[x].u = worker[x].u
               \/ worker'[x].u = u
    PROVE  MetadataSound'
    <1> DEFINE data == [uri |-> u.uri, slot |-> u.slot]
               linked == [value |-> u.collection, slot |-> u.slot]
    <1>1. DOMAIN u.creators \subseteq Positions
        BY Zenon, UpdateFacts DEF IInv
    <1>2. \A p \in Positions : creators'[p] =
              IF p \in DOMAIN u.creators /\ (creators[p] = None \/ u.slot >= creators[p].slot)
              THEN [who |-> u.creators[p], slot |-> u.slot] ELSE creators[p]
        BY Zenon DEF SaveCreators
    <1>0. \A p \in Positions : creators'[p] = creators[p] \/ creators'[p].slot = u.slot
        <2> SUFFICES ASSUME NEW p \in Positions, creators'[p] # creators[p]
                     PROVE  creators'[p].slot = u.slot
            OBVIOUS
        <2>1. creators'[p] = [who |-> u.creators[p], slot |-> u.slot]
            BY Zenon, <1>2
        <2> QED  BY <2>1
    <1>3. \A x \in Of("metadata") \cup {worker[y].u : y \in {z \in Workers : At(z, "metadata", "attach")}} :
              x \in Updates \cup Indexed /\ x.slot \in Nat
        BY UpdateFacts DEF IInv, TypeOK, Of, At, Opt, Handler
    <1>4. SUFFICES ASSUME PlainMint
                   PROVE  \E v \in Updates : v.kind = "metadata" /\ MetadataOf(v)'
        BY Zenon, SameHistory DEF MetadataSound
    <1>5. CASE NoMetadata
        <2>1. asset_data' = data /\ collection' = linked
            BY Zenon, <1>5 DEF NoMetadata, SaveCollection
        <2>2. asset'["mint"].slotMeta = u.slot
            BY Zenon, <1>5 DEF NoMetadata, NotOlder
        <2>3. \A p \in Positions : creators'[p] =
                  IF p \in DOMAIN u.creators THEN [who |-> u.creators[p], slot |-> u.slot] ELSE None
            BY Zenon, <1>2, <1>5 DEF NoMetadata
        <2>4. /\ \A p \in DOMAIN u.creators : creators'[p] = [who |-> u.creators[p], slot |-> u.slot]
              /\ \A p \in Positions : creators'[p] # None => creators'[p].slot <= u.slot
            <3>1. \A p \in DOMAIN u.creators : creators'[p] = [who |-> u.creators[p], slot |-> u.slot]
                BY Zenon, <1>1, <2>3
            <3>2. \A p \in Positions : creators'[p] # None => creators'[p].slot = u.slot
                BY Zenon, <1>0, <1>5 DEF NoMetadata
            <3> QED  BY <3>1, <3>2
        <2>5. /\ \A x \in handled' : x.kind = "metadata" => x.slot <= u.slot
              /\ \A x \in Workers : At(x, "metadata", "attach")' => worker'[x].u.slot <= u.slot
            BY <1>5 DEF NoMetadata, Of
        <2> QED  BY Zenon, <2>1, <2>2, <2>4, <2>5, SameHistory DEF MetadataOf, Of
    <1>6. ASSUME NEW v \in Updates, v.kind = "metadata", MetadataOf(v)
          PROVE  \E t \in Updates : t.kind = "metadata" /\ MetadataOf(t)'
        <2>1. /\ v.slot \in Nat /\ asset_data = [uri |-> v.uri, slot |-> v.slot]
              /\ collection = [value |-> v.collection, slot |-> v.slot]
              /\ asset["mint"] # None /\ asset["mint"].slotMeta = v.slot
            BY Zenon, <1>6, UpdateFacts DEF IInv, MetadataOf
        <2>2. asset_data # None /\ collection # None /\ v.slot # None
            <3>1. v.uri \in Uris /\ v.collection \in {t.collection : t \in VersionsOf("metadata")}
                BY Zenon, <1>6, UpdateFacts DEF IInv, VersionsOf
            <3>2. [uri |-> v.uri, slot |-> v.slot] \in DataRow
                BY Zenon, <2>1, <3>1 DEF DataRow
            <3>3. [value |-> v.collection, slot |-> v.slot] \in CollectionRow
                BY Zenon, <2>1, <3>1 DEF CollectionRow
            <3> QED  BY Zenon, <2>1, <3>2, <3>3, SentinelAssumption
        <2>3. /\ \A x \in handled : x.kind = "metadata" => x.slot \in Nat /\ x.slot <= v.slot
              /\ \A x \in Workers : At(x, "metadata", "attach") =>
                    worker[x].u.slot \in Nat /\ worker[x].u.slot <= v.slot
            BY ZenonT(40), <1>6, UpdateFacts DEF IInv, MetadataOf, Of, TypeOK, At, Opt, Handler
        <2>4. /\ \A p \in DOMAIN v.creators : p \in Positions /\ creators[p] # None
              /\ \A p \in Positions : creators[p] # None =>
                    creators[p].slot \in Nat /\ creators[p].slot <= v.slot
            <3>1. \A p \in DOMAIN v.creators : p \in Positions /\ v.creators[p] \in Creators
                BY <1>6, UpdateFacts DEF IInv, VersionsOf, Creators
            <3>2. \A p \in DOMAIN v.creators : [who |-> v.creators[p], slot |-> v.slot] \in CreatorRow
                BY Zenon, <2>1, <3>1 DEF CreatorRow
            <3>3. \A p \in Positions : creators[p] # None => creators[p].slot \in Nat
                BY Zenon DEF IInv, TypeOK, Opt, CreatorRow
            <3> QED  BY Zenon, <1>6, <3>1, <3>2, <3>3, SentinelAssumption DEF MetadataOf
        <2>5. CASE u.slot > v.slot
            <3>1. asset_data' = data /\ collection' = linked /\ asset'["mint"].slotMeta = u.slot
                BY <2>1, <2>2, <2>5 DEF SaveCollection, NotOlder
            <3>2. /\ \A p \in DOMAIN u.creators : creators'[p] = [who |-> u.creators[p], slot |-> u.slot]
                  /\ \A p \in Positions : creators'[p] # None => creators'[p].slot <= u.slot
                <4>1. ASSUME NEW p \in DOMAIN u.creators
                      PROVE  creators'[p] = [who |-> u.creators[p], slot |-> u.slot]
                    <5>1. p \in Positions
                        BY Zenon, <1>1
                    <5>2. creators[p] = None \/ u.slot >= creators[p].slot
                        BY <2>1, <2>4, <2>5, <5>1
                    <5> QED  BY Zenon, <1>2, <5>1, <5>2
                <4>2. ASSUME NEW p \in Positions, creators'[p] # None
                      PROVE  creators'[p].slot <= u.slot
                    BY <1>0, <2>1, <2>4, <2>5, <4>2
                <4> QED  BY Zenon, <4>1, <4>2
            <3>3. /\ \A x \in handled' : x.kind = "metadata" => x.slot <= u.slot
                  /\ \A x \in Workers : At(x, "metadata", "attach")' => worker'[x].u.slot <= u.slot
                BY <2>1, <2>3, <2>5
            <3> QED  BY Zenon, <3>1, <3>2, <3>3, SameHistory DEF MetadataOf, Of
        <2>6. CASE u.slot <= v.slot
            <3>1. u.slot = v.slot => u = v
                BY Zenon, <1>6, UpdateFacts DEF IInv
            <3>2. asset_data' = asset_data /\ collection' = collection /\ asset'["mint"].slotMeta = v.slot
                BY <2>1, <2>2, <2>6, <3>1 DEF SaveCollection, NotOlder
            <3>3. \A p \in DOMAIN v.creators : creators'[p] = creators[p]
                <4> SUFFICES ASSUME NEW p \in DOMAIN v.creators PROVE creators'[p] = creators[p]
                    OBVIOUS
                <4>1. /\ p \in Positions /\ creators[p] # None
                      /\ creators[p] = [who |-> v.creators[p], slot |-> v.slot]
                    BY Zenon, <1>6, <2>4 DEF MetadataOf
                <4>2. CASE u.slot = v.slot
                    BY Zenon, <1>2, <3>1, <4>1, <4>2
                <4>3. CASE u.slot < v.slot
                    <5>1. creators[p].slot = v.slot
                        BY <4>1
                    <5>2. ~(creators[p] = None \/ u.slot >= creators[p].slot)
                        BY <2>1, <4>1, <4>3, <5>1
                    <5> QED  BY Zenon, <1>2, <4>1, <5>2
                <4> QED  BY <2>1, <2>6, <4>2, <4>3
            <3>4. \A p \in Positions : creators'[p] # None => creators'[p].slot <= v.slot
                BY Zenon, <1>0, <2>1, <2>4, <2>6
            <3>5. /\ \A x \in handled' : x.kind = "metadata" => x.slot <= v.slot
                  /\ \A x \in Workers : At(x, "metadata", "attach")' => worker'[x].u.slot <= v.slot
                BY Zenon, <2>3, <2>6
            <3> QED  BY Zenon, <1>6, <3>2, <3>3, <3>4, <3>5, SameHistory DEF MetadataOf, Of
        <2> QED  BY <2>1, <2>5, <2>6
    <1> QED  BY Zenon, <1>4, <1>5, <1>6 DEF IInv, MetadataSound

\* The transaction of a metadata account.  The handler of an NFT still has to name the asset
\* in the edition's row; any other returns.
LEMMA SaveMetadataKeeps ==
    ASSUME IInv, NEW w \in Workers, SaveMetadata(w)
    PROVE  IInv'
    <1> DEFINE u == worker[w].u
               row == asset["mint"]
               class == Class(u.standard, worker[w].token)
               type == OwnerType(u.standard, worker[w].token)
               new == upsert_assets_metadata_account_columns(row, class, type, u.slot)
               edition == [type |-> "MasterEditionV2", data |-> None, slot |-> u.slot, asset |-> FALSE]
    <1>1. /\ UNCHANGED <<history, tokens, token_accounts>>
          /\ worker[w] # None /\ u.kind = "metadata"
          /\ asset_data' = IF asset_data = None \/ u.slot > asset_data.slot
                           THEN [uri |-> u.uri, slot |-> u.slot] ELSE asset_data
          /\ asset' = [asset EXCEPT !["mint"] = new]
          /\ attachments' = IF attachments["edition"] # None THEN attachments
                            ELSE [attachments EXCEPT !["edition"] = edition]
          /\ SaveAuthority(u) /\ SaveCollection(u) /\ SaveCreators(u)
          /\ \/ u.standard \in {"nft", "pnft"} /\ Goto(w, "attach") /\ UNCHANGED requested
             \/ u.standard \notin {"nft", "pnft"} /\ ReturnInfo(w)
        BY Zenon DEF SaveMetadata, At
    <1>2. worker[w] \in Handler /\ u \in Updates
        BY Zenon, <1>1 DEF IInv, TypeOK, Opt, Handler
    <1>3. /\ u.slot \in Nat /\ u.uri \in Uris /\ u.standard \in Classes
          /\ u \in VersionsOf("metadata") /\ DOMAIN u.creators \subseteq Positions
        BY Zenon, <1>1, <1>2, UpdateFacts DEF IInv, VersionsOf
    <1>4. /\ worker' \in [Workers -> Opt(Handler)]
          /\ handled' = handled \/ (handled' = handled \cup {u} /\ ~IsNft(u))
          /\ \A x \in handled' : x \in handled \/ x.uri \in requested' \cup {Empty}
          /\ requested \subseteq requested' /\ requested' \subseteq Uris
          /\ \A x \in Workers : worker'[x] # None =>
                \/ worker'[x] = worker[x]
                \/ /\ x = w /\ worker'[x].pc = "attach" /\ worker'[x].u = u
                   /\ worker'[x].token = worker[x].token /\ worker'[x].account = worker[x].account
        <2>1. CASE Goto(w, "attach") /\ UNCHANGED requested
            <3>1. worker' \in [Workers -> Opt(Handler)] /\ handled' = handled
                BY Zenon, <1>1, <2>1, Going DEF IInv, Pcs
            <3>2. worker' = [worker EXCEPT ![w] = [worker[w] EXCEPT !.pc = "attach"]]
                BY Zenon, <2>1 DEF Goto
            <3> QED  BY Zenon, <1>2, <2>1, <3>1, <3>2 DEF IInv, TypeOK, Handler
        <2>2. CASE u.standard \notin {"nft", "pnft"} /\ ReturnInfo(w)
            <3>1. /\ worker' \in [Workers -> Opt(Handler)] /\ handled' = handled \cup {u}
                  /\ \A x \in Workers : worker'[x] # None => worker'[x] = worker[x]
                BY Zenon, <1>1, <2>2, Ending DEF IInv, ReturnInfo, Return
            <3>2. requested' = requested \cup ({u.uri} \ {Empty})
                BY Zenon, <2>2 DEF ReturnInfo
            <3> QED  BY Zenon, <1>3, <2>2, <3>1, <3>2 DEF IInv, TypeOK, IsNft
        <2> QED  BY Zenon, <1>1, <2>1, <2>2
    <1>5. /\ new \in AssetRow /\ new # None
          /\ new.slotMeta = IF row = None THEN u.slot
                            ELSE IF NotOlder(u.slot, row.slotMeta) THEN u.slot ELSE row.slotMeta
          /\ row # None => /\ new.slotTA = row.slotTA /\ new.owner = row.owner
                           /\ new.slotMint = row.slotMint /\ new.supply = row.supply
          /\ row = None => new.slotTA = None /\ new.slotMint = None
        <2>1. class \in Classes /\ type \in {"single", "token", "unknown"}
            BY Zenon, <1>2, <1>3, OwnerTypes DEF Handler
        <2>2. row \in Opt(AssetRow)
            BY Zenon DEF IInv, TypeOK
        <2> HIDE DEF class, type
        <2> QED  BY <1>3, <2>1, <2>2, MetadataColumns, SentinelAssumption
    <1> HIDE DEF new
    <1>6. /\ asset' \in [{"mint", "metadata"} -> Opt(AssetRow)] /\ asset'["mint"] = new
          /\ SameMint(row, asset'["mint"]) /\ SameOwner(row, asset'["mint"])
        BY Zenon, <1>1, <1>5 DEF IInv, TypeOK, Opt, SameMint, SameOwner
    <1>7. TypeOK'
        <2>1. asset_data' \in Opt(DataRow)
            BY Zenon, <1>1, <1>3 DEF IInv, TypeOK, Opt, DataRow
        <2>2. authority' \in Opt(AuthorityRow)
            BY Zenon, <1>1, <1>3 DEF IInv, TypeOK, Opt, AuthorityRow, SaveAuthority
        <2>3. collection' \in Opt(CollectionRow)
            BY Zenon, <1>1, <1>3 DEF IInv, TypeOK, Opt, CollectionRow, SaveCollection
        <2>4. creators' \in [Positions -> Opt(CreatorRow)]
            <3>1. \A p \in DOMAIN u.creators : u.creators[p] \in Creators
                BY <1>3 DEF Creators
            <3>2. \A p \in DOMAIN u.creators : [who |-> u.creators[p], slot |-> u.slot] \in CreatorRow
                BY Zenon, <1>3, <3>1 DEF CreatorRow
            <3> QED  BY Zenon, <1>1, <3>2 DEF IInv, TypeOK, Opt, SaveCreators
        <2>5. attachments' \in [{"edition", "inscription"} -> Opt(AttachmentRow)]
            <3>1. edition \in AttachmentRow
                BY Zenon, <1>3 DEF AttachmentRow, Opt
            <3> QED  BY Zenon, <1>1, <3>1 DEF IInv, TypeOK, Opt
        <2> QED  BY Zenon, <1>1, <1>2, <1>4, <1>6, <2>1, <2>2, <2>3, <2>4, <2>5, SameHistory DEF IInv, TypeOK
    <1>8. WorkersSound'
        <2>1. \A x \in Workers : worker'[x] # None => worker[x] # None
            BY Zenon, <1>1, <1>4
        <2> QED  BY Zenon, <1>1, <1>4, <2>1, WorkersKept DEF IInv, Ready
    <1>9. SupplySound'
        BY Zenon, <1>1, <1>4, <1>6, SupplyKept DEF IInv, At
    <1>10. OwnerSound'
        BY Zenon, <1>1, <1>4, <1>6, OwnerKept DEF IInv
    <1>11. MetadataSound'
        <2>1. /\ \A x \in handled' : x \in handled \/ x = u
              /\ \A x \in Workers : At(x, "metadata", "attach")' =>
                   \/ At(x, "metadata", "attach") /\ worker'[x].u = worker[x].u
                   \/ worker'[x].u = u
            BY Zenon, <1>4 DEF At
        <2> QED  BY Zenon, <1>1, <1>2, <1>3, <1>5, <1>6, <2>1, MetadataWritten
    <1>12. EditionSound'
        <2>1. CASE attachments["edition"] # None
            BY <1>1, <1>4, <2>1, SameHistory DEF IInv, EditionSound, Of, At
        <2>2. CASE attachments["edition"] = None
            <3>1. attachments'["edition"] = edition /\ edition # None
                <4>1. edition \in AttachmentRow
                    BY Zenon, <1>3 DEF AttachmentRow, Opt
                <4> QED  BY Zenon, <1>1, <2>2, <4>1, SentinelAssumption DEF IInv, TypeOK
            <3>2. edition.slot = u.slot /\ edition.data = None
                OBVIOUS
            <3>3. /\ \A x \in handled' : ~IsNft(x)
                  /\ HasEdition => \A x \in handled' : x.kind # "edition"
                BY Zenon, <1>1, <1>4, <2>2 DEF IInv, EditionSound, Of
            <3> QED  BY <1>1, <1>2, <3>1, <3>2, <3>3, SameHistory DEF EditionSound, Of
        <2> QED  BY Zenon, <2>1, <2>2
    <1>13. UriSound'
        BY Zenon, <1>1, <1>2, <1>4, SameHistory DEF IInv, UriSound, HasUri
    <1> QED  BY Zenon, <1>1, <1>7, <1>8, <1>9, <1>10, <1>11, <1>12, <1>13, TablesKept DEF IInv

\* The edition's row names the asset.
LEMMA AttachKeeps ==
    ASSUME IInv, NEW w \in Workers, Attach(w)
    PROVE  IInv'
    <1> DEFINE u == worker[w].u
               row == attachments["edition"]
               new == [row EXCEPT !.asset = TRUE]
    <1>1. /\ UNCHANGED <<history, tokens, token_accounts, asset, asset_data, authority, collection,
                         creators>>
          /\ At(w, "metadata", "attach") /\ worker[w] # None /\ u.kind = "metadata" /\ Return(w)
          /\ requested' = requested \cup ({u.uri} \ {Empty})
          /\ attachments' = [attachments EXCEPT !["edition"].asset = TRUE]
        BY Zenon DEF Attach, ReturnInfo, At
    <1>2. /\ worker' \in [Workers -> Opt(Handler)] /\ handled' = handled \cup {u}
          /\ \A x \in Workers : worker'[x] # None => worker'[x] = worker[x]
          /\ u \in Updates
        BY Zenon, <1>1, Ending DEF IInv, Return
    <1>3. u.uri \in Uris
        BY Zenon, <1>1, <1>2, UpdateFacts DEF IInv
    <1>4. row \in AttachmentRow /\ row # None
        BY Zenon, <1>1 DEF IInv, EditionSound, TypeOK, Opt
    <1>5. /\ new \in AttachmentRow /\ new.type = row.type /\ new.data = row.data
          /\ new.slot = row.slot /\ new.asset = TRUE
        BY Zenon, <1>4 DEF AttachmentRow
    <1>6. /\ attachments' \in [{"edition", "inscription"} -> Opt(AttachmentRow)]
          /\ attachments'["edition"] = new /\ new # None
        BY Zenon, <1>1, <1>4, <1>5, SentinelAssumption DEF IInv, TypeOK, Opt
    <1> HIDE DEF new
    <1>7. TypeOK'
        BY Zenon, <1>1, <1>2, <1>3, <1>6, SameHistory DEF IInv, TypeOK
    <1>8. WorkersSound'
        BY Zenon, <1>1, <1>2, WorkersKept DEF IInv
    <1>9. SupplySound' /\ OwnerSound'
        BY Zenon, <1>1, <1>2, SupplyKept, OwnerKept DEF IInv, At, SameMint, SameOwner
    <1>10. MetadataSound'
        BY Zenon, <1>1, <1>2, MetadataKept DEF IInv, At, SameMeta
    <1>11. EditionSound'
        <2>1. \A x \in Workers : At(x, "metadata", "attach")' => At(x, "metadata", "attach")
            BY Zenon, <1>2 DEF At
        <2>2. \E v \in Updates :
                  /\ attachments'["edition"].slot = v.slot
                  /\ \/ v.kind = "metadata" /\ attachments'["edition"].data = None
                     \/ /\ v.kind = "edition" /\ attachments'["edition"].type = v.type
                        /\ attachments'["edition"].data = v.slot
            BY Zenon, <1>4, <1>5, <1>6 DEF IInv, EditionSound
        <2>3. HasEdition => \A x \in handled' : x.kind = "edition" =>
                  attachments'["edition"].data # None /\ x.slot <= attachments'["edition"].slot
            BY Zenon, <1>1, <1>2, <1>5, <1>6 DEF IInv, EditionSound, Of
        <2>4. attachments'["edition"] # None /\ attachments'["edition"].asset
            BY Zenon, <1>5, <1>6
        <2> QED  BY <1>1, <2>1, <2>2, <2>3, <2>4, SameHistory DEF EditionSound, Of
    <1>12. UriSound'
        BY Zenon, <1>1, <1>2, UriKept DEF IInv
    <1> QED  BY Zenon, <1>1, <1>7, <1>8, <1>9, <1>10, <1>11, <1>12, TablesKept DEF IInv

\* An empty metadata account: the mint's row is another one.
LEMMA BurnKeeps ==
    ASSUME IInv, NEW w \in Workers, burn_v1_asset(w)
    PROVE  IInv'
    <1> DEFINE u == worker[w].u
               row == asset["metadata"]
    <1>1. /\ UNCHANGED <<history, tokens, token_accounts, asset_data, authority, collection,
                         creators, attachments, requested>>
          /\ worker[w] # None /\ u.kind = "empty" /\ Return(w)
          /\ \/ asset' = [asset EXCEPT !["metadata"] = [NoAsset EXCEPT !.slot = u.slot, !.burnt = TRUE]]
             \/ row # None /\ asset' = [asset EXCEPT !["metadata"].slot = u.slot, !["metadata"].burnt = TRUE]
             \/ asset' = asset
        BY Zenon DEF burn_v1_asset, At
    <1>2. /\ worker' \in [Workers -> Opt(Handler)] /\ handled' = handled \cup {u}
          /\ \A x \in Workers : worker'[x] # None => worker'[x] = worker[x]
          /\ u \in Updates
        BY Zenon, <1>1, Ending DEF IInv, Return
    <1>3. u.slot \in Nat
        BY Zenon, <1>2, UpdateFacts DEF IInv
    <1>4. asset' \in [{"mint", "metadata"} -> Opt(AssetRow)] /\ asset'["mint"] = asset["mint"]
        <2>1. [NoAsset EXCEPT !.slot = u.slot, !.burnt = TRUE] \in AssetRow
            BY Zenon, <1>3 DEF NoAsset, AssetRow, Opt, Classes
        <2>2. row # None => [row EXCEPT !.slot = u.slot, !.burnt = TRUE] \in AssetRow
            <3>1. row # None => row \in AssetRow
                BY Zenon DEF IInv, TypeOK, Opt
            <3> QED  BY Zenon, <1>3, <3>1 DEF AssetRow, Opt
        <2>3. CASE asset' = [asset EXCEPT !["metadata"] = [NoAsset EXCEPT !.slot = u.slot, !.burnt = TRUE]]
            BY Zenon, <2>1, <2>3 DEF IInv, TypeOK, Opt
        <2>4. CASE /\ row # None
                   /\ asset' = [asset EXCEPT !["metadata"].slot = u.slot, !["metadata"].burnt = TRUE]
            <3>1. asset' = [asset EXCEPT !["metadata"] = [row EXCEPT !.slot = u.slot, !.burnt = TRUE]]
                BY Zenon, <2>4 DEF IInv, TypeOK, Opt, AssetRow
            <3> QED  BY ZenonT(40), <2>2, <2>4, <3>1 DEF IInv, TypeOK, Opt
        <2> QED  BY Zenon, <1>1, <2>3, <2>4 DEF IInv, TypeOK
    <1>5. TypeOK'
        BY Zenon, <1>1, <1>2, <1>4, SameHistory DEF IInv, TypeOK
    <1>6. WorkersSound'
        BY Zenon, <1>1, <1>2, WorkersKept DEF IInv
    <1>7. SupplySound' /\ OwnerSound'
        BY Zenon, <1>1, <1>2, <1>4, SupplyKept, OwnerKept DEF IInv, At, SameMint, SameOwner
    <1>8. MetadataSound' /\ EditionSound'
        BY Zenon, <1>1, <1>2, <1>4, MetadataKept, EditionKept DEF IInv, At, SameMeta, IsNft
    <1> QED  BY Zenon, <1>1, <1>2, <1>5, <1>6, <1>7, <1>8, TablesKept, UriKept DEF IInv, HasUri

\* The edition's row becomes this version, unless it is a later one.
LEMMA SaveEditionKeeps ==
    ASSUME IInv, NEW w \in Workers, SaveEdition(w)
    PROVE  IInv'
    <1> DEFINE u == worker[w].u
               row == attachments["edition"]
               new == [type |-> u.type, data |-> u.slot, slot |-> u.slot,
                       asset |-> row # None /\ row.asset]
    <1>1. /\ UNCHANGED <<history, tokens, token_accounts, asset, asset_data, authority, collection,
                         creators, requested>>
          /\ worker[w] # None /\ u.kind = "edition" /\ Return(w)
          /\ attachments' = IF row # None /\ u.slot < row.slot THEN attachments
                            ELSE [attachments EXCEPT !["edition"] = new]
        BY Zenon DEF SaveEdition, At
    <1>2. /\ worker' \in [Workers -> Opt(Handler)] /\ handled' = handled \cup {u}
          /\ \A x \in Workers : worker'[x] # None => worker'[x] = worker[x]
          /\ u \in Updates
        BY Zenon, <1>1, Ending DEF IInv, Return
    <1>3. u.slot \in Nat /\ u \in VersionsOf("edition") /\ u.slot # None
        BY <1>1, <1>2, UpdateFacts, SentinelAssumption DEF IInv, VersionsOf
    <1>4. new \in AttachmentRow /\ new # None
        <2>1. new \in AttachmentRow
            BY Zenon, <1>3 DEF AttachmentRow, Opt
        <2> QED  BY Zenon, <2>1, SentinelAssumption
    <1>5. attachments' \in [{"edition", "inscription"} -> Opt(AttachmentRow)]
        BY Zenon, <1>1, <1>4 DEF IInv, TypeOK, Opt
    <1>6. TypeOK'
        BY Zenon, <1>1, <1>2, <1>5, SameHistory DEF IInv, TypeOK
    <1>7. WorkersSound'
        BY Zenon, <1>1, <1>2, WorkersKept DEF IInv
    <1>8. SupplySound' /\ OwnerSound'
        BY Zenon, <1>1, <1>2, SupplyKept, OwnerKept DEF IInv, At, SameMint, SameOwner
    <1>9. MetadataSound'
        BY Zenon, <1>1, <1>2, MetadataKept DEF IInv, At, SameMeta
    <1>10. \A x \in Updates : x.slot \in Nat
        BY Zenon, UpdateFacts DEF IInv
    <1>11. EditionSound'
        <2>1. CASE row # None /\ u.slot < row.slot
            <3>1. attachments'["edition"] = row
                BY Zenon, <1>1, <2>1
            <3>2. PICK v \in Updates :
                    /\ row.slot = v.slot
                    /\ \/ v.kind = "metadata" /\ row.data = None
                       \/ v.kind = "edition" /\ row.type = v.type /\ row.data = v.slot
                BY Zenon, <2>1 DEF IInv, EditionSound
            <3>3. HasEdition => row.data # None
                BY <1>1, <1>2, <1>3, <1>10, <2>1, <3>2, SentinelAssumption DEF HasEdition
            <3>4. u.slot <= row.slot
                BY <1>3, <1>10, <2>1, <3>2
            <3> QED  BY <1>1, <1>2, <2>1, <3>1, <3>3, <3>4, SameHistory
                     DEF IInv, EditionSound, Of, At, IsNft
        <2>2. CASE ~(row # None /\ u.slot < row.slot)
            <3>1. attachments'["edition"] = new
                BY Zenon, <1>1, <2>2 DEF IInv, TypeOK
            <3>2. /\ new.type = u.type /\ new.data = u.slot /\ new.slot = u.slot
                  /\ new.asset = (row # None /\ row.asset)
                OBVIOUS
            <3> HIDE DEF new
            <3>3. row # None => row.slot \in Nat /\ row.slot <= u.slot
                BY <1>3, <2>2 DEF IInv, TypeOK, Opt, AttachmentRow
            <3>4. HasEdition => \A x \in handled' : x.kind = "edition" => x.slot <= u.slot
                <4> SUFFICES ASSUME HasEdition, NEW x \in handled', x.kind = "edition"
                             PROVE  x.slot <= u.slot
                    OBVIOUS
                <4>1. CASE x = u
                    BY <1>3, <4>1
                <4>2. CASE x \in handled
                    <5>1. row # None /\ x.slot <= row.slot /\ x.slot \in Nat
                        BY Zenon, <4>2, UpdateFacts DEF IInv, EditionSound, Of, TypeOK
                    <5> QED  BY <1>3, <3>3, <5>1
                <4> QED  BY Zenon, <1>2, <4>1, <4>2
            <3>5. \A x \in handled' : IsNft(x) => new.asset
                BY Zenon, <1>1, <1>2, <3>2 DEF IInv, EditionSound, IsNft
            <3> QED  BY <1>1, <1>2, <1>3, <1>4, <3>1, <3>2, <3>4, <3>5, SameHistory DEF EditionSound, Of
        <2> QED  BY Zenon, <2>1, <2>2
    <1> QED  BY Zenon, <1>1, <1>2, <1>6, <1>7, <1>8, <1>9, <1>11, TablesKept, UriKept DEF IInv, HasUri

\* An inscription is one attachment.
LEMMA InscriptionKeeps ==
    ASSUME IInv, NEW w \in Workers, handle_token_inscription_program_update(w)
    PROVE  IInv'
    <1> DEFINE u == worker[w].u
               new == [type |-> "TokenInscription", data |-> u.slot, slot |-> u.slot, asset |-> TRUE]
    <1>1. /\ UNCHANGED <<history, tokens, token_accounts, asset, asset_data, authority, collection,
                         creators, requested>>
          /\ worker[w] # None /\ u.kind = "inscription" /\ Return(w)
          /\ \/ attachments' = attachments
             \/ attachments' = [attachments EXCEPT !["inscription"] = new]
        BY Zenon DEF handle_token_inscription_program_update, At
    <1>2. /\ worker' \in [Workers -> Opt(Handler)] /\ handled' = handled \cup {u}
          /\ \A x \in Workers : worker'[x] # None => worker'[x] = worker[x]
          /\ u \in Updates
        BY Zenon, <1>1, Ending DEF IInv, Return
    <1>3. new \in AttachmentRow
        BY Zenon, <1>2, UpdateFacts DEF IInv, AttachmentRow, Opt
    <1>4. /\ attachments' \in [{"edition", "inscription"} -> Opt(AttachmentRow)]
          /\ attachments'["edition"] = attachments["edition"]
        BY Zenon, <1>1, <1>3 DEF IInv, TypeOK, Opt
    <1>5. TypeOK'
        BY Zenon, <1>1, <1>2, <1>4, SameHistory DEF IInv, TypeOK
    <1>6. WorkersSound'
        BY Zenon, <1>1, <1>2, WorkersKept DEF IInv
    <1>7. SupplySound' /\ OwnerSound'
        BY Zenon, <1>1, <1>2, SupplyKept, OwnerKept DEF IInv, At, SameMint, SameOwner
    <1>8. MetadataSound' /\ EditionSound'
        BY Zenon, <1>1, <1>2, <1>4, MetadataKept, EditionKept DEF IInv, At, SameMeta, IsNft
    <1> QED  BY Zenon, <1>1, <1>2, <1>5, <1>6, <1>7, <1>8, TablesKept, UriKept DEF IInv, HasUri

-----------------------------------------------------------------------------
(* The close instruction: no known NFT has one. *)

\* Nothing but the program counter of the handler changes, or the handler ends.
LEMMA CloseSteps ==
    ASSUME IInv, UNCHANGED <<history, asset_data, collection, creators, attachments, requested>>,
           NEW w \in Workers, worker[w] # None, worker[w].u.kind = "close",
           NEW pc \in Pcs, Goto(w, pc) \/ Return(w),
           SameMint(asset["mint"], asset'["mint"]), SameOwner(asset["mint"], asset'["mint"]),
           SameMeta(asset["mint"], asset'["mint"])
    PROVE  /\ worker' \in [Workers -> Opt(Handler)] /\ handled' \subseteq Updates \cup Indexed
           /\ WorkersSound' /\ SupplySound' /\ OwnerSound' /\ MetadataSound' /\ EditionSound'
           /\ UriSound'
    <1>1. worker[w].u \in Updates /\ ~KnownNft
        BY Zenon DEF IInv, TypeOK, Opt, Handler, KnownNft
    <1>2. /\ worker' \in [Workers -> Opt(Handler)]
          /\ handled \subseteq handled' /\ handled' \subseteq handled \cup {worker[w].u}
          /\ \A x \in Workers : worker'[x] # None =>
                /\ worker[x] # None /\ worker'[x].u = worker[x].u
                /\ worker'[x].token = worker[x].token /\ worker'[x].account = worker[x].account
                /\ worker'[x] = worker[x] \/ worker'[x].u.kind = "close"
        <2>1. CASE Goto(w, pc)
            <3>1. /\ worker' \in [Workers -> Opt(Handler)] /\ handled' = handled
                  /\ GoneOn(w, pc)
                BY Zenon, <2>1, Going DEF IInv
            <3>2. \A x \in Workers : x # w => worker'[x] = worker[x]
                BY Zenon, <2>1 DEF Goto, IInv, TypeOK
            <3> QED  BY Zenon, <3>1, <3>2 DEF GoneOn
        <2>2. CASE Return(w)
            BY Zenon, <2>2, Ending DEF IInv, Return
        <2> QED  BY Zenon, <2>1, <2>2
    <1>3. handled' \subseteq Updates \cup Indexed
        BY Zenon, <1>1, <1>2 DEF IInv, TypeOK
    <1>4. WorkersSound'
        BY Zenon, <1>2, WorkersKept DEF IInv, Ready
    <1>5. SupplySound' /\ OwnerSound'
        BY Zenon, <1>1, <1>2, SupplyKept, OwnerKept DEF IInv, At
    <1>6. MetadataSound' /\ EditionSound'
        BY Zenon, <1>2, MetadataKept, EditionKept DEF IInv, At, IsNft
    <1>7. UriSound'
        BY Zenon, <1>2, UriKept DEF IInv, HasUri
    <1> QED  BY Zenon, <1>2, <1>3, <1>4, <1>5, <1>6, <1>7

\* A close instruction first looks for a mint with the closed key.
LEMMA CloseFindKeeps ==
    ASSUME IInv, NEW w \in Workers, CloseFind(w)
    PROVE  IInv'
    <1> DEFINE pc == IF worker[w].u.key = "mint" /\ tokens # None THEN "both" ELSE "account"
    <1>1. /\ UNCHANGED <<history, tokens, token_accounts, asset, asset_data, authority, collection,
                         creators, attachments, requested>>
          /\ worker[w] # None /\ worker[w].u.kind = "close" /\ Goto(w, pc) /\ pc \in Pcs
        BY Zenon DEF CloseFind, At, Pcs
    <1> HIDE DEF pc
    <1>2. /\ worker' \in [Workers -> Opt(Handler)] /\ handled' \subseteq Updates \cup Indexed
          /\ WorkersSound' /\ SupplySound' /\ OwnerSound' /\ MetadataSound' /\ EditionSound'
          /\ UriSound'
        BY Zenon, <1>1, CloseSteps DEF SameMint, SameOwner, SameMeta
    <1>3. TypeOK'
        BY Zenon, <1>1, <1>2, SameHistory DEF IInv, TypeOK
    <1> QED  BY Zenon, <1>1, <1>2, <1>3, TablesKept DEF IInv

\* A closed mint: its tokens row goes.
LEMMA DeleteTokenKeeps ==
    ASSUME IInv, NEW w \in Workers, DeleteToken(w)
    PROVE  IInv'
    <1>1. /\ UNCHANGED <<history, token_accounts, asset, asset_data, authority, collection,
                         creators, attachments, requested>>
          /\ tokens' \in {None, tokens}
          /\ worker[w] # None /\ worker[w].u.kind = "close" /\ (Goto(w, "burn") \/ Return(w))
        BY Zenon DEF DeleteToken, At
    <1>2. /\ worker' \in [Workers -> Opt(Handler)] /\ handled' \subseteq Updates \cup Indexed
          /\ WorkersSound' /\ SupplySound' /\ OwnerSound' /\ MetadataSound' /\ EditionSound'
          /\ UriSound'
        BY Zenon, <1>1, CloseSteps DEF Pcs, SameMint, SameOwner, SameMeta
    <1>3. TypeOK'
        BY Zenon, <1>1, <1>2, SameHistory DEF IInv, TypeOK, Opt
    <1>4. TablesSound'
        BY Zenon, <1>1, SameHistory DEF IInv, TablesSound, IsMint, IsAccount
    <1> QED  BY Zenon, <1>2, <1>3, <1>4 DEF IInv

\* A closed mint: its asset is marked burnt, in its own statement.
LEMMA SetBurntKeeps ==
    ASSUME IInv, NEW w \in Workers, SetBurnt(w)
    PROVE  IInv'
    <1> DEFINE row == asset["mint"]
               new == [row EXCEPT !.burnt = TRUE]
    <1>1. /\ UNCHANGED <<history, tokens, token_accounts, asset_data, authority, collection,
                         creators, attachments, requested>>
          /\ asset' = asset \/ (row # None /\ asset' = [asset EXCEPT !["mint"].burnt = TRUE])
          /\ worker[w] # None /\ worker[w].u.kind = "close" /\ (Goto(w, "delete") \/ Return(w))
        BY Zenon DEF SetBurnt, At
    <1>2. /\ asset' \in [{"mint", "metadata"} -> Opt(AssetRow)]
          /\ SameMint(row, asset'["mint"]) /\ SameOwner(row, asset'["mint"])
          /\ SameMeta(row, asset'["mint"])
        <2>1. CASE asset' = asset
            BY Zenon, <2>1 DEF IInv, TypeOK, SameMint, SameOwner, SameMeta
        <2>2. CASE row # None /\ asset' = [asset EXCEPT !["mint"].burnt = TRUE]
            <3>1. row \in AssetRow
                BY Zenon, <2>2 DEF IInv, TypeOK, Opt
            <3>2. /\ new \in AssetRow /\ new.slotMint = row.slotMint /\ new.supply = row.supply
                  /\ new.slotTA = row.slotTA /\ new.owner = row.owner
                  /\ new.slotMeta = row.slotMeta
                BY Zenon, <3>1 DEF AssetRow
            <3>3. asset' = [asset EXCEPT !["mint"] = new]
                BY Zenon, <2>2 DEF IInv, TypeOK
            <3> HIDE DEF new
            <3>4. asset'["mint"] = new /\ new # None
                BY Zenon, <3>2, <3>3, SentinelAssumption DEF IInv, TypeOK
            <3> QED  BY ZenonT(40), <2>2, <3>2, <3>3, <3>4
                    DEF IInv, TypeOK, Opt, SameMint, SameOwner, SameMeta
        <2> QED  BY Zenon, <1>1, <2>1, <2>2
    <1>3. /\ worker' \in [Workers -> Opt(Handler)] /\ handled' \subseteq Updates \cup Indexed
          /\ WorkersSound' /\ SupplySound' /\ OwnerSound' /\ MetadataSound' /\ EditionSound'
          /\ UriSound'
        BY Zenon, <1>1, <1>2, CloseSteps DEF Pcs
    <1>4. TypeOK'
        BY Zenon, <1>1, <1>2, <1>3, SameHistory DEF IInv, TypeOK
    <1> QED  BY Zenon, <1>1, <1>3, <1>4, TablesKept DEF IInv

\* A closed account: its token_accounts row goes.
LEMMA DeleteAccountKeeps ==
    ASSUME IInv, NEW w \in Workers, DeleteAccount(w)
    PROVE  IInv'
    <1>1. /\ UNCHANGED <<history, tokens, asset, asset_data, authority, collection, creators,
                         attachments, requested>>
          /\ \/ UNCHANGED token_accounts
             \/ \E k \in Accounts : token_accounts' = [token_accounts EXCEPT ![k] = None]
          /\ worker[w] # None /\ worker[w].u.kind = "close" /\ Return(w)
        BY Zenon DEF DeleteAccount, At
    <1>2. /\ worker' \in [Workers -> Opt(Handler)] /\ handled' \subseteq Updates \cup Indexed
          /\ WorkersSound' /\ SupplySound' /\ OwnerSound' /\ MetadataSound' /\ EditionSound'
          /\ UriSound'
        BY Zenon, <1>1, CloseSteps DEF Pcs, SameMint, SameOwner, SameMeta
    <1>3. /\ token_accounts' \in [Accounts -> Opt(AccountRow)]
          /\ \A a \in Accounts : token_accounts'[a] # None => token_accounts'[a] = token_accounts[a]
        BY Zenon, <1>1 DEF IInv, TypeOK, Opt
    <1>4. TypeOK'
        BY Zenon, <1>1, <1>2, <1>3, SameHistory DEF IInv, TypeOK
    <1>5. TablesSound'
        BY <1>1, <1>3, SameHistory DEF IInv, TablesSound, IsMint, IsAccount
    <1> QED  BY Zenon, <1>2, <1>4, <1>5 DEF IInv

-----------------------------------------------------------------------------
\* The mint that was indexed before is the only version handled.
LEMMA InitIInv == Init => IInv
    <1> SUFFICES ASSUME Init PROVE IInv
        OBVIOUS
    <1> DEFINE mint == CHOOSE u \in Indexed : u.kind = "mint"
               row == upsert_assets_mint_account_columns(None, mint.supply, mint.slot)
    <1>1. /\ history \in Histories /\ asset_data = None /\ authority = None /\ collection = None
          /\ token_accounts = [a \in Accounts |-> None] /\ creators = [p \in Positions |-> None]
          /\ attachments = [k \in {"edition", "inscription"} |-> None]
          /\ requested = {} /\ handled = Indexed /\ worker = [w \in Workers |-> None]
          /\ tokens = IF Indexed = {} THEN None ELSE [supply |-> mint.supply, slot |-> mint.slot]
          /\ asset = [k \in {"mint", "metadata"} |->
                        IF k = "metadata" \/ Indexed = {} THEN None ELSE row]
        BY Zenon DEF Init
    <1>2. \A u, v \in Indexed : u.kind = "mint" /\ u.uri = None /\ u = v
        BY Zenon, <1>1, HistoryAssumption DEF Indexed
    <1>3. \A u \in Indexed : u = mint /\ u.slot \in Nat /\ u.supply \in Nat
        <2>1. \A u \in Indexed : u \in Versions
            BY Zenon, <1>1 DEF Indexed, Versions
        <2>2. \A u \in Indexed : u \in VersionsOf("mint")
            BY Zenon, <1>2, <2>1 DEF VersionsOf
        <2> QED  BY Zenon, <1>2, <2>1, <2>2, HistoryAssumption
    <1>4. Indexed # {} => mint \in Indexed
        BY Zenon, <1>3
    <1>5. Indexed # {} =>
              /\ row \in AssetRow /\ row # None /\ row.supply = mint.supply /\ row.slotMint = mint.slot
              /\ row.slotTA = None /\ row.slotMeta = None
        <2>1. Indexed # {} => mint.supply \in Nat /\ mint.slot \in Nat
            BY Zenon, <1>3, <1>4
        <2> HIDE DEF mint
        <2>2. None \in Opt(AssetRow)
            BY Zenon DEF Opt
        <2> QED  BY <2>1, <2>2, MintColumns, SentinelAssumption
    <1>6. Indexed # {} => tokens \in TokenRow /\ tokens.supply = mint.supply /\ tokens.slot = mint.slot
        BY Zenon, <1>1, <1>3, <1>4 DEF TokenRow
    <1> HIDE DEF row, mint
    <1>7. TypeOK
        BY Zenon, <1>1, <1>5, <1>6 DEF TypeOK, Opt
    <1>8. TablesSound /\ WorkersSound
        BY Zenon, <1>1, <1>2, <1>4, <1>6 DEF TablesSound, WorkersSound, IsMint
    <1>9. asset["mint"] = IF Indexed = {} THEN None ELSE row
        BY Zenon, <1>1
    <1>10. SupplySound
        <2>1. Indexed # {} => mint.slot # None
            BY Zenon, <1>3, <1>4, SentinelAssumption
        <2> QED  BY <1>1, <1>2, <1>3, <1>4, <1>5, <1>9, <2>1 DEF SupplySound, MintCopied, Of, At
    <1>11. OwnerSound
        <2>1. Indexed # {} => tokens # None
            BY Zenon, <1>6, SentinelAssumption
        <2>2. Of("account") = {}
            BY Zenon, <1>1, <1>2 DEF Of
        <2>3. ~(asset["mint"] # None /\ asset["mint"].slotTA # None)
            BY Zenon, <1>5, <1>9
        <2> QED  BY Zenon, <2>1, <2>2, <2>3 DEF OwnerSound, KnownNft
    <1>12. MetadataSound
        BY Zenon, <1>1, <1>2, <1>5, <1>9 DEF MetadataSound, NoMetadata, Of, At
    <1>13. EditionSound /\ UriSound
        BY Zenon, <1>1, <1>2 DEF EditionSound, UriSound, Of, At, IsNft, HasUri
    <1> QED  BY Zenon, <1>7, <1>8, <1>10, <1>11, <1>12, <1>13 DEF IInv

\* Every step keeps the invariant.
LEMMA NextIInv == IInv /\ [Next]_vars => IInv'
    <1> SUFFICES ASSUME IInv, [Next]_vars PROVE IInv'
        OBVIOUS
    <1>1. CASE UNCHANGED vars
        <2>1. UNCHANGED <<history, tokens, token_accounts, asset, asset_data, authority, collection,
                          creators, attachments, requested, worker, handled>>
            BY Zenon, <1>1 DEF vars
        <2>2. TypeOK'
            BY Zenon, <2>1, SameHistory DEF IInv, TypeOK
        <2>3. WorkersSound'
            BY Zenon, <2>1, SameHistory DEF IInv, WorkersSound, IsMint, IsAccount
        <2>4. SupplySound' /\ OwnerSound'
            BY Zenon, <2>1, SupplyKept, OwnerKept DEF IInv, At, SameMint, SameOwner
        <2>5. MetadataSound' /\ EditionSound'
            BY Zenon, <2>1, MetadataKept, EditionKept DEF IInv, At, SameMeta
        <2> QED  BY Zenon, <2>1, <2>2, <2>3, <2>4, <2>5, TablesKept, UriKept DEF IInv
    <1>2. ASSUME NEW w \in Workers, NEW u \in Updates, Begin(w, u) PROVE IInv'
        BY Zenon, <1>2, BeginKeeps
    <1>3. ASSUME NEW w \in Workers, Fail(w) PROVE IInv'
        BY Zenon, <1>3, FailKeeps
    <1>4. ASSUME NEW w \in Workers, Step(w) PROVE IInv'
        BY Zenon, <1>4, UpsertTokenAccountKeeps, FindTokenKeeps, UpsertOwnerKeeps, UpsertTokenKeeps,
            UpsertMintKeeps, UpsertExtensionDataKeeps, UpsertExtensionSlotKeeps, FindMintKeeps,
            CopyMintKeeps, FindAccountKeeps, CopyAccountKeeps, SaveMetadataKeeps, AttachKeeps,
            BurnKeeps, SaveEditionKeeps, InscriptionKeeps, CloseFindKeeps, DeleteTokenKeeps,
            SetBurntKeeps, DeleteAccountKeeps DEF Step
    <1> QED  BY Zenon, <1>1, <1>2, <1>3, <1>4 DEF Next

\* Between any two statements of any handlers the rows are of their types, and each is at least
\* as new as what the handlers that passed its write have brought.
THEOREM Invariance == Spec => []IInv
    BY InitIInv, NextIInv, PTL DEF Spec

\* Every handler of token, token_extensions, token_metadata and token_inscription leaves rows
\* of the declared types, whatever order their statements come in.
THEOREM TypeCorrect == Spec => []TypeOK
    BY Invariance, PTL DEF IInv

\* The rows a metadata account is spread over (save_v1_asset) are of one version, not older
\* than any handled.
THEOREM MetadataStaysNewest == Spec => []MetadataIsNewest
    <1>1. IInv => MetadataIsNewest
        BY Zenon DEF IInv, MetadataSound, NoMetadata, MetadataOf, PlainMint, MetadataIsNewest
    <1> QED  BY <1>1, Invariance, PTL

\* The owner of a known NFT (handle_token_program_account, index_token_account_data) is that
\* of a version not older than any handled.
THEOREM OwnerStaysNewest == Spec => []OwnerIsNewest
    <1>1. IInv => OwnerIsNewest
        <2> SUFFICES ASSUME IInv, KnownNft, Of("account") # {} PROVE
                \E v \in Updates :
                    /\ v.kind = "account" /\ \A u \in Of("account") : u.slot <= v.slot
                    /\ asset["mint"] # None /\ asset["mint"].slotTA = v.slot
                    /\ asset["mint"].owner = v.owner
            BY Zenon DEF OwnerIsNewest
        <2>1. \A u \in Of("account") : OwnerCopied(u)
            BY Zenon DEF IInv, OwnerSound
        <2> QED  BY Zenon, <2>1 DEF IInv, OwnerSound, OwnerCopied
    <1> QED  BY <1>1, Invariance, PTL

\* The supply (upsert_assets_mint_account_columns) is that of a version of the mint not older
\* than any handled.
THEOREM SupplyStaysNewest == Spec => []SupplyIsNewest
    <1>1. IInv => SupplyIsNewest
        BY Zenon DEF IInv, SupplySound, MintCopied, SupplyIsNewest
    <1> QED  BY <1>1, Invariance, PTL

\* When every update is handled, the uri of the asset was handed to the downloader, and the
\* edition's row holds the newest version of the edition account and names the asset.
THEOREM SettledAndComplete == Spec => []SettledIsComplete
    <1>1. IInv => SettledIsComplete
        <2> SUFFICES ASSUME IInv, Settled
                     PROVE  /\ asset_data # None => asset_data.uri \in requested \cup {Empty}
                            /\ HasEdition /\ Of("edition") # {} =>
                                \E v \in Updates :
                                    /\ v.kind = "edition" /\ \A u \in Of("edition") : u.slot <= v.slot
                                    /\ attachments["edition"] =
                                        [type |-> v.type, data |-> v.slot, slot |-> v.slot, asset |-> TRUE]
            BY Zenon DEF SettledIsComplete
        <2>1. asset_data # None => asset_data.uri \in requested \cup {Empty}
            BY Zenon DEF IInv, UriSound, Settled
        <2>2. ASSUME HasEdition, Of("edition") # {}
              PROVE  \E v \in Updates :
                        /\ v.kind = "edition" /\ \A u \in Of("edition") : u.slot <= v.slot
                        /\ attachments["edition"] =
                              [type |-> v.type, data |-> v.slot, slot |-> v.slot, asset |-> TRUE]
            <3> DEFINE row == attachments["edition"]
            <3>1. /\ row # None /\ row.data # None /\ row.asset
                  /\ \A u \in Of("edition") : u.slot <= row.slot
                BY Zenon, <2>2 DEF IInv, EditionSound, HasEdition, Settled, IsNft
            <3>2. PICK v \in Updates :
                      row.slot = v.slot /\ v.kind = "edition" /\ row.type = v.type /\ row.data = v.slot
                BY Zenon, <3>1 DEF IInv, EditionSound
            <3>3. row \in AttachmentRow /\ row.asset = TRUE
                BY Zenon, <3>1 DEF IInv, TypeOK, Opt, AttachmentRow
            <3>4. row = [type |-> v.type, data |-> v.slot, slot |-> v.slot, asset |-> TRUE]
                BY Zenon, <3>2, <3>3 DEF AttachmentRow
            <3> QED  BY Zenon, <3>1, <3>2, <3>4
        <2> QED  BY Zenon, <2>1, <2>2
    <1> QED  BY <1>1, Invariance, PTL
=============================================================================
